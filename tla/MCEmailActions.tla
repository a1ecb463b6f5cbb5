--------------------------- MODULE MCEmailActions ---------------------------
(***************************************************************************)
(* EmailActions on small instances: one address through a named sender     *)
(* identity, the others through the default.                               *)
(***************************************************************************)
EXTENDS EmailActions, TLC

CONSTANTS ann, support, yes

\* A selection of one: an acknowledgement.
Acknowledge == [inputs |-> 1, kind |-> "single_select", options |-> {yes}]

TheIdentity == [r \in Route |-> IF r = ann THEN support ELSE NONE]

Symmetric == Permutations(Browser)
=============================================================================
