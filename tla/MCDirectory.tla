----------------------------- MODULE MCDirectory -----------------------------
(***************************************************************************)
(* Directory on a small instance: two ids share an address.                *)
(***************************************************************************)
EXTENDS Directory, TLC

CONSTANTS ann1, ann2, ben, annMail, benMail

TheAddress == [i \in Id |-> IF i = ben THEN benMail ELSE annMail]

Symmetric == Permutations(Request)
=============================================================================
