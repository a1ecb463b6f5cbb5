--------------------------- MODULE MCTaskCreation --------------------------
(***************************************************************************)
(* TaskCreation on small instances.                                        *)
(***************************************************************************)
EXTENDS TaskCreation, TLC

\* Callers are interchangeable; ids are not, FreshId takes a definite one.
Symmetric == Permutations(Caller)
=============================================================================
