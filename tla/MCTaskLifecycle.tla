-------------------------- MODULE MCTaskLifecycle --------------------------
(***************************************************************************)
(* TaskLifecycle on small instances.                                       *)
(***************************************************************************)
EXTENDS TaskLifecycle, TLC

\* Requests and users are interchangeable.
Symmetric == Permutations(Request) \union Permutations(User)
=============================================================================
