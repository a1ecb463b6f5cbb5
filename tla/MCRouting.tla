----------------------------- MODULE MCRouting -----------------------------
(***************************************************************************)
(* Routing on a small instance: two reviewers in one pool, of whom the     *)
(* handle names the one, the other, or nobody.                             *)
(***************************************************************************)
EXTENDS Routing, TLC

CONSTANTS pool, handle, c1, c2

NoAsk == [filter |-> NONE, address |-> NONE, handle |-> NONE, contested |-> FALSE]

MCAsk == {[NoAsk EXCEPT !.filter = pool],
          [NoAsk EXCEPT !.filter = pool, !.contested = TRUE],
          [NoAsk EXCEPT !.handle = handle],
          [NoAsk EXCEPT !.address = 1]}

MCMatch == [f \in {pool} |-> {1, 2}]

Slots == {c1, c2}

Symmetric == Permutations(Slots)
=============================================================================
