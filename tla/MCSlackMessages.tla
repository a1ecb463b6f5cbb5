-------------------------- MODULE MCSlackMessages --------------------------
(***************************************************************************)
(* SlackMessages on small instances: a channel in a named workspace and a  *)
(* direct message in the default one.                                      *)
(***************************************************************************)
EXTENDS SlackMessages, TLC

CONSTANTS channel, acme

TheIdentity == [r \in Route |-> IF r = channel THEN acme ELSE NIL]

Symmetric == Permutations(Updater) \union Permutations(User)
=============================================================================
