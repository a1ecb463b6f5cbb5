---------------------------- MODULE MCDevServer ----------------------------
(***************************************************************************)
(* DevServer on a small instance: three runs, of which two share a         *)
(* directory, and an agent of each SDK.                                    *)
(***************************************************************************)
EXTENDS DevServer, TLC

CONSTANTS s1, s2, s3, here, there

TheFolder == [s \in Server |-> IF s = s3 THEN there ELSE here]

Symmetric == Permutations({s1, s2}) \union Permutations(Pid)
=============================================================================
