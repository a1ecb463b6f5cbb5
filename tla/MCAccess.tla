------------------------------ MODULE MCAccess ------------------------------
(***************************************************************************)
(* Access on a small instance: a wildcard entry, an origin it matches, and *)
(* three it does not: the apex, two labels, another port.                  *)
(***************************************************************************)
EXTENDS Access, TLC

CONSTANTS ann, bob, own, done, open, early, mail

Site(host, port) == [scheme |-> "https", host |-> host, port |-> port]

MCOrigin == {Site(<<"app", "acme", "com">>, 443), Site(<<"acme", "com">>, NONE),
             Site(<<"a", "b", "acme", "com">>, NONE), Site(<<"app", "acme", "com">>, 8443)}

MCAllowlist == {[scheme |-> "https", host |-> <<"*", "acme", "com">>, port |-> NONE,
                 bare |-> TRUE]}

\* A reviewer's redacted task; a finished one of a user who was deleted; one that was
\* broadcast; one for an address that was not a user's when it came in.
NoTask == [status |-> "created", assignee |-> NONE, email |-> NONE, completer |-> NONE,
           redact |-> FALSE, created |-> 1]

MCTaskTable == [t \in Task |->
    CASE t = own   -> [NoTask EXCEPT !.assignee = ann, !.email = mail, !.redact = TRUE]
      [] t = done  -> [NoTask EXCEPT !.assignee = bob, !.completer = ann, !.status = "completed",
                                     !.redact = TRUE, !.created = 2]
      [] t = open  -> [NoTask EXCEPT !.created = 3]
      [] t = early -> [NoTask EXCEPT !.email = mail, !.created = 4]]

MCFinds == [s \in Search |-> IF s = mail THEN {ann} ELSE {}]

Symmetric == Permutations(Request) \union Permutations(Address)
=============================================================================
