----------------------------- MODULE Directory -----------------------------
(***************************************************************************)
(* The user directory: the first-run setup, over the web and from the      *)
(* command line, and the changes administrators make to users.  Every      *)
(* request reads, decides and writes in separate statements, so requests   *)
(* interleave; the setup token lives in the server's memory and is made    *)
(* anew by a restart.                                                      *)
(*                                                                         *)
(* One action is one SQL statement with what the code does until the next  *)
(* one.  An id is given to one row only; several ids may carry the same    *)
(* address, of which the table admits one row at a time.                   *)
(***************************************************************************)
EXTENDS Naturals, FiniteSets

CONSTANTS
    Id,           \* user ids
    Address,      \* the e-mail (or Slack identity) of each id
    Request,      \* requests and command-line runs in progress at one time
    MaxRestarts,  \* bound on the number of server restarts
    NONE

ASSUME DirectoryAssumption ==
    /\ IsFiniteSet(Id)
    /\ MaxRestarts \in Nat
    /\ NONE \notin Id

VARIABLES
    user,        \* the users table
    token,       \* the setup token of the server process
    request,     \* what each request is doing
    founders,    \* history: how many operators first-run setups have created
    overlapped,  \* history: a setup created its operator after another one had
                 \* created one behind its check
    raced,       \* history: a write removed an operator on outdated grounds
    led,         \* history: there has been an active operator
    restarts

vars == <<user, token, request, founders, overlapped, raced, led, restarts>>
setup == <<token, founders, overlapped>>

-----------------------------------------------------------------------------
Row == [state : {"unused", "active", "inactive", "gone"}, operator : BOOLEAN]

Present == {i \in Id : user[i].state \in {"active", "inactive"}}

Leads(r) == r.state = "active" /\ r.operator

Leaders == {i \in Id : Leads(user[i])}

\* The fields of a PATCH that bear on who leads, and DELETE.
Change == {"promote", "demote", "activate", "deactivate", "delete"}

Work == [pc      : {"idle", "founding", "counting", "writing"},
         shell   : BOOLEAN,      \* a command-line run, a process of its own
         id      : Id \union {NONE},
         change  : Change \union {NONE},
         seen    : Row,          \* the row as it was read
         counted : SUBSET Id,    \* the operators that were counted, {} if nobody counted
         since   : Nat]          \* the founders there were at the check

Idle == [pc |-> "idle", shell |-> FALSE, id |-> NONE, change |-> NONE,
         seen |-> [state |-> "unused", operator |-> FALSE], counted |-> {}, since |-> 0]

TypeOK ==
    /\ user \in [Id -> Row]
    /\ token \in {"none", "live", "done"}
    /\ request \in [Request -> Work]
    /\ founders \in Nat
    /\ overlapped \in BOOLEAN
    /\ raced \in BOOLEAN
    /\ led \in BOOLEAN
    /\ restarts \in 0..MaxRestarts

\* The first start, on an empty table.
Init ==
    /\ user = [i \in Id |-> [state |-> "unused", operator |-> FALSE]]
    /\ token = "live"
    /\ request = [c \in Request |-> Idle]
    /\ founders = 0
    /\ overlapped = FALSE
    /\ raced = FALSE
    /\ led = FALSE
    /\ restarts = 0

-----------------------------------------------------------------------------
\* The unique index on the address.
Free(i) == /\ user[i].state = "unused"
           /\ \A j \in Present : Address[j] # Address[i]

Put(i, state, operator) == user' = [user EXCEPT ![i] = [state |-> state, operator |-> operator]]

\* History: whether the table the step leaves has ever had an operator.
Remember == led' = (led \/ \E i \in Id : Leads(user'[i]))

Done(c) == request' = [request EXCEPT ![c] = Idle]

-----------------------------------------------------------------------------
(***************************************************************************)
(* First-run setup.                                                        *)
(***************************************************************************)
\* Mutant: the token alone decides.
TokenDecides == TRUE

\* count_users.
NobodyYet == Present = {}

\* verify_token: there is one until a setup was completed.
TokenLive == token = "live"

\* mark_complete, for as long as the process lives.
MarkComplete == token' = "done"

\* ensure_token, at the start of a server that finds no users.
EnsureToken == token' = IF NobodyYet THEN "live" ELSE "none"

\* POST /setup/operator: the table must be empty, the token live.
BeginSetup(c, i) ==
    /\ request[c] = Idle
    /\ NobodyYet
    /\ TokenLive
    /\ request' = [request EXCEPT ![c] = [Idle EXCEPT !.pc = "founding", !.id = i,
                                                      !.since = founders]]
    /\ UNCHANGED <<user, setup, raced, led, restarts>>

\* A post that finds users retires the token, if there is one.
RefuseSetup ==
    /\ ~NobodyYet
    /\ MarkComplete
    /\ UNCHANGED <<user, request, founders, overlapped, raced, led, restarts>>

\* awaithumans bootstrap-operator, a process of its own, without a token.
BeginBootstrap(c, i) ==
    /\ request[c] = Idle
    /\ NobodyYet
    /\ request' = [request EXCEPT ![c] = [Idle EXCEPT !.pc = "founding", !.shell = TRUE,
                                                      !.id = i, !.since = founders]]
    /\ UNCHANGED <<user, setup, raced, led, restarts>>

\* create_user: the unique index refuses the same address, and no other.
Found(c) ==
    LET i == request[c].id IN
    /\ request[c].pc = "founding"
    /\ IF Free(i)
       THEN /\ Put(i, "active", TRUE)
            /\ founders' = founders + 1
            /\ overlapped' = (overlapped \/ founders # request[c].since)
            /\ IF request[c].shell THEN UNCHANGED token ELSE MarkComplete
       ELSE UNCHANGED <<user, setup>>
    /\ Remember
    /\ Done(c)
    /\ UNCHANGED <<raced, restarts>>

-----------------------------------------------------------------------------
(***************************************************************************)
(* Administration, over HTTP and from the command line.                    *)
(***************************************************************************)
\* create_user, as an operator or not; e-mail hand-offs add reviewers this way too.
AddUser(i, operator) ==
    /\ Free(i)
    /\ Put(i, "active", operator)
    /\ Remember
    /\ UNCHANGED <<setup, request, raced, restarts>>

Guarded(r, change) == Leads(r) /\ change \in {"demote", "deactivate", "delete"}

\* The row as it is read, and whether that calls for a count.
Read(c, i, change, shell) ==
    /\ request[c] = Idle
    /\ i \in Present
    /\ request' = [request EXCEPT ![c] =
                     [Idle EXCEPT !.pc = IF Guarded(user[i], change) THEN "counting" ELSE "writing",
                                  !.shell = shell, !.id = i, !.change = change, !.seen = user[i]]]
    /\ UNCHANGED <<user, setup, raced, led, restarts>>

\* PATCH and DELETE /admin/users/{id}: update_user and delete_user read the row.
ReadUser(c, i, change) == Read(c, i, change, FALSE)

\* awaithumans remove-user: the row that delete_user goes by is the one the session read
\* before it asked for a confirmation.
RemoveUser(c, i) == Read(c, i, "delete", TRUE)

\* Mutant: one operator left is enough to spare one.
LastIfNone == Cardinality(Leaders) < 1

LastOperator == Cardinality(Leaders) <= 1

\* _ensure_not_last_active_operator.
CountOperators(c) ==
    /\ request[c].pc = "counting"
    /\ request' = [request EXCEPT ![c] = IF LastOperator THEN Idle
                                         ELSE [@ EXCEPT !.pc = "writing", !.counted = Leaders]]
    /\ UNCHANGED <<user, setup, raced, led, restarts>>

\* The session writes the columns that differ from what was read, and no others.
Merge(now, seen, new) ==
    [state    |-> IF new.state = seen.state THEN now.state ELSE new.state,
     operator |-> IF new.operator = seen.operator THEN now.operator ELSE new.operator]

Applied(seen, change) ==
    CASE change = "promote"    -> [seen EXCEPT !.operator = TRUE]
      [] change = "demote"     -> [seen EXCEPT !.operator = FALSE]
      [] change = "activate"   -> [seen EXCEPT !.state = "active"]
      [] change = "deactivate" -> [seen EXCEPT !.state = "inactive"]
      [] change = "delete"     -> [seen EXCEPT !.state = "gone"]

\* The UPDATE or DELETE by id; the row may be gone by now (StaleDataError, or no row).
Write(c) ==
    LET w == request[c]
        new == IF w.id \in Present THEN Merge(user[w.id], w.seen, Applied(w.seen, w.change))
               ELSE user[w.id]
    IN
    /\ w.pc = "writing"
    /\ user' = [user EXCEPT ![w.id] = new]
    /\ raced' = (raced \/ /\ Leads(user[w.id]) /\ ~Leads(new)
                          /\ ~Leads(w.seen) \/ ~(w.counted \subseteq Leaders))
    /\ Remember
    /\ Done(c)
    /\ UNCHANGED <<setup, restarts>>

-----------------------------------------------------------------------------
\* The requests of the process are lost, the token is made anew while nobody exists;
\* command-line runs go on.
Restart ==
    /\ restarts < MaxRestarts
    /\ restarts' = restarts + 1
    /\ EnsureToken
    /\ request' = [c \in Request |-> IF request[c].shell THEN request[c] ELSE Idle]
    /\ UNCHANGED <<user, founders, overlapped, raced, led>>

Next ==
    \/ \E c \in Request : Found(c) \/ CountOperators(c) \/ Write(c)
    \/ \E c \in Request, i \in Id :
          \/ BeginSetup(c, i) \/ BeginBootstrap(c, i) \/ RemoveUser(c, i)
          \/ \E change \in Change : ReadUser(c, i, change)
    \/ \E i \in Id, operator \in BOOLEAN : AddUser(i, operator)
    \/ RefuseSetup \/ Restart

Spec == Init /\ [][Next]_vars

-----------------------------------------------------------------------------
\* update_user and delete_user keep the last active operator: once there has been one,
\* the directory is without only if a change was written although what it was allowed
\* on (the row it read, the operators it counted) had changed.
LockoutsAreRaces == led /\ Leaders = {} => raced

\* First-run setup makes one operator, over the web, from the command line, before and
\* after restarts: for a second one, two setups must have overlapped, or the directory
\* must have lost its operators to a race.
FoundersExplained == founders > 1 => overlapped \/ raced
=============================================================================
