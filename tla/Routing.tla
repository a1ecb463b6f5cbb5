------------------------------ MODULE Routing ------------------------------
(***************************************************************************)
(* Who gets a task.  A creation that names attributes goes to the active   *)
(* user who matches them and was assigned a task least recently; one that  *)
(* only notifies a Slack handle goes to the user behind that handle, who   *)
(* is looked up in a copy of the workspace's roster that the process keeps *)
(* for good, and looked up once more when the message is sent.             *)
(*                                                                         *)
(* One action is one SQL statement, or one half of a call of Slack's API,  *)
(* with what the code does until the next await.  A creation and the       *)
(* background task that notifies for it are one "creation" here; the       *)
(* rollback of a conflicting insert is part of the insert.                 *)
(***************************************************************************)
EXTENDS Naturals, FiniteSets

CONSTANTS
    Users,        \* number of directory users, numbered as they were created
    Filter,       \* combinations of role, access level and pool
    Match,        \* the users whose attributes match each of them
    Handle,       \* Slack handles
    Ask,          \* the creations that agents send
    Creation,     \* creations in progress at one time
    MaxPicks,     \* bound on the turns that are dealt
    MaxChanges,   \* bound on changes to the directory and to Slack's roster
    MaxRestarts,  \* bound on the restarts of the server
    NONE

User == 1..Users

\* assign_to: attributes, or an address (of a user, here), or neither; the one target
\* of notify, if there is one; and whether the key is one that others use as well.
Asked == [filter    : Filter \union {NONE},
          address   : User \union {NONE},
          handle    : Handle \union {NONE},
          contested : BOOLEAN]

Roster == [Handle -> User \union {NONE}]

ASSUME RoutingAssumption ==
    /\ Users \in Nat
    /\ Match \in [Filter -> SUBSET User]
    /\ Ask \subseteq Asked
    /\ IsFiniteSet(Creation) /\ Creation # {}
    /\ {MaxPicks, MaxChanges, MaxRestarts} \subseteq Nat
    /\ NONE \notin User \union Handle \union Filter
    /\ NONE \notin Roster

VARIABLES
    user,      \* the users table: who is there, and last_assigned_at
    clock,     \* the stamps that were given out
    taken,     \* whether the contested idempotency key has a row
    roster,    \* Slack: who goes by each handle
    index,     \* _HANDLE_CACHE: a copy of the roster, or NONE
    creation,  \* what each creation is doing
    dealt,     \* history: the turn each user's latest task came with
    bypassed,  \* history: how often each of the others got the task a user was in line for
    together,  \* history: two creations were fetching the roster at one time
    changes,
    restarts

vars == <<user, clock, taken, roster, index, creation, dealt, bypassed, together,
          changes, restarts>>
turns == <<user, clock, dealt, bypassed>>
slack == <<roster, index, together>>
bounds == <<changes, restarts>>

-----------------------------------------------------------------------------
Row == [state : {"active", "inactive", "gone"}, last : Nat]

Routed == [pc       : {"idle", "routing", "resolving", "listing", "listed", "found", "inserting"},
           ask      : Ask \union {NONE},
           created  : BOOLEAN,                  \* the task is there: this is its notifier
           assignee : User \union {NONE},
           implicit : BOOLEAN,                  \* derived from the handle
           stamp    : Nat,                      \* the new last_assigned_at, 0 if none
           listed   : Roster \union {NONE},     \* what users.list returned
           person   : User \union {NONE}]       \* whom the handle resolved to

Idle == [pc |-> "idle", ask |-> NONE, created |-> FALSE, assignee |-> NONE,
         implicit |-> FALSE, stamp |-> 0, listed |-> NONE, person |-> NONE]

NeverPassed == [v \in User |-> 0]

TypeOK ==
    /\ user \in [User -> Row]
    /\ clock \in 0..MaxPicks
    /\ taken \in BOOLEAN
    /\ roster \in Roster
    /\ index \in Roster \union {NONE}
    /\ creation \in [Creation -> Routed]
    /\ dealt \in [User -> Nat]
    /\ bypassed \in [User -> [User -> Nat]]
    /\ together \in BOOLEAN
    /\ changes \in 0..MaxChanges
    /\ restarts \in 0..MaxRestarts

Init ==
    /\ user = [u \in User |-> [state |-> "active", last |-> 0]]
    /\ clock = 0
    /\ taken = FALSE
    /\ roster \in Roster
    /\ index = NONE
    /\ creation = [c \in Creation |-> Idle]
    /\ dealt = [u \in User |-> 0]
    /\ bypassed = [u \in User |-> NeverPassed]
    /\ together = FALSE
    /\ changes = 0
    /\ restarts = 0

Active == {u \in User : user[u].state = "active"}

Present == {u \in User : user[u].state # "gone"}

Done(c) == creation' = [creation EXCEPT ![c] = Idle]

-----------------------------------------------------------------------------
(***************************************************************************)
(* create_task, as far as the insert.                                      *)
(***************************************************************************)
\* The look-up of the key finds nothing.
Begin(c, ask) ==
    /\ creation[c] = Idle
    /\ ask.contested => ~taken
    /\ creation' = [creation EXCEPT ![c] = [Idle EXCEPT !.pc = "routing", !.ask = ask]]
    /\ UNCHANGED <<turns, taken, slack, bounds>>

Eligible(f) == IF f = NONE THEN {} ELSE Active \intersect Match[f]

\* Mutant: the oldest account first.
ByAge(u, v) == u <= v

\* ORDER BY last_assigned_at NULLS FIRST, created_at.
Before(u, v) ==
    \/ user[u].last < user[v].last
    \/ user[u].last = user[v].last /\ u <= v

\* _pick_least_recently_assigned; the new stamp waits in the session.
PickByFilter(c) ==
    LET ask == creation[c].ask IN
    /\ creation[c].pc = "routing"
    /\ ask.address = NONE
    /\ clock < MaxPicks
    /\ clock' = clock + 1
    /\ \E u \in Eligible(ask.filter) :
          /\ \A v \in Eligible(ask.filter) : Before(u, v)
          /\ creation' = [creation EXCEPT ![c].pc = "inserting", ![c].assignee = u,
                                          ![c].stamp = clock']
    /\ UNCHANGED <<user, dealt, bypassed, taken, slack, bounds>>

\* An address: its user, whether active or not; without a user the address alone.
PickByAddress(c) ==
    LET u == creation[c].ask.address IN
    /\ creation[c].pc = "routing"
    /\ u # NONE
    /\ creation' = [creation EXCEPT ![c].pc = "inserting",
                                    ![c].assignee = IF u \in Present THEN u ELSE NONE]
    /\ UNCHANGED <<turns, taken, slack, bounds>>

\* No assign_to, or nobody matches: the one handle in notify decides.
Unrouted(c) ==
    LET ask == creation[c].ask IN
    /\ creation[c].pc = "routing"
    /\ ask.address = NONE
    /\ Eligible(ask.filter) = {}
    /\ creation' = [creation EXCEPT ![c].pc = IF ask.handle = NONE THEN "inserting"
                                              ELSE "resolving"]
    /\ UNCHANGED <<turns, taken, slack, bounds>>

-----------------------------------------------------------------------------
(***************************************************************************)
(* resolve_slack_target, for the assignee and once more for the message.   *)
(***************************************************************************)
\* Mutant: the copy is not used.
NeverCached == FALSE

Cached == index # NONE

Fetching == \E c \in Creation : creation[c].pc \in {"listing", "listed"}

Resolve(c) ==
    LET w == creation[c] IN
    /\ w.pc = "resolving"
    /\ creation' = [creation EXCEPT ![c] =
                      IF Cached THEN [w EXCEPT !.pc = "found", !.person = index[w.ask.handle]]
                      ELSE [w EXCEPT !.pc = "listing"]]
    /\ together' = (together \/ (~Cached /\ Fetching))
    /\ UNCHANGED <<turns, taken, roster, index, bounds>>

\* Slack answers users.list ...
SlackLists(c) ==
    /\ creation[c].pc = "listing"
    /\ creation' = [creation EXCEPT ![c].pc = "listed", ![c].listed = roster]
    /\ UNCHANGED <<turns, taken, slack, bounds>>

\* ... or fails: the handle stays unresolved, and nothing is kept.
SlackFails(c) ==
    /\ creation[c].pc = "listing"
    /\ creation' = [creation EXCEPT ![c].pc = "found", ![c].person = NONE]
    /\ UNCHANGED <<turns, taken, slack, bounds>>

\* The answer arrives: it becomes the copy, whatever the copy was.
BuildIndex(c) ==
    LET got == creation[c].listed IN
    /\ creation[c].pc = "listed"
    /\ index' = got
    /\ creation' = [creation EXCEPT ![c].pc = "found", ![c].listed = NONE,
                                    ![c].person = got[creation[c].ask.handle]]
    /\ UNCHANGED <<turns, taken, roster, together, bounds>>

\* derive_implicit_assignee: an active user of the directory, or nobody.
FindAssignee(c) ==
    LET w == creation[c] IN
    /\ w.pc = "found"
    /\ ~w.created
    /\ creation' = [creation EXCEPT ![c] =
                      IF w.person \in Active
                      THEN [w EXCEPT !.pc = "inserting", !.assignee = w.person,
                                     !.implicit = TRUE, !.person = NONE]
                      ELSE [w EXCEPT !.pc = "inserting", !.person = NONE]]
    /\ UNCHANGED <<turns, taken, slack, bounds>>

\* chat.postMessage to that person, or an entry that says why not.
Deliver(c) ==
    /\ creation[c].pc = "found"
    /\ creation[c].created
    /\ Done(c)
    /\ UNCHANGED <<turns, taken, slack, bounds>>

-----------------------------------------------------------------------------
(***************************************************************************)
(* The insert commits the task and the stamp together.                     *)
(***************************************************************************)
Conflict(c) == creation[c].ask.contested /\ taken

\* The UPDATE of the picked user's row finds no row: StaleDataError, and no task.
Stale(c) == creation[c].stamp > 0 /\ creation[c].assignee \notin Present

\* Those who were in line for the task as well wait on.
Count(c) ==
    LET v == creation[c].assignee IN
    bypassed' = [u \in User |->
                   IF u = v THEN NeverPassed
                   ELSE IF u \in Eligible(creation[c].ask.filter)
                        THEN [bypassed[u] EXCEPT ![v] = @ + 1]
                   ELSE bypassed[u]]

\* Mutant: a conflict keeps the turn it was given.
InsertKeepingTurn(c) ==
    /\ creation[c].pc = "inserting"
    /\ Conflict(c)
    /\ creation[c].stamp > 0
    /\ creation[c].assignee \in Present
    /\ user' = [user EXCEPT ![creation[c].assignee].last = creation[c].stamp]
    /\ Done(c)
    /\ UNCHANGED <<clock, dealt, bypassed, taken, slack, bounds>>

\* IntegrityError: the rollback takes the stamp back, the other task is the answer.
Refuse(c) ==
    /\ creation[c].pc = "inserting"
    /\ Conflict(c) \/ Stale(c)
    /\ Done(c)
    /\ UNCHANGED <<turns, taken, slack, bounds>>

Insert(c) ==
    LET w == creation[c] IN
    /\ w.pc = "inserting"
    /\ ~Conflict(c) /\ ~Stale(c)
    /\ taken' = (taken \/ w.ask.contested)
    /\ IF w.stamp > 0
       THEN /\ user' = [user EXCEPT ![w.assignee].last = w.stamp]
            /\ dealt' = [dealt EXCEPT ![w.assignee] = w.stamp]
            /\ Count(c)
       ELSE UNCHANGED <<user, dealt, bypassed>>
    /\ creation' = [creation EXCEPT ![c] = IF w.ask.handle = NONE THEN Idle
                                           ELSE [w EXCEPT !.pc = "resolving", !.created = TRUE]]
    /\ UNCHANGED <<clock, slack, bounds>>

Create(c) ==
    \/ Unrouted(c) \/ Resolve(c) \/ SlackLists(c) \/ SlackFails(c) \/ BuildIndex(c)
    \/ FindAssignee(c) \/ Insert(c) \/ Refuse(c) \/ Deliver(c)
    \/ PickByFilter(c) \/ PickByAddress(c)
    \/ \E ask \in Ask : Begin(c, ask)

-----------------------------------------------------------------------------
\* update_user, delete_user (module Directory); who comes back starts to wait anew.
Administer(u, state) ==
    /\ changes < MaxChanges
    /\ user[u].state # "gone"
    /\ user[u].state # state
    /\ user' = [user EXCEPT ![u].state = state]
    /\ bypassed' = [bypassed EXCEPT ![u] = NeverPassed]
    /\ changes' = changes + 1
    /\ UNCHANGED <<clock, dealt, taken, slack, creation, restarts>>

\* In Slack, a handle changes hands.
Rename(h, p) ==
    /\ changes < MaxChanges
    /\ roster[h] # p
    /\ roster' = [roster EXCEPT ![h] = p]
    /\ changes' = changes + 1
    /\ UNCHANGED <<turns, taken, index, together, creation, restarts>>

\* Requests, background tasks and the copy are lost.
Restart ==
    /\ restarts < MaxRestarts
    /\ restarts' = restarts + 1
    /\ creation' = [c \in Creation |-> Idle]
    /\ index' = NONE
    /\ UNCHANGED <<turns, taken, roster, together, changes>>

Next ==
    \/ \E c \in Creation : Create(c)
    \/ \E u \in User, state \in {"active", "inactive", "gone"} : Administer(u, state)
    \/ \E h \in Handle, p \in User \union {NONE} : Rename(h, p)
    \/ Restart

Spec == Init /\ [][Next]_vars

-----------------------------------------------------------------------------
\* A turn is taken by a task: last_assigned_at is that of the user's latest task by
\* attributes, although creations are replayed, meet a conflict, find the user deleted,
\* or die with the new stamp in their session.
TurnsComeWithTasks == \A u \in User : user[u].last = dealt[u]

\* The most tasks one user may get ahead of another who is in line, with n creations at
\* a time: as many as are free to pick at once, n of them at first, and then again for
\* each of the n - 1 others that write, late, a stamp from before the other's last turn.
Backlog(n) == ((n * (n + 1)) \div 2) + n - 1

\* Waiting is bounded: of two users in line, the one assigned a task less recently is
\* passed over by creations that overlap, in their picks or by writing older stamps over
\* newer ones, and only by so many of them, however many tasks there are.
WaitingIsBounded ==
    \A u, v \in User : bypassed[u][v] <= Backlog(Cardinality(Creation))

\* The person a handle's message goes to is the one who was made the task's assignee
\* for it, although handles change hands in between: one copy decides both, unless two
\* creations fetched the roster at one time.
RecipientIsAssignee ==
    \A c \in Creation :
        /\ creation[c].pc = "found"
        /\ creation[c].created
        /\ creation[c].implicit
        /\ creation[c].person # NONE
        => creation[c].person = creation[c].assignee \/ together
=============================================================================
