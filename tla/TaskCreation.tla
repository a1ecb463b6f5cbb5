--------------------------- MODULE TaskCreation ----------------------------
(***************************************************************************)
(* POST /api/tasks under one idempotency key: look the key up, route the   *)
(* task (directory and Slack calls, seconds), insert, and fall back to the *)
(* row of the winner when the unique index refuses the insert.  The index  *)
(* covers active rows only, so it says nothing of a row that has settled.  *)
(* The router may leave the picked user's turn to be stamped by the same   *)
(* commit, which fails for good if that user was deleted meanwhile.        *)
(* The notifications run in a background task after the response.          *)
(*                                                                         *)
(* Calls under different keys share nothing, so one key is enough.         *)
(***************************************************************************)
EXTENDS Naturals, FiniteSets

CONSTANTS
    Caller,      \* agents (or restarts of one agent) that use the key
    TaskId,      \* ids new rows take; bounds the number of rows
    User,        \* the users the router may pick by their attributes
    MaxDeletes,  \* bound on the rows an operator deletes
    MaxCrashes,  \* bound on the number of process crashes
    NONE

ASSUME CreationAssumption ==
    /\ MaxDeletes \in Nat
    /\ MaxCrashes \in Nat
    /\ NONE \notin TaskId \union User

VARIABLES
    status,     \* of each row with the key: active, terminal; unused or deleted
    call,       \* what each caller's request is doing
    users,      \* the users that have a row in the directory
    pings,      \* how often the reviewers were notified of each task
    overtaken,  \* history: callers in flight whose lookup a settled row outdated
    late,       \* history: the rows such callers inserted
    crashes,
    deletes

vars == <<status, call, users, pings, overtaken, late, crashes, deletes>>

Call == [pc    : {"idle", "routing", "inserting", "conflict", "refreshing", "replayed",
                  "created", "notified", "error", "lost"},
         got   : TaskId \union {NONE},
         pick  : User \union {NONE}]  \* whose last_assigned_at waits in the session

TypeOK ==
    /\ status \in [TaskId -> {"unused", "active", "terminal", "deleted"}]
    /\ call \in [Caller -> Call]
    /\ users \subseteq User
    /\ pings \in [TaskId -> Nat]
    /\ overtaken \subseteq Caller
    /\ late \subseteq TaskId
    /\ crashes \in 0..MaxCrashes
    /\ deletes \in 0..MaxDeletes

Idle == [pc |-> "idle", got |-> NONE, pick |-> NONE]

Init ==
    /\ status = [t \in TaskId |-> "unused"]
    /\ call = [c \in Caller |-> Idle]
    /\ users = User
    /\ pings = [t \in TaskId |-> 0]
    /\ overtaken = {}
    /\ late = {}
    /\ crashes = 0
    /\ deletes = 0

-----------------------------------------------------------------------------
\* Ids are random: any unused one will do.
Unused == {t \in TaskId : status[t] = "unused"}

FreshId == CHOOSE t \in TaskId : t \in Unused

\* SELECT ... WHERE idempotency_key = :key, any status.
Rows == {t \in TaskId : status[t] \in {"active", "terminal"}}

\* Mutant: the index forgets that settled rows are not in it, and guards nothing.
NoRowIndexed == FALSE

\* The partial unique index: is there an active row with the key?
KeyTaken == \E t \in TaskId : status[t] = "active"

\* scalar_one_or_none: one row is returned, two raise MultipleResultsFound.
Found(c, none) ==
    call' = [call EXCEPT ![c] =
                IF Rows = {} THEN [Idle EXCEPT !.pc = none]
                ELSE IF Cardinality(Rows) = 1
                     THEN [Idle EXCEPT !.pc = "replayed", !.got = CHOOSE t \in TaskId : t \in Rows]
                     ELSE [Idle EXCEPT !.pc = "error"]]

Lookup(c) ==
    /\ call[c].pc = "idle"
    /\ Found(c, "routing")
    /\ overtaken' = overtaken \ {c}
    /\ UNCHANGED <<status, users, pings, late, crashes, deletes>>

\* resolve_assign_to picks a user whose turn the commit will stamp, or nobody: no
\* filter, no match, or an assignee found by address or Slack handle (module Routing).
Route(c, u) ==
    /\ call[c].pc = "routing"
    /\ call' = [call EXCEPT ![c].pc = "inserting", ![c].pick = u]
    /\ UNCHANGED <<status, users, pings, overtaken, late, crashes, deletes>>

\* The UPDATE of the picked user's row would find no row.
Stale(c) == call[c].pick \notin users \union {NONE}

\* Mutant: the caller is told of the row, but not that it is new.
InsertSilently(c) ==
    /\ call[c].pc = "inserting"
    /\ ~KeyTaken /\ ~Stale(c)
    /\ Unused # {}
    /\ status' = [status EXCEPT ![FreshId] = "active"]
    /\ call' = [call EXCEPT ![c] = [Idle EXCEPT !.pc = "replayed", !.got = FreshId]]
    /\ late' = IF c \in overtaken THEN late \union {FreshId} ELSE late
    /\ UNCHANGED <<users, pings, overtaken, crashes, deletes>>

Insert(c) ==
    /\ call[c].pc = "inserting"
    /\ ~KeyTaken /\ ~Stale(c)
    /\ Unused # {}
    /\ status' = [status EXCEPT ![FreshId] = "active"]
    /\ call' = [call EXCEPT ![c] = [Idle EXCEPT !.pc = "refreshing", !.got = FreshId]]
    /\ late' = IF c \in overtaken THEN late \union {FreshId} ELSE late
    /\ UNCHANGED <<users, pings, overtaken, crashes, deletes>>

\* IntegrityError: roll back, the assignment bump included.
Conflict(c) ==
    /\ call[c].pc = "inserting"
    /\ KeyTaken
    /\ call' = [call EXCEPT ![c] = [Idle EXCEPT !.pc = "conflict"]]
    /\ UNCHANGED <<status, users, pings, overtaken, late, crashes, deletes>>

\* StaleDataError, which nothing catches: no task, and no winner to fall back to.
\* Either statement of the flush may fail first when the key is taken as well.
PickGone(c) ==
    /\ call[c].pc = "inserting"
    /\ Stale(c)
    /\ call' = [call EXCEPT ![c].pc = "error"]
    /\ UNCHANGED <<status, users, pings, overtaken, late, crashes, deletes>>

\* Mutant: the loser of the race believes it created the winner's row.
RelookupAsCreator(c) ==
    /\ call[c].pc = "conflict"
    /\ Rows # {}
    /\ call' = [call EXCEPT ![c] = [Idle EXCEPT !.pc = "created",
                                               !.got = CHOOSE t \in TaskId : t \in Rows]]
    /\ UNCHANGED <<status, users, pings, overtaken, late, crashes, deletes>>

\* Mutant: the loser looks among the active rows only, and raises when the winner's
\* row has settled meanwhile.
RelookupActive(c) ==
    /\ call[c].pc = "conflict"
    /\ IF KeyTaken THEN Found(c, "error")
       ELSE call' = [call EXCEPT ![c] = [Idle EXCEPT !.pc = "error"]]
    /\ UNCHANGED <<status, users, pings, overtaken, late, crashes, deletes>>

\* The loser returns the winner's row, or re-raises when there is none.
Relookup(c) ==
    /\ call[c].pc = "conflict"
    /\ Found(c, "error")
    /\ UNCHANGED <<status, users, pings, overtaken, late, crashes, deletes>>

\* The new row is read back after the commit; a row that is gone by then raises.
Refresh(c) ==
    /\ call[c].pc = "refreshing"
    /\ call' = [call EXCEPT ![c] = IF status[call[c].got] # "deleted"
                                  THEN [@ EXCEPT !.pc = "created"]
                                  ELSE [Idle EXCEPT !.pc = "error"]]
    /\ UNCHANGED <<status, users, pings, overtaken, late, crashes, deletes>>

\* The background task of the call that created the row, and of no other.
Notify(c) ==
    /\ call[c].pc = "created"
    /\ pings' = IF status[call[c].got] = "deleted" THEN pings
                ELSE [pings EXCEPT ![call[c].got] = @ + 1]
    /\ call' = [call EXCEPT ![c].pc = "notified"]
    /\ UNCHANGED <<status, users, overtaken, late, crashes, deletes>>

\* An agent that was restarted, or got an error, calls again with the same key.
CallAgain(c) ==
    /\ call[c].pc \in {"replayed", "notified", "error", "lost"}
    /\ call' = [call EXCEPT ![c] = Idle]
    /\ UNCHANGED <<status, users, pings, overtaken, late, crashes, deletes>>

-----------------------------------------------------------------------------
Outdate ==
    overtaken' = overtaken \union {c \in Caller : call[c].pc \in {"routing", "inserting"}}

\* Any of the transitions of TaskLifecycle that end a task.
Settle(t) ==
    /\ status[t] = "active"
    /\ status' = [status EXCEPT ![t] = "terminal"]
    /\ Outdate
    /\ UNCHANGED <<call, users, pings, late, crashes, deletes>>

Delete(t) ==
    /\ deletes < MaxDeletes
    /\ status[t] \in {"active", "terminal"}
    /\ status' = [status EXCEPT ![t] = "deleted"]
    /\ deletes' = deletes + 1
    /\ UNCHANGED <<call, users, pings, overtaken, late, crashes>>

\* delete_user asks nothing of the tasks (module Directory); no new one takes its id.
DeleteUser(u) ==
    /\ u \in users
    /\ users' = users \ {u}
    /\ UNCHANGED <<status, call, pings, overtaken, late, crashes, deletes>>

Crash ==
    /\ crashes < MaxCrashes
    /\ crashes' = crashes + 1
    /\ call' = [c \in Caller |->
                  IF call[c].pc \in {"routing", "inserting", "conflict", "refreshing", "created"}
                  THEN [Idle EXCEPT !.pc = "lost"] ELSE call[c]]
    /\ UNCHANGED <<status, users, pings, overtaken, late, deletes>>

Handle(c) ==
    \/ Lookup(c)
    \/ \E u \in users \union {NONE} : Route(c, u)
    \/ Insert(c) \/ Conflict(c) \/ PickGone(c)
    \/ Relookup(c) \/ Refresh(c) \/ Notify(c)

Next ==
    \/ \E c \in Caller : Handle(c) \/ CallAgain(c)
    \/ \E t \in TaskId : Settle(t) \/ Delete(t)
    \/ \E u \in User : DeleteUser(u)
    \/ Crash

\* The server runs every handler on; agents, humans and operators owe nothing.
Spec == Init /\ [][Next]_vars /\ \A c \in Caller : WF_vars(Handle(c))

-----------------------------------------------------------------------------
\* Of the rows that share the key, all but one were inserted by a call whose lookup
\* had been outdated by a row that appeared and settled while the call was routing:
\* the partial index and the conflict branch close every other race.
DuplicatesAreLate == Cardinality(Rows \ late) <= 1

\* Reviewers are never notified twice of one task, however many callers and
\* retries raced for the key.
NotifiedOnce == \A t \in TaskId : pings[t] <= 1

\* A call fails only after a late row made the key ambiguous, a row vanished under the
\* loser of an insert race or under its own creator, or the very user the router picked
\* for it was deleted before the commit: settling and racing alone never fail a call.
\* (A database that cannot be reached fails any call, and is not in the model.)
ErrorsAreExplained ==
    \A c \in Caller : call[c].pc = "error" => late # {} \/ deletes > 0 \/ Stale(c)

\* A created task has its reviewers notified, unless it was deleted or the process
\* crashed before.
CreatedTasksAreNotified ==
    \A t \in TaskId : status[t] = "active" ~> (pings[t] = 1 \/ status[t] = "deleted" \/ crashes > 0)
=============================================================================
