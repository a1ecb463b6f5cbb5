----------------------------- MODULE TaskViews -----------------------------
(***************************************************************************)
(* Which tasks a caller sees.  There are three views: a task by its id,    *)
(* its audit trail, and the list with its filters; each has a check of its *)
(* own for who may look.  A view reads the tables once and changes         *)
(* nothing, so the rows it finds are parameters here.                      *)
(***************************************************************************)
EXTENDS Naturals, FiniteSets

CONSTANTS
    User,       \* ids of the directory's users
    Person,     \* ids that were a user's at some time
    Task,       \* ids of the tasks
    TaskTable,  \* the row of each
    Search,     \* addresses, handles and parts of names to look for
    Finds,      \* the users each of them finds
    MaxPage,    \* the most rows a caller may ask for
    NONE

Status == {"created", "notified", "assigned", "in_progress", "submitted", "verified", "rejected",
           "completed", "timed_out", "cancelled", "verification_exhausted"}

Terminal == {"completed", "timed_out", "cancelled", "verification_exhausted"}

TaskRow == [status    : Status,
            assignee  : Person \union {NONE},   \* assigned_to_user_id
            email     : Search \union {NONE},   \* assigned_to_email
            completer : Person \union {NONE},
            redact    : BOOLEAN,
            created   : Nat]                     \* its place in the order of creation

ASSUME TaskViewsAssumption ==
    /\ User \subseteq Person
    /\ NONE \notin Person \union Task \union Search \union Status
    /\ IsFiniteSet(Task)
    /\ TaskTable \in [Task -> TaskRow]
    /\ Finds \in [Search -> SUBSET User]
    /\ MaxPage \in Nat

-----------------------------------------------------------------------------
(***************************************************************************)
(* Callers, as the middleware leaves them to the routes.                   *)
(***************************************************************************)
Nobody == [as |-> "nobody", user |-> NONE, operator |-> FALSE, task |-> NONE]

Automation == [Nobody EXCEPT !.as = "automation"]

Member(u, operator) == [Nobody EXCEPT !.as = "session", !.user = u, !.operator = operator]

\* The holder of an embed token for a task.
Guest(t) == [Nobody EXCEPT !.as = "embed", !.task = t]

Caller == {Nobody, Automation} \union {Guest(t) : t \in Task}
          \union {Member(u, operator) : u \in Person, operator \in BOOLEAN}

\* caller_is_operator: what the session says.
CallerIsOperator(c) == c.as = "session" /\ c.operator

SeesAll(c) == c.as = "automation" \/ CallerIsOperator(c)

\* Mutant: a caller without a user is the assignee of a task without one.
AssigneeOrNeither(c, t) == SeesAll(c) \/ TaskTable[t].assignee = c.user

\* require_task_read: automation, operators and the assignee.
MayRead(c, t) == SeesAll(c) \/ (c.user # NONE /\ TaskTable[t].assignee = c.user)

-----------------------------------------------------------------------------
\* The users behind the rows of one answer, those that are still there.
UserIndex(tasks) ==
    User \intersect UNION {{TaskTable[t].assignee, TaskTable[t].completer} : t \in tasks}

TaskToResponse(t, redact, users) ==
    LET row == TaskTable[t]
        Named(u) == IF u \in users THEN u ELSE NONE
    IN  [id        |-> t,
         status    |-> row.status,
         payload   |-> IF redact /\ row.redact THEN "redacted" ELSE "shown",
         assignee  |-> Named(row.assignee),
         completer |-> Named(row.completer)]

\* GET /tasks/{id}: an embed token opens its own task.
CanOpen(c, t) == IF c.as = "embed" THEN c.task = t ELSE MayRead(c, t)

GetTask(t) == TaskToResponse(t, FALSE, UserIndex({t}))

\* GET /tasks/{id}/audit.
CanAudit(c, t) == MayRead(c, t)

\* The tasks that either of them shows.
Sees == [c \in Caller |-> {t \in Task : CanOpen(c, t) \/ CanAudit(c, t)}]

-----------------------------------------------------------------------------
(***************************************************************************)
(* The list.                                                               *)
(***************************************************************************)
Query == [status     : Status \union {NONE},
          search     : Search \union {NONE},   \* assigned_to
          unassigned : BOOLEAN,
          terminal   : BOOLEAN,
          scope      : {NONE},                   \* nothing a caller can ask for
          limit      : 1..MaxPage,
          offset     : 0..Cardinality(Task)]   \* further on, a page is empty

\* A status asked for by name decides alone.
InStatus(q, row) == IF q.status # NONE THEN row.status = q.status
                    ELSE q.terminal => row.status \in Terminal

\* The address on the row, or a user whom the search finds.
AssignedTo(q, row) == row.email = q.search \/ row.assignee \in Finds[q.search]

\* "Unassigned" overrides the search and the scope.
Assigned(q, row) ==
    IF q.unassigned THEN row.assignee = NONE /\ row.email = NONE
    ELSE /\ q.search # NONE => AssignedTo(q, row)
         /\ q.scope # NONE => row.assignee = q.scope

\* ORDER BY created_at DESC LIMIT ... OFFSET ...
Page(tasks, q) ==
    {t \in tasks :
        LET newer == {s \in tasks : TaskTable[s].created > TaskTable[t].created}
        IN  q.offset <= Cardinality(newer) /\ Cardinality(newer) < q.offset + q.limit}

ListTasks(q) == Page({t \in Task : InStatus(q, TaskTable[t]) /\ Assigned(q, TaskTable[t])}, q)

\* Mutant: the filters of a reviewer's request are kept.
ScopedWithFilters(c, q) == IF SeesAll(c) THEN q ELSE [q EXCEPT !.scope = c.user]

\* A reviewer's list is the reviewer's own tasks, whatever the request asks for.
Scoped(c, q) == IF SeesAll(c) THEN q
                ELSE [q EXCEPT !.scope = c.user, !.search = NONE, !.unassigned = FALSE]

\* Embed tokens are for one task and open no list.
MayList(c) == c.as \in {"automation", "session"}

Listed(c, q) ==
    LET tasks == ListTasks(Scoped(c, q))
    IN  IF MayList(c) THEN {TaskToResponse(t, TRUE, UserIndex(tasks)) : t \in tasks} ELSE {}

-----------------------------------------------------------------------------
Unfiltered(q) == /\ q.status = NONE /\ q.search = NONE
                 /\ ~q.unassigned /\ ~q.terminal
                 /\ q.offset = 0 /\ q.limit >= Cardinality(Task)

\* What a list says of a task is what the caller would get by its id, with the payload
\* of a redacted one left out.  A caller with a session or the admin token opens exactly
\* the tasks whose audit trail opens and that one page without filters lists; the holder
\* of an embed token opens the token's task, and neither its trail nor any list.
Agrees(c, q) ==
    /\ \A v \in Listed(c, q) :
          /\ v.id \in Task /\ CanOpen(c, v.id)
          /\ v = [GetTask(v.id) EXCEPT !.payload = IF TaskTable[v.id].redact THEN "redacted"
                                                   ELSE @]
    /\ c.as # "embed" =>
          \A t \in Task : /\ CanOpen(c, t) <=> CanAudit(c, t)
                          /\ Unfiltered(q) => (CanOpen(c, t) <=> \E v \in Listed(c, q) : v.id = t)
    /\ c.as = "embed" =>
          /\ \A t \in Task : (CanOpen(c, t) <=> t = c.task) /\ ~CanAudit(c, t)
          /\ Listed(c, q) = {}

\* The callers of whom that is so, whatever they ask for.
Agreeing == {c \in Caller : \A q \in Query : Agrees(c, q)}
=============================================================================
