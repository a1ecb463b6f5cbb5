------------------------ MODULE TaskLifecycle_proofs ------------------------
(***************************************************************************)
(* Proofs about TaskLifecycle, for every number of tasks, requests, users, *)
(* attempts and crashes.                                                   *)
(***************************************************************************)
EXTENDS TaskLifecycle, SequenceTheorems, TLAPS

USE DEF Terminal, Active, Process, Scheduler

-----------------------------------------------------------------------------
\* The types alone are not inductive: a claim logs the status it has read, and only
\* because it was read from an open row is that the status of an entry.
Grounded(p) ==
    /\ op[p].pc \in InFlight => op[p].task \in Task
    /\ op[p].pc = "claiming" => op[p].user \in User /\ op[p].seen.status \in Active

Typed == TypeOK /\ \A p \in Process : Grounded(p)

\* What a notifier loads is a row that was inserted.
Rows == \A t \in table : task[t].status # "absent"

\* What a transaction appends to the audit trail is one more entry.
LEMMA LogTyped ==
  ASSUME audit \in [Task -> Seq(Entry)], NEW t \in Task, NEW action, NEW to, NEW by,
         NEW attempt,
         [action |-> action, to |-> to, by |-> by, attempt |-> attempt] \in Entry,
         Log(t, action, to, by, attempt)
  PROVE  audit' \in [Task -> Seq(Entry)]
  <1> DEFINE e == [action |-> action, to |-> to, by |-> by, attempt |-> attempt]
  <1>1. Append(audit[t], e) \in Seq(Entry)
      BY AppendProperties
  <1>2. audit' = [audit EXCEPT ![t] = Append(audit[t], e)]
      BY DEF Log
  <1> HIDE DEF e
  <1> QED
      BY <1>1, <1>2

LEMMA InitTyped == Init => Typed
  <1> SUFFICES ASSUME Init PROVE Typed
      OBVIOUS
  <1>1. TypeOK
      BY LifecycleAssumption DEF Init, TypeOK, NoRow, IdleOp, NoBody, Row, Op, Body, Entry,
                                   NotStarted, Notifier
  <1>2. \A p \in Process : Grounded(p)
      BY DEF Init, Grounded, IdleOp, InFlight
  <1> QED
      BY <1>1, <1>2 DEF Typed

\* A guarded UPDATE of the status or of the assignee leaves a row.
LEMMA RowUpdates ==
  ASSUME NEW row \in Row
  PROVE  /\ \A s \in Active \union Terminal : [row EXCEPT !.status = s] \in Row
         /\ \A u \in User : [row EXCEPT !.assignee = u] \in Row
  BY DEF Row

LEMMA CreateTyped ==
  ASSUME Typed, NEW t \in Task, NEW assignee \in User \union {NONE},
         NEW reviewed \in BOOLEAN, NEW callback \in BOOLEAN,
         Create(t, assignee, reviewed, callback)
  PROVE  Typed'
  <1>1. [NoRow EXCEPT !.status = "created", !.assignee = assignee,
                      !.reviewed = reviewed, !.callback = callback] \in Row
      BY DEF NoRow, Row
  <1>2. task' \in [Task -> Row]
      BY <1>1 DEF Create, Typed, TypeOK
  <1>3. audit' \in [Task -> Seq(Entry)]
      <2>1. [action |-> "created", to |-> "created", by |-> "agent", attempt |-> 0] \in Entry
          BY DEF Entry
      <2> QED
          BY <2>1, LogTyped DEF Create, Typed, TypeOK
  <1> QED
      BY <1>2, <1>3 DEF Create, Typed, TypeOK, Grounded

LEMMA BeginSubmitTyped ==
  ASSUME Typed, NEW r \in Request, NEW t \in Task, NEW c \in Channel, BeginSubmit(r, t, c)
  PROVE  Typed'
  <1>1. task[t].attempt \in Nat
      BY DEF Typed, TypeOK, Row
  <1>2. op' \in [Process -> Op]
      BY <1>1 DEF BeginSubmit, Typed, TypeOK, Op, IdleOp, NoBody, Body
  <1>3. \A p \in Process : Grounded(p)'
      BY DEF BeginSubmit, Typed, TypeOK, Grounded, IdleOp, InFlight
  <1> QED
      BY <1>2, <1>3 DEF BeginSubmit, Typed, TypeOK

\* A handler that returns, or raises, has a well-typed local state again.
LEMMA ReturnTyped ==
  ASSUME Typed, NEW p \in Process, NEW pc \in {"done", "refused", "failed"}, Return(p, pc)
  PROVE  /\ op' \in [Process -> Op]
         /\ \A q \in Process : Grounded(q)'
  <1>1. IdleOp \in Op
      BY DEF IdleOp, Op, NoBody, Body
  <1>2. [op[p] EXCEPT !.pc = pc] \in Op
      <2>1. op[p] \in Op
          BY DEF Typed, TypeOK
      <2> QED
          BY <2>1 DEF Op
  <1>3. op' \in [Process -> Op]
      BY <1>1, <1>2 DEF Return, Typed, TypeOK
  <1>4. \A q \in Process : Grounded(q)'
      BY DEF Return, Typed, TypeOK, Grounded, IdleOp, InFlight, Op
  <1> QED
      BY <1>3, <1>4

LEMMA VerifierFailsTyped ==
  ASSUME Typed, NEW r \in Request, VerifierFails(r)
  PROVE  Typed'
  BY ReturnTyped DEF VerifierFails, Typed, TypeOK

LEMMA RecordSubmissionTyped ==
  ASSUME Typed, NEW r \in Request, NEW verdict \in {"passed", "failed", "unreviewed"},
         RecordSubmission(r, verdict)
  PROVE  Typed'
  <1> DEFINE t == op[r].task
             newAttempt == op[r].attempt + 1
             target == TargetStatus(verdict, newAttempt)
  <1>1. t \in Task /\ newAttempt \in Nat
      BY DEF RecordSubmission, Typed, TypeOK, Grounded, InFlight, Op
  <1>2. target \in {"completed", "rejected", "verification_exhausted"}
      BY DEF TargetStatus
  <1>3. AuditAction(verdict, target)
          \in {"completed", "verified", "rejected", "verification_exhausted"}
      BY <1>2 DEF AuditAction
  <1>4. task' \in [Task -> Row]
      <2> DEFINE n == IF task[t].reviewed THEN newAttempt ELSE task[t].attempt
      <2>1. task[t] \in Row
          BY <1>1 DEF Typed, TypeOK
      <2>2. n \in Nat
          BY <1>1, <2>1 DEF Row
      <2>3. [task[t] EXCEPT !.status = target, !.answer = r, !.attempt = n] \in Row
          BY <1>2, <2>1, <2>2 DEF Row
      <2>4. task' = [task EXCEPT ![t] = [task[t] EXCEPT !.status = target, !.answer = r,
                                                        !.attempt = n]]
          BY <1>1 DEF RecordSubmission, Typed, TypeOK
      <2> QED
          BY <2>3, <2>4 DEF Typed, TypeOK
  <1>5. audit' \in [Task -> Seq(Entry)]
      <2> DEFINE n == IF task[t].reviewed THEN newAttempt ELSE 0
      <2>1. [action |-> AuditAction(verdict, target), to |-> target, by |-> r, attempt |-> n]
              \in Entry
          BY <1>1, <1>2, <1>3 DEF Entry
      <2>2. Log(t, AuditAction(verdict, target), target, r, n)
          BY DEF RecordSubmission
      <2> QED
          BY <1>1, <2>1, <2>2, LogTyped DEF Typed, TypeOK
  <1>6. op' \in [Process -> Op]
      <2>1. op[r] \in Op
          BY DEF Typed, TypeOK
      <2>2. \A pc \in {"refreshing", "done"} :
               [op[r] EXCEPT !.pc = pc, !.verdict = verdict] \in Op
          BY <2>1 DEF Op
      <2>3. \E pc \in {"refreshing", "done"} :
               op' = [op EXCEPT ![r] = [op[r] EXCEPT !.pc = pc, !.verdict = verdict]]
          BY DEF RecordSubmission, Typed, TypeOK
      <2> QED
          BY <2>2, <2>3 DEF Typed, TypeOK
  <1>7. \A p \in Process : Grounded(p)'
      BY <1>1 DEF RecordSubmission, Typed, TypeOK, Grounded, InFlight, Op
  <1> QED
      BY <1>4, <1>5, <1>6, <1>7 DEF RecordSubmission, Typed, TypeOK

LEMMA SubmissionTooLateTyped ==
  ASSUME Typed, NEW r \in Request, SubmissionTooLate(r)
  PROVE  Typed'
  BY ReturnTyped DEF SubmissionTooLate, Typed, TypeOK

LEMMA BeginClaimTyped ==
  ASSUME Typed, NEW r \in Request, NEW t \in Task, NEW u \in User, BeginClaim(r, t, u)
  PROVE  Typed'
  <1>1. BodyOf(t) \in Body
      BY DEF Typed, TypeOK, Row, Body, BodyOf
  <1>2. op' \in [Process -> Op]
      BY <1>1 DEF BeginClaim, Typed, TypeOK, Op, IdleOp
  <1>3. \A p \in Process : Grounded(p)'
      BY DEF BeginClaim, Typed, TypeOK, Grounded, IdleOp, InFlight, Open, BodyOf
  <1> QED
      BY <1>2, <1>3 DEF BeginClaim, Typed, TypeOK

LEMMA RecordClaimTyped ==
  ASSUME Typed, NEW r \in Request, RecordClaim(r)
  PROVE  Typed'
  <1> DEFINE t == op[r].task
             seen == op[r].seen.status
  <1>1. t \in Task /\ op[r].user \in User /\ seen \in Active
      BY DEF RecordClaim, Typed, TypeOK, Grounded, InFlight
  <1>2. task' \in [Task -> Row]
      <2>1. [task[t] EXCEPT !.assignee = op[r].user] \in Row
          BY <1>1, RowUpdates DEF Typed, TypeOK
      <2> QED
          BY <2>1 DEF RecordClaim, Typed, TypeOK
  <1>3. [action |-> "claimed", to |-> seen, by |-> r, attempt |-> 0] \in Entry
      BY <1>1 DEF Entry
  <1>4. audit' \in [Task -> Seq(Entry)]
      BY <1>1, <1>3, LogTyped DEF RecordClaim, Typed, TypeOK
  <1> QED
      BY <1>2, <1>4, ReturnTyped DEF RecordClaim, Typed, TypeOK

LEMMA ClaimTooLateTyped ==
  ASSUME Typed, NEW r \in Request, ClaimTooLate(r)
  PROVE  Typed'
  BY ReturnTyped DEF ClaimTooLate, Typed, TypeOK

LEMMA EmailHandoffTyped ==
  ASSUME Typed, NEW t \in Task, NEW u \in User, EmailHandoff(t, u)
  PROVE  Typed'
  <1>1. task' \in [Task -> Row]
      <2>1. [task[t] EXCEPT !.assignee = u] \in Row
          BY RowUpdates DEF Typed, TypeOK
      <2> QED
          BY <2>1 DEF EmailHandoff, Typed, TypeOK
  <1> QED
      BY <1>1 DEF EmailHandoff, Typed, TypeOK, Grounded

LEMMA CancelTyped ==
  ASSUME Typed, NEW r \in Request, NEW t \in Task, Cancel(r, t)
  PROVE  Typed'
  <1>1. task' \in [Task -> Row]
      <2>1. [task[t] EXCEPT !.status = "cancelled"] \in Row
          BY RowUpdates DEF Typed, TypeOK
      <2> QED
          BY <2>1 DEF Cancel, Typed, TypeOK
  <1>2. [action |-> "cancelled", to |-> "cancelled", by |-> r, attempt |-> 0] \in Entry
      BY DEF Entry
  <1>3. audit' \in [Task -> Seq(Entry)]
      BY <1>2, LogTyped DEF Cancel, Typed, TypeOK
  <1>4. op' \in [Process -> Op]
      BY DEF Cancel, Typed, TypeOK, Op, IdleOp, NoBody, Body
  <1>5. \A p \in Process : Grounded(p)'
      BY DEF Cancel, Typed, TypeOK, Grounded, IdleOp, InFlight
  <1> QED
      BY <1>1, <1>3, <1>4, <1>5 DEF Cancel, Typed, TypeOK

LEMMA DeleteTyped ==
  ASSUME Typed, NEW t \in Task, Delete(t)
  PROVE  Typed'
  BY DEF Delete, Typed, TypeOK, Grounded

LEMMA RefreshTyped ==
  ASSUME Typed, NEW p \in Process, Refresh(p)
  PROVE  Typed'
  <1> DEFINE t == op[p].task
  <1>1. t \in Task
      BY DEF Refresh, Typed, TypeOK, Grounded, InFlight
  <1>2. CASE t \in table
      <2>1. BodyOf(t) \in Body
          BY <1>1 DEF Typed, TypeOK, Row, Body, BodyOf
      <2>2. op[p] \in Op
          BY DEF Typed, TypeOK
      <2>3. PICK pc \in {"announcing", "done"} :
               op' = [op EXCEPT ![p] = [op[p] EXCEPT !.pc = pc, !.seen = BodyOf(t)]]
          BY <1>2 DEF Refresh, Typed, TypeOK
      <2>4. [op[p] EXCEPT !.pc = pc, !.seen = BodyOf(t)] \in Op
          BY <2>1, <2>2 DEF Op
      <2>5. op' \in [Process -> Op]
          BY <2>3, <2>4 DEF Typed, TypeOK
      <2>6. op'[p].task = t /\ op'[p].pc # "claiming"
          BY <2>2, <2>3, <2>4 DEF Typed, TypeOK, Op
      <2>7. \A q \in Process : Grounded(q)'
          BY <1>1, <2>3, <2>6 DEF Typed, TypeOK, Grounded, InFlight
      <2> QED
          BY <1>2, <2>5, <2>7 DEF Refresh, Typed, TypeOK
  <1>3. CASE t \notin table
      BY <1>3, ReturnTyped DEF Refresh, Raise, Typed, TypeOK
  <1> QED
      BY <1>2, <1>3

LEMMA AnnounceTyped ==
  ASSUME Typed, NEW p \in Process, Announce(p)
  PROVE  Typed'
  <1> DEFINE t == op[p].task
  <1>1. t \in Task /\ op[p].seen \in Body
      BY DEF Announce, Typed, TypeOK, Grounded, InFlight, Op
  <1>2. Append(outbox[t], op[p].seen) \in Seq(Body)
      BY <1>1, AppendProperties DEF Typed, TypeOK
  <1>3. outbox' \in [Task -> Seq(Body)]
      BY <1>1, <1>2 DEF Announce, Typed, TypeOK
  <1>4. batch' \subseteq Task
      BY DEF Announce, Raise, Typed, TypeOK
  <1> QED
      BY <1>3, <1>4, ReturnTyped DEF Announce, Raise, Typed, TypeOK

LEMMA SweepTyped ==
  ASSUME Typed, Sweep
  PROVE  Typed'
  BY DEF Sweep, Typed, TypeOK, Grounded

LEMMA TimeOutTyped ==
  ASSUME Typed, NEW t \in Task, TimeOut(t)
  PROVE  Typed'
  <1>1. CASE t \notin table
      BY <1>1, ReturnTyped DEF TimeOut, Open, Raise, Typed, TypeOK
  <1>2. CASE t \in table
      <2>1. task' \in [Task -> Row]
          <3>1. [task[t] EXCEPT !.status = "timed_out"] \in Row
              BY RowUpdates DEF Typed, TypeOK
          <3> QED
              BY <3>1 DEF TimeOut, Typed, TypeOK
      <2>2. [action |-> "timed_out", to |-> "timed_out", by |-> Scheduler, attempt |-> 0]
              \in Entry
          BY DEF Entry
      <2>3. audit' \in [Task -> Seq(Entry)]
          BY <2>2, LogTyped DEF TimeOut, Typed, TypeOK
      <2>4. BodyOf(t) \in Body
          BY DEF Typed, TypeOK, Row, Body, BodyOf
      <2>5. PICK pc \in {"refreshing", "announcing"}, b \in Body :
               op' = [op EXCEPT ![Scheduler] =
                        [IdleOp EXCEPT !.pc = pc, !.kind = "sweep", !.task = t, !.seen = b]]
          <3>1. CASE Open(t)
              <4>1. NoBody \in Body
                  BY DEF NoBody, Body
              <4>2. [IdleOp EXCEPT !.pc = "refreshing", !.kind = "sweep", !.task = t]
                      = [IdleOp EXCEPT !.pc = "refreshing", !.kind = "sweep", !.task = t,
                                       !.seen = NoBody]
                  <5>1. IdleOp \in Op /\ IdleOp.seen = NoBody
                      BY DEF IdleOp, Op, NoBody, Body
                  <5>2. \A o \in Op : [o EXCEPT !.pc = "refreshing", !.kind = "sweep", !.task = t]
                                        = [o EXCEPT !.pc = "refreshing", !.kind = "sweep",
                                                    !.task = t, !.seen = o.seen]
                      BY DEF Op
                  <5> QED
                      BY <5>1, <5>2
              <4>3. op' = [op EXCEPT ![Scheduler] =
                             [IdleOp EXCEPT !.pc = "refreshing", !.kind = "sweep", !.task = t]]
                  BY <1>2, <3>1 DEF TimeOut, Open
              <4> QED
                  BY <4>1, <4>2, <4>3
          <3>2. CASE ~Open(t)
              BY <1>2, <2>4, <3>2 DEF TimeOut
          <3> QED
              BY <3>1, <3>2
      <2>6. [IdleOp EXCEPT !.pc = pc, !.kind = "sweep", !.task = t, !.seen = b] \in Op
          BY DEF Op, IdleOp
      <2>7. op' \in [Process -> Op]
          BY <2>5, <2>6 DEF Typed, TypeOK
      <2>8. \A p \in Process : Grounded(p)'
          BY <2>5 DEF Typed, TypeOK, Grounded, IdleOp, InFlight
      <2> QED
          BY <1>2, <2>1, <2>3, <2>7, <2>8 DEF TimeOut, Typed, TypeOK
  <1> QED
      BY <1>1, <1>2

LEMMA ExpireTyped ==
  ASSUME Typed, NEW t \in Task, Expire(t)
  PROVE  Typed'
  BY DEF Expire, Typed, TypeOK, Grounded

LEMMA CrashTyped ==
  ASSUME Typed, Crash
  PROVE  Typed'
  <1>1. op' \in [Process -> Op]
      <2>1. IdleOp \in Op
          BY DEF IdleOp, Op, NoBody, Body
      <2>2. \A o \in Op : [o EXCEPT !.pc = "lost"] \in Op
          BY DEF Op
      <2> QED
          BY <2>1, <2>2 DEF Crash, Typed, TypeOK
  <1>2. \A p \in Process : Grounded(p)'
      BY DEF Crash, Typed, TypeOK, Grounded, IdleOp, InFlight
  <1>3. crashes' \in 0..MaxCrashes
      BY LifecycleAssumption DEF Crash, Typed, TypeOK
  <1>4. notifier' \in [Task -> Notifier]
      <2>1. NotStarted \in Notifier /\ [NotStarted EXCEPT !.channel = "lost"] \in Notifier
          BY LifecycleAssumption DEF NotStarted, Notifier
      <2> QED
          BY <2>1 DEF Crash
  <1> QED
      BY <1>1, <1>2, <1>3, <1>4 DEF Crash, Typed, TypeOK

LEMMA LoadForNotifyTyped ==
  ASSUME Typed, Rows, NEW t \in Task, NEW c \in Notifying, LoadForNotify(t, c)
  PROVE  Typed'
  <1>1. [channel |-> c, seen |-> task[t].status, left |-> MaxRoutes] \in Notifier
      BY LifecycleAssumption DEF LoadForNotify, Rows, Typed, TypeOK, Row, Notifying, Notifier
  <1>2. notifier' \in [Task -> Notifier]
      BY <1>1 DEF LoadForNotify, Typed, TypeOK
  <1> QED
      BY <1>2 DEF LoadForNotify, Typed, TypeOK, Grounded

LEMMA NotifyFailsTyped ==
  ASSUME Typed, NEW t \in Task, NotifyFails(t)
  PROVE  Typed'
  <1>1. notifier[t] \in Notifier /\ notifier[t].left - 1 \in 0..MaxRoutes
      BY LifecycleAssumption DEF NotifyFails, Typed, TypeOK, Notifier
  <1>2. [notifier[t] EXCEPT !.left = notifier[t].left - 1] \in Notifier
      BY <1>1 DEF Notifier
  <1>3. notifier' \in [Task -> Notifier]
      BY <1>2 DEF NotifyFails, Typed, TypeOK
  <1>4. [action |-> "notification_failed", to |-> notifier[t].seen, by |-> "notifier",
         attempt |-> 0] \in Entry
      BY <1>1 DEF Entry, Notifier
  <1>5. audit' \in [Task -> Seq(Entry)]
      BY <1>4, LogTyped DEF NotifyFails, Typed, TypeOK
  <1> QED
      BY <1>3, <1>5 DEF NotifyFails, Typed, TypeOK, Grounded

\* Every action of Next, and a stutter, preserves Typed.
LEMMA NextTyped == Typed /\ Rows /\ [Next]_vars => Typed'
  <1> SUFFICES ASSUME Typed, Rows, [Next]_vars PROVE Typed'
      OBVIOUS
  <1>1. ASSUME NEW t \in Task, NEW assignee \in User \union {NONE},
               NEW reviewed \in BOOLEAN, NEW callback \in BOOLEAN,
               Create(t, assignee, reviewed, callback)
        PROVE  Typed'
      BY <1>1, CreateTyped
  <1>2. ASSUME NEW r \in Request, NEW t \in Task, Begin(r, t)
        PROVE  Typed'
      BY <1>2, BeginSubmitTyped, BeginClaimTyped, CancelTyped DEF Begin
  <1>3. ASSUME NEW r \in Request, Continue(r)
        PROVE  Typed'
      <2>1. r \in Process
          OBVIOUS
      <2> QED
          BY <1>3, <2>1, RecordSubmissionTyped, SubmissionTooLateTyped, VerifierFailsTyped,
             RecordClaimTyped, ClaimTooLateTyped, RefreshTyped, AnnounceTyped DEF Continue
  <1>4. CASE SchedulerStep
      <2>1. Scheduler \in Process
          OBVIOUS
      <2> QED
          BY <1>4, <2>1, SweepTyped, TimeOutTyped, RefreshTyped, AnnounceTyped DEF SchedulerStep
  <1>5. ASSUME NEW t \in Task, Expire(t) \/ Delete(t)
        PROVE  Typed'
      BY <1>5, ExpireTyped, DeleteTyped
  <1>6. ASSUME NEW t \in Task, NEW u \in User, EmailHandoff(t, u)
        PROVE  Typed'
      BY <1>6, EmailHandoffTyped
  <1>7. CASE Crash
      BY <1>7, CrashTyped
  <1>8. CASE UNCHANGED vars
      BY <1>8 DEF vars, Typed, TypeOK, Grounded
  <1>9. ASSUME NEW t \in Task, NotifyFails(t) \/ \E c \in Notifying : LoadForNotify(t, c)
        PROVE  Typed'
      BY <1>9, NotifyFailsTyped, LoadForNotifyTyped
  <1> QED
      BY <1>1, <1>2, <1>3, <1>4, <1>5, <1>6, <1>7, <1>8, <1>9 DEF Next

\* A row enters the table with a status, and no step takes its status away.
LEMMA NextRows == Typed /\ Rows /\ [Next]_vars => Rows'
  <1> SUFFICES ASSUME Typed, Rows, [Next]_vars PROVE Rows'
      OBVIOUS
  <1>1. CASE UNCHANGED task /\ table' \subseteq table
      BY <1>1 DEF Rows
  <1>2. ASSUME NEW t \in Task, NEW assignee \in User \union {NONE},
               NEW reviewed \in BOOLEAN, NEW callback \in BOOLEAN,
               Create(t, assignee, reviewed, callback)
        PROVE  Rows'
      <2>1. task'[t].status = "created" /\ \A x \in Task : x # t => task'[x] = task[x]
          BY <1>2 DEF Create, Typed, TypeOK, NoRow
      <2> QED
          BY <1>2, <2>1 DEF Create, Rows, Typed, TypeOK
  <1>4. ASSUME NEW r \in Request, NEW verdict \in {"passed", "failed", "unreviewed"},
               RecordSubmission(r, verdict)
        PROVE  Rows'
      <2> PICK t \in Task : t = op[r].task
          BY <1>4 DEF RecordSubmission, Typed, TypeOK, Grounded, InFlight
      <2>1. task'[t].status = TargetStatus(verdict, op[r].attempt + 1)
          BY <1>4 DEF RecordSubmission, Typed, TypeOK, Row
      <2>2. task'[t].status # "absent"
          BY <2>1 DEF TargetStatus
      <2>3. \A x \in Task : x # t => task'[x] = task[x]
          BY <1>4 DEF RecordSubmission, Typed, TypeOK
      <2> QED
          BY <1>4, <2>2, <2>3 DEF RecordSubmission, Rows, Typed, TypeOK
  <1>5. ASSUME NEW r \in Request, RecordClaim(r)
        PROVE  Rows'
      <2>1. \A x \in Task : task'[x].status = task[x].status
          BY <1>5 DEF RecordClaim, Typed, TypeOK, Grounded, InFlight, Row
      <2> QED
          BY <1>5, <2>1 DEF RecordClaim, Rows, Typed, TypeOK
  <1>6. ASSUME NEW t \in Task, NEW status \in {"cancelled", "timed_out"}, UNCHANGED table,
               task' = [task EXCEPT ![t].status = status]
        PROVE  Rows'
      <2>1. \A x \in Task : task'[x].status \in {task[x].status, status}
          BY <1>6 DEF Typed, TypeOK, Row
      <2> QED
          BY <1>6, <2>1 DEF Rows, Typed, TypeOK
  <1>7. ASSUME NEW t \in Task, NEW u \in User, EmailHandoff(t, u)
        PROVE  Rows'
      <2>1. \A x \in Task : task'[x].status = task[x].status
          BY <1>7 DEF EmailHandoff, Typed, TypeOK, Row
      <2> QED
          BY <1>7, <2>1 DEF EmailHandoff, Rows, Typed, TypeOK
  <1>8. ASSUME NEW r \in Request, NEW t \in Task, Begin(r, t)
        PROVE  Rows'
      BY <1>1, <1>6, <1>8 DEF Begin, BeginSubmit, BeginClaim, Cancel
  <1>9. ASSUME NEW r \in Request, Continue(r)
        PROVE  Rows'
      BY <1>1, <1>4, <1>5, <1>9
         DEF Continue, SubmissionTooLate, VerifierFails, ClaimTooLate, Refresh, Announce
  <1>10. CASE SchedulerStep
      BY <1>1, <1>6, <1>10 DEF SchedulerStep, Sweep, TimeOut, Refresh, Announce
  <1> QED
      BY <1>1, <1>2, <1>7, <1>8, <1>9, <1>10
         DEF Next, Expire, Delete, Crash, LoadForNotify, NotifyFails, vars

\* Every reachable state is well typed, and a handler in flight works on a real task.
THEOREM AlwaysTyped == Spec => []Typed
  <1>1. Init => Rows
      BY DEF Init, Rows
  <1> QED
      BY <1>1, InitTyped, NextTyped, NextRows, PTL DEF Spec

\* The type invariant of the runs.
THEOREM TypeCorrect == Spec => []TypeOK
  <1>1. Typed => TypeOK
      BY DEF Typed
  <1> QED
      BY <1>1, AlwaysTyped, PTL

-----------------------------------------------------------------------------
(***************************************************************************)
(* What one step may do to a row and to its audit trail: nothing, or add   *)
(* one entry.  A transition is added to the trail of an unsettled task and *)
(* describes the row as the step leaves it; any other entry leaves the row *)
(* as it is, and names an ended status only if a notifier has loaded it.   *)
(***************************************************************************)
Describes(e, t) ==
    \/ /\ ~IsTransition(e)
       /\ BodyOf(t)' = BodyOf(t)
       /\ e.to \in Terminal => notifier[t].channel \in Notifying /\ e.to = notifier[t].seen
    \/ /\ IsTransition(e)
       /\ ~Settled(t)
       /\ e.to = task'[t].status
       /\ IsSubmission(e) => e.by = task'[t].answer

RowStep(t) ==
    \/ audit'[t] = audit[t] /\ BodyOf(t)' = BodyOf(t)
    \/ \E e \in Entry : audit'[t] = Append(audit[t], e) /\ Describes(e, t)

\* Log adds its entry to the trail of t and leaves the others alone.
LEMMA LogAppends ==
  ASSUME Typed, NEW t \in Task, NEW action, NEW to, NEW by, NEW attempt,
         Log(t, action, to, by, attempt)
  PROVE  /\ audit'[t] = Append(audit[t], [action |-> action, to |-> to,
                                          by |-> by, attempt |-> attempt])
         /\ \A x \in Task : x # t => audit'[x] = audit[x]
  BY DEF Log, Typed, TypeOK

LEMMA CreateRowStep ==
  ASSUME Typed, NEW t \in Task, NEW assignee \in User \union {NONE},
         NEW reviewed \in BOOLEAN, NEW callback \in BOOLEAN,
         Create(t, assignee, reviewed, callback)
  PROVE  \A x \in Task : RowStep(x)
  <1> DEFINE e == [action |-> "created", to |-> "created", by |-> "agent", attempt |-> 0]
  <1>1. e \in Entry
      BY DEF Entry
  <1>2. audit'[t] = Append(audit[t], e) /\ \A x \in Task : x # t => audit'[x] = audit[x]
      BY LogAppends DEF Create
  <1>3. task'[t].status = "created"
      BY DEF Create, Typed, TypeOK, NoRow
  <1>4. \A x \in Task : x # t => task'[x] = task[x]
      BY DEF Create, Typed, TypeOK
  <1>5. ~Settled(t)
      BY DEF Create, Settled
  <1>6. Describes(e, t)
      BY <1>3, <1>5 DEF Describes, IsTransition, IsSubmission
  <1> HIDE DEF e
  <1> QED
      BY <1>1, <1>2, <1>4, <1>6 DEF RowStep, BodyOf

LEMMA RecordSubmissionRowStep ==
  ASSUME Typed, NEW r \in Request, NEW verdict \in {"passed", "failed", "unreviewed"},
         RecordSubmission(r, verdict)
  PROVE  \A x \in Task : RowStep(x)
  <1> PICK t \in Task : t = op[r].task
      BY DEF RecordSubmission, Typed, TypeOK, Grounded, InFlight
  <1> DEFINE newAttempt == op[r].attempt + 1
             target == TargetStatus(verdict, newAttempt)
             action == AuditAction(verdict, target)
             n == IF task[t].reviewed THEN newAttempt ELSE 0
             e == [action |-> action, to |-> target, by |-> r, attempt |-> n]
  <1>1. newAttempt \in Nat
      BY DEF RecordSubmission, Typed, TypeOK, Grounded, InFlight, Op
  <1>2. target \in {"completed", "rejected", "verification_exhausted"}
      BY DEF TargetStatus
  <1>3. action \in {"completed", "verified", "rejected", "verification_exhausted"}
      BY <1>2 DEF AuditAction
  <1>4. e \in Entry
      BY <1>1, <1>2, <1>3 DEF Entry
  <1>5. audit'[t] = Append(audit[t], e) /\ \A x \in Task : x # t => audit'[x] = audit[x]
      BY <1>1, LogAppends DEF RecordSubmission
  <1>6. task'[t].status = target /\ task'[t].answer = r
      BY <1>1 DEF RecordSubmission, Typed, TypeOK, Row
  <1>7. \A x \in Task : x # t => task'[x] = task[x]
      BY <1>1 DEF RecordSubmission, Typed, TypeOK
  <1>8. ~Settled(t)
      BY DEF RecordSubmission, Open, Settled
  <1>9. Describes(e, t)
      BY <1>3, <1>6, <1>8 DEF Describes, IsTransition
  <1> HIDE DEF e
  <1> QED
      BY <1>1, <1>4, <1>5, <1>7, <1>9 DEF RowStep, BodyOf

LEMMA RecordClaimRowStep ==
  ASSUME Typed, NEW r \in Request, RecordClaim(r)
  PROVE  \A x \in Task : RowStep(x)
  <1> PICK t \in Task : t = op[r].task
      BY DEF RecordClaim, Typed, TypeOK, Grounded, InFlight
  <1> DEFINE e == [action |-> "claimed", to |-> op[r].seen.status, by |-> r, attempt |-> 0]
  <1>1. op[r].seen.status \in Active
      BY DEF RecordClaim, Typed, TypeOK, Grounded, InFlight
  <1>2. e \in Entry
      BY <1>1 DEF Entry
  <1>3. audit'[t] = Append(audit[t], e) /\ \A x \in Task : x # t => audit'[x] = audit[x]
      BY <1>1, LogAppends DEF RecordClaim
  <1>4. \A x \in Task : BodyOf(x)' = BodyOf(x)
      BY <1>1 DEF RecordClaim, Typed, TypeOK, Row, BodyOf
  <1>5. Describes(e, t)
      BY <1>1, <1>4 DEF Describes, IsTransition
  <1> HIDE DEF e
  <1> QED
      BY <1>1, <1>2, <1>3, <1>4, <1>5 DEF RowStep

\* A notifier's report.
LEMMA NotifyFailsRowStep ==
  ASSUME Typed, NEW t \in Task, NotifyFails(t)
  PROVE  \A x \in Task : RowStep(x)
  <1> DEFINE e == [action |-> "notification_failed", to |-> notifier[t].seen,
                   by |-> "notifier", attempt |-> 0]
  <1>1. e \in Entry
      BY DEF Entry, Typed, TypeOK, Notifier
  <1>2. audit'[t] = Append(audit[t], e) /\ \A x \in Task : x # t => audit'[x] = audit[x]
      BY LogAppends DEF NotifyFails
  <1>3. \A x \in Task : BodyOf(x)' = BodyOf(x)
      BY DEF NotifyFails, BodyOf
  <1>4. Describes(e, t)
      BY <1>3 DEF Describes, IsTransition, NotifyFails
  <1> HIDE DEF e
  <1> QED
      BY <1>1, <1>2, <1>3, <1>4 DEF RowStep

LEMMA EmailHandoffRowStep ==
  ASSUME Typed, NEW t \in Task, NEW u \in User, EmailHandoff(t, u)
  PROVE  \A x \in Task : RowStep(x)
  BY DEF EmailHandoff, Typed, TypeOK, Row, RowStep, BodyOf

\* Cancel and TimeOut settle an open task with a status of their own.
LEMMA SettlingRowStep ==
  ASSUME Typed, NEW t \in Task, NEW by \in Process, NEW status \in {"cancelled", "timed_out"},
         Open(t), task' = [task EXCEPT ![t].status = status], Log(t, status, status, by, 0)
  PROVE  \A x \in Task : RowStep(x)
  <1> DEFINE e == [action |-> status, to |-> status, by |-> by, attempt |-> 0]
  <1>1. e \in Entry
      BY DEF Entry
  <1>2. audit'[t] = Append(audit[t], e) /\ \A x \in Task : x # t => audit'[x] = audit[x]
      BY LogAppends
  <1>3. task'[t].status = status /\ \A x \in Task : x # t => task'[x] = task[x]
      BY DEF Typed, TypeOK, Row
  <1>4. ~Settled(t)
      BY DEF Open, Settled
  <1>5. Describes(e, t)
      BY <1>3, <1>4 DEF Describes, IsTransition, IsSubmission
  <1> HIDE DEF e
  <1> QED
      BY <1>1, <1>2, <1>3, <1>5 DEF RowStep, BodyOf

LEMMA UnchangedRowStep ==
  ASSUME UNCHANGED <<task, audit>>
  PROVE  \A x \in Task : RowStep(x)
  BY DEF RowStep, BodyOf

LEMMA NextRowStep ==
  ASSUME Typed, [Next]_vars
  PROVE  \A x \in Task : RowStep(x)
  <1>1. ASSUME NEW t \in Task, NEW assignee \in User \union {NONE},
               NEW reviewed \in BOOLEAN, NEW callback \in BOOLEAN,
               Create(t, assignee, reviewed, callback)
        PROVE  \A x \in Task : RowStep(x)
      BY <1>1, CreateRowStep
  <1>2. ASSUME NEW r \in Request, NEW t \in Task, Begin(r, t)
        PROVE  \A x \in Task : RowStep(x)
      <2>1. CASE \E c \in Channel : BeginSubmit(r, t, c)
          BY <2>1, UnchangedRowStep DEF BeginSubmit
      <2>2. CASE \E u \in User : BeginClaim(r, t, u)
          BY <2>2, UnchangedRowStep DEF BeginClaim
      <2>3. CASE Cancel(r, t) /\ Open(t)
          BY <2>3, SettlingRowStep DEF Cancel
      <2>4. CASE Cancel(r, t) /\ ~Open(t)
          BY <2>4, UnchangedRowStep DEF Cancel
      <2> QED
          BY <1>2, <2>1, <2>2, <2>3, <2>4 DEF Begin
  <1>3. ASSUME NEW r \in Request, Continue(r)
        PROVE  \A x \in Task : RowStep(x)
      BY <1>3, RecordSubmissionRowStep, RecordClaimRowStep, UnchangedRowStep
         DEF Continue, SubmissionTooLate, VerifierFails, ClaimTooLate, Refresh, Announce
  <1>4. CASE SchedulerStep
      <2>1. CASE Sweep \/ Refresh(Scheduler) \/ Announce(Scheduler)
          BY <2>1, UnchangedRowStep DEF Sweep, Refresh, Announce
      <2>2. ASSUME NEW t \in Task, TimeOut(t), Open(t)
            PROVE  \A x \in Task : RowStep(x)
          BY <2>2, SettlingRowStep DEF TimeOut, Open
      <2>3. ASSUME NEW t \in Task, TimeOut(t), ~Open(t)
            PROVE  \A x \in Task : RowStep(x)
          BY <2>3, UnchangedRowStep DEF TimeOut
      <2> QED
          BY <1>4, <2>1, <2>2, <2>3 DEF SchedulerStep
  <1>5. ASSUME NEW t \in Task, Expire(t) \/ Delete(t)
        PROVE  \A x \in Task : RowStep(x)
      BY <1>5, UnchangedRowStep DEF Expire, Delete
  <1>6. ASSUME NEW t \in Task, NEW u \in User, EmailHandoff(t, u)
        PROVE  \A x \in Task : RowStep(x)
      BY <1>6, EmailHandoffRowStep
  <1>7. CASE Crash
      BY <1>7, UnchangedRowStep DEF Crash
  <1>8. CASE UNCHANGED vars
      BY <1>8, UnchangedRowStep DEF vars
  <1>9. ASSUME NEW t \in Task, NotifyFails(t) \/ \E c \in Notifying : LoadForNotify(t, c)
        PROVE  \A x \in Task : RowStep(x)
      BY <1>9, NotifyFailsRowStep, UnchangedRowStep DEF LoadForNotify
  <1> QED
      BY <1>1, <1>2, <1>3, <1>4, <1>5, <1>6, <1>7, <1>8, <1>9 DEF Next

\* First writer wins, for good.
LEMMA SettledStays ==
  ASSUME Typed, [Next]_vars, NEW t \in Task, Settled(t)
  PROVE  BodyOf(t)' = BodyOf(t)
  BY NextRowStep DEF RowStep, Describes

THEOREM SettledForGood == Spec => SettledIsFinal
  <1>1. Typed /\ [Next]_vars => \A t \in Task : Settled(t) => BodyOf(t)' = BodyOf(t)
      BY SettledStays
  <1> QED
      BY <1>1, AlwaysTyped, PTL DEF Spec, SettledIsFinal

-----------------------------------------------------------------------------
(***************************************************************************)
(* The audit trail: both invariants are inductive relative to Typed.       *)
(***************************************************************************)
\* The two ways a trail relates to the one before the step.
LEMMA TrailStep ==
  ASSUME Typed, NEW t \in Task, NEW e \in Entry, audit'[t] = Append(audit[t], e)
  PROVE  /\ Len(audit[t]) \in Nat
         /\ DOMAIN audit[t] = 1..Len(audit[t])
         /\ DOMAIN audit'[t] = 1..(Len(audit[t]) + 1)
         /\ \A i \in DOMAIN audit[t] : audit'[t][i] = audit[t][i]
         /\ audit'[t][Len(audit[t]) + 1] = e
  <1>1. audit[t] \in Seq(Entry)
      BY DEF Typed, TypeOK
  <1> QED
      BY <1>1

\* A notifier that loaded an ended task still has the status it ended with.
Recalled == \A t \in Task : notifier[t].channel \in Notifying /\ notifier[t].seen \in Terminal
                => notifier[t].seen = task[t].status

LEMMA RecalledInductive == Typed /\ Recalled /\ [Next]_vars => Recalled'
  <1> SUFFICES ASSUME Typed, Recalled, [Next]_vars, NEW t \in Task,
                      notifier'[t].channel \in Notifying, notifier'[t].seen \in Terminal
               PROVE  notifier'[t].seen = task'[t].status
      BY DEF Recalled, Notifying
  <1>1. ASSUME notifier[t].channel \in Notifying, notifier[t].seen = notifier'[t].seen
        PROVE  notifier'[t].seen = task'[t].status
      <2>1. Settled(t) /\ notifier[t].seen = task[t].status
          BY <1>1 DEF Recalled, Settled
      <2> QED
          BY <1>1, <2>1, SettledStays DEF BodyOf
  <1>2. CASE UNCHANGED notifier
      BY <1>1, <1>2
  <1>3. ASSUME NEW x \in Task, NEW c \in Notifying, LoadForNotify(x, c)
        PROVE  notifier'[t].seen = task'[t].status
      <2>1. CASE x = t
          BY <1>3, <2>1 DEF LoadForNotify, Typed, TypeOK
      <2>2. CASE x # t
          BY <1>1, <1>3, <2>2 DEF LoadForNotify, Typed, TypeOK
      <2> QED
          BY <2>1, <2>2
  <1>4. ASSUME NEW x \in Task, NotifyFails(x)
        PROVE  notifier'[t].seen = task'[t].status
      <2>1. notifier[x] \in Notifier
          BY DEF Typed, TypeOK
      <2>2. notifier'[t].channel = notifier[t].channel /\ notifier'[t].seen = notifier[t].seen
          BY <1>4, <2>1 DEF NotifyFails, Typed, TypeOK, Notifier
      <2> QED
          BY <1>1, <2>2
  <1>5. CASE Crash
      BY <1>5 DEF Crash, NotStarted, Notifying
  <1> QED
      BY <1>2, <1>3, <1>4, <1>5
         DEF Next, Create, Begin, BeginSubmit, BeginClaim, Cancel, Continue, RecordSubmission,
             SubmissionTooLate, VerifierFails, RecordClaim, ClaimTooLate, Refresh, Announce,
             SchedulerStep, Sweep, TimeOut, Expire, Delete, EmailHandoff, vars

LEMMA SettledOnceInductive ==
  Typed /\ Recalled /\ AuditExplainsRow /\ SettledOnce /\ [Next]_vars => SettledOnce'
  <1> SUFFICES ASSUME Typed, Recalled, AuditExplainsRow, SettledOnce, [Next]_vars, NEW t \in Task
               PROVE  EndsOnce(t)'
      BY DEF SettledOnce
  <1>1. EndsOnce(t)
      BY DEF SettledOnce
  <1>2. CASE audit'[t] = audit[t] /\ BodyOf(t)' = BodyOf(t)
      BY <1>1, <1>2 DEF EndsOnce, Ends, Settled, BodyOf
  <1>3. ASSUME NEW e \in Entry, audit'[t] = Append(audit[t], e), Describes(e, t)
        PROVE  EndsOnce(t)'
      <2> PICK n : n = Len(audit[t]) + 1
          OBVIOUS
      <2>1. /\ DOMAIN audit'[t] = DOMAIN audit[t] \union {n}
            /\ n \notin DOMAIN audit[t]
            /\ \A i \in DOMAIN audit[t] : audit'[t][i] = audit[t][i] /\ i <= n
            /\ audit'[t][n] = e
            /\ n <= n
          BY <1>3, TrailStep
      <2>2. CASE IsTransition(e)
          <3>1. ~Settled(t) /\ (Settled(t)' <=> e.to \in Terminal)
              BY <1>3, <2>2 DEF Describes, Settled
          <3>2. \A i \in DOMAIN audit[t] : audit[t][i].to \notin Terminal
              BY <1>1, <3>1 DEF EndsOnce
          <3>3. Ends(t)' = IF e.to \in Terminal THEN {n} ELSE {}
              BY <2>1, <2>2, <3>2 DEF Ends
          <3>4. ASSUME NEW j \in DOMAIN audit'[t], audit'[t][j].to \in Terminal
                PROVE  j = n /\ n \in Ends(t)'
              BY <2>1, <3>2, <3>3, <3>4
          <3> QED
              BY <2>1, <3>1, <3>3, <3>4 DEF EndsOnce
      <2>3. CASE ~IsTransition(e)
          <3>1. BodyOf(t)' = BodyOf(t) /\ (Settled(t)' <=> Settled(t))
              BY <1>3, <2>3 DEF Describes, IsTransition, Settled, BodyOf
          <3>2. Ends(t)' = Ends(t) /\ Ends(t) \subseteq DOMAIN audit[t]
              BY <2>1, <2>3 DEF Ends
          <3>3. ASSUME NEW j \in DOMAIN audit'[t], audit'[t][j].to \in Terminal
                PROVE  \E i \in Ends(t) : i <= j /\ audit'[t][i].to = audit'[t][j].to
              <4>1. CASE j \in DOMAIN audit[t]
                  BY <1>1, <2>1, <3>2, <3>3, <4>1 DEF EndsOnce
              <4>2. CASE j = n
                  <5>1. e.to \in Terminal /\ e.to = task[t].status
                      BY <1>3, <2>1, <2>3, <3>3, <4>2 DEF Describes, Recalled
                  <5>2. PICK i \in DOMAIN audit[t] :
                           IsTransition(audit[t][i]) /\ audit[t][i].to = task[t].status
                      BY <5>1 DEF AuditExplainsRow
                  <5>3. i \in Ends(t)
                      BY <5>1, <5>2 DEF Ends
                  <5> QED
                      BY <2>1, <4>2, <5>1, <5>2, <5>3
              <4> QED
                  BY <2>1, <4>1, <4>2
          <3> QED
              BY <1>1, <3>1, <3>2, <3>3 DEF EndsOnce
      <2> QED
          BY <2>2, <2>3
  <1> QED
      BY <1>2, <1>3, NextRowStep DEF RowStep

LEMMA AuditExplainsRowInductive ==
  Typed /\ AuditExplainsRow /\ [Next]_vars => AuditExplainsRow'
  <1> DEFINE Explained(trail, row) ==
               \E i \in DOMAIN trail :
                  /\ IsTransition(trail[i])
                  /\ \A j \in DOMAIN trail : j > i => ~IsTransition(trail[j])
                  /\ trail[i].to = row.status
                  /\ IsSubmission(trail[i]) => trail[i].by = row.answer
  <1> SUFFICES ASSUME Typed, AuditExplainsRow, [Next]_vars, NEW t \in Task,
                      task'[t].status # "absent"
               PROVE  Explained(audit'[t], task'[t])
      BY DEF AuditExplainsRow
  <1>1. task[t].status # "absent" => Explained(audit[t], task[t])
      BY DEF AuditExplainsRow
  <1>2. CASE audit'[t] = audit[t] /\ BodyOf(t)' = BodyOf(t)
      BY <1>1, <1>2 DEF BodyOf
  <1>3. ASSUME NEW e \in Entry, audit'[t] = Append(audit[t], e), Describes(e, t)
        PROVE  Explained(audit'[t], task'[t])
      <2> DEFINE n == Len(audit[t]) + 1
      <2>1. n \in DOMAIN audit'[t] /\ audit'[t][n] = e /\ \A j \in DOMAIN audit'[t] : ~(j > n)
          BY <1>3, TrailStep
      <2>2. CASE IsTransition(e)
          BY <1>3, <2>1, <2>2 DEF Describes
      <2>3. CASE ~IsTransition(e)
          <3>1. BodyOf(t)' = BodyOf(t)
              BY <1>3, <2>3 DEF Describes
          <3>2. PICK i \in DOMAIN audit[t] :
                   /\ IsTransition(audit[t][i])
                   /\ \A j \in DOMAIN audit[t] : j > i => ~IsTransition(audit[t][j])
                   /\ audit[t][i].to = task'[t].status
                   /\ IsSubmission(audit[t][i]) => audit[t][i].by = task'[t].answer
              BY <1>1, <3>1 DEF BodyOf
          <3>3. i \in DOMAIN audit'[t] /\ audit'[t][i] = audit[t][i]
              BY <1>3, TrailStep
          <3>4. \A j \in DOMAIN audit'[t] : j > i => ~IsTransition(audit'[t][j])
              BY <1>3, <2>1, <2>3, <3>2, TrailStep
          <3> QED
              BY <3>2, <3>3, <3>4
      <2> QED
          BY <2>2, <2>3
  <1> QED
      BY <1>2, <1>3, NextRowStep DEF RowStep

\* A row's status and answer are those of the last transition of its audit trail.
THEOREM AuditExplains == Spec => []AuditExplainsRow
  <1>1. Init => AuditExplainsRow
      BY DEF Init, AuditExplainsRow, NoRow
  <1> QED
      BY <1>1, AuditExplainsRowInductive, AlwaysTyped, PTL DEF Spec

\* The trail of a settled task has exactly one transition to a terminal status, that of
\* an open one none, and no claim or late report names another end than that.
THEOREM AuditSettlesOnce == Spec => []SettledOnce
  <1>1. Init => Recalled
      BY DEF Init, Recalled, NotStarted, Notifying
  <1>2. Init => SettledOnce
      BY DEF Init, SettledOnce, EndsOnce, Ends, Settled, NoRow
  <1> QED
      BY <1>1, <1>2, RecalledInductive, SettledOnceInductive, AuditExplains, AlwaysTyped, PTL
         DEF Spec

-----------------------------------------------------------------------------
(***************************************************************************)
(* Answers and webhooks: what a handler remembers of a task after its      *)
(* transition is still true when it writes the webhook, because the task   *)
(* has settled.                                                            *)
(***************************************************************************)
Accepted == {"passed", "unreviewed"}

Truthful(p) ==
    /\ op[p].pc = "announcing" =>
          Settled(op[p].task) /\ op[p].seen = BodyOf(op[p].task)
    /\ op[p].verdict \in Accepted =>
          /\ op[p].task \in Task
          /\ BodyOf(op[p].task) = [status |-> "completed", answer |-> p]

\* What a step may make a process remember: what it did before, or what the step
\* finds in the table, or makes of it.
Remembers(p) ==
    /\ op'[p].pc = "announcing" =>
          \/ op[p].pc = "announcing" /\ op'[p].task = op[p].task /\ op'[p].seen = op[p].seen
          \/ \E t \in Task : op'[p].task = t /\ Settled(t) /\ op'[p].seen = BodyOf(t)
    /\ op'[p].verdict \in Accepted =>
          \/ op[p].verdict \in Accepted /\ op'[p].task = op[p].task
          \/ \E t \in Task : op'[p].task = t /\ BodyOf(t)' = [status |-> "completed", answer |-> p]

LEMMA ReturnRemembers ==
  ASSUME Typed, NEW p \in Process, NEW pc \in {"done", "refused", "failed"}, Return(p, pc)
  PROVE  \A q \in Process : Remembers(q)
  <1>1. op[p] \in Op
      BY DEF Typed, TypeOK
  <1>2. op'[p].pc # "announcing"
      BY <1>1 DEF Return, Typed, TypeOK, IdleOp, Op
  <1>3. op'[p].verdict \in Accepted =>
           op[p].verdict \in Accepted /\ op'[p].task = op[p].task
      BY <1>1 DEF Return, Typed, TypeOK, IdleOp, Op, Accepted
  <1>4. \A q \in Process : q # p => op'[q] = op[q]
      BY DEF Return, Typed, TypeOK
  <1> QED
      BY <1>2, <1>3, <1>4 DEF Remembers

LEMMA UnchangedRemembers ==
  ASSUME UNCHANGED op
  PROVE  \A q \in Process : Remembers(q)
  BY DEF Remembers

LEMMA BeginRemembers ==
  ASSUME Typed, NEW r \in Request, NEW t \in Task, Begin(r, t)
  PROVE  \A q \in Process : Remembers(q)
  <1>1. op'[r].pc # "announcing" /\ op'[r].verdict = "none"
      <2>1. ASSUME NEW c \in Channel, BeginSubmit(r, t, c)
            PROVE  op'[r].pc # "announcing" /\ op'[r].verdict = "none"
          BY <2>1 DEF BeginSubmit, Typed, TypeOK, IdleOp
      <2>2. ASSUME NEW u \in User, BeginClaim(r, t, u)
            PROVE  op'[r].pc # "announcing" /\ op'[r].verdict = "none"
          BY <2>2 DEF BeginClaim, Typed, TypeOK, IdleOp
      <2>3. CASE Cancel(r, t)
          BY <2>3 DEF Cancel, Typed, TypeOK, IdleOp
      <2> QED
          BY <2>1, <2>2, <2>3 DEF Begin
  <1>2. \A q \in Process : q # r => op'[q] = op[q]
      BY DEF Begin, BeginSubmit, BeginClaim, Cancel, Typed, TypeOK
  <1> QED
      BY <1>1, <1>2 DEF Remembers, Accepted

LEMMA RecordSubmissionRemembers ==
  ASSUME Typed, NEW r \in Request, NEW verdict \in {"passed", "failed", "unreviewed"},
         RecordSubmission(r, verdict)
  PROVE  \A q \in Process : Remembers(q)
  <1> PICK t \in Task : t = op[r].task
      BY DEF RecordSubmission, Typed, TypeOK, Grounded, InFlight
  <1>1. op[r] \in Op
      BY DEF Typed, TypeOK
  <1>2. op'[r].pc # "announcing" /\ op'[r].task = t /\ op'[r].verdict = verdict
      BY <1>1 DEF RecordSubmission, Typed, TypeOK, Op
  <1>3. verdict \in Accepted => BodyOf(t)' = [status |-> "completed", answer |-> r]
      BY DEF RecordSubmission, TargetStatus, Typed, TypeOK, Row, BodyOf, Accepted
  <1>4. \A q \in Process : q # r => op'[q] = op[q]
      BY DEF RecordSubmission, Typed, TypeOK
  <1> QED
      BY <1>2, <1>3, <1>4 DEF Remembers

LEMMA RefreshRemembers ==
  ASSUME Typed, NEW p \in Process, Refresh(p)
  PROVE  \A q \in Process : Remembers(q)
  <1> PICK t \in Task : t = op[p].task
      BY DEF Refresh, Typed, TypeOK, Grounded, InFlight
  <1>1. CASE t \notin table
      BY <1>1, ReturnRemembers DEF Refresh, Raise
  <1>2. CASE t \in table
      <2>1. op[p] \in Op
          BY DEF Typed, TypeOK
      <2>2. /\ op'[p].task = t
            /\ op'[p].seen = BodyOf(t)
            /\ op'[p].pc = "announcing" => task[t].status \in Terminal
            /\ op'[p].verdict = op[p].verdict
          BY <1>2, <2>1 DEF Refresh, Typed, TypeOK, Op
      <2>3. \A q \in Process : q # p => op'[q] = op[q]
          BY <1>2 DEF Refresh, Typed, TypeOK
      <2> QED
          BY <2>2, <2>3 DEF Remembers, Settled
  <1> QED
      BY <1>1, <1>2

LEMMA TimeOutRemembers ==
  ASSUME Typed, NEW t \in Task, TimeOut(t)
  PROVE  \A q \in Process : Remembers(q)
  <1>1. CASE t \notin table
      BY <1>1, ReturnRemembers DEF TimeOut, Open, Raise
  <1>2. CASE t \in table
      <2>1. /\ op'[Scheduler].pc = "announcing" =>
                  op'[Scheduler].task = t /\ Settled(t) /\ op'[Scheduler].seen = BodyOf(t)
            /\ op'[Scheduler].verdict = "none"
          <3>1. CASE Open(t)
              BY <1>2, <3>1 DEF TimeOut, Open, Typed, TypeOK, IdleOp
          <3>2. CASE ~Open(t)
              BY <1>2, <3>2 DEF TimeOut, Settled, Typed, TypeOK, IdleOp
          <3> QED
              BY <3>1, <3>2
      <2>2. \A q \in Process : q # Scheduler => op'[q] = op[q]
          BY <1>2 DEF TimeOut, Typed, TypeOK
      <2> QED
          BY <2>1, <2>2 DEF Remembers, Accepted
  <1> QED
      BY <1>1, <1>2

LEMMA CrashRemembers ==
  ASSUME Typed, Crash
  PROVE  \A q \in Process : Remembers(q)
  <1> SUFFICES ASSUME NEW q \in Process PROVE Remembers(q)
      OBVIOUS
  <1>1. op[q] \in Op
      BY DEF Typed, TypeOK
  <1>2. op'[q].pc # "announcing"
      BY <1>1 DEF Crash, IdleOp, InFlight, Op
  <1>3. op'[q].verdict \in Accepted =>
           op[q].verdict \in Accepted /\ op'[q].task = op[q].task
      BY <1>1 DEF Crash, IdleOp, Op, Accepted
  <1> QED
      BY <1>2, <1>3 DEF Remembers

LEMMA NextRemembers ==
  ASSUME Typed, [Next]_vars
  PROVE  \A q \in Process : Remembers(q)
  <1>1. ASSUME NEW t \in Task, NEW assignee \in User \union {NONE},
               NEW reviewed \in BOOLEAN, NEW callback \in BOOLEAN,
               Create(t, assignee, reviewed, callback)
        PROVE  \A q \in Process : Remembers(q)
      BY <1>1, UnchangedRemembers DEF Create
  <1>2. ASSUME NEW r \in Request, NEW t \in Task, Begin(r, t)
        PROVE  \A q \in Process : Remembers(q)
      BY <1>2, BeginRemembers
  <1>3. ASSUME NEW p \in Process, Announce(p)
        PROVE  \A q \in Process : Remembers(q)
      BY <1>3, ReturnRemembers DEF Announce, Raise
  <1>4. ASSUME NEW r \in Request, Continue(r)
        PROVE  \A q \in Process : Remembers(q)
      <2>1. r \in Process
          OBVIOUS
      <2> QED
          BY <1>3, <1>4, <2>1, RecordSubmissionRemembers, RefreshRemembers, ReturnRemembers
             DEF Continue, SubmissionTooLate, VerifierFails, RecordClaim, ClaimTooLate
  <1>5. CASE SchedulerStep
      <2>1. Scheduler \in Process
          OBVIOUS
      <2>2. CASE Sweep
          BY <2>2, UnchangedRemembers DEF Sweep
      <2> QED
          BY <1>3, <1>5, <2>1, <2>2, RefreshRemembers, TimeOutRemembers DEF SchedulerStep
  <1>6. ASSUME NEW t \in Task, Expire(t) \/ Delete(t)
        PROVE  \A q \in Process : Remembers(q)
      BY <1>6, UnchangedRemembers DEF Expire, Delete
  <1>7. ASSUME NEW t \in Task, NEW u \in User, EmailHandoff(t, u)
        PROVE  \A q \in Process : Remembers(q)
      BY <1>7, UnchangedRemembers DEF EmailHandoff
  <1>8. CASE Crash
      BY <1>8, CrashRemembers
  <1>9. CASE UNCHANGED vars
      BY <1>9, UnchangedRemembers DEF vars
  <1>10. ASSUME NEW t \in Task, NotifyFails(t) \/ \E c \in Notifying : LoadForNotify(t, c)
         PROVE  \A q \in Process : Remembers(q)
      BY <1>10, UnchangedRemembers DEF NotifyFails, LoadForNotify
  <1> QED
      BY <1>1, <1>2, <1>4, <1>5, <1>6, <1>7, <1>8, <1>9, <1>10 DEF Next

LEMMA TruthfulInductive ==
  Typed /\ (\A p \in Process : Truthful(p)) /\ [Next]_vars => (\A p \in Process : Truthful(p))'
  <1> SUFFICES ASSUME Typed, \A q \in Process : Truthful(q), [Next]_vars, NEW p \in Process
               PROVE  Truthful(p)'
      OBVIOUS
  <1>1. Remembers(p)
      BY NextRemembers
  <1>2. ASSUME op'[p].pc = "announcing"
        PROVE  (Settled(op[p].task) /\ op[p].seen = BodyOf(op[p].task))'
      <2>1. PICK t \in Task : op'[p].task = t /\ Settled(t) /\ op'[p].seen = BodyOf(t)
          BY <1>1, <1>2 DEF Remembers, Truthful, Typed, Grounded, InFlight
      <2>2. BodyOf(t)' = BodyOf(t)
          BY <2>1, SettledStays
      <2> QED
          BY <2>1, <2>2 DEF Settled, BodyOf
  <1>3. ASSUME op'[p].verdict \in Accepted
        PROVE  (/\ op[p].task \in Task
                /\ BodyOf(op[p].task) = [status |-> "completed", answer |-> p])'
      <2>1. PICK t \in Task : /\ op'[p].task = t
                              /\ BodyOf(t)' = [status |-> "completed", answer |-> p]
          <3>1. CASE op[p].verdict \in Accepted /\ op'[p].task = op[p].task
              <4>1. PICK t \in Task : /\ op'[p].task = t
                                      /\ BodyOf(t) = [status |-> "completed", answer |-> p]
                  BY <3>1 DEF Truthful
              <4>2. BodyOf(t)' = BodyOf(t)
                  BY <4>1, SettledStays DEF Settled, BodyOf
              <4> QED
                  BY <4>1, <4>2
          <3> QED
              BY <1>1, <1>3, <3>1 DEF Remembers
      <2> QED
          BY <2>1 DEF BodyOf
  <1> QED
      BY <1>2, <1>3 DEF Truthful, Accepted

LEMMA AlwaysTruthful == Spec => [](\A p \in Process : Truthful(p))
  <1>1. Init => \A p \in Process : Truthful(p)
      BY DEF Init, Truthful, IdleOp, Accepted
  <1> QED
      BY <1>1, TruthfulInductive, AlwaysTyped, PTL DEF Spec

\* A human whose submission was accepted is never overruled.
THEOREM AcceptedForGood == Spec => []AcceptedAnswerStands
  <1>1. (\A p \in Process : Truthful(p)) => AcceptedAnswerStands
      BY DEF Truthful, Accepted, AcceptedAnswerStands
  <1> QED
      BY <1>1, AlwaysTruthful, PTL

-----------------------------------------------------------------------------
(***************************************************************************)
(* Webhooks tell what the task settled with, and the refinement.           *)
(***************************************************************************)
\* A webhook is enqueued for a settled task only, with what it settled with.
LEMMA AnnounceTells ==
  ASSUME Typed, NEW p \in Process, Truthful(p), Announce(p)
  PROVE  \/ UNCHANGED outbox
         \/ \E t \in Task : /\ Settled(t)
                            /\ outbox' = [outbox EXCEPT ![t] = Append(@, BodyOf(t))]
  <1>1. op[p].task \in Task
      BY DEF Announce, Typed, TypeOK, Grounded, InFlight
  <1>2. Settled(op[p].task) /\ op[p].seen = BodyOf(op[p].task)
      BY DEF Announce, Truthful
  <1>3. \/ UNCHANGED outbox
        \/ outbox' = [outbox EXCEPT ![op[p].task] = Append(@, op[p].seen)]
      BY DEF Announce
  <1> QED
      BY <1>1, <1>2, <1>3

LEMMA NextOutbox ==
  ASSUME Typed, \A p \in Process : Truthful(p), [Next]_vars
  PROVE  \/ UNCHANGED outbox
         \/ \E t \in Task : /\ Settled(t)
                            /\ outbox' = [outbox EXCEPT ![t] = Append(@, BodyOf(t))]
  <1>1. CASE \E p \in Process : Announce(p)
      BY <1>1, AnnounceTells
  <1>2. CASE ~\E p \in Process : Announce(p)
      <2>1. CASE SchedulerStep
          BY <1>2, <2>1 DEF SchedulerStep, Sweep, TimeOut, Refresh
      <2>2. ASSUME NEW r \in Request, Continue(r)
            PROVE  UNCHANGED outbox
          <3>1. ~Announce(r)
              BY <1>2
          <3> QED
              BY <2>2, <3>1 DEF Continue, RecordSubmission, SubmissionTooLate, VerifierFails,
                 RecordClaim, ClaimTooLate, Refresh
      <2>3. ASSUME NEW r \in Request, NEW t \in Task, Begin(r, t)
            PROVE  UNCHANGED outbox
          BY <2>3 DEF Begin, BeginSubmit, BeginClaim, Cancel
      <2> QED
          BY <2>1, <2>2, <2>3
             DEF Next, Create, Expire, Delete, EmailHandoff, Crash, LoadForNotify, NotifyFails, vars
  <1> QED
      BY <1>1, <1>2

LEMMA WebhooksAgreeInductive ==
  Typed /\ (\A p \in Process : Truthful(p)) /\ WebhooksAgree /\ [Next]_vars => WebhooksAgree'
  <1> SUFFICES ASSUME Typed, \A p \in Process : Truthful(p), WebhooksAgree, [Next]_vars,
                      NEW t \in Task, NEW i \in DOMAIN outbox'[t]
               PROVE  (Settled(t) /\ outbox[t][i] = BodyOf(t))'
      BY DEF WebhooksAgree
  <1>1. Settled(t) /\ outbox'[t][i] = BodyOf(t)
      <2>1. outbox[t] \in Seq(Body)
          BY DEF Typed, TypeOK
      <2>2. CASE outbox'[t] = outbox[t]
          BY <2>2 DEF WebhooksAgree
      <2>3. CASE Settled(t) /\ outbox'[t] = Append(outbox[t], BodyOf(t))
          BY <2>1, <2>3 DEF WebhooksAgree
      <2> QED
          BY <2>2, <2>3, NextOutbox DEF Typed, TypeOK
  <1>2. BodyOf(t)' = BodyOf(t)
      BY <1>1, SettledStays
  <1> QED
      BY <1>1, <1>2 DEF Settled, BodyOf

\* Every webhook of a task carries the status and the answer it settled with.
THEOREM WebhooksAlwaysAgree == Spec => []WebhooksAgree
  <1>1. Init => WebhooksAgree
      BY DEF Init, WebhooksAgree
  <1> QED
      BY <1>1, WebhooksAgreeInductive, AlwaysTyped, AlwaysTruthful, PTL DEF Spec

-----------------------------------------------------------------------------
LEMMA InitPromise == Init => Promise!Init
  BY DEF Init, Promise!Init, Promise!Unsettled, Phase, Settled, NoRow, NoBody

\* Statuses, answers and webhooks as they were: a stutter of the promise.
LEMMA StutterPromise ==
  ASSUME \A x \in Task : BodyOf(x)' = BodyOf(x), UNCHANGED outbox
  PROVE  UNCHANGED Promise!vars
  <1>1. \A x \in Task : Phase(x)' = Phase(x) /\ (Settled(x)' <=> Settled(x))
      BY DEF Phase, Settled, BodyOf
  <1> QED
      BY <1>1 DEF Promise!vars

LEMMA SettlePromise ==
  ASSUME Typed, NEW t \in Task, Open(t), Settled(t)', BodyOf(t)' \in Promise!Outcome,
         \A x \in Task : x # t => task'[x] = task[x], UNCHANGED outbox
  PROVE  Promise!Next
  <1> PICK o \in Promise!Outcome : o = BodyOf(t)'
      OBVIOUS
  <1>1. Phase(t) = "open" /\ Phase(t)' = "settled"
      BY DEF Open, Phase, Settled
  <1>2. \A x \in Task : x # t => /\ Phase(x)' = Phase(x)
                                 /\ Settled(x)' <=> Settled(x)
                                 /\ BodyOf(x)' = BodyOf(x)
      BY DEF Phase, Settled, BodyOf
  <1>3. Promise!Settle(t, o)
      BY <1>1, <1>2 DEF Promise!Settle
  <1> QED
      BY <1>3 DEF Promise!Next

LEMMA CreatePromise ==
  ASSUME Typed, NEW t \in Task, NEW assignee \in User \union {NONE},
         NEW reviewed \in BOOLEAN, NEW callback \in BOOLEAN,
         Create(t, assignee, reviewed, callback)
  PROVE  Promise!Next
  <1>1. task[t].status = "absent" /\ task'[t].status = "created"
      BY DEF Create, Typed, TypeOK, NoRow
  <1>2. \A x \in Task : x # t => task'[x] = task[x]
      BY DEF Create, Typed, TypeOK
  <1>3. Phase(t) = "absent" /\ Phase(t)' = "open" /\ ~Settled(t) /\ ~Settled(t)'
      BY <1>1 DEF Phase, Settled
  <1>4. \A x \in Task : x # t => /\ Phase(x)' = Phase(x)
                                 /\ Settled(x)' <=> Settled(x)
                                 /\ BodyOf(x)' = BodyOf(x)
      BY <1>2 DEF Phase, Settled, BodyOf
  <1>5. Promise!Ask(t)
      BY <1>3, <1>4 DEF Promise!Ask, Create
  <1> QED
      BY <1>5 DEF Promise!Next

LEMMA RecordSubmissionPromise ==
  ASSUME Typed, NEW r \in Request, NEW verdict \in {"passed", "failed", "unreviewed"},
         RecordSubmission(r, verdict)
  PROVE  [Promise!Next]_Promise!vars
  <1> PICK t \in Task : t = op[r].task
      BY DEF RecordSubmission, Typed, TypeOK, Grounded, InFlight
  <1> PICK target : target = TargetStatus(verdict, op[r].attempt + 1)
      OBVIOUS
  <1>1. target \in {"completed", "rejected", "verification_exhausted"}
      BY DEF TargetStatus
  <1>2. task'[t].status = target /\ task'[t].answer = r
      BY DEF RecordSubmission, Typed, TypeOK, Row
  <1>3. Open(t) /\ UNCHANGED outbox /\ \A x \in Task : x # t => task'[x] = task[x]
      BY DEF RecordSubmission, Typed, TypeOK
  <1>4. CASE target # "rejected"
      <2>1. Settled(t)' /\ BodyOf(t)' \in Promise!Outcome
          BY <1>1, <1>2, <1>4 DEF Settled, BodyOf, Promise!Outcome
      <2> QED
          BY <1>3, <2>1, SettlePromise
  <1>5. CASE target = "rejected"
      <2>1. Phase(t) = "open" /\ Phase(t)' = "open" /\ ~Settled(t) /\ ~Settled(t)'
          BY <1>2, <1>3, <1>5 DEF Phase, Settled, Open
      <2>2. \A x \in Task : x # t => /\ Phase(x)' = Phase(x)
                                     /\ Settled(x)' <=> Settled(x)
                                     /\ BodyOf(x)' = BodyOf(x)
          BY <1>3 DEF Phase, Settled, BodyOf
      <2> QED
          BY <1>3, <2>1, <2>2 DEF Promise!vars
  <1> QED
      BY <1>4, <1>5

LEMMA CancelOrTimeOutPromise ==
  ASSUME Typed, NEW t \in Task, NEW status \in {"cancelled", "timed_out"}, Open(t),
         task' = [task EXCEPT ![t].status = status], UNCHANGED outbox
  PROVE  Promise!Next
  <1>1. task[t] \in Row
      BY DEF Typed, TypeOK
  <1>2. /\ task'[t].status = status /\ task'[t].answer = task[t].answer
        /\ \A x \in Task : x # t => task'[x] = task[x]
      BY <1>1 DEF Typed, TypeOK, Row
  <1>3. Settled(t)' /\ BodyOf(t)' \in Promise!Outcome
      BY <1>1, <1>2 DEF Settled, BodyOf, Promise!Outcome, Row
  <1> QED
      BY <1>2, <1>3, SettlePromise

\* Appending to a sequence adds one element to its elements.
LEMMA AppendElements ==
  ASSUME NEW S, NEW q \in Seq(S), NEW b \in S
  PROVE  {Append(q, b)[i] : i \in DOMAIN Append(q, b)} = {q[i] : i \in DOMAIN q} \union {b}
  <1>1. /\ DOMAIN q = 1..Len(q) /\ Len(q) \in Nat
        /\ DOMAIN Append(q, b) = 1..(Len(q) + 1)
        /\ \A i \in 1..Len(q) : Append(q, b)[i] = q[i]
        /\ Append(q, b)[Len(q) + 1] = b
      BY AppendProperties
  <1>2. 1..(Len(q) + 1) = 1..Len(q) \union {Len(q) + 1}
      BY <1>1
  <1> QED
      BY <1>1, <1>2

LEMMA AnnouncePromise ==
  ASSUME Typed, NEW p \in Process, Truthful(p), Announce(p)
  PROVE  [Promise!Next]_Promise!vars
  <1>1. CASE UNCHANGED outbox
      BY <1>1, StutterPromise DEF Announce, BodyOf
  <1>2. ASSUME NEW t \in Task, Settled(t),
               outbox' = [outbox EXCEPT ![t] = Append(@, BodyOf(t))]
        PROVE  Promise!Next
      <2>1. outbox[t] \in Seq(Body) /\ BodyOf(t) \in Body
          BY DEF Typed, TypeOK, Row, Body, BodyOf
      <2> DEFINE Told(x) == {outbox[x][i] : i \in DOMAIN outbox[x]}
      <2>2. outbox'[t] = Append(outbox[t], BodyOf(t))
          BY <1>2 DEF Typed, TypeOK
      <2>3. \A x \in Task : x # t => outbox'[x] = outbox[x]
          BY <1>2 DEF Typed, TypeOK
      <2>4. \A x \in Task : Phase(x)' = Phase(x) /\ BodyOf(x)' = BodyOf(x)
                            /\ (Settled(x)' <=> Settled(x))
          BY DEF Announce, Phase, Settled, BodyOf
      <2>5. Phase(t) = "settled"
          BY <1>2 DEF Phase
      <2>6. [x \in Task |-> Told(x)]'
              = [[x \in Task |-> Told(x)] EXCEPT ![t] = @ \union {BodyOf(t)}]
          <3>1. Told(t)' = Told(t) \union {BodyOf(t)}
              BY <2>1, <2>2, AppendElements
          <3>2. \A x \in Task : x # t => Told(x)' = Told(x)
              BY <2>3
          <3> HIDE DEF Told
          <3> QED
              BY <3>1, <3>2
      <2>7. UNCHANGED <<[x \in Task |-> Phase(x)],
                        [x \in Task |-> IF Settled(x) THEN BodyOf(x) ELSE NoBody]>>
          BY <2>4
      <2>8. Promise!Tell(t)
          BY <1>2, <2>5, <2>6, <2>7 DEF Promise!Tell
      <2> QED
          BY <2>8 DEF Promise!Next
  <1> QED
      BY <1>1, <1>2, AnnounceTells

LEMMA NextPromise ==
  ASSUME Typed, \A p \in Process : Truthful(p), [Next]_vars
  PROVE  [Promise!Next]_Promise!vars
  <1>1. CASE UNCHANGED <<task, outbox>>
      BY <1>1, StutterPromise DEF BodyOf
  <1>2. ASSUME NEW t \in Task, NEW assignee \in User \union {NONE},
               NEW reviewed \in BOOLEAN, NEW callback \in BOOLEAN,
               Create(t, assignee, reviewed, callback)
        PROVE  [Promise!Next]_Promise!vars
      BY <1>2, CreatePromise
  <1>3. ASSUME NEW p \in Process, Announce(p)
        PROVE  [Promise!Next]_Promise!vars
      BY <1>3, AnnouncePromise
  <1>4. ASSUME NEW r \in Request, NEW t \in Task, Begin(r, t)
        PROVE  [Promise!Next]_Promise!vars
      <2>1. CASE Cancel(r, t) /\ Open(t)
          BY <2>1, CancelOrTimeOutPromise DEF Cancel
      <2> QED
          BY <1>1, <1>4, <2>1 DEF Begin, BeginSubmit, BeginClaim, Cancel
  <1>5. ASSUME NEW r \in Request, Continue(r)
        PROVE  [Promise!Next]_Promise!vars
      <2>1. r \in Process
          OBVIOUS
      <2>2. CASE RecordClaim(r)
          <3>1. \A x \in Task : BodyOf(x)' = BodyOf(x)
              BY <2>2 DEF RecordClaim, Typed, TypeOK, Grounded, InFlight, Row, BodyOf
          <3> QED
              BY <2>2, <3>1, StutterPromise DEF RecordClaim
      <2> QED
          BY <1>1, <1>3, <1>5, <2>1, <2>2, RecordSubmissionPromise
             DEF Continue, SubmissionTooLate, VerifierFails, ClaimTooLate, Refresh
  <1>6. CASE SchedulerStep
      <2>1. ASSUME NEW t \in Task, TimeOut(t)
            PROVE  [Promise!Next]_Promise!vars
          <3>1. CASE Open(t)
              BY <2>1, <3>1, CancelOrTimeOutPromise DEF TimeOut, Open
          <3>2. CASE ~Open(t)
              BY <1>1, <2>1, <3>2 DEF TimeOut
          <3> QED
              BY <3>1, <3>2
      <2>2. Scheduler \in Process
          OBVIOUS
      <2> QED
          BY <1>1, <1>3, <1>6, <2>1, <2>2 DEF SchedulerStep, Sweep, Refresh
  <1>7. ASSUME NEW t \in Task, NEW u \in User, EmailHandoff(t, u)
        PROVE  [Promise!Next]_Promise!vars
      <2>1. \A x \in Task : BodyOf(x)' = BodyOf(x)
          BY <1>7 DEF EmailHandoff, Typed, TypeOK, Row, BodyOf
      <2> QED
          BY <1>7, <2>1, StutterPromise DEF EmailHandoff
  <1> QED
      BY <1>1, <1>2, <1>4, <1>5, <1>6, <1>7 DEF Next, Expire, Delete, Crash, LoadForNotify, NotifyFails, vars

\* Every behaviour of the handlers is a behaviour of TaskPromise: a task settles
\* once, with one outcome, and its webhooks carry that outcome and no other.
THEOREM Refinement == Spec => KeepsPromise
  <1>1. Typed /\ (\A p \in Process : Truthful(p)) /\ [Next]_vars => [Promise!Next]_Promise!vars
      BY NextPromise
  <1> QED
      BY <1>1, InitPromise, AlwaysTyped, AlwaysTruthful, PTL DEF Spec, KeepsPromise, Promise!Spec

-----------------------------------------------------------------------------
(***************************************************************************)
(* Attempts.  A submission carries the counter it read before its verifier *)
(* ran, and the counter may even go back when two of them overlap; what    *)
(* holds throughout is that every attempt up to a counter, in the row or   *)
(* in a handler's hands, was rejected on record.                           *)
(***************************************************************************)
OnRecord(t, k) ==
    \E i \in DOMAIN audit[t] :
        /\ audit[t][i].action \in {"rejected", "verification_exhausted"}
        /\ audit[t][i].attempt = k

CountedInRow(t) ==
    task[t].status # "completed" => \A k \in 1..task[t].attempt : OnRecord(t, k)

CountedInHand(r) ==
    op[r].pc = "submitting" /\ task[op[r].task].status # "completed" =>
        \A k \in 1..op[r].attempt : OnRecord(op[r].task, k)

Counting ==
    /\ \A t \in Task : CountedInRow(t)
    /\ \A r \in Request : CountedInHand(r)
    /\ NeverExhaustedEarly

\* What a step may do to the counter of a row: leave or reset it, complete the task,
\* or store the next value of a counter that a submission has in hand, on record.
RowCountStep(t) ==
    \/ /\ task'[t].attempt \in {task[t].attempt, 0}
       /\ task'[t].status = "verification_exhausted" => task[t].status = "verification_exhausted"
    \/ task'[t].status = "completed"
    \/ \E r \in Request, n \in Nat :
          /\ op[r].pc = "submitting" /\ op[r].task = t /\ Open(t)
          /\ n = op[r].attempt + 1
          /\ task'[t].attempt = n
          /\ OnRecord(t, n)'
          /\ task'[t].status = "verification_exhausted" => n >= MaxAttempts

\* A counter in hand is one that was in hand before, or in the row.
HandCountStep(r) ==
    op'[r].pc = "submitting" =>
        \/ op'[r] = op[r]
        \/ \E t \in Task : op'[r].task = t /\ Open(t) /\ op'[r].attempt = task[t].attempt

\* Entries stay on record.
LEMMA RecordGrows ==
  ASSUME Typed, [Next]_vars, NEW t \in Task, NEW k, OnRecord(t, k)
  PROVE  OnRecord(t, k)'
  <1>1. CASE audit'[t] = audit[t]
      BY <1>1 DEF OnRecord
  <1>2. ASSUME NEW e \in Entry, audit'[t] = Append(audit[t], e)
        PROVE  OnRecord(t, k)'
      <2>1. /\ \A i \in DOMAIN audit[t] : audit'[t][i] = audit[t][i]
            /\ DOMAIN audit[t] \subseteq DOMAIN audit'[t]
          BY <1>2, TrailStep
      <2> QED
          BY <2>1 DEF OnRecord
  <1> QED
      BY <1>1, <1>2, NextRowStep DEF RowStep

LEMMA UnchangedRowCount ==
  ASSUME UNCHANGED task
  PROVE  \A x \in Task : RowCountStep(x)
  BY DEF RowCountStep

LEMMA RecordSubmissionRowCount ==
  ASSUME Typed, NEW r \in Request, NEW verdict \in {"passed", "failed", "unreviewed"},
         RecordSubmission(r, verdict)
  PROVE  \A x \in Task : RowCountStep(x)
  <1> PICK t \in Task : t = op[r].task
      BY DEF RecordSubmission, Typed, TypeOK, Grounded, InFlight
  <1> PICK newAttempt \in Nat : newAttempt = op[r].attempt + 1
      BY DEF RecordSubmission, Typed, TypeOK, Op
  <1> PICK target : target = TargetStatus(verdict, newAttempt)
      OBVIOUS
  <1>1. \A x \in Task : x # t => task'[x] = task[x]
      BY DEF RecordSubmission, Typed, TypeOK
  <1>2. task'[t].status = target
      BY DEF RecordSubmission, Typed, TypeOK, Row
  <1>3. CASE verdict # "failed"
      BY <1>1, <1>2, <1>3 DEF TargetStatus, RowCountStep
  <1>4. CASE verdict = "failed"
      <2>1. task[t].reviewed
          BY <1>4 DEF RecordSubmission, Verdicts
      <2>2. task'[t].attempt = newAttempt
          BY <2>1 DEF RecordSubmission, Typed, TypeOK, Row
      <2>3. /\ target \in {"rejected", "verification_exhausted"}
            /\ target = "verification_exhausted" => newAttempt >= MaxAttempts
            /\ AuditAction(verdict, target) = target
          BY <1>4 DEF TargetStatus, AuditAction
      <2> DEFINE e == [action |-> target, to |-> target, by |-> r, attempt |-> newAttempt]
      <2>4. Log(t, target, target, r, newAttempt)
          BY <2>1, <2>3 DEF RecordSubmission
      <2>5. e \in Entry
          BY <2>3 DEF Entry
      <2>6. audit'[t] = Append(audit[t], e)
          BY <2>4, LogAppends
      <2>7. OnRecord(t, newAttempt)'
          <3>1. /\ Len(audit[t]) + 1 \in DOMAIN audit'[t]
                /\ audit'[t][Len(audit[t]) + 1] = e
              BY <2>5, <2>6, TrailStep
          <3> QED
              BY <2>3, <3>1 DEF OnRecord
      <2>8. RowCountStep(t)
          BY <1>2, <2>2, <2>3, <2>7 DEF RecordSubmission, RowCountStep
      <2> QED
          BY <1>1, <2>8 DEF RowCountStep
  <1> QED
      BY <1>3, <1>4

\* A step that writes anything but a verdict leaves the counter alone.
LEMMA OtherRowCount ==
  ASSUME Typed, NEW t \in Task,
         \/ \E status \in {"cancelled", "timed_out"} :
               task' = [task EXCEPT ![t].status = status]
         \/ \E u \in User : task' = [task EXCEPT ![t].assignee = u]
         \/ task'[t].attempt = 0 /\ task'[t].status = "created"
            /\ \A x \in Task : x # t => task'[x] = task[x]
  PROVE  \A x \in Task : RowCountStep(x)
  <1>1. task[t] \in Row
      BY DEF Typed, TypeOK
  <1>2. \A x \in Task : x # t => task'[x] = task[x]
      BY DEF Typed, TypeOK
  <1>3. RowCountStep(t)
      BY <1>1 DEF Typed, TypeOK, Row, RowCountStep
  <1> QED
      BY <1>2, <1>3 DEF RowCountStep

LEMMA NextRowCount ==
  ASSUME Typed, [Next]_vars
  PROVE  \A x \in Task : RowCountStep(x)
  <1>1. ASSUME NEW t \in Task, NEW assignee \in User \union {NONE},
               NEW reviewed \in BOOLEAN, NEW callback \in BOOLEAN,
               Create(t, assignee, reviewed, callback)
        PROVE  \A x \in Task : RowCountStep(x)
      <2>1. /\ task'[t].attempt = 0 /\ task'[t].status = "created"
            /\ \A x \in Task : x # t => task'[x] = task[x]
          BY <1>1 DEF Create, Typed, TypeOK, NoRow
      <2> QED
          BY <2>1, OtherRowCount
  <1>2. ASSUME NEW r \in Request, NEW t \in Task, Begin(r, t)
        PROVE  \A x \in Task : RowCountStep(x)
      BY <1>2, UnchangedRowCount, OtherRowCount DEF Begin, BeginSubmit, BeginClaim, Cancel
  <1>3. ASSUME NEW r \in Request, Continue(r)
        PROVE  \A x \in Task : RowCountStep(x)
      <2>1. CASE RecordClaim(r)
          <3>1. op[r].task \in Task /\ op[r].user \in User
              BY <2>1 DEF RecordClaim, Typed, TypeOK, Grounded, InFlight
          <3> QED
              BY <2>1, <3>1, OtherRowCount DEF RecordClaim
      <2> QED
          BY <1>3, <2>1, RecordSubmissionRowCount, UnchangedRowCount
             DEF Continue, SubmissionTooLate, VerifierFails, ClaimTooLate, Refresh, Announce
  <1>4. CASE SchedulerStep
      BY <1>4, UnchangedRowCount, OtherRowCount
         DEF SchedulerStep, Sweep, TimeOut, Refresh, Announce
  <1>5. ASSUME NEW t \in Task, NEW u \in User, EmailHandoff(t, u)
        PROVE  \A x \in Task : RowCountStep(x)
      BY <1>5, OtherRowCount DEF EmailHandoff
  <1> QED
      BY <1>1, <1>2, <1>3, <1>4, <1>5, UnchangedRowCount
         DEF Next, Expire, Delete, Crash, LoadForNotify, NotifyFails, vars

LEMMA ReturnHandCount ==
  ASSUME Typed, NEW p \in Process, NEW pc \in {"done", "refused", "failed"}, Return(p, pc)
  PROVE  \A r \in Request : HandCountStep(r)
  <1>1. op[p] \in Op
      BY DEF Typed, TypeOK
  <1>2. op'[p].pc # "submitting"
      BY <1>1 DEF Return, Typed, TypeOK, IdleOp, Op
  <1>3. \A q \in Process : q # p => op'[q] = op[q]
      BY DEF Return, Typed, TypeOK
  <1> QED
      BY <1>2, <1>3 DEF HandCountStep

\* A step of one process that does not end in "submitting" puts no counter in hand.
LEMMA OtherHandCount ==
  ASSUME NEW p \in Process, op'[p].pc # "submitting",
         \A q \in Process : q # p => op'[q] = op[q]
  PROVE  \A r \in Request : HandCountStep(r)
  BY DEF HandCountStep

LEMMA NextHandCount ==
  ASSUME Typed, [Next]_vars
  PROVE  \A r \in Request : HandCountStep(r)
  <1>1. CASE UNCHANGED op
      BY <1>1 DEF HandCountStep
  <1>2. ASSUME NEW r \in Request, NEW t \in Task, Begin(r, t)
        PROVE  \A q \in Request : HandCountStep(q)
      <2>1. \A q \in Process : q # r => op'[q] = op[q]
          BY <1>2 DEF Begin, BeginSubmit, BeginClaim, Cancel, Typed, TypeOK
      <2>2. ASSUME NEW c \in Channel, BeginSubmit(r, t, c)
            PROVE  HandCountStep(r)
          <3>1. op'[r] = [IdleOp EXCEPT !.pc = IF Open(t) THEN "submitting" ELSE "refused",
                                        !.kind = "submit", !.task = t, !.channel = c,
                                        !.attempt = task[t].attempt]
              BY <2>2 DEF BeginSubmit, Typed, TypeOK
          <3> QED
              BY <3>1 DEF IdleOp, HandCountStep
      <2>3. ASSUME NEW u \in User, BeginClaim(r, t, u)
            PROVE  HandCountStep(r)
          BY <2>3 DEF BeginClaim, Typed, TypeOK, IdleOp, HandCountStep
      <2>4. CASE Cancel(r, t)
          BY <2>4 DEF Cancel, Typed, TypeOK, IdleOp, HandCountStep
      <2> QED
          BY <1>2, <2>1, <2>2, <2>3, <2>4 DEF Begin, HandCountStep
  <1>3. ASSUME NEW p \in Process, Refresh(p)
        PROVE  \A q \in Request : HandCountStep(q)
      <2>1. CASE op[p].task \notin table
          BY <1>3, <2>1, ReturnHandCount DEF Refresh, Raise
      <2>2. CASE op[p].task \in table
          <3>1. op[p] \in Op
              BY DEF Typed, TypeOK
          <3>2. /\ op'[p].pc # "submitting"
                /\ \A q \in Process : q # p => op'[q] = op[q]
              BY <1>3, <2>2, <3>1 DEF Refresh, Typed, TypeOK, Op
          <3> QED
              BY <3>2, OtherHandCount
      <2> QED
          BY <2>1, <2>2
  <1>4. ASSUME NEW p \in Process, Announce(p)
        PROVE  \A q \in Request : HandCountStep(q)
      BY <1>4, ReturnHandCount DEF Announce, Raise
  <1>5. ASSUME NEW r \in Request, NEW verdict \in {"passed", "failed", "unreviewed"},
               RecordSubmission(r, verdict)
        PROVE  \A q \in Request : HandCountStep(q)
      <2>1. op[r] \in Op
          BY DEF Typed, TypeOK
      <2>2. /\ op'[r].pc # "submitting"
            /\ \A q \in Process : q # r => op'[q] = op[q]
          BY <1>5, <2>1 DEF RecordSubmission, Typed, TypeOK, Op
      <2> QED
          BY <2>2, OtherHandCount
  <1>6. ASSUME NEW r \in Request, Continue(r)
        PROVE  \A q \in Request : HandCountStep(q)
      <2>1. r \in Process
          OBVIOUS
      <2> QED
          BY <1>3, <1>4, <1>5, <1>6, <2>1, ReturnHandCount
             DEF Continue, SubmissionTooLate, VerifierFails, RecordClaim, ClaimTooLate
  <1>7. CASE SchedulerStep
      <2>1. Scheduler \in Process
          OBVIOUS
      <2>2. ASSUME NEW t \in Task, TimeOut(t)
            PROVE  \A q \in Request : HandCountStep(q)
          <3>1. \A q \in Request : q # Scheduler
              BY LifecycleAssumption
          <3>2. \A q \in Request : op'[q] = op[q]
              BY <2>2, <3>1 DEF TimeOut, Raise, Return, Typed, TypeOK
          <3> QED
              BY <3>2 DEF HandCountStep
      <2> QED
          BY <1>1, <1>3, <1>4, <1>7, <2>1, <2>2 DEF SchedulerStep, Sweep
  <1>8. CASE Crash
      <2>1. \A q \in Process : op[q] \in Op
          BY DEF Typed, TypeOK
      <2>2. \A q \in Process : op'[q].pc # "submitting"
          BY <1>8, <2>1 DEF Crash, IdleOp, InFlight, Op
      <2> QED
          BY <2>2 DEF HandCountStep
  <1> QED
      BY <1>1, <1>2, <1>6, <1>7, <1>8
         DEF Next, Create, Expire, Delete, EmailHandoff, LoadForNotify, NotifyFails, vars

LEMMA CountingInductive == Typed /\ Counting /\ [Next]_vars => Counting'
  <1> SUFFICES ASSUME Typed, Counting, [Next]_vars PROVE Counting'
      OBVIOUS
  <1>1. \A t \in Task : task[t].attempt \in Nat
      BY DEF Typed, TypeOK, Row
  <1>2. \A r \in Request : op[r].attempt \in Nat /\ (op[r].pc = "submitting" => op[r].task \in Task)
      BY DEF Typed, TypeOK, Op, Grounded, InFlight
  <1>3. \A t \in Task : task[t].status = "completed" => task'[t].status = "completed"
      BY SettledStays DEF Settled, BodyOf
  <1>4. ASSUME NEW t \in Task
        PROVE  /\ CountedInRow(t)'
               /\ task'[t].status = "verification_exhausted" =>
                     \A k \in 1..MaxAttempts : OnRecord(t, k)'
      <2>1. CASE /\ task'[t].attempt \in {task[t].attempt, 0}
                 /\ task'[t].status = "verification_exhausted"
                       => task[t].status = "verification_exhausted"
          <3>1. CountedInRow(t)'
              BY <1>1, <1>3, <2>1, RecordGrows DEF Counting, CountedInRow
          <3>2. ASSUME task'[t].status = "verification_exhausted", NEW k \in 1..MaxAttempts
                PROVE  OnRecord(t, k)'
              <4>1. OnRecord(t, k)
                  BY <2>1, <3>2 DEF Counting, NeverExhaustedEarly, OnRecord
              <4> QED
                  BY <4>1, RecordGrows
          <3> QED
              BY <3>1, <3>2
      <2>2. CASE task'[t].status = "completed"
          BY <2>2 DEF CountedInRow
      <2>3. ASSUME NEW r \in Request, NEW n \in Nat,
                   op[r].pc = "submitting", op[r].task = t, Open(t), n = op[r].attempt + 1,
                   task'[t].attempt = n, OnRecord(t, n)',
                   task'[t].status = "verification_exhausted" => n >= MaxAttempts
            PROVE  /\ CountedInRow(t)'
                   /\ task'[t].status = "verification_exhausted" =>
                         \A k \in 1..MaxAttempts : OnRecord(t, k)'
          <3>1. \A k \in 1..op[r].attempt : OnRecord(t, k)
              BY <2>3 DEF Counting, CountedInHand, Open
          <3>2. \A k \in 1..n : OnRecord(t, k)'
              <4> SUFFICES ASSUME NEW k \in 1..n PROVE OnRecord(t, k)'
                  OBVIOUS
              <4>1. k \in 1..op[r].attempt \/ k = n
                  BY <1>2, <2>3
              <4> QED
                  BY <2>3, <3>1, <4>1, RecordGrows
          <3>3. CountedInRow(t)'
              BY <2>3, <3>2 DEF CountedInRow
          <3>4. task'[t].status = "verification_exhausted" =>
                    1..MaxAttempts \subseteq 1..n
              BY <2>3, LifecycleAssumption
          <3> QED
              BY <3>2, <3>3, <3>4
      <2> QED
          BY <2>1, <2>2, <2>3, NextRowCount DEF RowCountStep
  <1>5. ASSUME NEW r \in Request
        PROVE  CountedInHand(r)'
      <2> SUFFICES ASSUME op'[r].pc = "submitting", task'[op'[r].task].status # "completed",
                          NEW k \in 1..op'[r].attempt
                   PROVE  OnRecord(op[r].task, k)'
          BY DEF CountedInHand
      <2>1. PICK t \in Task : t = op'[r].task
          BY <1>2, NextHandCount DEF HandCountStep
      <2>2. OnRecord(t, k)
          <3>1. CASE op'[r] = op[r]
              BY <1>3, <2>1, <3>1 DEF Counting, CountedInHand
          <3>2. CASE Open(t) /\ op'[r].attempt = task[t].attempt
              BY <2>1, <3>2 DEF Counting, CountedInRow, Open
          <3> QED
              BY <2>1, <3>1, <3>2, NextHandCount DEF HandCountStep
      <2>3. OnRecord(t, k)'
          BY <2>2, RecordGrows
      <2> QED
          BY <2>1, <2>3 DEF OnRecord
  <1>6. NeverExhaustedEarly'
      BY <1>4 DEF NeverExhaustedEarly, OnRecord
  <1> QED
      BY <1>4, <1>5, <1>6 DEF Counting

\* A task is exhausted only after every attempt up to MaxAttempts was rejected on
\* record, however many submissions overlapped with their verifier calls.
THEOREM ExhaustedOnRecord == Spec => []NeverExhaustedEarly
  <1>1. Init => Counting
      BY DEF Init, Counting, CountedInRow, CountedInHand, NeverExhaustedEarly, NoRow, IdleOp
  <1>2. Counting => NeverExhaustedEarly
      BY DEF Counting
  <1> QED
      BY <1>1, <1>2, CountingInductive, AlwaysTyped, PTL DEF Spec

-----------------------------------------------------------------------------
(***************************************************************************)
(* Claims.  An assignee, once set, stays; and a claim that ends in "done"  *)
(* has set it.                                                             *)
(***************************************************************************)
Unassigned(t) == task[t].status = "absent" => task[t].assignee = NONE

\* Only a claim is "claiming", and only it ends as a claim.
ClaimKind(r) ==
    /\ op[r].pc = "claiming" => op[r].kind = "claim"
    /\ op[r].pc \in InFlight /\ op[r].kind = "claim" => op[r].pc = "claiming"

Won(r) ==
    op[r].kind = "claim" /\ op[r].pc = "done" =>
        /\ op[r].task \in Task /\ op[r].user \in User
        /\ task[op[r].task].assignee = op[r].user

Claiming ==
    /\ \A t \in Task : Unassigned(t)
    /\ \A r \in Request : ClaimKind(r) /\ Won(r)

\* A step gives a task an assignee when it creates it, or when it has none.
AssigneeStep(t) ==
    \/ task'[t].assignee = task[t].assignee /\ (task'[t].status = "absent" => task[t].status = "absent")
    \/ /\ task[t].status = "absent" \/ task[t].assignee = NONE
       /\ task'[t].status # "absent"

\* What a step makes of a request: nothing, no claim at all, a claim under way or
\* lost, or a claim that it has won.
ClaimStep(r) ==
    \/ op'[r] = op[r]
    \/ op'[r].pc # "claiming" /\ (op'[r].kind = "claim" => op'[r].pc \notin InFlight \union {"done"})
    \/ op'[r].pc = "claiming" /\ op'[r].kind = "claim"
    \/ /\ op'[r].pc = "done"
       /\ op'[r].task \in Task /\ op'[r].user \in User
       /\ task'[op'[r].task].assignee = op'[r].user

\* A guarded UPDATE of one column of one row.
LEMMA UpdateAssignee ==
  ASSUME Typed, NEW t \in Task,
         \/ \E status \in {"cancelled", "timed_out"} :
               task' = [task EXCEPT ![t].status = status]
         \/ Open(t) /\ task[t].assignee = NONE
            /\ \E u \in User : task' = [task EXCEPT ![t].assignee = u]
  PROVE  \A x \in Task : AssigneeStep(x)
  <1>1. task[t] \in Row
      BY DEF Typed, TypeOK
  <1>2. \A x \in Task : x # t => task'[x] = task[x]
      BY DEF Typed, TypeOK
  <1>3. AssigneeStep(t)
      BY <1>1 DEF Typed, TypeOK, Row, Open, AssigneeStep
  <1> QED
      BY <1>2, <1>3 DEF AssigneeStep

LEMMA UnchangedAssignee ==
  ASSUME UNCHANGED task
  PROVE  \A x \in Task : AssigneeStep(x)
  BY DEF AssigneeStep

LEMMA NextAssignee ==
  ASSUME Typed, [Next]_vars
  PROVE  \A x \in Task : AssigneeStep(x)
  <1>1. ASSUME NEW t \in Task, NEW assignee \in User \union {NONE},
               NEW reviewed \in BOOLEAN, NEW callback \in BOOLEAN,
               Create(t, assignee, reviewed, callback)
        PROVE  \A x \in Task : AssigneeStep(x)
      BY <1>1 DEF Create, Typed, TypeOK, NoRow, AssigneeStep
  <1>2. ASSUME NEW r \in Request, NEW t \in Task, Begin(r, t)
        PROVE  \A x \in Task : AssigneeStep(x)
      BY <1>2, UnchangedAssignee, UpdateAssignee DEF Begin, BeginSubmit, BeginClaim, Cancel
  <1>3. ASSUME NEW r \in Request, NEW verdict \in {"passed", "failed", "unreviewed"},
               RecordSubmission(r, verdict)
        PROVE  \A x \in Task : AssigneeStep(x)
      <2> PICK t \in Task : t = op[r].task
          BY <1>3 DEF RecordSubmission, Typed, TypeOK, Grounded, InFlight
      <2>1. TargetStatus(verdict, op[r].attempt + 1) # "absent"
          BY DEF TargetStatus
      <2>2. /\ task'[t].assignee = task[t].assignee /\ task'[t].status # "absent"
            /\ \A x \in Task : x # t => task'[x] = task[x]
          BY <1>3, <2>1 DEF RecordSubmission, Typed, TypeOK, Row
      <2> QED
          BY <2>2 DEF AssigneeStep
  <1>4. ASSUME NEW r \in Request, Continue(r)
        PROVE  \A x \in Task : AssigneeStep(x)
      <2>1. CASE RecordClaim(r)
          <3>1. op[r].task \in Task /\ op[r].user \in User
              BY <2>1 DEF RecordClaim, Typed, TypeOK, Grounded, InFlight
          <3> QED
              BY <2>1, <3>1, UpdateAssignee DEF RecordClaim
      <2> QED
          BY <1>3, <1>4, <2>1, UnchangedAssignee
             DEF Continue, SubmissionTooLate, VerifierFails, ClaimTooLate, Refresh, Announce
  <1>5. CASE SchedulerStep
      BY <1>5, UnchangedAssignee, UpdateAssignee
         DEF SchedulerStep, Sweep, TimeOut, Refresh, Announce
  <1>6. ASSUME NEW t \in Task, NEW u \in User, EmailHandoff(t, u)
        PROVE  \A x \in Task : AssigneeStep(x)
      BY <1>6, UpdateAssignee DEF EmailHandoff
  <1> QED
      BY <1>1, <1>2, <1>4, <1>5, <1>6, UnchangedAssignee
         DEF Next, Expire, Delete, Crash, LoadForNotify, NotifyFails, vars

LEMMA NextClaimStep ==
  ASSUME Typed, Claiming, [Next]_vars
  PROVE  \A r \in Request : ClaimStep(r)
  <1> USE DEF InFlight
  <1>1. CASE UNCHANGED op
      BY <1>1 DEF ClaimStep
  <1>2. ASSUME NEW r \in Request, NEW t \in Task, Begin(r, t)
        PROVE  \A q \in Request : ClaimStep(q)
      <2>1. \A q \in Process : q # r => op'[q] = op[q]
          BY <1>2 DEF Begin, BeginSubmit, BeginClaim, Cancel, Typed, TypeOK
      <2>2. ASSUME NEW c \in Channel, BeginSubmit(r, t, c)
            PROVE  ClaimStep(r)
          BY <2>2 DEF BeginSubmit, Typed, TypeOK, IdleOp, ClaimStep
      <2>3. ASSUME NEW u \in User, BeginClaim(r, t, u)
            PROVE  ClaimStep(r)
          <3>1. op'[r].kind = "claim" /\ op'[r].pc \in {"claiming", "refused"}
              BY <2>3 DEF BeginClaim, Typed, TypeOK, IdleOp
          <3> QED
              BY <3>1 DEF ClaimStep
      <2>4. CASE Cancel(r, t)
          BY <2>4 DEF Cancel, Typed, TypeOK, IdleOp, ClaimStep
      <2> QED
          BY <1>2, <2>1, <2>2, <2>3, <2>4 DEF Begin, ClaimStep
  <1>3. ASSUME NEW r \in Request, Continue(r)
        PROVE  \A q \in Request : ClaimStep(q)
      <2>1. op[r] \in Op /\ r # Scheduler
          BY LifecycleAssumption DEF Typed, TypeOK
      <2>2. \A q \in Process : q # r => op'[q] = op[q]
          BY <1>3, <2>1
             DEF Continue, RecordSubmission, SubmissionTooLate, VerifierFails, RecordClaim,
                 ClaimTooLate, Refresh, Announce, Raise, Return, Typed, TypeOK
      <2>3. CASE RecordClaim(r)
          <3>1. op[r].task \in Task /\ op[r].user \in User
              BY <2>3 DEF RecordClaim, Typed, TypeOK, Grounded
          <3>2. op'[r].pc = "done" /\ op'[r].task = op[r].task /\ op'[r].user = op[r].user
              BY <2>1, <2>3 DEF RecordClaim, Return, Typed, TypeOK, Op
          <3>3. task'[op[r].task].assignee = op[r].user
              BY <2>3, <3>1 DEF RecordClaim, Typed, TypeOK, Row
          <3> QED
              BY <2>2, <3>1, <3>2, <3>3 DEF ClaimStep
      <2>4. CASE ClaimTooLate(r)
          <3>1. op'[r].pc = "refused"
              BY <2>1, <2>4 DEF ClaimTooLate, Return, Typed, TypeOK, Op
          <3> QED
              BY <2>2, <3>1 DEF ClaimStep
      <2>5. CASE op[r].pc \in {"submitting", "refreshing", "announcing"}
          <3>1. op[r].kind # "claim"
              BY <2>5 DEF Claiming, ClaimKind
          <3>2. op'[r].kind = op[r].kind /\ op'[r].pc # "claiming"
              BY <1>3, <2>1, <2>5
                 DEF Continue, RecordSubmission, SubmissionTooLate, VerifierFails, RecordClaim,
                     ClaimTooLate, Refresh, Announce, Raise, Return, Typed, TypeOK, Op
          <3> QED
              BY <2>2, <3>1, <3>2 DEF ClaimStep
      <2> QED
          BY <1>3, <2>3, <2>4, <2>5
             DEF Continue, RecordSubmission, SubmissionTooLate, VerifierFails, Refresh, Announce
  <1>4. CASE SchedulerStep
      <2>1. \A q \in Request : q # Scheduler
          BY LifecycleAssumption
      <2>2. \A q \in Request : op'[q] = op[q]
          BY <1>4, <2>1
             DEF SchedulerStep, Sweep, TimeOut, Refresh, Announce, Raise, Return, Typed, TypeOK
      <2> QED
          BY <2>2 DEF ClaimStep
  <1>5. CASE Crash
      <2> SUFFICES ASSUME NEW q \in Request PROVE ClaimStep(q)
          OBVIOUS
      <2>1. op[q] \in Op /\ q # Scheduler
          BY LifecycleAssumption DEF Typed, TypeOK
      <2>2. op'[q] = op[q] \/ op'[q].pc = "lost"
          BY <1>5, <2>1 DEF Crash, Op
      <2> QED
          BY <2>2 DEF ClaimStep
  <1> QED
      BY <1>1, <1>2, <1>3, <1>4, <1>5
         DEF Next, Create, Expire, Delete, EmailHandoff, LoadForNotify, NotifyFails, vars

LEMMA ClaimingInductive == Typed /\ Claiming /\ [Next]_vars => Claiming'
  <1> SUFFICES ASSUME Typed, Claiming, [Next]_vars PROVE Claiming'
      OBVIOUS
  <1>1. \A t \in Task : Unassigned(t)'
      BY NextAssignee DEF Claiming, Unassigned, AssigneeStep
  <1>2. ASSUME NEW r \in Request
        PROVE  ClaimKind(r)' /\ Won(r)'
      <2>1. CASE op'[r] = op[r]
          <3>1. ClaimKind(r)'
              BY <2>1 DEF Claiming, ClaimKind
          <3>2. ASSUME op[r].kind = "claim", op[r].pc = "done"
                PROVE  task'[op[r].task].assignee = op[r].user
              <4>1. op[r].task \in Task /\ op[r].user \in User
                    /\ task[op[r].task].assignee = op[r].user
                  BY <3>2 DEF Claiming, Won
              <4>2. op[r].user # NONE
                  BY <4>1, LifecycleAssumption
              <4> QED
                  BY <4>1, <4>2, NextAssignee DEF AssigneeStep, Claiming, Unassigned
          <3>3. Won(r)'
              BY <2>1, <3>2 DEF Claiming, Won
          <3> QED
              BY <3>1, <3>3
      <2>2. CASE op'[r] # op[r]
          BY <2>2, NextClaimStep DEF ClaimStep, ClaimKind, Won, InFlight
      <2> QED
          BY <2>1, <2>2
  <1> QED
      BY <1>1, <1>2 DEF Claiming

\* A claimer who was told that the task is theirs is its assignee, for good.
THEOREM ClaimsHold == Spec => []ClaimedByWinner
  <1>1. Init => Claiming
      BY DEF Init, Claiming, Unassigned, ClaimKind, Won, NoRow, IdleOp, InFlight
  <1>2. Claiming => ClaimedByWinner
      BY DEF Claiming, Won, ClaimedByWinner
  <1> QED
      BY <1>1, <1>2, ClaimingInductive, AlwaysTyped, PTL DEF Spec
=============================================================================
