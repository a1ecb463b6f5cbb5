--------------------------- MODULE TaskLifecycle ---------------------------
(***************************************************************************)
(* The life of a task row: every handler of the server that writes the     *)
(* `tasks` table, the audit trail written in the same transaction, the     *)
(* webhook rows enqueued in a later one, and the entries with which the    *)
(* notifiers report to the same trail, long after, that nobody was told.   *)
(*                                                                         *)
(* One action is one database transaction.  Between two of them the event  *)
(* loop (or another worker process) may run any other handler, the process *)
(* may crash, and time may pass.  A handler that reads, decides and writes *)
(* in one guarded UPDATE whose WHERE repeats its read-side checks is a     *)
(* single action: terminal statuses and assignees never change back, so    *)
(* the early read and the late UPDATE refuse the same calls.               *)
(*                                                                         *)
(* Data abstraction: a submission's response, completer and channel are    *)
(* always written together, so a row's `answer` is the request that        *)
(* carried them.                                                           *)
(***************************************************************************)
EXTENDS Naturals, Sequences, FiniteSets

CONSTANTS
    Task,         \* task ids
    Request,      \* HTTP, Slack and e-mail requests; each is used once
    User,         \* directory users who may be assigned a task
    Channel,      \* the channels submissions arrive on
    MaxAttempts,  \* VerifierConfig.max_attempts
    ForeignKeys,  \* TRUE on Postgres; SQLite is opened without the pragma
    MaxCrashes,   \* bound on the number of process crashes
    MaxRoutes,    \* bound on a task's `notify` routes of one channel
    NONE

HttpChannel == {"dashboard", "embed"}
Scheduler == "timeout_scheduler"
Process == Request \union {Scheduler}

\* The channels that also notify, in the order of the background tasks.
Notifying == Channel \intersect {"slack", "email"}

ASSUME LifecycleAssumption ==
    /\ Channel \subseteq HttpChannel \union {"slack", "email"}
    /\ MaxAttempts \in Nat \ {0}
    /\ ForeignKeys \in BOOLEAN
    /\ MaxCrashes \in Nat
    /\ MaxRoutes \in Nat
    /\ Scheduler \notin Request
    /\ NONE \notin Task \union Request \union User

VARIABLES
    table,    \* the ids that have a row in `tasks`
    task,     \* each task's row; what it held last, once deleted
    audit,    \* each task's audit entries, oldest first
    outbox,   \* the bodies of the webhook_deliveries rows of each task
    due,      \* the tasks whose timeout_at has passed
    op,       \* what each request, and the timeout scheduler, is doing
    batch,    \* the expired ids the scheduler still has to visit
    crashes,  \* how often the process has crashed
    notifier  \* what the background tasks that notify of each task are doing

vars == <<table, task, audit, outbox, due, op, batch, crashes, notifier>>

-----------------------------------------------------------------------------
(***************************************************************************)
(* Rows, entries and local state.                                          *)
(***************************************************************************)
Terminal == {"completed", "timed_out", "cancelled", "verification_exhausted"}

Active == {"created", "rejected"}

Row == [status   : {"absent"} \union Active \union Terminal,
        answer   : Request \union {NONE},
        attempt  : Nat,
        assignee : User \union {NONE},
        reviewed : BOOLEAN,   \* verifier_config set and payload not redacted
        callback : BOOLEAN]   \* callback_url set

\* What a reader of the row copies out of it: the webhook body.
Body == [status : {"absent"} \union Active \union Terminal,
         answer : Request \union {NONE}]

NoBody == [status |-> "absent", answer |-> NONE]

Entry == [action  : {"created", "claimed", "completed", "verified", "rejected",
                     "verification_exhausted", "timed_out", "cancelled",
                     "notification_failed"},
          to      : Active \union Terminal,
          by      : Process \union {"agent", "notifier"},
          attempt : Nat]

Op == [pc      : {"idle", "submitting", "claiming", "refreshing", "announcing",
                  "done", "refused", "failed", "lost"},
       kind    : {"none", "submit", "claim", "cancel", "sweep"},
       task    : Task \union {NONE},
       channel : Channel \union {NONE},
       user    : User \union {NONE},
       attempt : Nat,
       verdict : {"none", "passed", "failed", "unreviewed"},
       seen    : Body]

\* A notifier goes by the status it loaded; `left` are the routes it has to try.
Notifier == [channel : {"none", "slack", "email", "lost"},
             seen    : Active \union Terminal,
             left    : 0..MaxRoutes]

NotStarted == [channel |-> "none", seen |-> "created", left |-> 0]

NoRow == [status |-> "absent", answer |-> NONE, attempt |-> 0, assignee |-> NONE,
          reviewed |-> FALSE, callback |-> FALSE]

IdleOp == [pc |-> "idle", kind |-> "none", task |-> NONE, channel |-> NONE,
           user |-> NONE, attempt |-> 0, verdict |-> "none", seen |-> NoBody]

InFlight == {"submitting", "claiming", "refreshing", "announcing"}

TypeOK ==
    /\ table \subseteq Task
    /\ task \in [Task -> Row]
    /\ audit \in [Task -> Seq(Entry)]
    /\ outbox \in [Task -> Seq(Body)]
    /\ due \subseteq Task
    /\ op \in [Process -> Op]
    /\ batch \subseteq Task
    /\ crashes \in 0..MaxCrashes
    /\ notifier \in [Task -> Notifier]

Init ==
    /\ table = {}
    /\ task = [t \in Task |-> NoRow]
    /\ audit = [t \in Task |-> <<>>]
    /\ outbox = [t \in Task |-> <<>>]
    /\ due = {}
    /\ op = [p \in Process |-> IdleOp]
    /\ batch = {}
    /\ crashes = 0
    /\ notifier = [t \in Task |-> NotStarted]

-----------------------------------------------------------------------------

(***************************************************************************)
(* Helpers.                                                                *)
(***************************************************************************)
\* Mutant: the WHERE forgets the status.
OpenIfPresent(t) == t \in table /\ task[t].status # "absent"

\* WHERE id = :t AND status NOT IN (terminal statuses)
Open(t) == t \in table /\ task[t].status \in Active

BodyOf(t) == [status |-> task[t].status, answer |-> task[t].answer]

Log(t, action, to, by, attempt) ==
    audit' = [audit EXCEPT ![t] = Append(@, [action |-> action, to |-> to,
                                             by |-> by, attempt |-> attempt])]

\* The handler of p returns; the scheduler goes back to its batch.
Return(p, pc) ==
    op' = [op EXCEPT ![p] = IF p = Scheduler THEN IdleOp ELSE [@ EXCEPT !.pc = pc]]

\* An exception leaves the handler of p; the scheduler drops its batch.
Raise(p) ==
    /\ Return(p, "failed")
    /\ batch' = IF p = Scheduler THEN {} ELSE batch

-----------------------------------------------------------------------------
(***************************************************************************)
(* Creation.  The idempotency lookup is the subject of TaskCreation; here  *)
(* an id is inserted once.                                                 *)
(***************************************************************************)
Create(t, assignee, reviewed, callback) ==
    /\ task[t].status = "absent"
    /\ table' = table \union {t}
    /\ task' = [task EXCEPT ![t] = [NoRow EXCEPT !.status = "created",
                                                 !.assignee = assignee,
                                                 !.reviewed = reviewed,
                                                 !.callback = callback]]
    /\ Log(t, "created", "created", "agent", 0)
    /\ UNCHANGED <<outbox, due, op, batch, crashes, notifier>>

(***************************************************************************)
(* Submission.  The first transaction reads the row and, when a verifier   *)
(* is configured, keeps the attempt counter while the verifier runs; the   *)
(* second one writes the verdict, if the task is still open.               *)
(***************************************************************************)
BeginSubmit(r, t, c) ==
    /\ op[r].pc = "idle"
    /\ task[t].status # "absent"
    /\ op' = [op EXCEPT ![r] =
                [IdleOp EXCEPT !.pc = IF Open(t) THEN "submitting" ELSE "refused",
                               !.kind = "submit", !.task = t, !.channel = c,
                               !.attempt = task[t].attempt]]
    /\ UNCHANGED <<table, task, audit, outbox, due, batch, crashes, notifier>>

\* The provider failed: no verdict, nothing is written.
VerifierFails(r) ==
    /\ op[r].pc = "submitting"
    /\ task[op[r].task].reviewed
    /\ Return(r, "failed")
    /\ UNCHANGED <<table, task, audit, outbox, due, batch, crashes, notifier>>

Verdicts(t) == IF task[t].reviewed THEN {"passed", "failed"} ELSE {"unreviewed"}

\* Mutant: off by one, the last attempt is never granted.
TargetStatusEarly(verdict, newAttempt) ==
    IF verdict # "failed" THEN "completed"
    ELSE IF newAttempt + 1 >= MaxAttempts THEN "verification_exhausted"
    ELSE "rejected"

TargetStatus(verdict, newAttempt) ==
    IF verdict # "failed" THEN "completed"
    ELSE IF newAttempt >= MaxAttempts THEN "verification_exhausted"
    ELSE "rejected"

AuditAction(verdict, target) ==
    IF verdict = "unreviewed" THEN "completed"
    ELSE IF target = "completed" THEN "verified"
    ELSE target

RecordSubmission(r, verdict) ==
    LET t == op[r].task
        newAttempt == op[r].attempt + 1
        target == TargetStatus(verdict, newAttempt)
    IN  /\ op[r].pc = "submitting"
        /\ Open(t)
        /\ verdict \in Verdicts(t)
        /\ task' = [task EXCEPT ![t].status = target,
                                ![t].answer = r,
                                ![t].attempt = IF task[t].reviewed THEN newAttempt ELSE @]
        /\ Log(t, AuditAction(verdict, target), target, r,
               IF task[t].reviewed THEN newAttempt ELSE 0)
        /\ op' = [op EXCEPT ![r].pc = IF op[r].channel \in HttpChannel
                                      THEN "refreshing" ELSE "done",
                            ![r].verdict = verdict]
        /\ UNCHANGED <<table, outbox, due, batch, crashes, notifier>>

\* rowcount = 0: the task settled, or was deleted, while the verifier ran.
SubmissionTooLate(r) ==
    /\ op[r].pc = "submitting"
    /\ ~Open(op[r].task)
    /\ Return(r, "refused")
    /\ UNCHANGED <<table, task, audit, outbox, due, batch, crashes, notifier>>

(***************************************************************************)
(* Claiming.  The audit entry carries the status read before the UPDATE.   *)
(***************************************************************************)
BeginClaim(r, t, u) ==
    /\ op[r].pc = "idle"
    /\ task[t].status # "absent"
    /\ op' = [op EXCEPT ![r] =
                [IdleOp EXCEPT !.pc = IF Open(t) /\ task[t].assignee = NONE
                                      THEN "claiming" ELSE "refused",
                               !.kind = "claim", !.task = t, !.user = u,
                               !.seen = BodyOf(t)]]
    /\ UNCHANGED <<table, task, audit, outbox, due, batch, crashes, notifier>>

\* Mutant: the claim saves the whole row it read, status included.
RecordClaimWholeRow(r) ==
    LET t == op[r].task
    IN  /\ op[r].pc = "claiming"
        /\ Open(t)
        /\ task[t].assignee = NONE
        /\ task' = [task EXCEPT ![t].assignee = op[r].user, ![t].status = op[r].seen.status]
        /\ Log(t, "claimed", op[r].seen.status, r, 0)
        /\ Return(r, "done")
        /\ UNCHANGED <<table, outbox, due, batch, crashes, notifier>>

RecordClaim(r) ==
    LET t == op[r].task
    IN  /\ op[r].pc = "claiming"
        /\ Open(t)
        /\ task[t].assignee = NONE
        /\ task' = [task EXCEPT ![t].assignee = op[r].user]
        /\ Log(t, "claimed", op[r].seen.status, r, 0)
        /\ Return(r, "done")
        /\ UNCHANGED <<table, outbox, due, batch, crashes, notifier>>

ClaimTooLate(r) ==
    /\ op[r].pc = "claiming"
    /\ ~Open(op[r].task) \/ task[op[r].task].assignee # NONE
    /\ Return(r, "refused")
    /\ UNCHANGED <<table, task, audit, outbox, due, batch, crashes, notifier>>

\* Mutant: the hand-off assigns the task whoever holds it.
EmailHandoffAnyway(t, u) ==
    /\ Open(t)
    /\ task' = [task EXCEPT ![t].assignee = u]
    /\ UNCHANGED <<table, audit, outbox, due, op, batch, crashes, notifier>>

\* The sign-in link of a notification e-mail assigns an unassigned task to
\* its recipient, with no audit entry.
EmailHandoff(t, u) ==
    /\ Open(t)
    /\ task[t].assignee = NONE
    /\ task' = [task EXCEPT ![t].assignee = u]
    /\ UNCHANGED <<table, audit, outbox, due, op, batch, crashes, notifier>>

(***************************************************************************)
(* Cancelling and deleting.                                                *)
(***************************************************************************)
\* Mutant: the cancel's UPDATE trusts the handler's earlier read.
CancelAnyRow(r, t) ==
    /\ op[r].pc = "idle"
    /\ t \in table
    /\ op' = [op EXCEPT ![r] = [IdleOp EXCEPT !.pc = "refreshing", !.kind = "cancel", !.task = t]]
    /\ task' = [task EXCEPT ![t].status = "cancelled"]
    /\ Log(t, "cancelled", "cancelled", r, 0)
    /\ UNCHANGED <<table, outbox, due, batch, crashes, notifier>>

Cancel(r, t) ==
    /\ op[r].pc = "idle"
    /\ task[t].status # "absent"
    /\ op' = [op EXCEPT ![r] =
                [IdleOp EXCEPT !.pc = IF Open(t) THEN "refreshing" ELSE "refused",
                               !.kind = "cancel", !.task = t]]
    /\ IF Open(t)
       THEN /\ task' = [task EXCEPT ![t].status = "cancelled"]
            /\ Log(t, "cancelled", "cancelled", r, 0)
       ELSE UNCHANGED <<task, audit>>
    /\ UNCHANGED <<table, outbox, due, batch, crashes, notifier>>

\* On Postgres the foreign key of webhook_deliveries forbids the DELETE.
Delete(t) ==
    /\ t \in table
    /\ ForeignKeys => outbox[t] = <<>>
    /\ table' = table \ {t}
    /\ UNCHANGED <<task, audit, outbox, due, op, batch, crashes, notifier>>

(***************************************************************************)
(* Announcing.  After its transition has committed a handler re-reads the  *)
(* row and, in another transaction, enqueues a webhook for what it read.   *)
(***************************************************************************)
\* Mutant: only completions are announced.
RefreshCompletedOnly(p) ==
    LET t == op[p].task
    IN  /\ op[p].pc = "refreshing"
        /\ \/ /\ t \in table /\ task[t].status = "completed"
              /\ op' = [op EXCEPT ![p].pc = "announcing", ![p].seen = BodyOf(t)]
              /\ UNCHANGED batch
           \/ /\ t \in table /\ task[t].status # "completed"
              /\ Return(p, "done")
              /\ UNCHANGED batch
           \/ t \notin table /\ Raise(p)
        /\ UNCHANGED <<table, task, audit, outbox, due, crashes, notifier>>

\* Mutant: a rejected submission is announced too.
RefreshAlwaysAnnounces(p) ==
    /\ op[p].pc = "refreshing"
    /\ \/ /\ op[p].task \in table
          /\ op' = [op EXCEPT ![p].pc = "announcing", ![p].seen = BodyOf(op[p].task)]
          /\ UNCHANGED batch
       \/ op[p].task \notin table /\ Raise(p)
    /\ UNCHANGED <<table, task, audit, outbox, due, crashes, notifier>>

Refresh(p) ==
    LET t == op[p].task
    IN  /\ op[p].pc = "refreshing"
        /\ \/ /\ t \in table
              /\ op' = [op EXCEPT ![p].pc = IF task[t].status \in Terminal
                                            THEN "announcing" ELSE "done",
                                  ![p].seen = BodyOf(t)]
              /\ UNCHANGED batch
           \/ /\ t \notin table
              /\ Raise(p)
        /\ UNCHANGED <<table, task, audit, outbox, due, crashes, notifier>>

Announce(p) ==
    LET t == op[p].task
    IN  /\ op[p].pc = "announcing"
        /\ \/ /\ task[t].callback
              /\ ForeignKeys => t \in table
              /\ outbox' = [outbox EXCEPT ![t] = Append(@, op[p].seen)]
              /\ Return(p, "done")
              /\ UNCHANGED batch
           \/ /\ ~task[t].callback
              /\ Return(p, "done")
              /\ UNCHANGED <<outbox, batch>>
           \/ /\ task[t].callback /\ ForeignKeys /\ t \notin table
              /\ Raise(p)
              /\ UNCHANGED outbox
        /\ UNCHANGED <<table, task, audit, due, crashes, notifier>>

(***************************************************************************)
(* Notifying.  The call that created a task leaves two background tasks,   *)
(* Slack's and then e-mail's.  Each loads the row once, or gives up if it  *)
(* is gone, and reports each route that fails, in a transaction of its own *)
(* and with the status it loaded, whatever has become of the task.  The    *)
(* entry refers to no row: it is written for a deleted task as well.  A    *)
(* report that cannot be written is swallowed, which is no step at all.    *)
(***************************************************************************)
LoadForNotify(t, c) ==
    /\ MaxRoutes > 0
    /\ t \in table
    /\ notifier[t].channel = "none" \/ (notifier[t].channel = "slack" /\ c = "email")
    /\ notifier' = [notifier EXCEPT ![t] = [channel |-> c, seen |-> task[t].status,
                                            left |-> MaxRoutes]]
    /\ UNCHANGED <<table, task, audit, outbox, due, op, batch, crashes>>

NotifyFails(t) ==
    /\ notifier[t].channel \in Notifying
    /\ notifier[t].left > 0
    /\ Log(t, "notification_failed", notifier[t].seen, "notifier", 0)
    /\ notifier' = [notifier EXCEPT ![t].left = @ - 1]
    /\ UNCHANGED <<table, task, outbox, due, op, batch, crashes>>

(***************************************************************************)
(* The timeout scheduler: select the expired ids, then visit them one by   *)
(* one.  A task that settled in between is announced as it is found.       *)
(***************************************************************************)
\* Mutant: the sweep selects fresh tasks only and forgets the rejected ones.
SweepCreated ==
    /\ op[Scheduler].pc = "idle"
    /\ batch = {}
    /\ batch' = {t \in due : t \in table /\ task[t].status = "created"}
    /\ UNCHANGED <<table, task, audit, outbox, due, op, crashes, notifier>>

Sweep ==
    /\ op[Scheduler].pc = "idle"
    /\ batch = {}
    /\ batch' = {t \in due : Open(t)}
    /\ UNCHANGED <<table, task, audit, outbox, due, op, crashes, notifier>>

TimeOut(t) ==
    /\ op[Scheduler].pc = "idle"
    /\ t \in batch
    /\ \/ /\ Open(t)
          /\ task' = [task EXCEPT ![t].status = "timed_out"]
          /\ Log(t, "timed_out", "timed_out", Scheduler, 0)
          /\ batch' = batch \ {t}
          /\ op' = [op EXCEPT ![Scheduler] =
                      [IdleOp EXCEPT !.pc = "refreshing", !.kind = "sweep", !.task = t]]
       \/ /\ t \in table /\ task[t].status \in Terminal
          /\ batch' = batch \ {t}
          /\ op' = [op EXCEPT ![Scheduler] =
                      [IdleOp EXCEPT !.pc = "announcing", !.kind = "sweep", !.task = t,
                                     !.seen = BodyOf(t)]]
          /\ UNCHANGED <<task, audit>>
       \/ /\ t \notin table
          /\ Raise(Scheduler)
          /\ UNCHANGED <<task, audit>>
    /\ UNCHANGED <<table, outbox, due, crashes, notifier>>

(***************************************************************************)
(* The environment.                                                        *)
(***************************************************************************)
Expire(t) ==
    /\ t \in table \ due
    /\ due' = due \union {t}
    /\ UNCHANGED <<table, task, audit, outbox, op, batch, crashes, notifier>>

\* The process dies: what was in flight is gone, the database is not.
Crash ==
    /\ crashes < MaxCrashes
    /\ crashes' = crashes + 1
    /\ batch' = {}
    /\ op' = [p \in Process |->
                IF p = Scheduler THEN IdleOp
                ELSE IF op[p].pc \in InFlight THEN [op[p] EXCEPT !.pc = "lost"]
                ELSE op[p]]
    /\ notifier' = [t \in Task |-> IF task[t].status = "absent" THEN NotStarted
                                   ELSE [NotStarted EXCEPT !.channel = "lost"]]
    /\ UNCHANGED <<table, task, audit, outbox, due>>

-----------------------------------------------------------------------------
\* What a request that has started does next.
Continue(r) ==
    \/ \E verdict \in {"passed", "failed", "unreviewed"} : RecordSubmission(r, verdict)
    \/ SubmissionTooLate(r)
    \/ VerifierFails(r)
    \/ RecordClaim(r)
    \/ ClaimTooLate(r)
    \/ Refresh(r)
    \/ Announce(r)

SchedulerStep ==
    \/ Sweep
    \/ \E t \in Task : TimeOut(t)
    \/ Refresh(Scheduler)
    \/ Announce(Scheduler)

Begin(r, t) ==
    \/ \E c \in Channel : BeginSubmit(r, t, c)
    \/ \E u \in User : BeginClaim(r, t, u)
    \/ Cancel(r, t)

Next ==
    \/ \E t \in Task, assignee \in User \union {NONE}, reviewed, callback \in BOOLEAN :
          Create(t, assignee, reviewed, callback)
    \/ \E r \in Request, t \in Task : Begin(r, t)
    \/ \E r \in Request : Continue(r)
    \/ SchedulerStep
    \/ \E t \in Task : Expire(t) \/ Delete(t)
    \/ \E t \in Task, u \in User : EmailHandoff(t, u)
    \/ \E t \in Task, c \in Notifying : LoadForNotify(t, c)
    \/ \E t \in Task : NotifyFails(t)
    \/ Crash

Spec == Init /\ [][Next]_vars

(***************************************************************************)
(* The process keeps running between crashes: the scheduler's loop catches *)
(* every exception and starts over, a handler that has started runs on     *)
(* (the verifier call and the database calls return or raise), and a       *)
(* deadline passes in the end.  Nobody is obliged to answer, claim, cancel *)
(* or delete.                                                              *)
(***************************************************************************)
Fairness ==
    /\ WF_vars(SchedulerStep)
    /\ \A r \in Request : WF_vars(Continue(r))
    /\ \A t \in Task : WF_vars(Expire(t))

FairSpec == Spec /\ Fairness

-----------------------------------------------------------------------------
(***************************************************************************)
(* Safety.                                                                 *)
(***************************************************************************)
Settled(t) == task[t].status \in Terminal

\* First writer wins, for good: once a task is terminal neither its status nor
\* the answer it carries changes, whatever verifier call, sweep, cancel or claim
\* was under way when it settled (the guarded UPDATEs of task_service).
SettledIsFinal ==
    [][\A t \in Task : Settled(t) => BodyOf(t)' = BodyOf(t)]_vars

\* The entries that record a transition of the task.  A claim changes no status, and
\* a notifier's report carries one that was loaded earlier: anything else may lie in
\* between, the end of the task included.
IsTransition(e) == e.action \notin {"claimed", "notification_failed"}

\* The places of the trail at which the task has ended.
Ends(t) == {i \in DOMAIN audit[t] : IsTransition(audit[t][i]) /\ audit[t][i].to \in Terminal}

EndsOnce(t) ==
    /\ \A i, j \in Ends(t) : i = j
    /\ Settled(t) <=> Ends(t) # {}
    /\ \A j \in DOMAIN audit[t] : audit[t][j].to \in Terminal =>
          \E i \in Ends(t) : i <= j /\ audit[t][i].to = audit[t][j].to

\* The audit trail has exactly one transition to a terminal status for a settled task
\* and none for an open one: a lost race leaves no trace, a won race leaves one, and
\* whatever else the trail says of a terminal status, claims and the notifiers' late
\* reports, it says after that transition and with its status.
SettledOnce == \A t \in Task : EndsOnce(t)

IsSubmission(e) == e.action \in {"completed", "verified", "rejected", "verification_exhausted"}

\* The row is what the audit trail says: the last transition has the row's status,
\* and if it is a submission, the row carries its answer, however many claims and
\* failed notifications with statuses of long ago were recorded since.
AuditExplainsRow ==
    \A t \in Task : task[t].status # "absent" =>
        \E i \in DOMAIN audit[t] :
            /\ IsTransition(audit[t][i])
            /\ \A j \in DOMAIN audit[t] : j > i => ~IsTransition(audit[t][j])
            /\ audit[t][i].to = task[t].status
            /\ IsSubmission(audit[t][i]) => audit[t][i].by = task[t].answer

\* A human whose submission was accepted is never overruled: the task is COMPLETED
\* with that very answer, even if the process crashed right after the commit.
AcceptedAnswerStands ==
    \A r \in Request :
        op[r].verdict \in {"passed", "unreviewed"} =>
            BodyOf(op[r].task) = [status |-> "completed", answer |-> r]

\* A task is never exhausted early: each of the attempts 1..MaxAttempts was a
\* rejected submission on record, however the verifier calls overlapped.
NeverExhaustedEarly ==
    \A t \in Task : task[t].status = "verification_exhausted" =>
        \A k \in 1..MaxAttempts :
            \E i \in DOMAIN audit[t] :
                /\ audit[t][i].action \in {"rejected", "verification_exhausted"}
                /\ audit[t][i].attempt = k

\* A claimer who was told "yours" is the assignee, so two claimers are never
\* both told so, whichever of Slack, dashboard and e-mail they used.
ClaimedByWinner ==
    \A r \in Request :
        op[r].kind = "claim" /\ op[r].pc = "done" =>
            task[op[r].task].assignee = op[r].user

\* Every webhook a task's receiver may see tells the same story: the status and
\* answer the task settled with, also when the sweep found it already settled.
WebhooksAgree ==
    \A t \in Task : \A i \in DOMAIN outbox[t] :
        Settled(t) /\ outbox[t][i] = BodyOf(t)

(***************************************************************************)
(* The promise this module keeps (TaskPromise).                            *)
(***************************************************************************)
Phase(t) ==
    IF Settled(t) THEN "settled" ELSE IF task[t].status = "absent" THEN "absent" ELSE "open"

Promise == INSTANCE TaskPromise WITH
    Answer  <- Request,
    phase   <- [t \in Task |-> Phase(t)],
    outcome <- [t \in Task |-> IF Settled(t) THEN BodyOf(t) ELSE NoBody],
    told    <- [t \in Task |-> {outbox[t][i] : i \in DOMAIN outbox[t]}]

\* Every behaviour of the handlers is one of TaskPromise: a task settles once, with
\* one outcome, and no webhook row ever carries another.
KeepsPromise == Promise!Spec

(***************************************************************************)
(* Liveness.                                                               *)
(***************************************************************************)
\* A task whose deadline passes does not stay open: it settles (or is deleted),
\* although exceptions cut the scheduler's batch short and crashes restart it.
ExpiredTasksSettle ==
    \A t \in Task : t \in due ~> (Settled(t) \/ t \notin table)

\* A task that settled through an HTTP route or the sweep gets its webhook, as
\* long as the process does not crash and the row is not deleted.
SettledOverHttp(t) ==
    /\ Settled(t)
    /\ task[t].status \in {"completed", "verification_exhausted"} =>
          op[task[t].answer].channel \in HttpChannel

HttpSettlementsAnnounced ==
    \A t \in Task :
        (SettledOverHttp(t) /\ task[t].callback)
            ~> (outbox[t] # <<>> \/ t \notin table \/ crashes > 0)

(***************************************************************************)
(* Statements of the documentation and comments that the code breaks.      *)
(***************************************************************************)
\* webhook_dispatch.py, module docstring: "On every terminal-status transition
\* (COMPLETED, TIMED_OUT, CANCELLED, VERIFICATION_EXHAUSTED) the server writes a
\* `WebhookDelivery` row".
EveryTerminalTransitionIsAnnounced ==
    \A t \in Task :
        (Settled(t) /\ task[t].callback) ~> (outbox[t] # <<>> \/ t \notin table)
=============================================================================
