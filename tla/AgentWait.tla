----------------------------- MODULE AgentWait -----------------------------
(***************************************************************************)
(* The agent's side of a task: a program that calls await_human() once per *)
(* question, one after the other, directly (POST, then poll), in a         *)
(* Temporal workflow (activity, then a signal or a timer) or in a          *)
(* LangGraph node (POST, then interrupt(), resumed by the webhook and      *)
(* replayed from the start of the node).                                   *)
(*                                                                         *)
(* The server is TaskPromise, which TaskLifecycle implements: a task is    *)
(* asked, settles once, and may be told about.  It looks a key up among    *)
(* the rows of any status, as in TaskCreation.  Questions that differ in   *)
(* task or payload, or carry explicit keys, have different keys -- except  *)
(* under Temporal, whose default key is the workflow's.                    *)
(***************************************************************************)
EXTENDS Naturals, Sequences, FiniteSets

CONSTANTS
    Task,          \* ids new rows take
    Answer,        \* submissions
    Waits,         \* number of questions the program asks
    Program,       \* the ways it may be written
    MaxDeliveries, \* bound on how often one webhook arrives (at least once)
    MaxFailures,   \* bound on lost responses, poll errors and crashes of the agent
    MaxDeletes,    \* bound on the rows an operator deletes
    NONE

ASSUME WaitAssumption ==
    /\ Waits \in Nat \ {0}
    /\ Program \subseteq [adapter    : {"direct", "temporal", "langgraph"},
                           defaultKey : BOOLEAN,  \* Temporal: no idempotency_key is passed
                           sameNode   : BOOLEAN]  \* LangGraph: all questions in one node
    /\ MaxDeliveries \in Nat \ {0}
    /\ MaxFailures \in Nat
    /\ MaxDeletes \in Nat
    /\ NONE \notin Task \union Answer \union 1..Waits

VARIABLES
    phase, outcome, told,  \* the server's promise
    asked,      \* the question each row was created for
    gone,       \* rows that were deleted
    due,        \* rows whose timeout_at has passed
    delivered,  \* how often the webhook of each row has arrived
    program,    \* how this program is written
    agent,      \* where it is
    thread,     \* LangGraph: the resume values of the node under way
    result,     \* all that await_human ever returned or raised for each question
    strays,     \* history: <<t, w>> if the webhook of t resumed a graph parked on w
    failures,
    deletes

server == <<phase, outcome, told>>
vars == <<server, asked, gone, due, delivered, program, agent, thread, result, strays,
          failures, deletes>>

Server == INSTANCE TaskPromise

Wait == 1..Waits

adapter == program.adapter

SameNode == program.sameNode

\* The idempotency_key of a question: the workflow id alone, if Temporal is left to it.
Key(w) == IF adapter = "temporal" /\ program.defaultKey THEN 1 ELSE w

Terminal == {"completed", "timed_out", "cancelled", "verification_exhausted"}

\* What a call ends with: a task, and the status reported for it.
Report == [task : Task, status : Terminal \union {"not_found"}]

Agent == [pc   : {"calling", "waiting", "done"},
          at   : Wait,
          task : Task \union {NONE},
          got  : Report \union {NONE}]   \* Temporal: what the signal handler captured

Thread == [saved : Seq(Report),            \* answers to the node's earlier interrupts
           used  : Nat,                    \* interrupts of this execution so far
           fresh : Report \union {NONE}]   \* Command(resume=...), not yet consumed

TypeOK ==
    /\ phase \in [Task -> {"absent", "open", "settled"}]
    /\ outcome \in [Task -> Server!Outcome \union {Server!Unsettled}]
    /\ told \in [Task -> SUBSET Server!Outcome]
    /\ asked \in [Task -> Wait \union {NONE}]
    /\ gone \subseteq Task
    /\ due \subseteq Task
    /\ delivered \in [Task -> 0..MaxDeliveries]
    /\ program \in Program
    /\ agent \in Agent
    /\ thread \in Thread
    /\ result \in [Wait -> SUBSET Report]
    /\ strays \in SUBSET (Task \X Wait)
    /\ failures \in 0..MaxFailures
    /\ deletes \in 0..MaxDeletes

Calling(w) == [pc |-> "calling", at |-> w, task |-> NONE, got |-> NONE]

NewNode == [saved |-> <<>>, used |-> 0, fresh |-> NONE]

Init ==
    /\ Server!Init
    /\ asked = [t \in Task |-> NONE]
    /\ gone = {}
    /\ due = {}
    /\ delivered = [t \in Task |-> 0]
    /\ program \in Program
    /\ agent = Calling(1)
    /\ thread = NewNode
    /\ result = [w \in Wait |-> {}]
    /\ strays = {}
    /\ failures = 0
    /\ deletes = 0

Settled(t) == phase[t] = "settled"

\* Mutant: a response in the row is taken for a completion.
ReportOfResponse(t) ==
    [task |-> t, status |-> IF outcome[t].answer # NONE THEN "completed" ELSE outcome[t].status]

ReportOf(t) == [task |-> t, status |-> outcome[t].status]

-----------------------------------------------------------------------------
(***************************************************************************)
(* The server.                                                             *)
(***************************************************************************)
\* Mutant: only active rows answer for a key.
RowsActive(w) == {t \in Task \ gone : asked[t] # NONE /\ Key(asked[t]) = Key(w) /\ ~Settled(t)}

\* SELECT ... WHERE idempotency_key = :key, any status.
Rows(w) == {t \in Task \ gone : asked[t] # NONE /\ Key(asked[t]) = Key(w)}

\* Ids are random: any unused one will do.
FreshId == CHOOSE t \in Task : phase[t] = "absent"

FindOrCreate(w, t) ==
    \/ /\ t \in Rows(w)
       /\ UNCHANGED <<server, asked>>
    \/ /\ Rows(w) = {}
       /\ t = FreshId
       /\ Server!Ask(t)
       /\ asked' = [asked EXCEPT ![t] = w]

Expire(t) ==
    /\ phase[t] # "absent"
    /\ t \notin due
    /\ due' = due \union {t}
    /\ UNCHANGED <<server, asked, gone, delivered, program, agent, thread, result, strays,
                   failures, deletes>>

\* Agents go by the status; the rejected answer a row that was cancelled or timed out
\* may still hold makes no difference to them.
Settlement ==
    {o \in Server!Outcome : o.status \in {"cancelled", "timed_out"} => o.answer = NONE}

\* A human, an operator or the timeout scheduler settles a row that still exists.
Settle(t, o) ==
    /\ t \notin gone
    /\ o.status = "timed_out" => t \in due
    /\ Server!Settle(t, o)
    /\ UNCHANGED <<asked, gone, due, delivered, program, agent, thread, result, strays,
                   failures, deletes>>

\* The webhook, if there is a callback_url and the channel or the process gets to it.
Announce(t) ==
    /\ adapter # "direct"
    /\ t \notin gone
    /\ told[t] = {}
    /\ Server!Tell(t)
    /\ UNCHANGED <<asked, gone, due, delivered, program, agent, thread, result, strays,
                   failures, deletes>>

Delete(t) ==
    /\ deletes < MaxDeletes
    /\ phase[t] # "absent"
    /\ t \notin gone
    /\ gone' = gone \union {t}
    /\ deletes' = deletes + 1
    /\ UNCHANGED <<server, asked, due, delivered, program, agent, thread, result, strays, failures>>

-----------------------------------------------------------------------------
(***************************************************************************)
(* await_human() ends or suspends.                                         *)
(***************************************************************************)
\* The typed answer or exception of the call; the program goes on to its next question.
\* Its node's resume values end with the node.
Return(o, th) ==
    /\ result' = [result EXCEPT ![agent.at] = @ \union {o}]
    /\ IF agent.at < Waits
       THEN /\ agent' = Calling(agent.at + 1)
            /\ thread' = IF SameNode THEN th ELSE NewNode
       ELSE /\ agent' = [Calling(agent.at) EXCEPT !.pc = "done"]
            /\ thread' = NewNode

Suspend(t) ==
    /\ agent' = [agent EXCEPT !.pc = "waiting", !.task = t]
    /\ UNCHANGED <<thread, result>>

\* Direct: poll, whatever the POST said.
DirectAnswered(t) ==
    /\ adapter = "direct"
    /\ Suspend(t)

\* A terminal row is the answer: no webhook will come for it.
AnswerFromRow(t) == Return(ReportOf(t), thread)

\* Temporal: the row, if it is terminal; otherwise wait_condition.
TemporalAnswered(t) ==
    /\ adapter = "temporal"
    /\ IF Settled(t) THEN AnswerFromRow(t) ELSE Suspend(t)

\* LangGraph's interrupt(): resume values go to the node's interrupts in call order,
\* the newest to the first one without a value; an interrupt that gets none parks.
Interrupt(t) ==
    IF thread.used < Len(thread.saved)
    THEN Return(thread.saved[thread.used + 1], [thread EXCEPT !.used = @ + 1])
    ELSE IF thread.fresh # NONE
         THEN Return(thread.fresh, [saved |-> Append(thread.saved, thread.fresh),
                                    used  |-> thread.used + 1,
                                    fresh |-> NONE])
         ELSE Suspend(t)

\* LangGraph: the row, if it is terminal, without an interrupt(); otherwise what
\* interrupt() returns, if it returns.
LangGraphAnswered(t) ==
    /\ adapter = "langgraph"
    /\ IF Settled(t) THEN AnswerFromRow(t) ELSE Interrupt(t)

\* POST /api/tasks by the program, by an activity of the workflow, by the node.
DirectPost(t) == FindOrCreate(agent.at, t) /\ DirectAnswered(t)

ActivityPost(t) == FindOrCreate(agent.at, t) /\ TemporalAnswered(t)

NodePost(t) == FindOrCreate(agent.at, t) /\ LangGraphAnswered(t)

Post ==
    /\ agent.pc = "calling"
    /\ \E t \in Task : DirectPost(t) \/ ActivityPost(t) \/ NodePost(t)
    /\ UNCHANGED <<gone, due, delivered, program, strays, failures, deletes>>

(***************************************************************************)
(* Direct mode: GET /api/tasks/{id}/poll until the status is terminal.     *)
(***************************************************************************)
\* Mutant: the loop does not know the status "cancelled".
PollUncancelled ==
    /\ adapter = "direct"
    /\ agent.pc = "waiting"
    /\ \/ agent.task \in gone /\ Return([task |-> agent.task, status |-> "not_found"], thread)
       \/ /\ agent.task \notin gone
          /\ Settled(agent.task)
          /\ outcome[agent.task].status # "cancelled"
          /\ Return(ReportOf(agent.task), thread)
    /\ UNCHANGED <<server, asked, gone, due, delivered, program, strays, failures, deletes>>

\* poll_task_route: 404 for a row that is gone, the status of one that is terminal; any
\* other answer only makes the loop ask again.
PollReport(t) ==
    IF t \in gone THEN [task |-> t, status |-> "not_found"] ELSE ReportOf(t)

Poll ==
    /\ adapter = "direct"
    /\ agent.pc = "waiting"
    /\ agent.task \in gone \/ Settled(agent.task)
    /\ Return(PollReport(agent.task), thread)
    /\ UNCHANGED <<server, asked, gone, due, delivered, program, strays, failures, deletes>>

(***************************************************************************)
(* Temporal.                                                               *)
(***************************************************************************)
\* Mutant: one signal name for all keys, the prefix alone.
AddressedAny(t) == agent.pc # "done"

\* The signal is named after the key: the handlers of calls with another key, and
\* workflows that are over, make nothing of it.
Addressed(t) == agent.pc # "done" /\ Key(asked[t]) = Key(agent.at)

\* dispatch_signal, then the handler of the call with that key.
Signal(t, o) ==
    /\ adapter = "temporal"
    /\ agent' = IF Addressed(t) THEN [agent EXCEPT !.got = o] ELSE agent
    /\ UNCHANGED <<thread, strays>>

\* wait_condition is over: the signal is there.
Wake ==
    /\ adapter = "temporal"
    /\ agent.pc = "waiting"
    /\ agent.got # NONE
    /\ Return(agent.got, thread)
    /\ UNCHANGED <<server, asked, gone, due, delivered, program, strays, failures, deletes>>

\* The workflow's timer was started after the row's deadline was set, for as long --
\* by the question it was created for; another one brings a timeout of its own.
Timer ==
    /\ adapter = "temporal"
    /\ agent.pc = "waiting"
    /\ agent.got = NONE
    /\ agent.task \in due \/ asked[agent.task] # agent.at
    /\ Return([task |-> agent.task, status |-> "timed_out"], thread)
    /\ UNCHANGED <<server, asked, gone, due, delivered, program, strays, failures, deletes>>

(***************************************************************************)
(* LangGraph.                                                              *)
(***************************************************************************)
\* The question a node starts with.
NodeStart(w) == IF SameNode THEN 1 ELSE w

\* graph.ainvoke(Command(resume=...)): the node runs from its start, with one more
\* resume value.
Rerun(o) ==
    /\ agent' = Calling(NodeStart(agent.at))
    /\ thread' = [thread EXCEPT !.used = 0, !.fresh = o]

\* The callback handler resumes whatever the thread is parked on; a thread that has
\* ended takes nothing.
Resume(t, o) ==
    /\ adapter = "langgraph"
    /\ \/ /\ agent.pc = "waiting"
          /\ Rerun(o)
          /\ strays' = IF asked[t] # agent.at THEN strays \union {<<t, agent.at>>} ELSE strays
       \/ /\ agent.pc = "done"
          /\ UNCHANGED <<agent, thread, strays>>

\* The queue posts the webhook of t, once or more.
Deliver(t) ==
    /\ delivered[t] < MaxDeliveries
    /\ \E o \in told[t] :
          LET body == [task |-> t, status |-> o.status]
          IN  Signal(t, body) \/ Resume(t, body)
    /\ delivered' = [delivered EXCEPT ![t] = @ + 1]
    /\ UNCHANGED <<server, asked, gone, due, program, result, failures, deletes>>

-----------------------------------------------------------------------------
(***************************************************************************)
(* Failures.                                                               *)
(***************************************************************************)
\* A program that died, or whose call raised, starts over; a Temporal activity is
\* repeated; a LangGraph node that was not being resumed is run again.
StartOver ==
    /\ \/ adapter = "direct" /\ agent' = Calling(1)
       \/ adapter = "temporal" /\ agent.pc = "calling" /\ UNCHANGED agent
       \/ /\ adapter = "langgraph" /\ agent.pc = "calling" /\ thread = NewNode
          /\ agent' = Calling(NodeStart(agent.at))
    /\ failures < MaxFailures
    /\ failures' = failures + 1
    /\ UNCHANGED <<gone, due, delivered, program, thread, result, strays, deletes>>

\* The server has handled the POST, but its response is lost.
PostLost ==
    /\ agent.pc = "calling"
    /\ \E t \in Task : FindOrCreate(agent.at, t)
    /\ StartOver

Crash ==
    /\ adapter # "temporal"
    /\ StartOver
    /\ UNCHANGED <<server, asked>>

-----------------------------------------------------------------------------
AgentStep == Post \/ Poll \/ Wake \/ Timer

ServerStep(t) ==
    \/ Expire(t)
    \/ \E o \in Settlement : Settle(t, o)
    \/ Announce(t)
    \/ Delete(t)
    \/ Deliver(t)

Next ==
    \/ AgentStep
    \/ PostLost
    \/ Crash
    \/ \E t \in Task : ServerStep(t)

Spec == Init /\ [][Next]_vars

\* What TaskLifecycle's scheduler does for an expired task.
TimeOut(t) == \E o \in Settlement : o.status = "timed_out" /\ Settle(t, o)

\* The agent's program runs on; deadlines pass and the server's scheduler sweeps; the
\* queue delivers what was enqueued at least once.
Fairness ==
    /\ WF_vars(AgentStep)
    /\ \A t \in Task : WF_vars(Expire(t)) /\ WF_vars(TimeOut(t)) /\ WF_vars(delivered[t] = 0 /\ Deliver(t))

FairSpec == Spec /\ Fairness

-----------------------------------------------------------------------------
(***************************************************************************)
(* Properties.                                                             *)
(***************************************************************************)
\* Why question w may be given the answer to another one: its workflow leaves the key to
\* Temporal's default, which is the same for both; or a webhook of that task resumed the
\* graph, whose interrupt() does not look at what it is resumed with, while the questions
\* share a node or the graph was parked on w by then (a second delivery, or one after a
\* replayed POST had found the task settled).
MayCross(t, w) ==
    \/ adapter = "temporal" /\ program.defaultKey
    \/ /\ adapter = "langgraph"
       /\ delivered[t] > 0
       /\ SameNode \/ <<t, w>> \in strays

\* Across polls, signals, timers, replays, crashes, lost responses and repeated POSTs, no
\* question gets the answer to another one, but for one of those reasons.
OnlyConfusionCrosses ==
    \A w \in Wait : \A o \in result[w] : asked[o.task] = w \/ MayCross(o.task, w)

\* An agent is told what the server has settled on, and that for good.  The exceptions
\* are a row that was deleted and the workflow's own timer, after the deadline -- or
\* before it, if the row was created for another question with the same key.
ReportsAreTrue ==
    \A w \in Wait : \A o \in result[w] :
        \/ Settled(o.task) /\ o.status = outcome[o.task].status
        \/ o.status = "not_found" /\ o.task \in gone
        \/ /\ o.status = "timed_out" /\ adapter = "temporal"
           /\ o.task \in due \/ asked[o.task] # w

\* docs/concepts/idempotency.mdx: an agent that starts over gets what it got before, or
\* would have got.  Only a deletion changes the past, and LangGraph's resume values may:
\* in a node of several questions, or if one was brought to w by another one's webhook.
RerunsAgree ==
    deletes = 0 =>
        \A w \in Wait :
            \/ adapter = "langgraph" /\ (SameNode \/ \E t \in Task : <<t, w>> \in strays)
            \/ \A o, p \in result[w] : o = p

\* However often a program starts over, repeats its POST or is replayed, the reviewers
\* see one task per key, and one more for each that was deleted.
OneTicket ==
    \A w \in Wait :
        Cardinality({t \in Task : asked[t] # NONE /\ Key(asked[t]) = Key(w)}) <= 1 + deletes

\* A call that waits comes back: by the poll, by the signal or the timer; under
\* LangGraph, which has no timer, if the server has enqueued the webhook.
WaitsEnd ==
    \A w \in Wait :
        (/\ agent.pc = "waiting" /\ agent.at = w
         /\ adapter = "langgraph" => told[agent.task] # {}) ~> result[w] # {}
=============================================================================
