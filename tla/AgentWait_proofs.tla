-------------------------- MODULE AgentWait_proofs --------------------------
(***************************************************************************)
(* Proofs about AgentWait, for every number of questions, rows, deliveries,*)
(* failures and deletions, and for every adapter.                          *)
(***************************************************************************)
EXTENDS AgentWait, FiniteSetTheorems, TLAPS

\* The server tells what a task settled with, and only rows that exist have a question.
ServerOK ==
    \A t \in Task :
        /\ Settled(t) => outcome[t] \in Server!Outcome
        /\ \A o \in told[t] : Settled(t) /\ o = outcome[t]
        /\ phase[t] = "absent" <=> asked[t] = NONE

Typed ==
    /\ TypeOK
    /\ ServerOK
    /\ agent.pc = "waiting" => /\ agent.task \in Task /\ asked[agent.task] # NONE
                              /\ Key(asked[agent.task]) = Key(agent.at)

-----------------------------------------------------------------------------
(***************************************************************************)
(* Types.                                                                  *)
(***************************************************************************)
LEMMA Reports ==
  ASSUME Typed, NEW t \in Task
  PROVE  /\ Settled(t) => ReportOf(t) \in Report
         /\ [task |-> t, status |-> "timed_out"] \in Report
         /\ [task |-> t, status |-> "not_found"] \in Report
         /\ \A o \in told[t] : [task |-> t, status |-> o.status] \in Report
  <1>1. \A o \in Server!Outcome : o.status \in Terminal
      BY DEF Server!Outcome, Terminal
  <1> QED
      BY <1>1 DEF Typed, ServerOK, ReportOf, Report, Terminal

LEMMA StartTypes ==
  /\ 1 \in Wait
  /\ NewNode \in Thread
  /\ \A w \in Wait : Calling(w) \in Agent /\ NodeStart(w) \in Wait
  BY WaitAssumption DEF Wait, NewNode, Thread, Calling, Agent, NodeStart

LEMMA InitTyped == Init => Typed
  <1> SUFFICES ASSUME Init PROVE Typed
      OBVIOUS
  <1>1. 0 \in 0..MaxDeliveries /\ 0 \in 0..MaxFailures /\ 0 \in 0..MaxDeletes
      BY WaitAssumption
  <1>2. TypeOK
      BY <1>1, StartTypes DEF Init, Server!Init, TypeOK
  <1>3. ServerOK
      BY DEF Init, Server!Init, ServerOK, Settled
  <1> QED
      BY <1>2, <1>3 DEF Init, Typed, Calling

\* A call that ends leaves the program well typed, and not waiting.
LEMMA ReturnTyped ==
  ASSUME TypeOK, NEW o \in Report, NEW th \in Thread, Return(o, th)
  PROVE  /\ result' \in [Wait -> SUBSET Report]
         /\ agent' \in Agent
         /\ thread' \in Thread
         /\ agent'.pc # "waiting"
  <1>1. agent.at \in Wait
      BY DEF TypeOK, Agent
  <1>2. agent.at < Waits => agent.at + 1 \in Wait
      BY <1>1, WaitAssumption DEF Wait
  <1>3. result' \in [Wait -> SUBSET Report]
      BY <1>1 DEF Return, TypeOK
  <1>4. CASE agent.at < Waits
      BY <1>2, <1>3, <1>4, StartTypes DEF Return, Calling
  <1>5. CASE ~(agent.at < Waits)
      <2>1. agent' = [pc |-> "done", at |-> agent.at, task |-> NONE, got |-> NONE]
          BY <1>5 DEF Return, Calling
      <2> QED
          BY <1>1, <1>3, <1>5, <2>1, StartTypes DEF Return, Agent
  <1> QED
      BY <1>4, <1>5

LEMMA SuspendTyped ==
  ASSUME TypeOK, NEW t \in Task, Suspend(t)
  PROVE  /\ agent' \in Agent
         /\ agent'.pc = "waiting" /\ agent'.task = t /\ agent'.at = agent.at
         /\ thread' = thread /\ result' = result
  BY DEF TypeOK, Suspend, Agent

\* What is done with a row that is found or made.
LEMMA FindOrCreateTyped ==
  ASSUME Typed, NEW w \in Wait, NEW t \in Task, FindOrCreate(w, t)
  PROVE  /\ phase' \in [Task -> {"absent", "open", "settled"}]
         /\ outcome' = outcome /\ told' = told
         /\ asked' \in [Task -> Wait \union {NONE}]
         /\ asked'[t] # NONE /\ Key(asked'[t]) = Key(w)
         /\ \A u \in Task : asked[u] # NONE => asked'[u] = asked[u]
         /\ \A u \in Task : Settled(u)' <=> Settled(u)
         /\ ServerOK'
  <1>0. w # NONE
      BY WaitAssumption DEF Wait
  <1>1. CASE t \in Rows(w) /\ UNCHANGED <<server, asked>>
      BY <1>1 DEF Typed, TypeOK, ServerOK, Settled, Rows, server
  <1>2. CASE Rows(w) = {} /\ Server!Ask(t) /\ asked' = [asked EXCEPT ![t] = w]
      <2>1. phase[t] = "absent" /\ asked[t] = NONE /\ told[t] = {}
          BY <1>2 DEF Server!Ask, Typed, ServerOK, Settled
      <2>2. phase' = [phase EXCEPT ![t] = "open"] /\ outcome' = outcome /\ told' = told
          BY <1>2 DEF Server!Ask
      <2>3. \A u \in Task : Settled(u)' <=> Settled(u)
          BY <2>1, <2>2 DEF Settled, Typed, TypeOK
      <2>4. /\ phase' \in [Task -> {"absent", "open", "settled"}]
            /\ asked' \in [Task -> Wait \union {NONE}]
            /\ \A u \in Task : u # t => asked'[u] = asked[u] /\ phase'[u] = phase[u]
            /\ asked'[t] = w /\ phase'[t] = "open"
          BY <1>2, <2>2 DEF Typed, TypeOK
      <2>5. ServerOK'
          BY <1>0, <2>1, <2>2, <2>3, <2>4 DEF Typed, ServerOK, Settled
      <2> QED
          BY <1>0, <2>1, <2>2, <2>3, <2>4, <2>5
  <1> QED
      BY <1>1, <1>2 DEF FindOrCreate

\* The adapters' continuations of a POST, a poll, a signal or a timer.
LEMMA InterruptTyped ==
  ASSUME Typed, NEW t \in Task, Interrupt(t)
  PROVE  \/ Suspend(t)
         \/ \E o \in Report, th \in Thread : Return(o, th)
  <1>1. /\ thread.saved \in Seq(Report) /\ thread.used \in Nat
        /\ thread.fresh \in Report \union {NONE} /\ thread \in Thread
      BY DEF Typed, TypeOK, Thread
  <1>2. CASE thread.used < Len(thread.saved)
      <2>1. thread.saved[thread.used + 1] \in Report
          BY <1>1, <1>2
      <2>2. [thread EXCEPT !.used = @ + 1] \in Thread
          BY <1>1 DEF Thread
      <2> QED
          BY <1>2, <2>1, <2>2 DEF Interrupt
  <1>3. CASE ~(thread.used < Len(thread.saved)) /\ thread.fresh # NONE
      <2>1. thread.fresh \in Report
          BY <1>1, <1>3
      <2>2. [saved |-> Append(thread.saved, thread.fresh), used |-> thread.used + 1,
             fresh |-> NONE] \in Thread
          BY <1>1, <2>1 DEF Thread
      <2> QED
          BY <1>3, <2>1, <2>2 DEF Interrupt
  <1>4. CASE ~(thread.used < Len(thread.saved)) /\ thread.fresh = NONE
      BY <1>4 DEF Interrupt
  <1> QED
      BY <1>2, <1>3, <1>4

LEMMA AnsweredTyped ==
  ASSUME Typed, NEW t \in Task,
         DirectAnswered(t) \/ TemporalAnswered(t) \/ LangGraphAnswered(t)
  PROVE  \/ Suspend(t)
         \/ \E o \in Report, th \in Thread : Return(o, th)
  <1>1. CASE DirectAnswered(t)
      BY <1>1 DEF DirectAnswered
  <1>2. CASE TemporalAnswered(t)
      BY <1>2, Reports DEF TemporalAnswered, Typed, TypeOK, AnswerFromRow
  <1>3. CASE LangGraphAnswered(t)
      BY <1>3, Reports, InterruptTyped DEF LangGraphAnswered, Typed, TypeOK, AnswerFromRow
  <1> QED
      BY <1>1, <1>2, <1>3

LEMMA PostTyped ==
  ASSUME Typed, Post
  PROVE  Typed'
  <1>1. PICK t \in Task :
          /\ FindOrCreate(agent.at, t)
          /\ DirectAnswered(t) \/ TemporalAnswered(t) \/ LangGraphAnswered(t)
      BY DEF Post, DirectPost, ActivityPost, NodePost
  <1>2. agent.at \in Wait /\ TypeOK
      BY DEF Typed, TypeOK, Agent
  <1>3. /\ result' \in [Wait -> SUBSET Report] /\ agent' \in Agent /\ thread' \in Thread
        /\ agent'.pc = "waiting" => agent'.task = t /\ agent'.at = agent.at
      <2>1. CASE Suspend(t)
          BY <1>2, <2>1, SuspendTyped DEF TypeOK
      <2>2. CASE \E o \in Report, th \in Thread : Return(o, th)
          BY <1>2, <2>2, ReturnTyped
      <2> QED
          BY <1>1, <2>1, <2>2, AnsweredTyped
  <1>4. /\ phase' \in [Task -> {"absent", "open", "settled"}]
        /\ outcome' = outcome /\ told' = told
        /\ asked' \in [Task -> Wait \union {NONE}]
        /\ asked'[t] # NONE /\ Key(asked'[t]) = Key(agent.at)
        /\ ServerOK'
      BY <1>1, <1>2, FindOrCreateTyped
  <1> QED
      BY <1>2, <1>3, <1>4 DEF Post, Typed, TypeOK, DirectPost, ActivityPost, NodePost, Key, adapter

\* A step after which only the program differs.
LEMMA ProgramTyped ==
  ASSUME Typed, NEW o \in Report, Return(o, thread),
         UNCHANGED <<server, asked, gone, due, delivered, program, strays, failures, deletes>>
  PROVE  Typed'
  <1>1. thread \in Thread /\ TypeOK
      BY DEF Typed, TypeOK
  <1>2. /\ result' \in [Wait -> SUBSET Report] /\ agent' \in Agent /\ thread' \in Thread
        /\ agent'.pc # "waiting"
      BY <1>1, ReturnTyped
  <1> QED
      BY <1>2 DEF Typed, TypeOK, ServerOK, Settled, server

LEMMA PollTyped == ASSUME Typed, Poll PROVE Typed'
  <1>1. agent.task \in Task
      BY DEF Poll, Typed
  <1> QED
      BY <1>1, Reports, ProgramTyped DEF Poll, PollReport

LEMMA WakeTyped == ASSUME Typed, Wake PROVE Typed'
  <1>1. agent.got \in Report
      BY DEF Wake, Typed, TypeOK, Agent
  <1> QED
      BY <1>1, ProgramTyped DEF Wake

LEMMA TimerTyped == ASSUME Typed, Timer PROVE Typed'
  <1>1. agent.task \in Task
      BY DEF Timer, Typed
  <1> QED
      BY <1>1, Reports, ProgramTyped DEF Timer

LEMMA StartOverTyped ==
  ASSUME Typed, StartOver
  PROVE  /\ agent' \in Agent /\ agent'.pc # "waiting"
         /\ failures' \in 0..MaxFailures
         /\ UNCHANGED <<gone, due, delivered, program, thread, result, strays, deletes>>
  <1>1. agent \in Agent /\ agent.at \in Wait /\ failures \in 0..MaxFailures
      BY DEF Typed, TypeOK, Agent
  <1>2. Calling(1).pc = "calling" /\ Calling(NodeStart(agent.at)).pc = "calling"
      BY DEF Calling
  <1>3. failures' \in 0..MaxFailures
      BY <1>1, WaitAssumption DEF StartOver
  <1> QED
      BY <1>1, <1>2, <1>3, StartTypes DEF StartOver

LEMMA PostLostTyped == ASSUME Typed, PostLost PROVE Typed'
  <1>1. PICK t \in Task : FindOrCreate(agent.at, t)
      BY DEF PostLost
  <1>2. agent.at \in Wait
      BY DEF Typed, TypeOK, Agent
  <1>3. /\ phase' \in [Task -> {"absent", "open", "settled"}]
        /\ outcome' = outcome /\ told' = told
        /\ asked' \in [Task -> Wait \union {NONE}]
        /\ ServerOK'
      BY <1>1, <1>2, FindOrCreateTyped
  <1> QED
      BY <1>3, StartOverTyped DEF PostLost, Typed, TypeOK

LEMMA CrashTyped == ASSUME Typed, Crash PROVE Typed'
  <1>1. UNCHANGED <<phase, outcome, told, asked>> /\ StartOver
      BY DEF Crash, server
  <1> QED
      BY <1>1, StartOverTyped DEF Typed, TypeOK, ServerOK, Settled

LEMMA ExpireTyped == ASSUME Typed, NEW t \in Task, Expire(t) PROVE Typed'
  BY DEF Expire, Typed, TypeOK, ServerOK, Settled, server, Key, adapter

LEMMA SettleTyped ==
  ASSUME Typed, NEW t \in Task, NEW o \in Settlement, Settle(t, o)
  PROVE  Typed'
  <1>1. /\ phase[t] = "open" /\ o \in Server!Outcome
        /\ phase' = [phase EXCEPT ![t] = "settled"]
        /\ outcome' = [outcome EXCEPT ![t] = o]
        /\ told' = told
      BY DEF Settle, Server!Settle, Settlement
  <1>2. \A u \in Task : u # t => phase'[u] = phase[u] /\ outcome'[u] = outcome[u]
      BY <1>1 DEF Typed, TypeOK
  <1>3. phase'[t] = "settled" /\ outcome'[t] = o /\ told[t] = {} /\ asked[t] # NONE
      BY <1>1 DEF Typed, TypeOK, ServerOK, Settled
  <1>4. ServerOK'
      BY <1>1, <1>2, <1>3 DEF Settle, Typed, ServerOK, Settled
  <1>5. /\ phase' \in [Task -> {"absent", "open", "settled"}]
        /\ outcome' \in [Task -> Server!Outcome \union {Server!Unsettled}]
      BY <1>1 DEF Typed, TypeOK
  <1> QED
      BY <1>1, <1>4, <1>5 DEF Settle, Typed, TypeOK, Key, adapter

LEMMA AnnounceTyped == ASSUME Typed, NEW t \in Task, Announce(t) PROVE Typed'
  <1>1. /\ Settled(t)
        /\ told' = [told EXCEPT ![t] = @ \union {outcome[t]}]
        /\ UNCHANGED <<phase, outcome, asked>>
      BY DEF Announce, Server!Tell, Settled
  <1>2. outcome[t] \in Server!Outcome
      BY <1>1 DEF Typed, ServerOK
  <1>3. told' \in [Task -> SUBSET Server!Outcome]
      BY <1>1, <1>2 DEF Typed, TypeOK
  <1>4. ServerOK'
      BY <1>1, <1>2 DEF Typed, TypeOK, ServerOK, Settled
  <1> QED
      BY <1>1, <1>3, <1>4 DEF Announce, Typed, TypeOK, Key, adapter

LEMMA DeleteTyped == ASSUME Typed, NEW t \in Task, Delete(t) PROVE Typed'
  <1>1. deletes' \in 0..MaxDeletes
      BY WaitAssumption DEF Delete, Typed, TypeOK
  <1> QED
      BY <1>1 DEF Delete, Typed, TypeOK, ServerOK, Settled, server, Key, adapter

LEMMA DeliverTyped == ASSUME Typed, NEW t \in Task, Deliver(t) PROVE Typed'
  <1>1. PICK o \in told[t] :
          LET body == [task |-> t, status |-> o.status]
          IN  Signal(t, body) \/ Resume(t, body)
      BY DEF Deliver
  <1> DEFINE body == [task |-> t, status |-> o.status]
  <1>2. body \in Report
      BY Reports
  <1>3. /\ agent \in Agent /\ agent.at \in Wait /\ thread \in Thread
        /\ strays \in SUBSET (Task \X Wait)
      BY DEF Typed, TypeOK, Agent
  <1> HIDE DEF body
  <1>4. /\ agent' \in Agent /\ thread' \in Thread /\ strays' \in SUBSET (Task \X Wait)
        /\ agent'.pc = "waiting" => agent.pc = "waiting" /\ agent'.task = agent.task
                                     /\ agent'.at = agent.at
      <2>1. CASE Signal(t, body)
          BY <1>2, <1>3, <2>1 DEF Signal, Agent, Addressed
      <2>2. CASE Resume(t, body)
          <3>1. [thread EXCEPT !.used = 0, !.fresh = body] \in Thread
              BY <1>2, <1>3 DEF Thread
          <3>2. Calling(NodeStart(agent.at)) \in Agent
                /\ Calling(NodeStart(agent.at)).pc = "calling"
              BY <1>3, StartTypes DEF Calling
          <3> QED
              BY <1>3, <2>2, <3>1, <3>2 DEF Resume, Rerun
      <2> QED
          BY <1>1, <2>1, <2>2 DEF body
  <1>5. delivered' \in [Task -> 0..MaxDeliveries]
      <2>1. delivered[t] + 1 \in 0..MaxDeliveries
          BY WaitAssumption DEF Deliver, Typed, TypeOK
      <2> QED
          BY <2>1 DEF Deliver, Typed, TypeOK
  <1> QED
      BY <1>4, <1>5 DEF Deliver, Typed, TypeOK, ServerOK, Settled, server, Key, adapter

LEMMA NextTyped == ASSUME Typed, [Next]_vars PROVE Typed'
  <1>1. CASE AgentStep
      BY <1>1, PostTyped, PollTyped, WakeTyped, TimerTyped DEF AgentStep
  <1>2. CASE PostLost \/ Crash
      BY <1>2, PostLostTyped, CrashTyped
  <1>3. CASE \E t \in Task : ServerStep(t)
      BY <1>3, ExpireTyped, SettleTyped, AnnounceTyped, DeleteTyped, DeliverTyped DEF ServerStep
  <1>4. CASE UNCHANGED vars
      BY <1>4 DEF vars, server, Typed, TypeOK, ServerOK, Settled, Key, adapter
  <1> QED
      BY <1>1, <1>2, <1>3, <1>4 DEF Next

LEMMA AlwaysTyped == Spec => []Typed
  BY InitTyped, NextTyped, PTL DEF Spec

\* Every reachable state is well typed.
THEOREM AgentTyped == Spec => []TypeOK
  <1>1. Typed => TypeOK
      BY DEF Typed
  <1> QED
      BY <1>1, AlwaysTyped, PTL

-----------------------------------------------------------------------------
(***************************************************************************)
(* Reports.  What is reported once stays justified, because the server     *)
(* neither takes back an outcome nor gives a row to another question.      *)
(***************************************************************************)
\* What the server has settled on.
True(o) == Settled(o.task) /\ o.status = outcome[o.task].status

\* What question w may be told.
Justified(o, w) ==
    \/ True(o)
    \/ o.status = "not_found" /\ o.task \in gone
    \/ /\ o.status = "timed_out" /\ adapter = "temporal"
       /\ o.task \in due \/ (asked[o.task] # NONE /\ asked[o.task] # w)

\* The task a question is told about may be told to it.
Fits(t, w) == asked[t] = w \/ MayCross(t, w)

LEMMA ServerKeeps ==
  ASSUME Typed, [Next]_vars
  PROVE  /\ \A t \in Task : Settled(t) => Settled(t)' /\ outcome'[t] = outcome[t]
         /\ \A t \in Task : asked[t] # NONE => asked'[t] = asked[t]
         /\ gone \subseteq gone' /\ due \subseteq due' /\ program' = program
         /\ strays \subseteq strays'
         /\ \A t \in Task : delivered[t] > 0 => delivered'[t] > 0
  <1> DEFINE Kept == /\ \A t \in Task : Settled(t) => Settled(t)' /\ outcome'[t] = outcome[t]
                     /\ \A t \in Task : asked[t] # NONE => asked'[t] = asked[t]
                     /\ gone \subseteq gone' /\ due \subseteq due' /\ program' = program
                     /\ strays \subseteq strays'
                     /\ \A t \in Task : delivered[t] > 0 => delivered'[t] > 0
  <1>0. agent.at \in Wait
      BY DEF Typed, TypeOK, Agent
  <1>1. ASSUME Post \/ PostLost PROVE Kept
      <2>1. PICK t \in Task : FindOrCreate(agent.at, t)
          BY <1>1 DEF Post, PostLost, DirectPost, ActivityPost, NodePost
      <2>2. UNCHANGED <<gone, due, delivered, program, strays>>
          BY <1>1 DEF Post, PostLost, StartOver, DirectPost, ActivityPost, NodePost
      <2> QED
          BY <1>0, <2>1, <2>2, FindOrCreateTyped
  <1>2. ASSUME Poll \/ Wake \/ Timer \/ Crash PROVE Kept
      <2>1. UNCHANGED <<server, asked, gone, due, delivered, program, strays>>
          BY <1>2 DEF Poll, Wake, Timer, Crash, StartOver
      <2> QED
          BY <2>1 DEF server, Settled
  <1>3. ASSUME NEW t \in Task, Expire(t) \/ Delete(t) PROVE Kept
      BY <1>3 DEF Expire, Delete, server, Settled
  <1>4. ASSUME NEW t \in Task, NEW o \in Settlement, Settle(t, o) PROVE Kept
      BY <1>4 DEF Settle, Server!Settle, Settled, Typed, TypeOK
  <1>5. ASSUME NEW t \in Task, Announce(t) PROVE Kept
      BY <1>5 DEF Announce, Server!Tell, Settled
  <1>6. ASSUME NEW t \in Task, Deliver(t) PROVE Kept
      <2>1. strays \subseteq strays'
          BY <1>6 DEF Deliver, Signal, Resume, Addressed, Rerun
      <2>2. UNCHANGED <<server, asked, gone, due, program>>
          BY <1>6 DEF Deliver
      <2>3. \A u \in Task : delivered[u] > 0 => delivered'[u] > 0
          <3>1. \A u \in Task : delivered[u] \in Nat
              BY WaitAssumption DEF Typed, TypeOK
          <3>2. delivered' = [delivered EXCEPT ![t] = @ + 1]
              BY <1>6 DEF Deliver
          <3> QED
              BY <3>1, <3>2 DEF Typed, TypeOK
      <2> QED
          BY <2>1, <2>2, <2>3 DEF server, Settled
  <1>7. CASE UNCHANGED vars
      BY <1>7 DEF vars, server, Settled
  <1> QED
      BY <1>1, <1>2, <1>3, <1>4, <1>5, <1>6, <1>7 DEF Next, AgentStep, ServerStep

LEMMA TrueStays ==
  ASSUME Typed, [Next]_vars, NEW o \in Report, True(o)
  PROVE  True(o)'
  <1>1. o.task \in Task
      BY DEF Report
  <1> QED
      BY <1>1, ServerKeeps DEF True

LEMMA JustifiedStays ==
  ASSUME Typed, [Next]_vars, NEW o \in Report, NEW w \in Wait, Justified(o, w)
  PROVE  Justified(o, w)'
  <1>1. o.task \in Task
      BY DEF Report
  <1> QED
      BY <1>1, TrueStays, ServerKeeps DEF Justified, adapter

LEMMA FitsStays ==
  ASSUME Typed, [Next]_vars, NEW t \in Task, NEW w \in Wait, Fits(t, w)
  PROVE  Fits(t, w)'
  <1>1. w # NONE
      BY WaitAssumption DEF Wait
  <1>2. MayCross(t, w) => MayCross(t, w)'
      BY ServerKeeps DEF MayCross, adapter, SameNode
  <1> QED
      BY <1>1, <1>2, ServerKeeps DEF Fits

\* A row of the question's own key was asked for it, unless the key is Temporal's default.
LEMMA OwnKeyFits ==
  ASSUME NEW t \in Task, NEW w \in Wait, Key(asked[t]) = Key(w)
  PROVE  Fits(t, w)
  BY DEF Key, Fits, MayCross

\* A signal in hand has the key of the call that waits.
GotOK ==
    agent.got # NONE =>
        /\ adapter = "temporal"
        /\ True(agent.got)
        /\ Key(asked[agent.got.task]) = Key(agent.at)

\* Resume values were brought by webhooks; only between questions of one node, or if the
\* webhook found the graph parked on it, may one be for another call than the one that
\* takes it.
SavedOK ==
    \A i \in DOMAIN thread.saved :
        True(thread.saved[i]) /\ delivered[thread.saved[i].task] > 0

FreshOK ==
    thread.fresh # NONE =>
        /\ adapter = "langgraph"
        /\ True(thread.fresh) /\ delivered[thread.fresh.task] > 0
        /\ Fits(thread.fresh.task, agent.at)

NodeOK ==
    /\ ~SameNode => thread.saved = <<>> /\ thread.used = 0
    /\ adapter # "langgraph" => thread = NewNode

Held == GotOK /\ SavedOK /\ FreshOK /\ NodeOK

ReportsJustified == \A w \in Wait : \A o \in result[w] : Justified(o, w)

\* A workflow asks each question once.
AskedOnce ==
    adapter = "temporal" =>
        \A w \in Wait :
            /\ \A o, p \in result[w] : o = p
            /\ w > agent.at \/ (w = agent.at /\ agent.pc # "done") => result[w] = {}

\* A key has one row, but for those that were deleted.
OneRow ==
    /\ IsFiniteSet(gone) /\ Cardinality(gone) <= deletes
    /\ \A t, u \in Task \ gone :
          asked[t] # NONE /\ asked[u] # NONE /\ Key(asked[t]) = Key(asked[u]) => t = u

Inductive ==
    Held /\ OnlyConfusionCrosses /\ ReportsJustified /\ AskedOnce /\ OneRow

LEMMA InitInductive == Init => Inductive
  <1> SUFFICES ASSUME Init PROVE Inductive
      OBVIOUS
  <1>1. thread = NewNode /\ agent = Calling(1) /\ result = [w \in Wait |-> {}] /\ gone = {}
        /\ deletes = 0 /\ asked = [t \in Task |-> NONE]
      BY DEF Init
  <1>2. Held
      BY <1>1 DEF Held, GotOK, SavedOK, FreshOK, NodeOK, NewNode, Calling
  <1>3. OnlyConfusionCrosses /\ ReportsJustified /\ AskedOnce
      BY <1>1 DEF OnlyConfusionCrosses, ReportsJustified, AskedOnce
  <1>4. OneRow
      BY <1>1, FS_EmptySet DEF OneRow
  <1> QED
      BY <1>2, <1>3, <1>4 DEF Inductive

\* Nothing in hand changes, or all of it is dropped.
LEMMA HeldKept ==
  ASSUME Typed, Held, [Next]_vars,
         \/ agent'.got = agent.got /\ agent'.at = agent.at /\ thread' = thread
         \/ agent'.got = NONE /\ thread' = NewNode
  PROVE  Held'
  <1>1. CASE agent'.got = NONE /\ thread' = NewNode
      BY <1>1 DEF Held, GotOK, SavedOK, FreshOK, NodeOK, NewNode
  <1>2. CASE agent'.got = agent.got /\ agent'.at = agent.at /\ thread' = thread
      <2>1. /\ agent.got # NONE => agent.got \in Report /\ agent.got.task \in Task
            /\ thread.fresh # NONE => thread.fresh \in Report /\ thread.fresh.task \in Task
            /\ \A i \in DOMAIN thread.saved : thread.saved[i] \in Report
            /\ agent.at \in Wait /\ agent.at # NONE
          <3>1. /\ agent.got \in Report \union {NONE} /\ agent.at \in Wait
                /\ thread.fresh \in Report \union {NONE} /\ thread.saved \in Seq(Report)
              BY DEF Typed, TypeOK, Agent, Thread
          <3>2. agent.at # NONE
              BY <3>1, WaitAssumption DEF Wait
          <3>3. \A i \in DOMAIN thread.saved : thread.saved[i] \in Report
              BY <3>1
          <3> QED
              BY <3>1, <3>2, <3>3 DEF Report
      <2>2. /\ \A t \in Task : Settled(t) => asked'[t] = asked[t]
            /\ \A t \in Task : delivered[t] > 0 => delivered'[t] > 0
            /\ program' = program
          BY ServerKeeps DEF Typed, ServerOK, Settled
      <2>3. ASSUME NEW o \in Report, True(o) PROVE True(o)'
          BY <2>3, TrueStays
      <2>4. GotOK'
          BY <1>2, <2>1, <2>2, <2>3 DEF Held, GotOK, True, adapter, Key
      <2>5. SavedOK'
          <3> SUFFICES ASSUME NEW i \in DOMAIN thread.saved
                       PROVE  True(thread.saved[i])' /\ delivered'[thread.saved[i].task] > 0
              BY <1>2 DEF SavedOK
          <3>1. PICK o \in Report : o = thread.saved[i]
              BY <2>1
          <3>2. True(o)' /\ delivered'[o.task] > 0
              BY <2>2, <2>3, <3>1 DEF Held, SavedOK, Report
          <3> QED
              BY <1>2, <3>1, <3>2
      <2>6. FreshOK'
          <3> SUFFICES ASSUME thread.fresh # NONE
                       PROVE  /\ adapter' = "langgraph"
                              /\ True(thread.fresh)' /\ delivered'[thread.fresh.task] > 0
                              /\ Fits(thread.fresh.task, agent.at)'
              BY <1>2 DEF FreshOK
          <3>1. PICK o \in Report : o = thread.fresh
              BY <2>1
          <3>2. PICK w \in Wait : w = agent.at
              BY <2>1
          <3>3. /\ adapter = "langgraph" /\ True(o) /\ delivered[o.task] > 0
                /\ Fits(o.task, w) /\ o.task \in Task
              BY <3>1, <3>2 DEF Held, FreshOK, Report
          <3>4. adapter' = "langgraph" /\ True(o)' /\ delivered'[o.task] > 0 /\ Fits(o.task, w)'
              BY <2>2, <2>3, <3>3, FitsStays DEF adapter
          <3> QED
              BY <1>2, <3>1, <3>2, <3>4
      <2>7. NodeOK'
          BY <1>2, <2>2 DEF Held, NodeOK, adapter, SameNode
      <2> QED
          BY <2>4, <2>5, <2>6, <2>7 DEF Held
  <1> QED
      BY <1>1, <1>2

\* A call that ends drops its signal, and keeps resume values for its own node only.
LEMMA ReturnHeld ==
  ASSUME Typed, [Next]_vars, NEW o \in Report, NEW th \in Thread, Return(o, th),
         \A i \in DOMAIN th.saved : True(th.saved[i]) /\ delivered[th.saved[i].task] > 0,
         th.fresh # NONE =>
             adapter = "langgraph" /\ True(th.fresh) /\ delivered[th.fresh.task] > 0,
         adapter # "langgraph" => th = NewNode
  PROVE  Held'
  <1>1. /\ agent'.got = NONE
        /\ thread' = NewNode \/ (SameNode /\ thread' = th)
      BY DEF Return, Calling
  <1>2. CASE thread' = NewNode
      BY <1>1, <1>2 DEF Held, GotOK, SavedOK, FreshOK, NodeOK, NewNode
  <1>3. CASE SameNode /\ thread' = th
      <2>1. /\ th.fresh # NONE => th.fresh \in Report
            /\ \A i \in DOMAIN th.saved : th.saved[i] \in Report
          BY DEF Thread
      <2>2. ASSUME NEW q \in Report, True(q), delivered[q.task] > 0
            PROVE  True(q)' /\ delivered'[q.task] > 0
          BY <2>2, TrueStays, ServerKeeps DEF Report
      <2>3. program' = program /\ adapter' = adapter /\ SameNode' = SameNode
          BY ServerKeeps DEF adapter, SameNode
      <2>4. GotOK' /\ NodeOK'
          BY <1>1, <1>3, <2>3 DEF GotOK, NodeOK
      <2>5. SavedOK'
          <3> SUFFICES ASSUME NEW i \in DOMAIN th.saved
                       PROVE  True(th.saved[i])' /\ delivered'[th.saved[i].task] > 0
              BY <1>3 DEF SavedOK
          <3>1. PICK q \in Report : q = th.saved[i]
              BY <2>1
          <3>2. True(q)' /\ delivered'[q.task] > 0
              BY <2>2, <3>1
          <3> QED
              BY <3>1, <3>2
      <2>6. FreshOK'
          <3> SUFFICES ASSUME th.fresh # NONE
                       PROVE  /\ adapter' = "langgraph"
                              /\ True(th.fresh)' /\ delivered'[th.fresh.task] > 0
                              /\ Fits(th.fresh.task, agent.at)'
              BY <1>3 DEF FreshOK
          <3>1. PICK q \in Report : q = th.fresh
              BY <2>1
          <3>2. adapter' = "langgraph" /\ True(q)' /\ delivered'[q.task] > 0
              BY <2>2, <2>3, <3>1
          <3>3. MayCross(q.task, agent.at)'
              BY <1>3, <2>3, <3>2 DEF MayCross
          <3> QED
              BY <3>1, <3>2, <3>3 DEF Fits
      <2> QED
          BY <2>4, <2>5, <2>6 DEF Held
  <1> QED
      BY <1>1, <1>2, <1>3

-----------------------------------------------------------------------------
(***************************************************************************)
(* What a step does to the program: it ends a call with a justified report *)
(* that fits the question, or it ends none.                                *)
(***************************************************************************)
Ends ==
    \E o \in Report, th \in Thread, w \in Wait :
        /\ Return(o, th)
        /\ agent.pc # "done"
        /\ w = agent.at
        /\ Justified(o, w)'
        /\ Fits(o.task, w)'

Quiet ==
    /\ result' = result
    /\ adapter = "temporal" =>
          agent'.at = agent.at /\ (agent'.pc = "done" <=> agent.pc = "done")

\* A call that ends with the program's thread as it is.
LEMMA EndsPlainly ==
  ASSUME Typed, Held, [Next]_vars, NEW o \in Report, Return(o, thread), agent.pc # "done",
         NEW w \in Wait, w = agent.at, Justified(o, w)', Fits(o.task, w)'
  PROVE  Ends /\ Held'
  <1>1. thread \in Thread
      BY DEF Typed, TypeOK
  <1>2. Ends
      BY <1>1 DEF Ends
  <1>3. /\ \A i \in DOMAIN thread.saved :
              True(thread.saved[i]) /\ delivered[thread.saved[i].task] > 0
        /\ thread.fresh # NONE =>
              adapter = "langgraph" /\ True(thread.fresh) /\ delivered[thread.fresh.task] > 0
        /\ adapter # "langgraph" => thread = NewNode
      BY DEF Held, SavedOK, FreshOK, NodeOK
  <1> QED
      BY <1>1, <1>2, <1>3, ReturnHeld

LEMMA SuspendQuiet ==
  ASSUME Typed, Held, [Next]_vars, NEW t \in Task, Suspend(t), agent.pc = "calling"
  PROVE  Quiet /\ Held'
  <1>1. /\ agent'.got = agent.got /\ agent'.at = agent.at /\ agent'.pc = "waiting"
        /\ thread' = thread /\ result' = result
      BY DEF Suspend, Typed, TypeOK, Agent
  <1> QED
      BY <1>1, HeldKept DEF Quiet

\* A report that is true of a task that fits the question, and stays both.
LEMMA EndsWith ==
  ASSUME Typed, [Next]_vars, NEW o \in Report, NEW th \in Thread, Return(o, th),
         agent.pc # "done", True(o), Fits(o.task, agent.at)
  PROVE  Ends
  <1>1. PICK w \in Wait : w = agent.at
      BY DEF Typed, TypeOK, Agent
  <1>2. o.task \in Task /\ Justified(o, w) /\ Fits(o.task, w)
      BY <1>1 DEF Report, Justified
  <1>3. Justified(o, w)' /\ Fits(o.task, w)'
      BY <1>2, JustifiedStays, FitsStays
  <1> QED
      BY <1>1, <1>3 DEF Ends

LEMMA InterruptStep ==
  ASSUME Typed, Held, [Next]_vars, NEW t \in Task, Interrupt(t), adapter = "langgraph",
         agent.pc = "calling", delivered' = delivered
  PROVE  (Ends \/ Quiet) /\ Held'
  <1>1. /\ thread.saved \in Seq(Report) /\ thread.used \in Nat
        /\ thread.fresh \in Report \union {NONE} /\ thread \in Thread
        /\ agent.at \in Wait /\ agent.at # NONE
      BY WaitAssumption DEF Typed, TypeOK, Thread, Agent, Wait
  <1>2. CASE thread.used < Len(thread.saved)
      <2>1. thread.saved[thread.used + 1] \in Report /\ thread.used + 1 \in DOMAIN thread.saved
          BY <1>1, <1>2
      <2>2. PICK o \in Report : o = thread.saved[thread.used + 1]
          BY <2>1
      <2>3. PICK th \in Thread : th = [thread EXCEPT !.used = @ + 1]
          <3>1. [thread EXCEPT !.used = @ + 1] \in Thread
              BY <1>1 DEF Thread
          <3> QED
              BY <3>1
      <2>4. th.saved = thread.saved /\ th.fresh = thread.fresh
          BY <1>1, <2>3 DEF Thread
      <2>5. Return(o, th)
          BY <1>2, <2>2, <2>3 DEF Interrupt
      <2>6. True(o) /\ delivered[o.task] > 0
          BY <2>1, <2>2 DEF Held, SavedOK
      <2>7. Fits(o.task, agent.at)
          <3>1. SameNode
              <4>1. thread.saved # <<>>
                  BY <1>1, <1>2
              <4> QED
                  BY <4>1 DEF Held, NodeOK
          <3> QED
              BY <2>6, <3>1 DEF Fits, MayCross
      <2>8. Ends
          BY <1>1, <2>5, <2>6, <2>7, EndsWith
      <2>9. /\ \A i \in DOMAIN th.saved : True(th.saved[i]) /\ delivered[th.saved[i].task] > 0
            /\ th.fresh # NONE => True(th.fresh) /\ delivered[th.fresh.task] > 0
          BY <2>4 DEF Held, SavedOK, FreshOK
      <2> QED
          BY <2>5, <2>8, <2>9, ReturnHeld
  <1>3. CASE ~(thread.used < Len(thread.saved)) /\ thread.fresh # NONE
      <2>1. thread.fresh \in Report
          BY <1>1, <1>3
      <2>2. PICK o \in Report : o = thread.fresh
          BY <2>1
      <2>3. PICK th \in Thread : th = [saved |-> Append(thread.saved, thread.fresh),
                                      used  |-> thread.used + 1, fresh |-> NONE]
          <3>1. [saved |-> Append(thread.saved, thread.fresh), used |-> thread.used + 1,
                 fresh |-> NONE] \in Thread
              BY <1>1, <2>1 DEF Thread
          <3> QED
              BY <3>1
      <2>4. Return(o, th)
          BY <1>3, <2>2, <2>3 DEF Interrupt
      <2>5. True(o) /\ delivered[o.task] > 0 /\ Fits(o.task, agent.at) /\ o.task \in Task
          BY <1>3, <2>2 DEF Held, FreshOK, Report
      <2>8. Ends
          BY <1>1, <2>4, <2>5, EndsWith
      <2>9. \A i \in DOMAIN th.saved : True(th.saved[i]) /\ delivered[th.saved[i].task] > 0
          <3> SUFFICES ASSUME NEW i \in DOMAIN th.saved
                       PROVE  True(th.saved[i]) /\ delivered[th.saved[i].task] > 0
              OBVIOUS
          <3>1. th.saved = Append(thread.saved, o) /\ th.saved \in Seq(Report)
              BY <1>1, <2>2, <2>3
          <3>2. CASE i \in DOMAIN thread.saved
              <4>1. th.saved[i] = thread.saved[i]
                  BY <1>1, <3>1, <3>2
              <4> QED
                  BY <3>2, <4>1 DEF Held, SavedOK
          <3>3. CASE i \notin DOMAIN thread.saved
              <4>1. th.saved[i] = o
                  BY <1>1, <3>1, <3>3
              <4> QED
                  BY <2>5, <4>1
          <3> QED
              BY <3>2, <3>3
      <2>10. th.fresh = NONE
          BY <2>3
      <2> QED
          BY <2>4, <2>8, <2>9, <2>10, ReturnHeld
  <1>4. CASE ~(thread.used < Len(thread.saved)) /\ thread.fresh = NONE
      BY <1>4, SuspendQuiet DEF Interrupt
  <1> QED
      BY <1>2, <1>3, <1>4

\* A call that ends with what the server says of a row with the question's key.
LEMMA EndsWithOwnRow ==
  ASSUME Typed, Held, [Next]_vars, NEW o \in Report, Return(o, thread), agent.pc # "done",
         Justified(o, agent.at), Key(asked'[o.task]) = Key(agent.at)
  PROVE  Ends /\ Held'
  <1>1. PICK w \in Wait : w = agent.at
      BY DEF Typed, TypeOK, Agent
  <1>2. o.task \in Task /\ Justified(o, w)'
      BY <1>1, JustifiedStays DEF Report
  <1>3. Key(asked[o.task])' = Key(w)'
      BY <1>1, ServerKeeps DEF Key, adapter
  <1>4. Fits(o.task, w)'
      BY <1>2, <1>3 DEF Key, Fits, MayCross
  <1> QED
      BY <1>1, <1>2, <1>4, EndsPlainly

LEMMA ReportJustified ==
  ASSUME NEW o \in Report, NEW t \in Task, Settled(t), o = ReportOf(t)
  PROVE  o.task = t /\ \A w \in Wait : Justified(o, w)
  BY DEF Justified, True, ReportOf

LEMMA PostStep ==
  ASSUME Typed, Held, [Next]_vars, Post
  PROVE  (Ends \/ Quiet) /\ Held'
  <1>1. PICK t \in Task :
          /\ FindOrCreate(agent.at, t)
          /\ DirectAnswered(t) \/ TemporalAnswered(t) \/ LangGraphAnswered(t)
      BY DEF Post, DirectPost, ActivityPost, NodePost
  <1>2. agent.at \in Wait /\ agent.pc = "calling" /\ delivered' = delivered
      BY DEF Post, Typed, TypeOK, Agent, DirectPost, ActivityPost, NodePost
  <1>3. Key(asked'[t]) = Key(agent.at)
      BY <1>1, <1>2, FindOrCreateTyped
  <1>4. CASE Suspend(t)
      BY <1>2, <1>4, SuspendQuiet
  <1>5. CASE Settled(t) /\ Return(ReportOf(t), thread)
      <2>1. PICK o \in Report : o = ReportOf(t)
          BY <1>5, Reports
      <2>2. o.task = t /\ Justified(o, agent.at)
          BY <1>2, <1>5, <2>1, ReportJustified
      <2> QED
          BY <1>2, <1>3, <1>5, <2>1, <2>2, EndsWithOwnRow
  <1>6. CASE adapter = "langgraph" /\ Interrupt(t)
      BY <1>2, <1>6, InterruptStep
  <1> QED
      BY <1>1, <1>4, <1>5, <1>6 DEF DirectAnswered, TemporalAnswered, LangGraphAnswered, AnswerFromRow

LEMMA PollStep ==
  ASSUME Typed, Held, [Next]_vars, Poll
  PROVE  Ends /\ Held'
  <1>1. /\ agent.task \in Task /\ Key(asked[agent.task]) = Key(agent.at) /\ asked' = asked
        /\ agent.pc # "done" /\ agent.at \in Wait
      BY DEF Poll, Typed, TypeOK, Agent
  <1>2. CASE agent.task \in gone /\ Return([task |-> agent.task, status |-> "not_found"], thread)
      <2>1. PICK o \in Report : o = [task |-> agent.task, status |-> "not_found"]
          BY <1>1, Reports
      <2>2. o.task = agent.task /\ Justified(o, agent.at)
          BY <1>2, <2>1 DEF Justified
      <2> QED
          BY <1>1, <1>2, <2>1, <2>2, EndsWithOwnRow
  <1>3. CASE Settled(agent.task) /\ Return(ReportOf(agent.task), thread)
      <2>1. PICK o \in Report : o = ReportOf(agent.task)
          BY <1>1, <1>3, Reports
      <2>2. o.task = agent.task /\ Justified(o, agent.at)
          BY <1>1, <1>3, <2>1, ReportJustified
      <2> QED
          BY <1>1, <1>3, <2>1, <2>2, EndsWithOwnRow
  <1> QED
      BY <1>2, <1>3 DEF Poll, PollReport

LEMMA WakeStep ==
  ASSUME Typed, Held, [Next]_vars, Wake
  PROVE  Ends /\ Held'
  <1>1. agent.got \in Report /\ agent.pc # "done" /\ asked' = asked /\ Return(agent.got, thread)
      BY DEF Wake, Typed, TypeOK, Agent
  <1>2. PICK o \in Report : o = agent.got
      BY <1>1
  <1>3. Justified(o, agent.at) /\ Key(asked[o.task]) = Key(agent.at)
      BY <1>2 DEF Held, GotOK, Wake, Justified
  <1> QED
      BY <1>1, <1>2, <1>3, EndsWithOwnRow

LEMMA TimerStep ==
  ASSUME Typed, Held, [Next]_vars, Timer
  PROVE  Ends /\ Held'
  <1>1. /\ agent.task \in Task /\ asked[agent.task] # NONE
        /\ Key(asked[agent.task]) = Key(agent.at) /\ asked' = asked
        /\ agent.pc # "done" /\ adapter = "temporal"
        /\ agent.task \in due \/ asked[agent.task] # agent.at
        /\ Return([task |-> agent.task, status |-> "timed_out"], thread)
      BY DEF Timer, Typed
  <1>2. PICK o \in Report : o = [task |-> agent.task, status |-> "timed_out"]
      BY <1>1, Reports
  <1>3. o.task = agent.task /\ Justified(o, agent.at)
      BY <1>1, <1>2 DEF Justified
  <1> QED
      BY <1>1, <1>2, <1>3, EndsWithOwnRow

LEMMA StartOverStep ==
  ASSUME Typed, Held, [Next]_vars, StartOver
  PROVE  Quiet /\ Held'
  <1>1. /\ thread' = thread /\ result' = result
        /\ \/ adapter = "direct" /\ agent' = Calling(1)
           \/ adapter = "temporal" /\ agent' = agent
           \/ thread = NewNode /\ adapter = "langgraph" /\ agent' = Calling(NodeStart(agent.at))
      BY DEF StartOver
  <1>2. adapter = "direct" => thread = NewNode
      BY DEF Held, NodeOK
  <1>3. Calling(1).got = NONE /\ Calling(NodeStart(agent.at)).got = NONE
      BY DEF Calling
  <1>4. \/ agent'.got = agent.got /\ agent'.at = agent.at /\ thread' = thread
        \/ agent'.got = NONE /\ thread' = NewNode
      BY <1>1, <1>2, <1>3
  <1> QED
      BY <1>1, <1>4, HeldKept DEF Quiet

\* The server's steps leave the program alone, but for a delivery.
LEMMA ServerSideStep ==
  ASSUME Typed, Held, [Next]_vars, UNCHANGED <<agent, thread, result>>
  PROVE  Quiet /\ Held'
  BY HeldKept DEF Quiet

LEMMA DeliverStep ==
  ASSUME Typed, Held, [Next]_vars, NEW t \in Task, Deliver(t)
  PROVE  Quiet /\ Held'
  <1>1. PICK q \in told[t] :
          LET body == [task |-> t, status |-> q.status]
          IN  Signal(t, body) \/ Resume(t, body)
      BY DEF Deliver
  <1>2. PICK o \in Report : o = [task |-> t, status |-> q.status]
      BY Reports
  <1>3. o.task = t /\ True(o)
      BY <1>2 DEF Typed, ServerOK, True
  <1>4. True(o)'
      BY <1>3, TrueStays
  <1>5. /\ asked' = asked /\ result' = result /\ program' = program
        /\ adapter' = adapter /\ SameNode' = SameNode
        /\ agent \in Agent /\ thread \in Thread /\ agent.at \in Wait
      BY DEF Deliver, Typed, TypeOK, adapter, SameNode, Agent
  <1>51. /\ delivered'[t] > 0
         /\ \A u \in Task : delivered[u] > 0 => delivered'[u] > 0
      <2>1. delivered' = [delivered EXCEPT ![t] = @ + 1] /\ delivered[t] \in Nat
            /\ DOMAIN delivered = Task
          BY WaitAssumption DEF Deliver, Typed, TypeOK
      <2> QED
          BY <2>1, ServerKeeps
  <1>6. CASE Signal(t, o)
      <2>1. adapter = "temporal" /\ thread' = thread /\ thread = NewNode
          BY <1>6 DEF Signal, Held, NodeOK, Addressed
      <2>2. CASE agent' = agent
          BY <1>5, <2>1, <2>2, ServerSideStep
      <2>3. CASE agent.pc # "done" /\ Key(asked[t]) = Key(agent.at)
                 /\ agent' = [agent EXCEPT !.got = o]
          <3>1. agent'.got = o /\ agent'.at = agent.at /\ agent'.pc = agent.pc
              BY <1>5, <2>3 DEF Agent
          <3>2. GotOK'
              BY <1>3, <1>4, <1>5, <2>1, <2>3, <3>1 DEF GotOK, Key
          <3>3. SavedOK' /\ FreshOK' /\ NodeOK'
              BY <1>5, <2>1 DEF SavedOK, FreshOK, NodeOK, NewNode
          <3> QED
              BY <1>5, <3>1, <3>2, <3>3 DEF Quiet, Held
      <2> QED
          BY <1>6, <2>2, <2>3 DEF Signal, Addressed
  <1>7. CASE Resume(t, o)
      <2>1. adapter = "langgraph"
          BY <1>7 DEF Resume, Rerun
      <2>2. CASE UNCHANGED <<agent, thread, strays>>
          BY <1>5, <2>2, ServerSideStep
      <2>3. CASE /\ agent' = Calling(NodeStart(agent.at))
                 /\ thread' = [thread EXCEPT !.used = 0, !.fresh = o]
                 /\ strays' = IF asked[t] # agent.at THEN strays \union {<<t, agent.at>>}
                              ELSE strays
          <3>1. /\ agent'.got = NONE /\ agent'.at = NodeStart(agent.at)
                /\ thread'.saved = thread.saved /\ thread'.used = 0 /\ thread'.fresh = o
              BY <1>5, <2>3 DEF Calling, Thread
          <3>2. GotOK'
              BY <3>1 DEF GotOK
          <3>3. SavedOK'
              <4> SUFFICES ASSUME NEW i \in DOMAIN thread.saved
                           PROVE  True(thread.saved[i])' /\ delivered'[thread.saved[i].task] > 0
                  BY <3>1 DEF SavedOK
              <4>1. PICK p \in Report : p = thread.saved[i]
                  BY <1>5 DEF Thread
              <4>2. True(p)' /\ delivered'[p.task] > 0
                  BY <1>51, <4>1, TrueStays DEF Held, SavedOK, Report
              <4> QED
                  BY <3>1, <4>1, <4>2
          <3>4. FreshOK'
              <4>1. PICK w \in Wait : w = agent'.at
                  BY <1>5, <3>1, StartTypes
              <4>2. SameNode \/ w = agent.at
                  BY <3>1, <4>1 DEF NodeStart
              <4>3. Fits(t, w)'
                  BY <1>5, <1>51, <2>1, <2>3, <4>2 DEF Fits, MayCross
              <4>4. PICK r \in Report : r = thread'.fresh
                  BY <3>1
              <4>5. adapter' = "langgraph" /\ True(r)' /\ delivered'[r.task] > 0
                    /\ Fits(r.task, w)'
                  BY <1>3, <1>4, <1>5, <1>51, <2>1, <3>1, <4>3, <4>4
              <4> QED
                  BY <4>1, <4>4, <4>5 DEF FreshOK
          <3>5. NodeOK'
              BY <1>5, <2>1, <3>1 DEF Held, NodeOK
          <3> QED
              BY <1>5, <2>1, <3>2, <3>3, <3>4, <3>5 DEF Quiet, Held
      <2> QED
          BY <1>7, <2>2, <2>3 DEF Resume, Rerun
  <1> QED
      BY <1>1, <1>2, <1>6, <1>7

\* Every step ends a call with a true report of its own question, or ends none.
LEMMA StepCases ==
  ASSUME Typed, Held, [Next]_vars
  PROVE  (Ends \/ Quiet) /\ Held'
  <1>1. CASE Post \/ Poll \/ Wake \/ Timer
      BY <1>1, PostStep, PollStep, WakeStep, TimerStep
  <1>2. CASE PostLost \/ Crash
      BY <1>2, StartOverStep DEF PostLost, Crash
  <1>3. CASE \E t \in Task : ServerStep(t)
      <2>1. PICK t \in Task : ServerStep(t)
          BY <1>3
      <2>2. CASE Expire(t) \/ (\E o \in Settlement : Settle(t, o)) \/ Announce(t) \/ Delete(t)
          BY <2>2, ServerSideStep DEF Expire, Settle, Announce, Delete
      <2>3. CASE Deliver(t)
          BY <2>3, DeliverStep
      <2> QED
          BY <2>1, <2>2, <2>3 DEF ServerStep
  <1>4. CASE UNCHANGED vars
      BY <1>4, ServerSideStep DEF vars
  <1> QED
      BY <1>1, <1>2, <1>3, <1>4 DEF Next, AgentStep

-----------------------------------------------------------------------------
(***************************************************************************)
(* The invariant is inductive.                                             *)
(***************************************************************************)
LEMMA ReportsKept ==
  ASSUME Typed, [Next]_vars, OnlyConfusionCrosses, ReportsJustified, Ends \/ Quiet
  PROVE  OnlyConfusionCrosses' /\ ReportsJustified'
  <1>1. \A w \in Wait : \A o \in result[w] : o \in Report /\ o.task \in Task
      BY DEF Typed, TypeOK, Report
  <1>2. ASSUME NEW w \in Wait, NEW o \in result[w]
        PROVE  Justified(o, w)' /\ Fits(o.task, w)'
      <2>1. o \in Report /\ o.task \in Task /\ Justified(o, w) /\ Fits(o.task, w)
          BY <1>1 DEF ReportsJustified, OnlyConfusionCrosses, Fits
      <2> QED
          BY <2>1, JustifiedStays, FitsStays
  <1>3. ASSUME NEW w \in Wait, NEW o \in result'[w]
        PROVE  Justified(o, w)' /\ Fits(o.task, w)'
      <2>1. CASE Quiet
          BY <1>2, <2>1 DEF Quiet
      <2>2. CASE Ends
          <3>1. PICK p \in Report, v \in Wait :
                  /\ v = agent.at
                  /\ result' = [result EXCEPT ![agent.at] = @ \union {p}]
                  /\ Justified(p, v)' /\ Fits(p.task, v)'
              BY <2>2 DEF Ends, Return
          <3>2. o \in result[w] \/ (w = v /\ o = p)
              BY <3>1 DEF Typed, TypeOK
          <3> QED
              BY <1>2, <3>1, <3>2
      <2> QED
          BY <2>1, <2>2
  <1>4. OnlyConfusionCrosses'
      BY <1>3 DEF OnlyConfusionCrosses, Fits
  <1>5. ReportsJustified'
      BY <1>3 DEF ReportsJustified
  <1> QED
      BY <1>4, <1>5

LEMMA AskedOnceKept ==
  ASSUME Typed, [Next]_vars, AskedOnce, Ends \/ Quiet
  PROVE  AskedOnce'
  <1> SUFFICES ASSUME adapter' = "temporal",
                      NEW w \in Wait
               PROVE  /\ \A o, p \in result'[w] : o = p
                      /\ w > agent'.at \/ (w = agent'.at /\ agent'.pc # "done") => result'[w] = {}
      BY DEF AskedOnce
  <1>1. adapter = "temporal"
      BY ServerKeeps DEF adapter
  <1>2. /\ \A o, p \in result[w] : o = p
        /\ w > agent.at \/ (w = agent.at /\ agent.pc # "done") => result[w] = {}
      BY <1>1 DEF AskedOnce
  <1>3. CASE Quiet
      BY <1>1, <1>2, <1>3 DEF Quiet
  <1>4. CASE Ends
      <2>1. PICK o \in Report, th \in Thread : Return(o, th) /\ agent.pc # "done"
          BY <1>4 DEF Ends
      <2>2. agent.at \in Nat /\ w \in Nat /\ agent.at \in Wait
          BY WaitAssumption DEF Typed, TypeOK, Agent, Wait
      <2>3. result'[w] = IF w = agent.at THEN result[w] \union {o} ELSE result[w]
          BY <2>1, <2>2 DEF Return, Typed, TypeOK
      <2>4. agent'.at = agent.at + 1 \/ (agent'.at = agent.at /\ agent'.pc = "done")
          BY <2>1, <2>2 DEF Return, Calling
      <2>5. CASE w = agent.at
          BY <1>2, <2>1, <2>2, <2>3, <2>4, <2>5
      <2>6. CASE w # agent.at
          BY <1>2, <2>1, <2>2, <2>3, <2>4, <2>6
      <2> QED
          BY <2>5, <2>6
  <1> QED
      BY <1>3, <1>4

LEMMA OneRowKept ==
  ASSUME Typed, [Next]_vars, OneRow
  PROVE  OneRow'
  <1>0. program' = program
      BY ServerKeeps
  <1>1. CASE UNCHANGED <<asked, gone, deletes>>
      BY <1>0, <1>1 DEF OneRow, Key, adapter
  <1>2. CASE Post \/ PostLost
      <2>1. gone' = gone /\ deletes' = deletes
          BY <1>2 DEF Post, PostLost, StartOver, DirectPost, ActivityPost, NodePost
      <2>2. agent.at \in Wait /\ agent.at # NONE
          BY WaitAssumption DEF Typed, TypeOK, Agent, Wait
      <2>3. PICK t \in Task : FindOrCreate(agent.at, t)
          BY <1>2 DEF Post, PostLost, DirectPost, ActivityPost, NodePost
      <2>4. CASE asked' = asked
          BY <1>1, <2>1, <2>4
      <2>5. CASE Rows(agent.at) = {} /\ asked' = [asked EXCEPT ![t] = agent.at]
          <3>1. \A u \in Task \ gone : asked[u] # NONE => Key(asked[u]) # Key(agent.at)
              BY <2>5 DEF Rows
          <3>2. \A u \in Task : asked'[u] = IF u = t THEN agent.at ELSE asked[u]
              BY <2>5 DEF Typed, TypeOK
          <3>3. ASSUME NEW u \in Task \ gone, NEW x \in Task \ gone,
                       asked'[u] # NONE, asked'[x] # NONE, Key(asked'[u]) = Key(asked'[x])
                PROVE  u = x
              BY <3>1, <3>2, <3>3 DEF OneRow
          <3>4. ASSUME NEW v, NEW z, Key(v)' = Key(z)' PROVE Key(v) = Key(z)
              BY <1>0, <3>4 DEF Key, adapter
          <3>5. ASSUME NEW u \in Task \ gone, NEW x \in Task \ gone,
                       asked'[u] # NONE, asked'[x] # NONE, Key(asked[u])' = Key(asked[x])'
                PROVE  u = x
              <4>1. PICK v \in Wait : v = asked'[u]
                  BY <2>2, <2>5, <3>2, <3>5 DEF Typed, TypeOK
              <4>2. PICK z \in Wait : z = asked'[x]
                  BY <2>2, <2>5, <3>2, <3>5 DEF Typed, TypeOK
              <4>3. Key(v)' = Key(z)'
                  BY <3>5, <4>1, <4>2
              <4>4. Key(v) = Key(z)
                  BY <3>4, <4>3
              <4> QED
                  BY <3>3, <3>5, <4>1, <4>2, <4>4
          <3> QED
              BY <2>1, <3>5 DEF OneRow
      <2> QED
          BY <2>3, <2>4, <2>5 DEF FindOrCreate
  <1>3. ASSUME NEW t \in Task, Delete(t) PROVE OneRow'
      <2>1. /\ gone' = gone \union {t} /\ t \notin gone /\ deletes' = deletes + 1
            /\ asked' = asked /\ deletes \in Nat
          BY <1>3, WaitAssumption DEF Delete, Typed, TypeOK
      <2>2. IsFiniteSet(gone') /\ Cardinality(gone') = Cardinality(gone) + 1
          BY <2>1, FS_AddElement DEF OneRow
      <2>3. Cardinality(gone) \in Nat
          BY FS_CardinalityType DEF OneRow
      <2>4. Cardinality(gone') <= deletes'
          BY <2>1, <2>2, <2>3 DEF OneRow
      <2> QED
          BY <1>0, <2>1, <2>2, <2>4 DEF OneRow, Key, adapter
  <1>4. CASE Poll \/ Wake \/ Timer \/ Crash
      BY <1>1, <1>4 DEF Poll, Wake, Timer, Crash, StartOver
  <1>5. ASSUME NEW t \in Task,
               Expire(t) \/ (\E o \in Settlement : Settle(t, o)) \/ Announce(t) \/ Deliver(t)
        PROVE  OneRow'
      BY <1>1, <1>5 DEF Expire, Settle, Announce, Deliver
  <1>6. CASE UNCHANGED vars
      BY <1>1, <1>6 DEF vars
  <1> QED
      BY <1>2, <1>3, <1>4, <1>5, <1>6 DEF Next, AgentStep, ServerStep

LEMMA NextInductive == Typed /\ Inductive /\ [Next]_vars => Inductive'
  <1> SUFFICES ASSUME Typed, Inductive, [Next]_vars PROVE Inductive'
      OBVIOUS
  <1>1. (Ends \/ Quiet) /\ Held'
      BY StepCases DEF Inductive
  <1>2. OnlyConfusionCrosses' /\ ReportsJustified'
      BY <1>1, ReportsKept DEF Inductive
  <1>3. AskedOnce'
      BY <1>1, AskedOnceKept DEF Inductive
  <1>4. OneRow'
      BY OneRowKept DEF Inductive
  <1> QED
      BY <1>1, <1>2, <1>3, <1>4 DEF Inductive

LEMMA AlwaysInductive == Spec => []Inductive
  BY InitInductive, NextInductive, AlwaysTyped, PTL DEF Spec

-----------------------------------------------------------------------------
(***************************************************************************)
(* The properties.                                                         *)
(***************************************************************************)
\* Whatever is lost, repeated, late or replayed, no adapter returns to a question the
\* answer to another one, but for the reasons that MayCross names: Temporal's default key,
\* and LangGraph resumed by that task's webhook in a node of several questions or while it
\* was parked on this one.
THEOREM AnswersNeverCross == Spec => []OnlyConfusionCrosses
  <1>1. Inductive => OnlyConfusionCrosses
      BY DEF Inductive
  <1> QED
      BY <1>1, AlwaysInductive, PTL

\* What an agent was told of a task is, and remains, what the server has settled on; a
\* deletion and the workflow's own timer are the only other reasons.
THEOREM ReportsAlwaysTrue == Spec => []ReportsAreTrue
  <1>1. Inductive => ReportsAreTrue
      BY DEF Inductive, ReportsJustified, Justified, True, ReportsAreTrue
  <1> QED
      BY <1>1, AlwaysInductive, PTL

\* An agent that starts over, any number of times, gets the same report again.
THEOREM RerunsAlwaysAgree == Spec => []RerunsAgree
  <1>1. Typed /\ Inductive => RerunsAgree
      <2> SUFFICES ASSUME Typed, Inductive, deletes = 0, NEW w \in Wait,
                          adapter = "langgraph" =>
                              ~SameNode /\ \A t \in Task : <<t, w>> \notin strays,
                          NEW o \in result[w], NEW p \in result[w]
                   PROVE  o = p
          BY DEF RerunsAgree
      <2>1. CASE adapter = "temporal"
          BY <2>1 DEF Inductive, AskedOnce
      <2>2. CASE adapter # "temporal"
          <3>1. gone = {}
              <4>1. Cardinality(gone) = 0
                  BY FS_CardinalityType DEF Inductive, OneRow
              <4> QED
                  BY <4>1, FS_EmptySet DEF Inductive, OneRow
          <3>2. o \in Report /\ p \in Report
              BY DEF Typed, TypeOK
          <3>3. /\ asked[o.task] = w /\ asked[p.task] = w /\ w # NONE
                /\ o.task \in Task /\ p.task \in Task
              BY <2>2, <3>2, WaitAssumption DEF Inductive, OnlyConfusionCrosses, MayCross,
                                                Wait, Report
          <3>4. o.task = p.task
              BY <3>1, <3>3 DEF Inductive, OneRow
          <3>5. o.status = outcome[o.task].status /\ p.status = outcome[p.task].status
              BY <2>2, <3>1 DEF Inductive, ReportsJustified, Justified, True
          <3> QED
              BY <3>2, <3>4, <3>5 DEF Report
      <2> QED
          BY <2>1, <2>2
  <1> QED
      BY <1>1, AlwaysTyped, AlwaysInductive, PTL

\* However often a key is posted, there is one task for it among the rows
\* that were never deleted.
THEOREM AlwaysOneTicket == Spec => []OneTicket
  <1>1. Typed /\ Inductive => OneTicket
      <2> SUFFICES ASSUME Typed, Inductive, NEW w \in Wait
                   PROVE  Cardinality({t \in Task : asked[t] # NONE /\ Key(asked[t]) = Key(w)})
                             <= 1 + deletes
          BY DEF OneTicket
      <2> DEFINE S == {t \in Task : asked[t] # NONE /\ Key(asked[t]) = Key(w)}
      <2>1. IsFiniteSet(gone) /\ Cardinality(gone) <= deletes /\ Cardinality(gone) \in Nat
            /\ deletes \in Nat
          BY FS_CardinalityType, WaitAssumption DEF Inductive, OneRow, Typed, TypeOK
      <2>3. \A t, u \in S \ gone : t = u
          BY DEF Inductive, OneRow
      <2>4. CASE S \subseteq gone
          <3>1. Cardinality(S) <= Cardinality(gone) /\ Cardinality(S) \in Nat
              BY <2>1, <2>4, FS_Subset, FS_CardinalityType
          <3> QED
              BY <2>1, <3>1
      <2>5. ASSUME NEW x \in S \ gone PROVE Cardinality(S) <= 1 + deletes
          <3> DEFINE G == gone \union {x}
          <3>1. S \subseteq G
              BY <2>3
          <3>2. IsFiniteSet(G) /\ Cardinality(G) = Cardinality(gone) + 1
              BY <2>1, <2>5, FS_AddElement
          <3> HIDE DEF S, G
          <3>3. Cardinality(S) <= Cardinality(G) /\ Cardinality(S) \in Nat
              BY <3>1, <3>2, FS_Subset, FS_CardinalityType
          <3> QED
              BY <2>1, <3>2, <3>3
      <2> QED
          BY <2>4, <2>5
  <1> QED
      BY <1>1, AlwaysTyped, AlwaysInductive, PTL
=============================================================================
