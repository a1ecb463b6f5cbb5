------------------------- MODULE WebhookQueue_proofs -------------------------
(***************************************************************************)
(* Proofs about WebhookQueue, for every number of deliveries and           *)
(* dispatchers, every schedule of delays, and any number of redrives and   *)
(* crashes.                                                                *)
(***************************************************************************)
EXTENDS WebhookQueue, FiniteSetTheorems, TLAPS

\* A dispatcher posts or records one of the deliveries it holds.
Typed ==
    /\ TypeOK
    /\ \A s \in Dispatcher :
          disp[s].pc \in {"posting", "recording"} => disp[s].cur \in disp[s].todo

LEMMA Types ==
  ASSUME Typed
  PROVE  /\ \A d \in Delivery : row[d] \in DeliveryRow
         /\ \A s \in Dispatcher : disp[s] \in Disp
         /\ \A d \in Delivery : received[d] \in Nat /\ excuses[d] \in Nat
  BY DEF Typed, TypeOK

LEMMA Idles == IdleDisp \in Disp /\ NoCopy \in [Delivery -> Copy]
  BY DEF IdleDisp, Disp, NoCopy, Copy, Status, Steps

LEMMA InitTyped == Init => Typed
  <1> SUFFICES ASSUME Init PROVE Typed
      OBVIOUS
  <1>1. Len(Backoff) \in Nat
      BY QueueAssumption
  <1>2. [status |-> "absent", wait |-> 0, pin |-> NONE, age |-> 0, attempts |-> 0] \in DeliveryRow
      BY <1>1, QueueAssumption DEF DeliveryRow, Status, Steps
  <1>3. TypeOK
      BY <1>2, Idles, QueueAssumption DEF Init, TypeOK, NoRedrive, Status
  <1> QED
      BY <1>3 DEF Init, Typed, IdleDisp

LEMMA DelayTyped ==
  ASSUME NEW attempts \in Steps
  PROVE  Delay(attempts) \in Nat /\ OneMore(attempts) \in Steps
  <1>1. Len(Backoff) \in Nat \ {0} /\ \A i \in 1..Len(Backoff) : Backoff[i] \in Nat
      BY QueueAssumption
  <1>2. (IF attempts = 0 THEN 1 ELSE attempts) \in 1..Len(Backoff)
      BY <1>1 DEF Steps
  <1> QED
      BY <1>1, <1>2 DEF Delay, OneMore, Steps

LEMMA RowUpdates ==
  ASSUME NEW r \in DeliveryRow
  PROVE  /\ \A st \in Status : [r EXCEPT !.status = st] \in DeliveryRow
         /\ \A w \in Nat, p \in Dispatcher \union {NONE} :
               [r EXCEPT !.wait = w, !.pin = p] \in DeliveryRow
         /\ \A st \in Status, w \in Nat, p \in Dispatcher \union {NONE} :
               [r EXCEPT !.status = st, !.wait = w, !.pin = p] \in DeliveryRow
  BY DEF DeliveryRow

LEMMA RowRecorded ==
  ASSUME NEW r \in DeliveryRow, NEW n \in Steps, NEW st \in Status, NEW w \in Nat,
         NEW p \in Dispatcher \union {NONE}
  PROVE  [r EXCEPT !.attempts = n, !.status = st, !.wait = w, !.pin = p] \in DeliveryRow
  BY DEF DeliveryRow

LEMMA EnqueueTyped ==
  ASSUME Typed, NEW d \in Delivery, Enqueue(d)
  PROVE  Typed'
  <1>1. [row[d] EXCEPT !.status = "pending"] \in DeliveryRow
      BY Types, RowUpdates DEF Status
  <1> QED
      BY <1>1 DEF Enqueue, Typed, TypeOK

LEMMA ClaimTyped ==
  ASSUME Typed, NEW s \in Dispatcher, Claim(s)
  PROVE  Typed'
  <1> DEFINE due == {d \in Delivery : Due(d)}
  <1>1. \A d \in Delivery : [row[d] EXCEPT !.wait = PinWindow, !.pin = s] \in DeliveryRow
      BY Types, RowUpdates, QueueAssumption
  <1>2. row' \in [Delivery -> DeliveryRow]
      BY <1>1, Types DEF Claim
  <1>3. [IdleDisp EXCEPT !.pc = "fetching", !.todo = due] \in Disp
      BY Idles DEF Disp
  <1>4. disp' = [disp EXCEPT ![s] = [IdleDisp EXCEPT !.pc = "fetching", !.todo = due]]
      BY DEF Claim
  <1>5. disp' \in [Dispatcher -> Disp]
      BY <1>3, <1>4 DEF Typed, TypeOK
  <1>6. \A z \in Dispatcher :
           disp'[z].pc \in {"posting", "recording"} => disp'[z].cur \in disp'[z].todo
      BY <1>4 DEF Typed, TypeOK, IdleDisp
  <1>7. excuses' \in [Delivery -> Nat]
      <2>1. \A d \in Delivery : excuses[d] \in Nat /\ excuses[d] + 1 \in Nat
          BY Types
      <2>2. excuses' = [d \in Delivery |->
                          IF d \in due /\ row[d].wait = 0 /\ \E z \in Dispatcher : d \in Held(z)
                          THEN excuses[d] + 1 ELSE excuses[d]]
          BY DEF Claim
      <2> HIDE DEF due
      <2> QED
          BY <2>1, <2>2
  <1> QED
      BY <1>2, <1>5, <1>6, <1>7 DEF Claim, Typed, TypeOK

LEMMA FetchTyped ==
  ASSUME Typed, NEW s \in Dispatcher, Fetch(s)
  PROVE  Typed'
  <1> PICK mine \in SUBSET Delivery : mine = {d \in disp[s].todo : row[d].pin = s}
      BY Types DEF Disp
  <1> PICK copy \in [Delivery -> Copy] :
         copy = [d \in Delivery |->
                   IF d \in mine
                   THEN [status |-> row[d].status, attempts |-> row[d].attempts]
                   ELSE NoCopy[d]]
      <2>1. \A d \in Delivery : [status |-> row[d].status, attempts |-> row[d].attempts] \in Copy
          BY Types DEF DeliveryRow, Copy
      <2> QED
          BY <2>1, Idles
  <1> PICK pc \in {"idle", "working"} : pc = IF mine = {} THEN "idle" ELSE "working"
      OBVIOUS
  <1>1. disp' = [disp EXCEPT ![s] = [IdleDisp EXCEPT !.pc = pc, !.todo = mine, !.copy = copy]]
      BY DEF Fetch
  <1>2. [IdleDisp EXCEPT !.pc = pc, !.todo = mine, !.copy = copy] \in Disp
      BY Idles DEF Disp
  <1>3. disp' \in [Dispatcher -> Disp]
      BY <1>1, <1>2 DEF Typed, TypeOK
  <1>4. disp'[s].pc = pc
      BY <1>1 DEF Typed, TypeOK, IdleDisp
  <1> QED
      BY <1>1, <1>3, <1>4 DEF Fetch, Typed, TypeOK

LEMMA PostTyped ==
  ASSUME Typed, NEW s \in Dispatcher, Post(s)
  PROVE  Typed'
  <1> PICK d \in disp[s].todo : disp' = [disp EXCEPT ![s].pc = "posting", ![s].cur = d]
      BY DEF Post
  <1>1. disp[s] \in Disp
      BY Types
  <1>2. disp' = [disp EXCEPT ![s] = [disp[s] EXCEPT !.pc = "posting", !.cur = d]]
      BY DEF Typed, TypeOK
  <1>3. [disp[s] EXCEPT !.pc = "posting", !.cur = d] \in Disp
      BY <1>1 DEF Disp
  <1>4. disp'[s].cur \in disp'[s].todo
      BY <1>1, <1>2 DEF Typed, TypeOK, Disp
  <1>5. \A z \in Dispatcher : z # s => disp'[z] = disp[z]
      BY <1>2 DEF Typed, TypeOK
  <1>6. disp' \in [Dispatcher -> Disp]
      BY <1>2, <1>3 DEF Typed, TypeOK
  <1> QED
      BY <1>4, <1>5, <1>6 DEF Post, Typed, TypeOK

LEMMA ReplyTyped ==
  ASSUME Typed, NEW s \in Dispatcher, NEW taken \in BOOLEAN, NEW ok \in BOOLEAN,
         Reply(s, taken, ok)
  PROVE  Typed'
  <1>1. disp[s] \in Disp /\ disp[s].cur \in disp[s].todo
      BY Types DEF Reply, Typed
  <1>2. disp' = [disp EXCEPT ![s] = [disp[s] EXCEPT !.pc = "recording", !.ok = ok]]
      BY DEF Reply, Typed, TypeOK
  <1>3. [disp[s] EXCEPT !.pc = "recording", !.ok = ok] \in Disp
      BY <1>1 DEF Disp
  <1>4. disp'[s].cur \in disp'[s].todo
      BY <1>1, <1>2 DEF Typed, TypeOK, Disp
  <1>5. disp[s].cur \in Delivery
      BY <1>1 DEF Disp
  <1>6. received' \in [Delivery -> Nat] /\ excuses' \in [Delivery -> Nat]
      <2>1. \A d \in Delivery : received[d] + 1 \in Nat /\ excuses[d] + 1 \in Nat
          BY Types
      <2>2. \/ received' = received
            \/ received' = [received EXCEPT ![disp[s].cur] = received[disp[s].cur] + 1]
          BY DEF Reply
      <2>3. \/ excuses' = excuses
            \/ excuses' = [excuses EXCEPT ![disp[s].cur] = excuses[disp[s].cur] + 1]
          BY DEF Reply
      <2> QED
          BY <1>5, <2>1, <2>2, <2>3 DEF Typed, TypeOK
  <1>7. \A z \in Dispatcher : z # s => disp'[z] = disp[z]
      BY <1>2 DEF Typed, TypeOK
  <1>8. disp' \in [Dispatcher -> Disp]
      BY <1>2, <1>3 DEF Typed, TypeOK
  <1> QED
      BY <1>4, <1>6, <1>7, <1>8 DEF Reply, Typed, TypeOK

LEMMA RecordTyped ==
  ASSUME Typed, NEW s \in Dispatcher, Record(s)
  PROVE  Typed'
  <1>1. disp[s] \in Disp /\ disp[s].cur \in disp[s].todo
      BY Types DEF Record, Typed
  <1> PICK d \in Delivery : d = disp[s].cur
      BY <1>1 DEF Disp
  <1> PICK copy \in Copy : copy = disp[s].copy[d]
      BY <1>1 DEF Disp
  <1>2. row' \in [Delivery -> DeliveryRow]
      <2> PICK n \in Steps : n = OneMore(copy.attempts)
          BY DelayTyped DEF Copy
      <2> PICK outcome \in Status : outcome = Outcome(d, copy, disp[s].ok)
          BY DEF Outcome, Copy, Status
      <2>1. row[d] \in DeliveryRow
          BY Types
      <2> PICK st \in Status : st = IF outcome = copy.status THEN row[d].status ELSE outcome
          BY <2>1 DEF DeliveryRow
      <2> PICK w \in Nat :
             w = IF disp[s].ok \/ row[d].age = MaxAge THEN row[d].wait ELSE Delay(n)
          BY <2>1, DelayTyped DEF DeliveryRow
      <2> PICK p \in Dispatcher \union {NONE} :
             p = IF disp[s].ok \/ row[d].age = MaxAge THEN row[d].pin ELSE NONE
          BY <2>1 DEF DeliveryRow
      <2>2. [row[d] EXCEPT !.attempts = n, !.status = st, !.wait = w, !.pin = p] \in DeliveryRow
          BY ONLY <2>1, RowRecorded, n \in Steps, st \in Status, w \in Nat,
                  p \in Dispatcher \union {NONE}
      <2>3. row' = [row EXCEPT ![d].attempts = n, ![d].status = st, ![d].wait = w, ![d].pin = p]
          BY <2>1 DEF Record, DeliveryRow, Typed, TypeOK
      <2>4. row' = [row EXCEPT ![d] =
                      [row[d] EXCEPT !.attempts = n, !.status = st, !.wait = w, !.pin = p]]
          BY <2>1, <2>3 DEF Typed, TypeOK
      <2> QED
          BY <2>2, <2>4 DEF Typed, TypeOK
  <1>3. disp' \in [Dispatcher -> Disp]
        /\ disp'[s].pc \in {"idle", "working"}
        /\ \A z \in Dispatcher : z # s => disp'[z] = disp[z]
      <2> PICK rest \in SUBSET Delivery : rest = disp[s].todo \ {d}
          BY <1>1 DEF Disp
      <2> PICK pc \in {"idle", "working"} : pc = IF rest = {} THEN "idle" ELSE "working"
          OBVIOUS
      <2> PICK c \in [Delivery -> Copy] : c = [disp[s].copy EXCEPT ![d] = NoCopy[d]]
          BY <1>1, Idles DEF Disp
      <2>1. disp' = [disp EXCEPT ![s] =
                       [disp[s] EXCEPT !.pc = pc, !.todo = rest, !.cur = NONE, !.ok = FALSE,
                                       !.copy = c]]
          BY <1>1 DEF Record, Disp
      <2>2. [disp[s] EXCEPT !.pc = pc, !.todo = rest, !.cur = NONE, !.ok = FALSE, !.copy = c]
              \in Disp
          BY <1>1 DEF Disp
      <2>3. [disp[s] EXCEPT !.pc = pc, !.todo = rest, !.cur = NONE, !.ok = FALSE, !.copy = c].pc
              = pc
          BY <1>1 DEF Disp
      <2> QED
          BY <2>1, <2>2, <2>3 DEF Typed, TypeOK
  <1> QED
      BY <1>2, <1>3 DEF Record, Typed, TypeOK

LEMMA DropTyped ==
  ASSUME Typed, NEW s \in Dispatcher, Drop(s)
  PROVE  Typed'
  <1>1. disp' \in [Dispatcher -> Disp]
      BY Idles DEF Drop, Typed, TypeOK
  <1>2. \A z \in Dispatcher :
           disp'[z].pc \in {"posting", "recording"} => disp'[z].cur \in disp'[z].todo
      BY DEF Drop, Typed, TypeOK, IdleDisp
  <1>3. crashes' \in 0..MaxCrashes
      BY QueueAssumption DEF Drop, Typed, TypeOK
  <1>4. excuses' \in [Delivery -> Nat]
      <2>1. \A d \in Delivery : excuses[d] + 1 \in Nat
          BY Types
      <2> QED
          BY <2>1 DEF Drop, Typed, TypeOK
  <1> QED
      BY <1>1, <1>2, <1>3, <1>4 DEF Drop, Typed, TypeOK

LEMMA BeginRedeliverTyped ==
  ASSUME Typed, NEW d \in Delivery, BeginRedeliver(d)
  PROVE  Typed'
  <1>1. row[d].status \in Status
      BY Types DEF DeliveryRow
  <1> QED
      BY <1>1, QueueAssumption DEF BeginRedeliver, Typed, TypeOK

LEMMA FinishRedeliverTyped ==
  ASSUME Typed, NEW d \in Delivery, FinishRedeliver(d)
  PROVE  Typed'
  <1>1. row[d] \in DeliveryRow
      BY Types
  <1> PICK st \in Status : st = IF redrive.seen = "pending" THEN row[d].status ELSE "pending"
      BY <1>1 DEF DeliveryRow, Status
  <1>2. row' = [row EXCEPT ![d] = [row[d] EXCEPT !.status = st, !.wait = 0, !.pin = NONE]]
      BY <1>1 DEF FinishRedeliver, DeliveryRow, Typed, TypeOK
  <1>3. [row[d] EXCEPT !.status = st, !.wait = 0, !.pin = NONE] \in DeliveryRow
      BY <1>1, RowUpdates
  <1>4. row' \in [Delivery -> DeliveryRow]
      BY <1>2, <1>3 DEF Typed, TypeOK
  <1>5. excuses' \in [Delivery -> Nat]
      <2>1. excuses[d] + 1 \in Nat
          BY Types
      <2> QED
          BY <2>1 DEF FinishRedeliver, Typed, TypeOK
  <1>6. redrive' \in [target : Delivery \union {NONE}, seen : Status]
      BY DEF FinishRedeliver, NoRedrive, Status
  <1> QED
      BY <1>4, <1>5, <1>6 DEF FinishRedeliver, Typed, TypeOK

LEMMA TickTyped ==
  ASSUME Typed, Tick
  PROVE  Typed'
  <1>1. row' \in [Delivery -> DeliveryRow]
      <2> SUFFICES ASSUME NEW d \in Delivery PROVE row'[d] \in DeliveryRow
          BY DEF Tick
      <2>1. row[d] \in DeliveryRow /\ row[d].wait \in Nat /\ row[d].age \in 0..MaxAge
          BY Types DEF DeliveryRow
      <2> PICK w \in Nat : w = IF row[d].wait > 0 THEN row[d].wait - 1 ELSE 0
          BY <2>1
      <2> PICK a \in 0..MaxAge :
             a = IF row[d].status # "absent" /\ row[d].age < MaxAge
                 THEN row[d].age + 1 ELSE row[d].age
          BY <2>1, QueueAssumption
      <2>2. row'[d] = [row[d] EXCEPT !.wait = w, !.age = a]
          BY <2>1 DEF Tick, DeliveryRow
      <2>3. [row[d] EXCEPT !.wait = w, !.age = a] \in DeliveryRow
          BY <2>1 DEF DeliveryRow
      <2> QED
          BY <2>2, <2>3
  <1> QED
      BY <1>1 DEF Tick, Typed, TypeOK

LEMMA NextTyped == Typed /\ [Next]_vars => Typed'
  <1> SUFFICES ASSUME Typed, [Next]_vars PROVE Typed'
      OBVIOUS
  <1>1. ASSUME NEW d \in Delivery, Enqueue(d) \/ BeginRedeliver(d) \/ FinishRedeliver(d)
        PROVE  Typed'
      BY <1>1, EnqueueTyped, BeginRedeliverTyped, FinishRedeliverTyped
  <1>2. ASSUME NEW s \in Dispatcher, Dispatch(s) \/ Drop(s)
        PROVE  Typed'
      BY <1>2, ClaimTyped, FetchTyped, PostTyped, ReplyTyped, RecordTyped, DropTyped DEF Dispatch
  <1>3. CASE UNCHANGED vars
      BY <1>3 DEF vars, Typed, TypeOK
  <1> QED
      BY <1>1, <1>2, <1>3, TickTyped DEF Next

LEMMA AlwaysTyped == Spec => []Typed
  BY InitTyped, NextTyped, PTL DEF Spec

\* Every reachable state is well typed.
THEOREM QueueTyped == Spec => []TypeOK
  <1>1. Typed => TypeOK
      BY DEF Typed
  <1> QED
      BY <1>1, AlwaysTyped, PTL

-----------------------------------------------------------------------------
(***************************************************************************)
(* A budget of sends.  What a delivery may still be sent without a new     *)
(* excuse is owned by somebody: by each dispatcher that holds it and has   *)
(* no answer for it, by the dispatcher that fetches what it has just       *)
(* pinned, or by the row itself while it is pending and nobody holds it.   *)
(* A holder whose copy says SUCCEEDED does not count against the row: it   *)
(* would not write the status, so a redrive meanwhile frees the row again. *)
(***************************************************************************)
Finished(s, d) == disp[s].pc = "recording" /\ disp[s].ok /\ disp[s].cur = d

Pins(s, d) == disp[s].pc = "fetching" /\ d \in disp[s].todo /\ row[d].pin = s

Owns(s, d) == (d \in Held(s) /\ ~Finished(s, d)) \/ Pins(s, d)

Blocks(s, d) == (d \in Held(s) /\ disp[s].copy[d].status # "succeeded") \/ Pins(s, d)

Owners(d) == {s \in Dispatcher : Owns(s, d)}

RowFree(d) == row[d].status = "pending" /\ \A s \in Dispatcher : ~Blocks(s, d)

WithinBudget(d) ==
    received[d] + Cardinality(Owners(d)) + (IF RowFree(d) THEN 1 ELSE 0) <= 1 + excuses[d]

\* An abandoned delivery that was received, or may still be, has an excuse.
NotBuried(d) ==
    row[d].status = "abandoned" /\ (received[d] > 0 \/ Owners(d) # {}) => excuses[d] > 0

Untouched(d) ==
    row[d].status = "absent" =>
        received[d] = 0 /\ redrive.target # d /\ \A s \in Dispatcher : d \notin disp[s].todo

\* SUCCEEDED, in the row or about to be written, was heard from the receiver.
Heard(d) == row[d].status = "succeeded" => received[d] > 0

Answered(s) == disp[s].ok => disp[s].pc = "recording" /\ received[disp[s].cur] > 0

Accounted ==
    /\ \A d \in Delivery : WithinBudget(d) /\ NotBuried(d) /\ Untouched(d) /\ Heard(d)
    /\ \A s \in Dispatcher : Answered(s)

-----------------------------------------------------------------------------
\* What a step may do to the budget of a delivery.
Keeps(d) ==
    /\ received'[d] = received[d]
    /\ excuses'[d] >= excuses[d]
    /\ Owners(d)' \subseteq Owners(d)
    /\ RowFree(d)' => RowFree(d) \/ excuses'[d] > excuses[d] \/ Owners(d)' # Owners(d)
    /\ row'[d].status = "abandoned" =>
          row[d].status = "abandoned" \/ Owners(d)' # Owners(d)

Receives(d) ==
    /\ received'[d] = received[d] + 1
    /\ excuses'[d] >= excuses[d]
    /\ Owners(d)' \subseteq Owners(d)
    /\ excuses'[d] > excuses[d] \/ Owners(d)' # Owners(d)
    /\ RowFree(d)' => RowFree(d)
    /\ row'[d].status = row[d].status

IsClaimed(d) ==
    /\ received'[d] = received[d]
    /\ ~RowFree(d)'
    /\ row'[d].status = "pending"
    /\ \E s \in Dispatcher :
          \/ excuses'[d] = excuses[d] + 1 /\ Owners(d)' \subseteq Owners(d) \union {s}
          \/ /\ excuses'[d] = excuses[d]
             /\ Owners(d)' = {s}
             /\ RowFree(d) \/ Owners(d) # {}

IsEnqueued(d) ==
    /\ row[d].status = "absent" /\ row'[d].status = "pending"
    /\ received'[d] = received[d] /\ excuses'[d] >= excuses[d]
    /\ Owners(d)' = {} /\ received[d] = 0

BudgetStep(d) == Keeps(d) \/ Receives(d) \/ IsClaimed(d) \/ IsEnqueued(d)

LEMMA OwnersFinite ==
  ASSUME NEW d \in Delivery
  PROVE  /\ IsFiniteSet(Owners(d)) /\ Cardinality(Owners(d)) \in Nat
         /\ IsFiniteSet(Owners(d)') /\ Cardinality(Owners(d)') \in Nat
         /\ Owners(d) # {} => Cardinality(Owners(d)) >= 1
         /\ Owners(d)' \subseteq Owners(d) => Cardinality(Owners(d)') <= Cardinality(Owners(d))
         /\ Owners(d)' \subseteq Owners(d) /\ Owners(d)' # Owners(d) =>
               Cardinality(Owners(d)') + 1 <= Cardinality(Owners(d))
  <1>1. IsFiniteSet(Owners(d)) /\ IsFiniteSet(Owners(d)')
      BY QueueAssumption, FS_Subset DEF Owners
  <1>2. Cardinality(Owners(d)) \in Nat /\ Cardinality(Owners(d)') \in Nat
      BY <1>1, FS_CardinalityType
  <1>3. Owners(d) # {} => Cardinality(Owners(d)) >= 1
      BY <1>1, <1>2, FS_EmptySet
  <1>4. Owners(d)' \subseteq Owners(d) =>
           /\ Cardinality(Owners(d)') <= Cardinality(Owners(d))
           /\ Cardinality(Owners(d)') = Cardinality(Owners(d)) => Owners(d)' = Owners(d)
      BY <1>1, FS_Subset
  <1> QED
      BY <1>1, <1>2, <1>3, <1>4

\* The four kinds of step keep the budget.
LEMMA BudgetStepKeeps ==
  ASSUME Typed, NEW d \in Delivery, WithinBudget(d), NotBuried(d), BudgetStep(d), Typed'
  PROVE  WithinBudget(d)' /\ NotBuried(d)'
  <1> DEFINE n == Cardinality(Owners(d))
             m == Cardinality(Owners(d)')
             f == IF RowFree(d) THEN 1 ELSE 0
             g == IF RowFree(d)' THEN 1 ELSE 0
  <1>1. /\ n \in Nat /\ m \in Nat /\ f \in 0..1 /\ g \in 0..1
        /\ received[d] \in Nat /\ excuses[d] \in Nat
        /\ received'[d] \in Nat /\ excuses'[d] \in Nat
      <2>1. received[d] \in Nat /\ excuses[d] \in Nat
          BY Types
      <2>2. received'[d] \in Nat /\ excuses'[d] \in Nat
          BY DEF Typed, TypeOK
      <2>3. n \in Nat /\ m \in Nat
          BY OwnersFinite
      <2> QED
          BY <2>1, <2>2, <2>3
  <1>2. /\ Owners(d) # {} => n >= 1
        /\ Owners(d)' \subseteq Owners(d) => m <= n
        /\ Owners(d)' \subseteq Owners(d) /\ Owners(d)' # Owners(d) => m + 1 <= n
      BY OwnersFinite
  <1>3. /\ f = 1 <=> RowFree(d)
        /\ g = 1 <=> RowFree(d)'
      OBVIOUS
  <1>4. received[d] + n + f <= 1 + excuses[d]
      BY DEF WithinBudget
  <1>5. WithinBudget(d)' <=> received'[d] + m + g <= 1 + excuses'[d]
      BY DEF WithinBudget
  <1>6. Owners(d)' # {} => m >= 1
      BY OwnersFinite, FS_EmptySet
  <1>7. CASE Keeps(d)
      <2>1. received'[d] + m + g <= 1 + excuses'[d]
          <3> HIDE DEF n, m, f, g
          <3> QED
              BY <1>1, <1>2, <1>3, <1>4, <1>7 DEF Keeps
      <2>2. NotBuried(d)'
          <3> SUFFICES ASSUME row'[d].status = "abandoned", received'[d] > 0 \/ Owners(d)' # {}
                       PROVE  excuses'[d] > 0
              BY DEF NotBuried
          <3>1. CASE row[d].status = "abandoned"
              BY <1>1, <1>7, <3>1 DEF Keeps, NotBuried
          <3>2. CASE row[d].status # "abandoned"
              <4> HIDE DEF n, m, f, g
              <4> QED
                  BY <1>1, <1>2, <1>4, <1>6, <1>7, <3>2 DEF Keeps
          <3> QED
              BY <3>1, <3>2
      <2> QED
          BY <1>5, <2>1, <2>2
  <1>8. CASE Receives(d)
      <2>1. received'[d] + m + g <= 1 + excuses'[d]
          <3> HIDE DEF n, m, f, g
          <3> QED
              BY <1>1, <1>2, <1>3, <1>4, <1>8 DEF Receives
      <2>2. NotBuried(d)'
          <3> SUFFICES ASSUME row[d].status = "abandoned"
                       PROVE  excuses'[d] > 0
              BY <1>8 DEF NotBuried, Receives
          <3>1. excuses'[d] > excuses[d] \/ Owners(d) # {}
              BY <1>8 DEF Receives
          <3> QED
              BY <1>1, <1>8, <3>1 DEF NotBuried, Receives
      <2> QED
          BY <1>5, <2>1, <2>2
  <1>9. CASE IsClaimed(d)
      <2> PICK s \in Dispatcher :
             \/ excuses'[d] = excuses[d] + 1 /\ Owners(d)' \subseteq Owners(d) \union {s}
             \/ /\ excuses'[d] = excuses[d]
                /\ Owners(d)' = {s}
                /\ RowFree(d) \/ Owners(d) # {}
          BY <1>9 DEF IsClaimed
      <2>1. g = 0 /\ received'[d] = received[d]
          BY <1>9 DEF IsClaimed
      <2>2. Owners(d)' = {s} => m = 1
          BY FS_Singleton
      <2>3. Owners(d)' \subseteq Owners(d) \union {s} => m <= n + 1
          <3>1. IsFiniteSet(Owners(d) \union {s}) /\ Cardinality(Owners(d) \union {s}) <= n + 1
              <4> DEFINE S == Owners(d)
              <4>1. IsFiniteSet(S) /\ Cardinality(S) \in Nat
                  BY OwnersFinite
              <4> HIDE DEF S
              <4>2. /\ IsFiniteSet(S \union {s})
                    /\ Cardinality(S \union {s}) = Cardinality(S)
                       \/ Cardinality(S \union {s}) = Cardinality(S) + 1
                  BY <4>1, FS_AddElement
              <4> QED
                  BY <4>1, <4>2 DEF S
          <3>2. Owners(d)' \subseteq Owners(d) \union {s} =>
                   m <= Cardinality(Owners(d) \union {s})
              BY <3>1, FS_Subset
          <3>3. Cardinality(Owners(d) \union {s}) \in Nat
              BY <3>1, FS_CardinalityType
          <3> HIDE DEF n, m
          <3> QED
              BY <1>1, <3>1, <3>2, <3>3
      <2>4. received'[d] + m + g <= 1 + excuses'[d]
          <3> HIDE DEF n, m, f, g
          <3> QED
              BY <1>1, <1>2, <1>3, <1>4, <2>1, <2>2, <2>3
      <2>5. NotBuried(d)'
          BY <1>9 DEF NotBuried, IsClaimed
      <2> QED
          BY <1>5, <2>4, <2>5
  <1>10. CASE IsEnqueued(d)
      <2>1. m = 0
          BY <1>10, FS_EmptySet DEF IsEnqueued
      <2>2. received'[d] + m + g <= 1 + excuses'[d]
          <3> HIDE DEF n, m, f, g
          <3> QED
              BY <1>1, <1>10, <2>1 DEF IsEnqueued
      <2>3. NotBuried(d)'
          BY <1>10 DEF NotBuried, IsEnqueued
      <2> QED
          BY <1>5, <2>2, <2>3
  <1> QED
      BY <1>7, <1>8, <1>9, <1>10 DEF BudgetStep

-----------------------------------------------------------------------------
\* What one action has to show for the whole accounting to hold after it.
Accounts ==
    /\ \A d \in Delivery : BudgetStep(d) /\ Untouched(d)' /\ Heard(d)'
    /\ \A s \in Dispatcher : Answered(s)'

\* Keeps, owner by owner.
LEMMA KeepsByOwners ==
  ASSUME NEW d \in Delivery, received'[d] = received[d],
         excuses[d] \in Nat, excuses'[d] \in {excuses[d], excuses[d] + 1},
         \A z \in Dispatcher : Owns(z, d)' => Owns(z, d),
         RowFree(d)' => \/ RowFree(d)
                        \/ excuses'[d] = excuses[d] + 1
                        \/ \E z \in Dispatcher : Owns(z, d) /\ ~Owns(z, d)',
         row'[d].status = "abandoned" =>
            \/ row[d].status = "abandoned"
            \/ \E z \in Dispatcher : Owns(z, d) /\ ~Owns(z, d)'
  PROVE  Keeps(d)
  <1>1. Owners(d)' \subseteq Owners(d)
      BY DEF Owners
  <1>2. (\E z \in Dispatcher : Owns(z, d) /\ ~Owns(z, d)') => Owners(d)' # Owners(d)
      BY DEF Owners
  <1>3. excuses'[d] >= excuses[d]
      OBVIOUS
  <1>4. excuses'[d] = excuses[d] + 1 => excuses'[d] > excuses[d]
      OBVIOUS
  <1> QED
      BY <1>1, <1>2, <1>3, <1>4 DEF Keeps

\* A delivery, and a dispatcher, that a step does not concern.
LEMMA SameOwner ==
  ASSUME NEW d \in Delivery, NEW z \in Dispatcher,
         disp'[z] = disp[z], row'[d].pin = row[d].pin
  PROVE  (Owns(z, d)' <=> Owns(z, d)) /\ (Blocks(z, d)' <=> Blocks(z, d))
  BY DEF Owns, Blocks, Held, Finished, Pins

LEMMA SameOwners ==
  ASSUME Typed, NEW d \in Delivery, UNCHANGED <<disp, received, excuses>>,
         row'[d].pin = row[d].pin, row'[d].status = row[d].status
  PROVE  BudgetStep(d)
  <1>1. \A z \in Dispatcher : (Owns(z, d)' <=> Owns(z, d)) /\ (Blocks(z, d)' <=> Blocks(z, d))
      BY SameOwner
  <1>2. RowFree(d)' <=> RowFree(d)
      BY <1>1 DEF RowFree
  <1>3. excuses[d] \in Nat
      BY Types
  <1> QED
      BY <1>1, <1>2, <1>3, KeepsByOwners DEF BudgetStep

LEMMA EnqueueAccounts ==
  ASSUME Typed, Accounted, NEW e \in Delivery, Enqueue(e)
  PROVE  Accounts
  <1>1. /\ row[e].status = "absent" /\ row'[e].status = "pending"
        /\ \A d \in Delivery : d # e => row'[d] = row[d]
        /\ UNCHANGED <<disp, redrive, received, excuses>>
      <2>1. row[e] \in DeliveryRow
          BY Types
      <2> QED
          BY <2>1 DEF Enqueue, Typed, TypeOK, DeliveryRow
  <1>2. ASSUME NEW d \in Delivery
        PROVE  BudgetStep(d) /\ Untouched(d)' /\ Heard(d)'
      <2>1. CASE d = e
          <3>1. received[d] = 0 /\ \A s \in Dispatcher : d \notin disp[s].todo
              BY <1>1, <2>1 DEF Accounted, Untouched
          <3>2. Owners(d)' = {}
              BY <1>1, <3>1 DEF Owners, Owns, Held, Pins
          <3>3. excuses'[d] >= excuses[d]
              BY <1>1, Types
          <3>4. IsEnqueued(d)
              BY <1>1, <2>1, <3>1, <3>2, <3>3 DEF IsEnqueued
          <3> QED
              BY <1>1, <2>1, <3>4 DEF BudgetStep, Untouched, Heard
      <2>2. CASE d # e
          BY <1>1, <2>2, SameOwners DEF Accounted, Untouched, Heard
      <2> QED
          BY <2>1, <2>2
  <1>3. \A s \in Dispatcher : Answered(s)'
      BY <1>1 DEF Accounted, Answered
  <1> QED
      BY <1>2, <1>3 DEF Accounts

LEMMA ClaimAccounts ==
  ASSUME Typed, Accounted, NEW s \in Dispatcher, Claim(s)
  PROVE  Accounts
  <1>1. /\ disp[s].pc = "idle"
        /\ disp'[s].pc = "fetching" /\ ~disp'[s].ok
        /\ disp'[s].todo = {d \in Delivery : Due(d)}
        /\ \A z \in Dispatcher : z # s => disp'[z] = disp[z]
      BY DEF Claim, Typed, TypeOK, IdleDisp
  <1>2. \A d \in Delivery :
           /\ row'[d].status = row[d].status
           /\ Due(d) => row'[d].pin = s
           /\ ~Due(d) => row'[d] = row[d]
      BY Types DEF Claim, DeliveryRow
  <1>3. \A d \in Delivery :
           /\ Due(d) /\ (\E z \in Dispatcher : d \in Held(z)) => excuses'[d] = excuses[d] + 1
           /\ ~Due(d) \/ ~(\E z \in Dispatcher : d \in Held(z)) => excuses'[d] = excuses[d]
      BY DEF Claim, Due
  <1>4. UNCHANGED <<redrive, received>>
      BY DEF Claim
  <1>5. ASSUME NEW d \in Delivery, Due(d)
        PROVE  IsClaimed(d)
      <2>1. row[d].status = "pending" /\ row'[d].pin = s
          BY <1>2, <1>5 DEF Due
      <2>2. Owns(s, d)' /\ Blocks(s, d)'
          BY <1>1, <1>5, <2>1 DEF Owns, Blocks, Pins
      <2>3. \A z \in Dispatcher : z # s /\ Owns(z, d)' => d \in Held(z) /\ Owns(z, d)
          BY <1>1, <2>1 DEF Owns, Pins, Held, Finished
      <2>4. ~RowFree(d)'
          BY <2>2 DEF RowFree
      <2>5. CASE \E z \in Dispatcher : d \in Held(z)
          <3>1. Owners(d)' \subseteq Owners(d) \union {s}
              BY <2>3 DEF Owners
          <3> QED
              BY <1>2, <1>3, <1>4, <1>5, <2>1, <2>4, <2>5, <3>1 DEF IsClaimed
      <2>6. CASE ~\E z \in Dispatcher : d \in Held(z)
          <3>1. Owners(d)' = {s}
              BY <2>2, <2>3, <2>6 DEF Owners
          <3>2. RowFree(d) \/ Owners(d) # {}
              BY <2>1, <2>6 DEF RowFree, Blocks, Owners, Owns
          <3> QED
              BY <1>2, <1>3, <1>4, <1>5, <2>1, <2>4, <2>6, <3>1, <3>2 DEF IsClaimed
      <2> QED
          BY <2>5, <2>6
  <1>6. ASSUME NEW d \in Delivery, ~Due(d)
        PROVE  Keeps(d)
      <2>1. ~Owns(s, d)' /\ ~Blocks(s, d)'
          BY <1>1, <1>6 DEF Owns, Blocks, Held, Pins
      <2>2. \A z \in Dispatcher : z # s =>
               (Owns(z, d)' <=> Owns(z, d)) /\ (Blocks(z, d)' <=> Blocks(z, d))
          BY <1>1, <1>2, <1>6, SameOwner
      <2>3. Blocks(s, d) => Owns(s, d)
          BY <1>1 DEF Owns, Blocks, Finished
      <2>4. RowFree(d)' => RowFree(d) \/ \E z \in Dispatcher : Owns(z, d) /\ ~Owns(z, d)'
          BY <1>2, <2>1, <2>2, <2>3 DEF RowFree
      <2>5. excuses[d] \in Nat /\ excuses'[d] = excuses[d]
          BY <1>3, <1>6, Types
      <2> QED
          BY <1>2, <1>4, <2>1, <2>2, <2>4, <2>5, KeepsByOwners
  <1>7. \A d \in Delivery : Untouched(d)' /\ Heard(d)'
      BY <1>1, <1>2, <1>4 DEF Accounted, Untouched, Heard, Due
  <1>8. \A z \in Dispatcher : Answered(z)'
      BY <1>1, <1>4 DEF Accounted, Answered
  <1> QED
      BY <1>5, <1>6, <1>7, <1>8 DEF Accounts, BudgetStep

LEMMA FetchAccounts ==
  ASSUME Typed, Accounted, NEW s \in Dispatcher, Fetch(s)
  PROVE  Accounts
  <1> PICK mine \in SUBSET Delivery : mine = {d \in disp[s].todo : row[d].pin = s}
      BY Types DEF Disp
  <1>1. /\ disp[s].pc = "fetching"
        /\ disp'[s].pc \in {"idle", "working"} /\ ~disp'[s].ok
        /\ disp'[s].todo = mine
        /\ \A d \in mine : disp'[s].copy[d].status = row[d].status
        /\ \A z \in Dispatcher : z # s => disp'[z] = disp[z]
      BY DEF Fetch, Typed, TypeOK, IdleDisp
  <1>2. UNCHANGED <<row, redrive, received, excuses>>
      BY DEF Fetch
  <1>3. ASSUME NEW d \in Delivery
        PROVE  Keeps(d)
      <2>1. /\ Owns(s, d)' <=> d \in mine
            /\ Owns(s, d) <=> d \in mine
            /\ Blocks(s, d) <=> d \in mine
          BY <1>1 DEF Owns, Blocks, Held, Pins, Finished
      <2>2. row[d].status = "pending" /\ d \in mine => Blocks(s, d)'
          BY <1>1 DEF Blocks, Held
      <2>3. \A z \in Dispatcher : z # s =>
               (Owns(z, d)' <=> Owns(z, d)) /\ (Blocks(z, d)' <=> Blocks(z, d))
          BY <1>1, <1>2, SameOwner
      <2>4. RowFree(d)' => RowFree(d)
          BY <1>2, <2>1, <2>2, <2>3 DEF RowFree
      <2>5. excuses[d] \in Nat
          BY Types
      <2> QED
          BY <1>2, <2>1, <2>3, <2>4, <2>5, KeepsByOwners
  <1>4. \A d \in Delivery : Untouched(d)' /\ Heard(d)'
      BY <1>1, <1>2 DEF Accounted, Untouched, Heard
  <1>5. \A z \in Dispatcher : Answered(z)'
      BY <1>1, <1>2 DEF Accounted, Answered
  <1> QED
      BY <1>3, <1>4, <1>5 DEF Accounts, BudgetStep

LEMMA PostAccounts ==
  ASSUME Typed, Accounted, NEW s \in Dispatcher, Post(s)
  PROVE  Accounts
  <1>1. disp[s] \in Disp
      BY Types
  <1>2. /\ disp[s].pc = "working" /\ disp'[s].pc = "posting"
        /\ disp'[s].todo = disp[s].todo /\ disp'[s].copy = disp[s].copy
        /\ disp'[s].ok = disp[s].ok
        /\ \A z \in Dispatcher : z # s => disp'[z] = disp[z]
      BY <1>1 DEF Post, Typed, TypeOK, Disp
  <1>3. UNCHANGED <<row, redrive, received, excuses>>
      BY DEF Post
  <1>4. ASSUME NEW d \in Delivery
        PROVE  Keeps(d)
      <2>1. (Owns(s, d)' <=> Owns(s, d)) /\ (Blocks(s, d)' <=> Blocks(s, d))
          BY <1>2 DEF Owns, Blocks, Held, Pins, Finished
      <2>2. \A z \in Dispatcher :
               (Owns(z, d)' <=> Owns(z, d)) /\ (Blocks(z, d)' <=> Blocks(z, d))
          BY <1>2, <1>3, <2>1, SameOwner
      <2>3. RowFree(d)' => RowFree(d)
          BY <1>3, <2>2 DEF RowFree
      <2>4. excuses[d] \in Nat
          BY Types
      <2> QED
          BY <1>3, <2>2, <2>3, <2>4, KeepsByOwners
  <1>5. \A d \in Delivery : Untouched(d)' /\ Heard(d)'
      BY <1>2, <1>3 DEF Accounted, Untouched, Heard
  <1>6. \A z \in Dispatcher : Answered(z)'
      BY <1>2, <1>3 DEF Accounted, Answered
  <1> QED
      BY <1>4, <1>5, <1>6 DEF Accounts, BudgetStep

LEMMA ReplyAccounts ==
  ASSUME Typed, Accounted, NEW s \in Dispatcher, NEW taken \in BOOLEAN, NEW ok \in BOOLEAN,
         Reply(s, taken, ok)
  PROVE  Accounts
  <1>1. disp[s] \in Disp /\ disp[s].cur \in disp[s].todo
      BY Types DEF Reply, Typed
  <1> PICK cur \in Delivery : cur = disp[s].cur
      BY <1>1 DEF Disp
  <1>2. /\ disp[s].pc = "posting" /\ disp'[s].pc = "recording"
        /\ disp'[s].todo = disp[s].todo /\ disp'[s].copy = disp[s].copy
        /\ disp'[s].cur = cur /\ disp'[s].ok = ok
        /\ \A z \in Dispatcher : z # s => disp'[z] = disp[z]
      BY <1>1 DEF Reply, Typed, TypeOK, Disp
  <1>3. /\ UNCHANGED <<row, redrive>>
        /\ received'[cur] = IF taken THEN received[cur] + 1 ELSE received[cur]
        /\ excuses'[cur] = IF taken /\ ~ok THEN excuses[cur] + 1 ELSE excuses[cur]
        /\ \A d \in Delivery : d # cur => received'[d] = received[d] /\ excuses'[d] = excuses[d]
        /\ ok => taken
      BY DEF Reply, Typed, TypeOK
  <1>4. \A d \in Delivery : received[d] \in Nat /\ excuses[d] \in Nat
      BY Types
  <1>5. ASSUME NEW d \in Delivery
        PROVE  BudgetStep(d)
      <2>1. \A z \in Dispatcher : z # s =>
               (Owns(z, d)' <=> Owns(z, d)) /\ (Blocks(z, d)' <=> Blocks(z, d))
          BY <1>2, <1>3, SameOwner
      <2>2. Blocks(s, d)' <=> Blocks(s, d)
          BY <1>2 DEF Blocks, Held, Pins
      <2>3. RowFree(d)' <=> RowFree(d)
          BY <1>3, <2>1, <2>2 DEF RowFree
      <2>4. Owns(s, d)' => Owns(s, d)
          BY <1>2 DEF Owns, Held, Pins, Finished
      <2>5. Owners(d)' \subseteq Owners(d)
          BY <2>1, <2>4 DEF Owners
      <2>6. CASE d = cur /\ taken
          <3>1. CASE ok
              <4>1. Owns(s, d) /\ ~Owns(s, d)'
                  BY <1>1, <1>2, <2>6, <3>1 DEF Owns, Held, Pins, Finished
              <4>2. Owners(d)' # Owners(d)
                  BY <4>1 DEF Owners
              <4>3. excuses'[d] >= excuses[d]
                  BY <1>3, <1>4, <2>6
              <4> QED
                  BY <1>3, <2>3, <2>5, <2>6, <4>2, <4>3 DEF Receives, BudgetStep
          <3>2. CASE ~ok
              <4>1. excuses'[d] > excuses[d]
                  BY <1>3, <1>4, <2>6, <3>2
              <4>2. excuses'[d] >= excuses[d]
                  BY <1>3, <1>4, <2>6, <3>2
              <4> QED
                  BY <1>3, <2>3, <2>5, <2>6, <4>1, <4>2 DEF Receives, BudgetStep
          <3> QED
              BY <3>1, <3>2
      <2>7. CASE d # cur \/ ~taken
          <3>1. received'[d] = received[d] /\ excuses'[d] = excuses[d]
              BY <1>3, <2>7
          <3> QED
              BY <1>3, <1>4, <2>1, <2>3, <2>4, <3>1, KeepsByOwners DEF BudgetStep
      <2> QED
          BY <2>6, <2>7
  <1>6. ASSUME NEW d \in Delivery
        PROVE  Untouched(d)' /\ Heard(d)'
      <2>1. received'[d] >= received[d]
          BY <1>3, <1>4
      <2>2. row[d].status = "absent" => d # cur
          BY <1>1 DEF Accounted, Untouched
      <2>3. Untouched(d)'
          BY <1>2, <1>3, <2>2 DEF Accounted, Untouched
      <2>4. Heard(d)'
          BY <1>3, <1>4, <2>1 DEF Accounted, Heard
      <2> QED
          BY <2>3, <2>4
  <1>7. ASSUME NEW z \in Dispatcher
        PROVE  Answered(z)'
      <2>1. CASE z = s
          BY <1>2, <1>3, <1>4, <2>1 DEF Answered
      <2>2. CASE z # s /\ disp[z].ok
          <3>1. disp[z].pc = "recording" /\ received[disp[z].cur] > 0
              BY <2>2 DEF Accounted, Answered
          <3>2. disp[z].cur \in Delivery
              BY <3>1, Types DEF Typed, Disp
          <3>3. received'[disp[z].cur] > 0
              BY <1>3, <1>4, <3>1, <3>2
          <3> QED
              BY <1>2, <2>2, <3>1, <3>3 DEF Answered
      <2>3. CASE z # s /\ ~disp[z].ok
          BY <1>2, <2>3 DEF Answered
      <2> QED
          BY <2>1, <2>2, <2>3
  <1> QED
      BY <1>5, <1>6, <1>7 DEF Accounts

LEMMA RecordAccounts ==
  ASSUME Typed, Accounted, NEW s \in Dispatcher, Record(s)
  PROVE  Accounts
  <1>1. disp[s] \in Disp /\ disp[s].cur \in disp[s].todo
      BY Types DEF Record, Typed
  <1> PICK cur \in Delivery : cur = disp[s].cur
      BY <1>1 DEF Disp
  <1> PICK ok \in BOOLEAN : ok = disp[s].ok
      BY <1>1 DEF Disp
  <1> PICK copy \in Copy : copy = disp[s].copy[cur]
      BY <1>1 DEF Disp
  <1>2. /\ disp[s].pc = "recording" /\ disp'[s].pc \in {"idle", "working"}
        /\ disp'[s].todo = disp[s].todo \ {cur}
        /\ ~disp'[s].ok
        /\ \A d \in Delivery : d # cur => disp'[s].copy[d] = disp[s].copy[d]
        /\ \A z \in Dispatcher : z # s => disp'[z] = disp[z]
      BY <1>1 DEF Record, Typed, TypeOK, Disp
  <1>3. UNCHANGED <<redrive, received, excuses>>
      BY DEF Record
  <1>4. /\ \A d \in Delivery : d # cur => row'[d] = row[d]
        /\ row'[cur].pin \in {row[cur].pin, NONE}
        /\ ok => row'[cur].pin = row[cur].pin
      <2>1. row[cur] \in DeliveryRow
          BY Types
      <2> QED
          BY <2>1 DEF Record, Typed, TypeOK, DeliveryRow
  <1>5. row'[cur].status = IF Outcome(cur, copy, ok) = copy.status
                           THEN row[cur].status ELSE Outcome(cur, copy, ok)
      <2>1. row[cur] \in DeliveryRow
          BY Types
      <2> QED
          BY <2>1 DEF Record, Typed, TypeOK, DeliveryRow
  <1>6. /\ ok /\ copy.status # "succeeded" => row'[cur].status = "succeeded"
        /\ ok /\ copy.status = "succeeded" => row'[cur].status = row[cur].status
        /\ ~ok => row'[cur].status \in {row[cur].status, "abandoned"}
      BY <1>5 DEF Outcome
  <1>7. ASSUME NEW d \in Delivery
        PROVE  Keeps(d)
      <2>1. \A z \in Dispatcher : z # s => (Owns(z, d)' => Owns(z, d))
          BY <1>2, <1>4, QueueAssumption DEF Owns, Held, Finished, Pins
      <2>2. ASSUME d # cur \/ ok, NEW z \in Dispatcher, z # s
            PROVE  Blocks(z, d)' <=> Blocks(z, d)
          BY <1>2, <1>4, <2>2, SameOwner
      <2>3. excuses[d] \in Nat
          BY Types
      <2>4. CASE d # cur
          <3>1. (Owns(s, d)' <=> Owns(s, d)) /\ (Blocks(s, d)' <=> Blocks(s, d))
              BY <1>2, <2>4 DEF Owns, Blocks, Held, Finished, Pins
          <3>2. RowFree(d)' <=> RowFree(d)
              BY <1>4, <2>2, <2>4, <3>1 DEF RowFree
          <3> QED
              BY <1>3, <1>4, <2>1, <2>3, <2>4, <3>1, <3>2, KeepsByOwners
      <2>5. CASE d = cur
          <3>1. ~Owns(s, d)'
              BY <1>2, <2>5 DEF Owns, Held, Pins
          <3>2. CASE ~ok
              <4>1. Owns(s, d)
                  BY <1>1, <1>2, <2>5, <3>2 DEF Owns, Held, Finished
              <4> QED
                  BY <1>3, <2>1, <2>3, <3>1, <4>1, KeepsByOwners
          <3>3. CASE ok
              <4>1. row'[d].status = "pending" =>
                       copy.status = "succeeded" /\ row[d].status = "pending"
                  BY <1>6, <2>5, <3>3
              <4>2. copy.status = "succeeded" => ~Blocks(s, d)
                  BY <1>2, <2>5 DEF Blocks, Pins
              <4>3. RowFree(d)' => RowFree(d)
                  BY <2>2, <3>3, <4>1, <4>2 DEF RowFree
              <4>4. row'[d].status = "abandoned" => row[d].status = "abandoned"
                  BY <1>6, <2>5, <3>3
              <4> QED
                  BY <1>3, <2>1, <2>3, <3>1, <4>3, <4>4, KeepsByOwners
          <3> QED
              BY <3>2, <3>3
      <2> QED
          BY <2>4, <2>5
  <1>8. ASSUME NEW d \in Delivery
        PROVE  Untouched(d)' /\ Heard(d)'
      <2>1. row'[d].status = "absent" => row[d].status = "absent"
          BY <1>4, <1>6
      <2>2. Untouched(d)'
          BY <1>2, <1>3, <2>1 DEF Accounted, Untouched
      <2>3. d = cur /\ ok => received[d] > 0
          BY DEF Accounted, Answered
      <2>4. row'[d].status = "succeeded" => row[d].status = "succeeded" \/ (d = cur /\ ok)
          BY <1>4, <1>6
      <2>5. Heard(d)'
          BY <1>3, <2>3, <2>4 DEF Accounted, Heard
      <2> QED
          BY <2>2, <2>5
  <1>9. \A z \in Dispatcher : Answered(z)'
      BY <1>2, <1>3 DEF Accounted, Answered
  <1> QED
      BY <1>7, <1>8, <1>9 DEF Accounts, BudgetStep

LEMMA DropAccounts ==
  ASSUME Typed, Accounted, NEW s \in Dispatcher, Drop(s)
  PROVE  Accounts
  <1>1. /\ disp'[s].pc = "idle" /\ disp'[s].todo = {} /\ ~disp'[s].ok
        /\ \A z \in Dispatcher : z # s => disp'[z] = disp[z]
      BY DEF Drop, Typed, TypeOK, IdleDisp
  <1>2. UNCHANGED <<row, redrive, received>>
      BY DEF Drop
  <1>3. \A d \in Delivery :
           /\ excuses[d] \in Nat /\ excuses'[d] \in {excuses[d], excuses[d] + 1}
           /\ Finished(s, d) => excuses'[d] = excuses[d] + 1
      <2>1. \A d \in Delivery : excuses[d] \in Nat
          BY Types
      <2> QED
          BY <2>1 DEF Drop, Finished, Typed, TypeOK
  <1>4. ASSUME NEW d \in Delivery
        PROVE  Keeps(d)
      <2>1. ~Owns(s, d)' /\ ~Blocks(s, d)'
          BY <1>1 DEF Owns, Blocks, Held, Pins
      <2>2. \A z \in Dispatcher : z # s =>
               (Owns(z, d)' <=> Owns(z, d)) /\ (Blocks(z, d)' <=> Blocks(z, d))
          BY <1>1, <1>2, SameOwner
      <2>3. Blocks(s, d) => Owns(s, d) \/ Finished(s, d)
          BY DEF Owns, Blocks
      <2>4. RowFree(d)' => \/ RowFree(d)
                           \/ excuses'[d] = excuses[d] + 1
                           \/ \E z \in Dispatcher : Owns(z, d) /\ ~Owns(z, d)'
          BY <1>2, <1>3, <2>1, <2>2, <2>3 DEF RowFree
      <2> QED
          BY <1>2, <1>3, <2>1, <2>2, <2>4, KeepsByOwners
  <1>5. \A d \in Delivery : Untouched(d)' /\ Heard(d)'
      BY <1>1, <1>2 DEF Accounted, Untouched, Heard
  <1>6. \A z \in Dispatcher : Answered(z)'
      BY <1>1, <1>2 DEF Accounted, Answered
  <1> QED
      BY <1>4, <1>5, <1>6 DEF Accounts, BudgetStep

LEMMA FinishRedeliverAccounts ==
  ASSUME Typed, Accounted, NEW e \in Delivery, FinishRedeliver(e)
  PROVE  Accounts
  <1>1. /\ redrive.target = e /\ redrive'.target = NONE
        /\ UNCHANGED <<disp, received>>
        /\ \A d \in Delivery : d # e => row'[d] = row[d] /\ excuses'[d] = excuses[d]
        /\ excuses'[e] = excuses[e] + 1
      BY DEF FinishRedeliver, NoRedrive, Typed, TypeOK
  <1>2. row'[e].pin = NONE /\ row'[e].status \in {row[e].status, "pending"}
      <2>1. row[e] \in DeliveryRow
          BY Types
      <2> QED
          BY <2>1 DEF FinishRedeliver, Typed, TypeOK, DeliveryRow
  <1>3. ASSUME NEW d \in Delivery
        PROVE  BudgetStep(d)
      <2>1. excuses[d] \in Nat
          BY Types
      <2>2. CASE d = e
          <3>1. \A z \in Dispatcher : Owns(z, d)' => Owns(z, d)
              BY <1>1, <1>2, <2>2, QueueAssumption DEF Owns, Held, Finished, Pins
          <3> QED
              BY <1>1, <1>2, <2>1, <2>2, <3>1, KeepsByOwners DEF BudgetStep
      <2>3. CASE d # e
          <3>1. \A z \in Dispatcher :
                   (Owns(z, d)' <=> Owns(z, d)) /\ (Blocks(z, d)' <=> Blocks(z, d))
              BY <1>1, <2>3, SameOwner
          <3>2. RowFree(d)' <=> RowFree(d)
              BY <1>1, <2>3, <3>1 DEF RowFree
          <3> QED
              BY <1>1, <2>1, <2>3, <3>1, <3>2, KeepsByOwners DEF BudgetStep
      <2> QED
          BY <2>2, <2>3
  <1>4. \A d \in Delivery : Untouched(d)' /\ Heard(d)'
      <2>1. NONE \notin Delivery
          BY QueueAssumption
      <2> QED
          BY <1>1, <1>2, <2>1 DEF Accounted, Untouched, Heard
  <1>5. \A z \in Dispatcher : Answered(z)'
      BY <1>1 DEF Accounted, Answered
  <1> QED
      BY <1>3, <1>4, <1>5 DEF Accounts

LEMMA BeginRedeliverAccounts ==
  ASSUME Typed, Accounted, NEW e \in Delivery, BeginRedeliver(e)
  PROVE  Accounts
  <1>1. /\ UNCHANGED <<row, disp, received, excuses>>
        /\ redrive'.target = e /\ row[e].status # "absent"
      BY DEF BeginRedeliver
  <1>2. \A d \in Delivery : BudgetStep(d)
      BY <1>1, SameOwners
  <1>3. \A d \in Delivery : Untouched(d)' /\ Heard(d)'
      BY <1>1 DEF Accounted, Untouched, Heard
  <1> QED
      BY <1>1, <1>2, <1>3 DEF Accounts, Accounted, Answered

LEMMA TickAccounts ==
  ASSUME Typed, Accounted, Tick
  PROVE  Accounts
  <1>1. /\ UNCHANGED <<disp, redrive, received, excuses>>
        /\ \A d \in Delivery : row'[d].status = row[d].status /\ row'[d].pin = row[d].pin
      BY Types DEF Tick, DeliveryRow
  <1>2. \A d \in Delivery : BudgetStep(d)
      BY <1>1, SameOwners
  <1>3. \A d \in Delivery : Untouched(d)' /\ Heard(d)'
      BY <1>1 DEF Accounted, Untouched, Heard
  <1> QED
      BY <1>1, <1>2, <1>3 DEF Accounts, Accounted, Answered

LEMMA StutterAccounts ==
  ASSUME Typed, Accounted, UNCHANGED vars
  PROVE  Accounts
  <1>1. UNCHANGED <<row, disp, redrive, received, excuses>>
      BY DEF vars
  <1>2. \A d \in Delivery : BudgetStep(d)
      BY <1>1, SameOwners
  <1> QED
      BY <1>1, <1>2 DEF Accounts, Accounted, Answered, Untouched, Heard

LEMMA NextAccounts == Typed /\ Accounted /\ [Next]_vars => Accounts
  <1> SUFFICES ASSUME Typed, Accounted, [Next]_vars PROVE Accounts
      OBVIOUS
  <1>1. ASSUME NEW d \in Delivery, Enqueue(d) \/ BeginRedeliver(d) \/ FinishRedeliver(d)
        PROVE  Accounts
      BY <1>1, EnqueueAccounts, BeginRedeliverAccounts, FinishRedeliverAccounts
  <1>2. ASSUME NEW s \in Dispatcher, Dispatch(s) \/ Drop(s)
        PROVE  Accounts
      BY <1>2, ClaimAccounts, FetchAccounts, PostAccounts, ReplyAccounts, RecordAccounts,
         DropAccounts DEF Dispatch
  <1> QED
      BY <1>1, <1>2, TickAccounts, StutterAccounts DEF Next

LEMMA AccountedInductive == Typed /\ Accounted /\ [Next]_vars => Accounted'
  <1> SUFFICES ASSUME Typed, Accounted, [Next]_vars PROVE Accounted'
      OBVIOUS
  <1>1. Accounts /\ Typed'
      BY NextAccounts, NextTyped
  <1>2. \A d \in Delivery : WithinBudget(d)' /\ NotBuried(d)'
      BY <1>1, BudgetStepKeeps DEF Accounts, Accounted
  <1> QED
      BY <1>1, <1>2 DEF Accounts, Accounted

LEMMA InitAccounted == Init => Accounted
  <1> SUFFICES ASSUME Init PROVE Accounted
      OBVIOUS
  <1>1. ASSUME NEW d \in Delivery
        PROVE  /\ Owners(d) = {} /\ ~RowFree(d) /\ received[d] = 0 /\ excuses[d] = 0
               /\ row[d].status = "absent" /\ redrive.target # d
               /\ \A s \in Dispatcher : d \notin disp[s].todo
      BY <1>1, QueueAssumption
         DEF Init, Owners, Owns, Held, Pins, RowFree, IdleDisp, NoRedrive
  <1>2. \A d \in Delivery : WithinBudget(d)
      BY <1>1, FS_EmptySet DEF WithinBudget
  <1>3. \A s \in Dispatcher : Answered(s)
      BY DEF Init, IdleDisp, Answered
  <1> QED
      BY <1>1, <1>2, <1>3 DEF Accounted, NotBuried, Untouched, Heard

LEMMA AlwaysAccounted == Spec => []Accounted
  BY InitAccounted, AccountedInductive, AlwaysTyped, PTL DEF Spec

\* Every delivery beyond the first has a reason of its own.
THEOREM ResendsAlwaysExplained == Spec => []ResendsAreExplained
  <1>1. Typed /\ Accounted => ResendsAreExplained
      <2> SUFFICES ASSUME Typed, Accounted, NEW d \in Delivery
                   PROVE  received[d] <= 1 + excuses[d]
          BY DEF ResendsAreExplained
      <2>1. received[d] \in Nat /\ excuses[d] \in Nat /\ Cardinality(Owners(d)) \in Nat
          BY Types, OwnersFinite
      <2> QED
          BY <2>1 DEF Accounted, WithinBudget
  <1> QED
      BY <1>1, AlwaysTyped, AlwaysAccounted, PTL

\* A row says SUCCEEDED only if the receiver answered for it.
THEOREM SucceededAlwaysReceived == Spec => []SucceededMeansReceived
  <1>1. Accounted => SucceededMeansReceived
      BY DEF Accounted, Heard, SucceededMeansReceived
  <1> QED
      BY <1>1, AlwaysAccounted, PTL

\* A delivery the receiver took is not written off without an excuse.
THEOREM SuccessNeverBuried == Spec => []SuccessIsNotBuried
  <1>1. Accounted => SuccessIsNotBuried
      BY DEF Accounted, NotBuried, SuccessIsNotBuried
  <1> QED
      BY <1>1, AlwaysAccounted, PTL
=============================================================================
