---------------------------- MODULE WebhookQueue ----------------------------
(***************************************************************************)
(* The persistent webhook queue: rows of webhook_deliveries, the           *)
(* dispatchers that claim, post and record them, the receiver, and the     *)
(* operator's redrive.                                                     *)
(*                                                                         *)
(* Time is relative: a row's `wait` is next_attempt_at - now, its `age` is *)
(* now - created_at, both cut off where the code stops telling them apart, *)
(* so no clock has to be bounded.  Tick lets one unit pass, and the others *)
(* take none.  A claim takes every due row (the LIMIT of 50 is left out).  *)
(* Timestamps have microseconds: two claims never pin a row to the same    *)
(* instant, hence the `pin`.                                               *)
(***************************************************************************)
EXTENDS Naturals, Sequences, FiniteSets

CONSTANTS
    Delivery,     \* rows of webhook_deliveries
    Dispatcher,   \* webhook schedulers, one per server process
    Malformed,    \* deliveries whose callback_url the HTTP client rejects
    PinWindow,    \* how long a claim hides a row: WEBHOOK_DELIVERY_TIMEOUT_SECONDS
    Backoff,      \* WEBHOOK_RETRY_BACKOFF_SECONDS
    MaxAge,       \* WEBHOOK_RETRY_MAX_AGE_SECONDS
    MaxRedrives,  \* bound on the operator's redrives
    MaxCrashes,   \* bound on dispatcher crashes
    MaxExcuses,   \* bound: a delivery with as many is not claimed while it is held
    NONE

ASSUME QueueAssumption ==
    /\ IsFiniteSet(Dispatcher)
    /\ Malformed \subseteq Delivery
    /\ PinWindow \in Nat \ {0}
    /\ Backoff \in Seq(Nat \ {0}) /\ Backoff # <<>>
    /\ MaxAge \in Nat \ {0}
    /\ MaxRedrives \in Nat
    /\ MaxCrashes \in Nat
    /\ MaxExcuses \in Nat
    /\ NONE \notin Delivery \union Dispatcher

VARIABLES
    row,       \* the rows
    disp,      \* what each dispatcher is doing
    redrive,   \* what the operator's redrive request is doing
    received,  \* how often the receiver took each delivery
    excuses,   \* history: events that justify sending a delivery once more
    redrives,
    crashes

vars == <<row, disp, redrive, received, excuses, redrives, crashes>>

Status == {"absent", "pending", "succeeded", "abandoned"}

Steps == 0..Len(Backoff)

DeliveryRow == [status : Status, wait : Nat, pin : Dispatcher \union {NONE},
                age : 0..MaxAge, attempts : Steps]

\* The ORM's copy of a row: what Record compares and increments.
Copy == [status : Status, attempts : Steps]

Disp == [pc   : {"idle", "fetching", "working", "posting", "recording"},
         todo : SUBSET Delivery,
         copy : [Delivery -> Copy],
         cur  : Delivery \union {NONE},
         ok   : BOOLEAN]

TypeOK ==
    /\ row \in [Delivery -> DeliveryRow]
    /\ disp \in [Dispatcher -> Disp]
    /\ redrive \in [target : Delivery \union {NONE}, seen : Status]
    /\ received \in [Delivery -> Nat]
    /\ excuses \in [Delivery -> Nat]
    /\ redrives \in 0..MaxRedrives
    /\ crashes \in 0..MaxCrashes

NoCopy == [d \in Delivery |-> [status |-> "absent", attempts |-> 0]]

IdleDisp == [pc |-> "idle", todo |-> {}, copy |-> NoCopy, cur |-> NONE, ok |-> FALSE]

NoRedrive == [target |-> NONE, seen |-> "absent"]

Init ==
    /\ row = [d \in Delivery |-> [status |-> "absent", wait |-> 0, pin |-> NONE,
                                  age |-> 0, attempts |-> 0]]
    /\ disp = [s \in Dispatcher |-> IdleDisp]
    /\ redrive = NoRedrive
    /\ received = [d \in Delivery |-> 0]
    /\ excuses = [d \in Delivery |-> 0]
    /\ redrives = 0
    /\ crashes = 0

-----------------------------------------------------------------------------
\* enqueue_completion_webhook: due at once.
Enqueue(d) ==
    /\ row[d].status = "absent"
    /\ row' = [row EXCEPT ![d].status = "pending"]
    /\ UNCHANGED <<disp, redrive, received, excuses, redrives, crashes>>

\* Mutant: a claim also takes rows whose time has not come.
DueAnyway(d) == row[d].status = "pending"

Due(d) == row[d].status = "pending" /\ row[d].wait = 0

\* The deliveries a dispatcher still has to post or is posting.
Held(s) == IF disp[s].pc = "fetching" THEN {} ELSE disp[s].todo

\* SELECT the due ids, pin those that are still due, commit.
Claim(s) ==
    LET due == {d \in Delivery : Due(d)}
    IN  /\ disp[s].pc = "idle"
        /\ due # {}
        /\ \A d \in due, z \in Dispatcher : d \in Held(z) => excuses[d] < MaxExcuses
        /\ row' = [d \in Delivery |->
                     IF d \in due THEN [row[d] EXCEPT !.wait = PinWindow, !.pin = s]
                     ELSE row[d]]
        /\ disp' = [disp EXCEPT ![s] = [IdleDisp EXCEPT !.pc = "fetching", !.todo = due]]
        /\ excuses' = [d \in Delivery |->
                         IF d \in due /\ row[d].wait = 0 /\ \E z \in Dispatcher : d \in Held(z)
                         THEN excuses[d] + 1 ELSE excuses[d]]
        /\ UNCHANGED <<redrive, received, redrives, crashes>>

\* Load the rows the claim pinned, whatever their status is by now.
Fetch(s) ==
    LET mine == {d \in disp[s].todo : row[d].pin = s}
    IN  /\ disp[s].pc = "fetching"
        /\ disp' = [disp EXCEPT ![s] =
                      [IdleDisp EXCEPT
                         !.pc = IF mine = {} THEN "idle" ELSE "working",
                         !.todo = mine,
                         !.copy = [d \in Delivery |->
                                     IF d \in mine
                                     THEN [status |-> row[d].status, attempts |-> row[d].attempts]
                                     ELSE NoCopy[d]]]]
        /\ UNCHANGED <<row, redrive, received, excuses, redrives, crashes>>

Post(s) ==
    /\ disp[s].pc = "working"
    /\ \E d \in disp[s].todo :
          disp' = [disp EXCEPT ![s].pc = "posting", ![s].cur = d]
    /\ UNCHANGED <<row, redrive, received, excuses, redrives, crashes>>

\* The receiver takes the request or not, and its answer arrives or not.
Reply(s, taken, ok) ==
    LET d == disp[s].cur
    IN  /\ disp[s].pc = "posting"
        /\ d \notin Malformed
        /\ ok => taken
        /\ disp' = [disp EXCEPT ![s].pc = "recording", ![s].ok = ok]
        /\ received' = IF taken THEN [received EXCEPT ![d] = @ + 1] ELSE received
        /\ excuses' = IF taken /\ ~ok THEN [excuses EXCEPT ![d] = @ + 1] ELSE excuses
        /\ UNCHANGED <<row, redrive, redrives, crashes>>

\* backoff_delay: the schedule's entry for the attempts made, or its last one.
Delay(attempts) == Backoff[IF attempts = 0 THEN 1 ELSE attempts]

OneMore(attempts) == IF attempts < Len(Backoff) THEN attempts + 1 ELSE attempts

\* Mutant: any answer of the attempt ends the delivery as delivered.
OutcomeOptimist(d, copy, ok) == "succeeded"

\* Mutant: the age cap is checked before the answer.
OutcomeAgeFirst(d, copy, ok) ==
    IF row[d].age = MaxAge THEN "abandoned" ELSE IF ok THEN "succeeded" ELSE copy.status

\* The status _record_outcome leaves in the ORM object.
Outcome(d, copy, ok) ==
    IF ok THEN "succeeded" ELSE IF row[d].age = MaxAge THEN "abandoned" ELSE copy.status

\* _record_outcome: the ORM writes the columns that differ from its copy.
Record(s) ==
    LET d == disp[s].cur
        ok == disp[s].ok
        copy == disp[s].copy[d]
        outcome == Outcome(d, copy, ok)
        attempts == OneMore(copy.attempts)
        rest == disp[s].todo \ {d}
    IN  /\ disp[s].pc = "recording"
        /\ row' = [row EXCEPT
                     ![d].attempts = attempts,
                     ![d].status = IF outcome = copy.status THEN @ ELSE outcome,
                     ![d].wait = IF ok \/ row[d].age = MaxAge THEN @ ELSE Delay(attempts),
                     ![d].pin = IF ok \/ row[d].age = MaxAge THEN @ ELSE NONE]
        /\ disp' = [disp EXCEPT ![s] =
                      [@ EXCEPT !.pc = IF rest = {} THEN "idle" ELSE "working",
                                !.todo = rest, !.cur = NONE, !.ok = FALSE,
                                !.copy[d] = NoCopy[d]]]
        /\ UNCHANGED <<redrive, received, excuses, redrives, crashes>>

\* Only httpx.HTTPError is caught, and a malformed URL raises something else.
Raises(s) == disp[s].pc = "posting" /\ disp[s].cur \in Malformed

\* The tick ends, batch and all: an exception leaves it, or the dispatcher dies.
Drop(s) ==
    LET d == disp[s].cur
    IN  /\ disp[s].pc # "idle"
        /\ Raises(s) \/ crashes < MaxCrashes
        /\ crashes' = IF Raises(s) THEN crashes ELSE crashes + 1
        /\ disp' = [disp EXCEPT ![s] = IdleDisp]
        /\ excuses' = IF disp[s].pc = "recording" /\ disp[s].ok
                      THEN [excuses EXCEPT ![d] = @ + 1] ELSE excuses
        /\ UNCHANGED <<row, redrive, received, redrives>>

-----------------------------------------------------------------------------
\* redeliver: load the row, then make it PENDING and due.
BeginRedeliver(d) ==
    /\ redrive.target = NONE
    /\ redrives < MaxRedrives
    /\ row[d].status # "absent"
    /\ redrive' = [target |-> d, seen |-> row[d].status]
    /\ redrives' = redrives + 1
    /\ UNCHANGED <<row, disp, received, excuses, crashes>>

\* Here too a column is written only if it differs from what was loaded.
FinishRedeliver(d) ==
    /\ redrive.target = d
    /\ row' = [row EXCEPT ![d].status = IF redrive.seen = "pending" THEN @ ELSE "pending",
                          ![d].wait = 0,
                          ![d].pin = NONE]
    /\ redrive' = NoRedrive
    /\ excuses' = [excuses EXCEPT ![d] = @ + 1]
    /\ UNCHANGED <<disp, received, redrives, crashes>>

-----------------------------------------------------------------------------
\* The refetch of a claim follows its UPDATE well within the pin window.
ClaimsAreQuick == \A s \in Dispatcher : disp[s].pc # "fetching"

\* Mutant: rows do not age, so the cap never strikes.
TickWithoutAge ==
    /\ ClaimsAreQuick
    /\ row' = [d \in Delivery |->
                 [row[d] EXCEPT !.wait = IF @ > 0 THEN @ - 1 ELSE 0]]
    /\ UNCHANGED <<disp, redrive, received, excuses, redrives, crashes>>

\* Time passes, also while a POST or a redrive is under way.
Tick ==
    /\ ClaimsAreQuick
    /\ row' = [d \in Delivery |->
                 [row[d] EXCEPT
                    !.wait = IF @ > 0 THEN @ - 1 ELSE 0,
                    !.age = IF row[d].status # "absent" /\ @ < MaxAge THEN @ + 1 ELSE @]]
    /\ UNCHANGED <<disp, redrive, received, excuses, redrives, crashes>>

Dispatch(s) ==
    \/ Claim(s)
    \/ Fetch(s)
    \/ Post(s)
    \/ \E taken, ok \in BOOLEAN : Reply(s, taken, ok)
    \/ Record(s)

Next ==
    \/ \E d \in Delivery : Enqueue(d) \/ BeginRedeliver(d) \/ FinishRedeliver(d)
    \/ \E s \in Dispatcher : Dispatch(s) \/ Drop(s)
    \/ Tick

\* Each scheduler loops for ever (a tick's exception is caught; a POST returns,
\* times out or raises) and time passes; neither receiver nor operator owes anything.
Fairness ==
    /\ WF_vars(Tick)
    /\ \A s \in Dispatcher : WF_vars(Dispatch(s) \/ (Raises(s) /\ Drop(s)))

Spec == Init /\ [][Next]_vars /\ Fairness

-----------------------------------------------------------------------------
\* A row says SUCCEEDED only if the receiver answered for it, however many
\* dispatchers, stale copies and redrives wrote the row.
SucceededMeansReceived ==
    \A d \in Delivery : row[d].status = "succeeded" => received[d] > 0

\* At-least-once, but not more than that without a reason: every delivery beyond
\* the first has one of its own -- an answer that was lost, a crash between answer
\* and commit, a redrive, or a claim that outlived its pin while posting.
ResendsAreExplained ==
    \A d \in Delivery : received[d] <= 1 + excuses[d]

\* A delivery the receiver answered is written off as ABANDONED only after one of
\* those events: a stale failure does not bury an undisturbed success.
SuccessIsNotBuried ==
    \A d \in Delivery :
        row[d].status = "abandoned" /\ received[d] > 0 => excuses[d] > 0

\* A dispatcher has claimed d together with a malformed delivery.
InBadBatch(d) == \E s \in Dispatcher : d \in disp[s].todo /\ disp[s].todo \intersect Malformed # {}

\* docs/webhooks.mdx: retries, and after about three days ABANDONED.  No delivery stays
\* PENDING for ever, unless its URL makes the HTTP client raise what the dispatcher does
\* not catch, or it was claimed with one of those: the exception drops the batch, which
\* stays pinned to one instant, comes due as one and may be dropped again for ever.
EveryDeliveryEnds ==
    \A d \in Delivery \ Malformed :
        row[d].status = "pending" ~>
            row[d].status \in {"succeeded", "abandoned"} \/ InBadBatch(d)
=============================================================================
