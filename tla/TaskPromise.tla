---------------------------- MODULE TaskPromise ----------------------------
(***************************************************************************)
(* What the server promises about a task, whatever the channels, verifier  *)
(* calls, sweeps and crashes behind it ("the lifecycle is shaped to settle *)
(* exactly once"): a task is asked, then settled with one outcome, and     *)
(* from then on its webhooks tell that outcome and no other.  Nothing here *)
(* promises that a task settles or that it is announced at all.            *)
(***************************************************************************)
CONSTANTS
    Task,     \* task ids
    Answer,   \* the submissions a task may be settled by
    NONE

VARIABLES
    phase,    \* "absent", "open" or "settled"
    outcome,  \* what a settled task settled with
    told      \* the outcomes its webhooks carry

vars == <<phase, outcome, told>>

\* A task completes or is exhausted by an answer; one that was cancelled or timed
\* out may carry the last answer the verifier rejected.
Outcome ==
    [status : {"completed", "verification_exhausted"}, answer : Answer] \union
    [status : {"timed_out", "cancelled"}, answer : Answer \union {NONE}]

Unsettled == [status |-> "absent", answer |-> NONE]

Init ==
    /\ phase = [t \in Task |-> "absent"]
    /\ outcome = [t \in Task |-> Unsettled]
    /\ told = [t \in Task |-> {}]

Ask(t) ==
    /\ phase[t] = "absent"
    /\ phase' = [phase EXCEPT ![t] = "open"]
    /\ UNCHANGED <<outcome, told>>

Settle(t, o) ==
    /\ phase[t] = "open"
    /\ phase' = [phase EXCEPT ![t] = "settled"]
    /\ outcome' = [outcome EXCEPT ![t] = o]
    /\ UNCHANGED told

Tell(t) ==
    /\ phase[t] = "settled"
    /\ told' = [told EXCEPT ![t] = @ \union {outcome[t]}]
    /\ UNCHANGED <<phase, outcome>>

Next ==
    \E t \in Task :
        \/ Ask(t)
        \/ \E o \in Outcome : Settle(t, o)
        \/ Tell(t)

Spec == Init /\ [][Next]_vars
=============================================================================
