--------------------------- MODULE Routing_proofs ---------------------------
(***************************************************************************)
(* Proofs about Routing, for every number of users, creations, turns,      *)
(* changes and restarts, and for every set of attributes and handles.      *)
(***************************************************************************)
EXTENDS Routing, FiniteSetTheorems, TLAPS

-----------------------------------------------------------------------------
Lookup == {"resolving", "listing", "listed", "found"}

\* What a creation has in hand at each point.
Grounded(w) ==
    /\ w.pc # "idle" => w.ask \in Ask
    /\ w.pc \in Lookup => w.ask.handle \in Handle
    /\ w.pc = "listed" => w.listed \in Roster
    /\ w.pc = "routing" => w.stamp = 0
    /\ w.stamp = 0 \/ w.assignee \in User

Typed ==
    /\ TypeOK
    /\ \A c \in Creation : Grounded(creation[c])

LEMMA IdleIsRouted == Idle \in Routed /\ Grounded(Idle)
  BY DEF Idle, Routed, Grounded, Lookup

LEMMA NeverPassedTyped == NeverPassed \in [User -> Nat]
  BY DEF NeverPassed

LEMMA InitTyped == Init => Typed
  <1> SUFFICES ASSUME Init PROVE Typed
      OBVIOUS
  <1>1. creation \in [Creation -> Routed] /\ \A c \in Creation : Grounded(creation[c])
      BY IdleIsRouted DEF Init
  <1>2. user \in [User -> Row]
      BY DEF Init, Row
  <1>3. clock \in 0..MaxPicks /\ changes \in 0..MaxChanges /\ restarts \in 0..MaxRestarts
      BY RoutingAssumption DEF Init
  <1> QED
      BY <1>1, <1>2, <1>3, NeverPassedTyped DEF Init, Typed, TypeOK

LEMMA CreationTyped ==
  ASSUME Typed, NEW c \in Creation
  PROVE  creation[c] \in Routed /\ Grounded(creation[c])
  BY DEF Typed, TypeOK

\* What an ask may hold.
LEMMA AskTyped ==
  ASSUME NEW ask \in Ask
  PROVE  /\ ask.handle \in Handle \union {NONE}
         /\ ask.address \in User \union {NONE}
  BY RoutingAssumption DEF Asked

\* One creation moves on, the others stay as they are.
LEMMA CreationStep ==
  ASSUME Typed, NEW c \in Creation, NEW w \in Routed, Grounded(w),
         creation' = [creation EXCEPT ![c] = w]
  PROVE  creation' \in [Creation -> Routed] /\ \A d \in Creation : Grounded(creation'[d])
  BY DEF Typed, TypeOK

LEMMA BeginTyped ==
  ASSUME Typed, NEW c \in Creation, NEW ask \in Ask, Begin(c, ask)
  PROVE  Typed'
  <1> DEFINE w == [Idle EXCEPT !.pc = "routing", !.ask = ask]
  <1>1. w \in Routed
      BY IdleIsRouted DEF Routed
  <1>2. Grounded(w)
      BY DEF Grounded, Lookup, Idle
  <1>3. creation' \in [Creation -> Routed] /\ \A d \in Creation : Grounded(creation'[d])
      BY <1>1, <1>2, CreationStep DEF Begin
  <1> QED
      BY <1>3 DEF Begin, turns, slack, bounds, Typed, TypeOK

LEMMA PickByFilterTyped ==
  ASSUME Typed, NEW c \in Creation, PickByFilter(c)
  PROVE  Typed'
  <1>1. PICK u \in Eligible(creation[c].ask.filter) :
           creation' = [creation EXCEPT ![c].pc = "inserting", ![c].assignee = u,
                                        ![c].stamp = clock']
      BY DEF PickByFilter
  <1>2. u \in User
      BY DEF Eligible, Active
  <1>3. clock' = clock + 1 /\ clock' \in 0..MaxPicks
      BY RoutingAssumption DEF PickByFilter, Typed, TypeOK
  <1>4. clock + 1 \in Nat
      BY <1>3
  <1> DEFINE w == [creation[c] EXCEPT !.pc = "inserting", !.assignee = u, !.stamp = clock + 1]
  <1>5. creation[c].pc = "routing"
      BY DEF PickByFilter
  <1>6. w \in Routed
      BY <1>2, <1>4, CreationTyped DEF Routed
  <1>7. Grounded(w)
      BY <1>2, <1>5, CreationTyped DEF Grounded, Lookup, Routed
  <1>8. creation' = [creation EXCEPT ![c] = w]
      BY <1>1, <1>3 DEF Typed, TypeOK
  <1>9. creation' \in [Creation -> Routed] /\ \A d \in Creation : Grounded(creation'[d])
      BY <1>6, <1>7, <1>8, CreationStep
  <1> QED
      BY <1>3, <1>9 DEF PickByFilter, slack, bounds, Typed, TypeOK

\* Steps that only move their creation on.
LEMMA MoveTyped ==
  ASSUME Typed, NEW c \in Creation, NEW w \in Routed, Grounded(w),
         creation' = [creation EXCEPT ![c] = w], together' \in BOOLEAN,
         UNCHANGED <<turns, taken, roster, index, bounds>>
  PROVE  Typed'
  <1>1. creation' \in [Creation -> Routed] /\ \A d \in Creation : Grounded(creation'[d])
      BY CreationStep
  <1> QED
      BY <1>1 DEF turns, bounds, Typed, TypeOK

LEMMA PickByAddressTyped ==
  ASSUME Typed, NEW c \in Creation, PickByAddress(c)
  PROVE  Typed'
  <1> DEFINE u == creation[c].ask.address
             v == IF u \in Present THEN u ELSE NONE
             w == [creation[c] EXCEPT !.pc = "inserting", !.assignee = v]
  <1>1. creation[c].ask \in Ask /\ creation[c].pc = "routing"
      BY CreationTyped DEF PickByAddress, Grounded
  <1>2. v \in User \union {NONE}
      BY DEF Present
  <1>3. w \in Routed
      BY <1>2, CreationTyped DEF Routed
  <1>4. Grounded(w)
      BY <1>1, CreationTyped DEF Grounded, Lookup, Routed
  <1>5. creation' = [creation EXCEPT ![c] = w] /\ UNCHANGED <<turns, taken, slack, bounds>>
      BY DEF PickByAddress, Typed, TypeOK
  <1> QED
      BY <1>3, <1>4, <1>5, MoveTyped DEF slack, Typed, TypeOK

LEMMA UnroutedTyped ==
  ASSUME Typed, NEW c \in Creation, Unrouted(c)
  PROVE  Typed'
  <1> DEFINE p == IF creation[c].ask.handle = NONE THEN "inserting" ELSE "resolving"
             w == [creation[c] EXCEPT !.pc = p]
  <1>1. creation[c].ask \in Ask /\ creation[c].pc = "routing"
      BY CreationTyped DEF Unrouted, Grounded
  <1>2. w \in Routed
      BY CreationTyped DEF Routed
  <1>3. Grounded(w)
      BY <1>1, AskTyped, CreationTyped DEF Grounded, Lookup, Routed
  <1>4. creation' = [creation EXCEPT ![c] = w] /\ UNCHANGED <<turns, taken, slack, bounds>>
      BY DEF Unrouted, Typed, TypeOK
  <1> QED
      BY <1>2, <1>3, <1>4, MoveTyped DEF slack, Typed, TypeOK

LEMMA ResolveTyped ==
  ASSUME Typed, NEW c \in Creation, Resolve(c)
  PROVE  Typed'
  <1> DEFINE v == creation[c]
             w == IF Cached THEN [v EXCEPT !.pc = "found", !.person = index[v.ask.handle]]
                  ELSE [v EXCEPT !.pc = "listing"]
  <1>1. v \in Routed /\ Grounded(v) /\ v.pc = "resolving" /\ v.ask.handle \in Handle
      BY CreationTyped DEF Resolve, Grounded, Lookup
  <1>2. Cached => index[v.ask.handle] \in User \union {NONE}
      BY <1>1 DEF Cached, Typed, TypeOK, Roster
  <1>3. w \in Routed /\ Grounded(w)
      BY <1>1, <1>2 DEF Routed, Grounded, Lookup
  <1>4. creation' = [creation EXCEPT ![c] = w]
      BY DEF Resolve
  <1>5. together' \in BOOLEAN
      BY DEF Resolve, Typed, TypeOK
  <1> QED
      BY <1>3, <1>4, <1>5, MoveTyped DEF Resolve

LEMMA SlackTyped ==
  ASSUME Typed, NEW c \in Creation, SlackLists(c) \/ SlackFails(c)
  PROVE  Typed'
  <1> DEFINE v == creation[c]
             listed == [v EXCEPT !.pc = "listed", !.listed = roster]
             failed == [v EXCEPT !.pc = "found", !.person = NONE]
  <1>1. v \in Routed /\ Grounded(v) /\ v.pc = "listing" /\ v.ask.handle \in Handle
      BY CreationTyped DEF SlackLists, SlackFails, Grounded, Lookup
  <1>2. together \in BOOLEAN /\ roster \in Roster
      BY DEF Typed, TypeOK
  <1>3. CASE SlackLists(c)
    <2>1. listed \in Routed /\ Grounded(listed)
        BY <1>1, <1>2 DEF Routed, Grounded, Lookup
    <2>2. creation' = [creation EXCEPT ![c] = listed]
        BY <1>3 DEF SlackLists, Typed, TypeOK
    <2> QED
        BY <1>2, <1>3, <2>1, <2>2, MoveTyped DEF SlackLists, slack
  <1>4. CASE SlackFails(c)
    <2>1. failed \in Routed /\ Grounded(failed)
        BY <1>1 DEF Routed, Grounded, Lookup
    <2>2. creation' = [creation EXCEPT ![c] = failed]
        BY <1>4 DEF SlackFails, Typed, TypeOK
    <2> QED
        BY <1>2, <1>4, <2>1, <2>2, MoveTyped DEF SlackFails, slack
  <1> QED
      BY <1>3, <1>4

LEMMA BuildIndexTyped ==
  ASSUME Typed, NEW c \in Creation, BuildIndex(c)
  PROVE  Typed'
  <1> DEFINE v == creation[c]
             w == [v EXCEPT !.pc = "found", !.listed = NONE, !.person = v.listed[v.ask.handle]]
  <1>1. /\ v \in Routed /\ Grounded(v) /\ v.pc = "listed"
        /\ v.ask.handle \in Handle /\ v.listed \in Roster
      BY CreationTyped DEF BuildIndex, Grounded, Lookup
  <1>2. v.listed[v.ask.handle] \in User \union {NONE}
      BY <1>1 DEF Roster
  <1>3. w \in Routed /\ Grounded(w)
      BY <1>1, <1>2 DEF Routed, Grounded, Lookup
  <1>4. creation' = [creation EXCEPT ![c] = w]
      BY DEF BuildIndex, Typed, TypeOK
  <1>5. creation' \in [Creation -> Routed] /\ \A d \in Creation : Grounded(creation'[d])
      BY <1>3, <1>4, CreationStep
  <1> QED
      BY <1>1, <1>5 DEF BuildIndex, turns, bounds, Typed, TypeOK

LEMMA FindAssigneeTyped ==
  ASSUME Typed, NEW c \in Creation, FindAssignee(c)
  PROVE  Typed'
  <1> DEFINE v == creation[c]
             w == IF v.person \in Active
                  THEN [v EXCEPT !.pc = "inserting", !.assignee = v.person,
                                 !.implicit = TRUE, !.person = NONE]
                  ELSE [v EXCEPT !.pc = "inserting", !.person = NONE]
  <1>1. v \in Routed /\ Grounded(v) /\ v.pc = "found"
      BY CreationTyped DEF FindAssignee
  <1>2. w \in Routed /\ Grounded(w)
      BY <1>1 DEF Routed, Grounded, Lookup, Active
  <1>3. creation' = [creation EXCEPT ![c] = w] /\ UNCHANGED <<turns, taken, slack, bounds>>
      BY DEF FindAssignee
  <1> QED
      BY <1>2, <1>3, MoveTyped DEF slack, Typed, TypeOK

LEMMA LeaveTyped ==
  ASSUME Typed, NEW c \in Creation, Deliver(c) \/ Refuse(c)
  PROVE  Typed'
  <1>1. Done(c) /\ UNCHANGED <<turns, taken, slack, bounds>>
      BY DEF Deliver, Refuse
  <1> QED
      BY <1>1, IdleIsRouted, MoveTyped DEF Done, slack, Typed, TypeOK

\* A stamp keeps the rows' type, whoever's it is.
LEMMA StampTyped ==
  ASSUME NEW f \in [User -> Row], NEW u, NEW stamp \in Nat
  PROVE  [f EXCEPT ![u].last = stamp] \in [User -> Row]
  <1>1. ASSUME u \in User PROVE [f[u] EXCEPT !.last = stamp] \in Row
      BY <1>1 DEF Row
  <1> QED
      BY <1>1

LEMMA InsertTyped ==
  ASSUME Typed, NEW c \in Creation, Insert(c)
  PROVE  Typed'
  <1> DEFINE v == creation[c]
             w == IF v.ask.handle = NONE THEN Idle
                  ELSE [v EXCEPT !.pc = "resolving", !.created = TRUE]
  <1>1. v \in Routed /\ Grounded(v) /\ v.pc = "inserting" /\ v.ask \in Ask
      BY CreationTyped DEF Insert, Grounded
  <1>2. w \in Routed /\ Grounded(w)
    <2>1. CASE v.ask.handle = NONE
        BY <2>1, IdleIsRouted
    <2>2. CASE v.ask.handle # NONE
        BY <1>1, <2>2, AskTyped DEF Routed, Grounded, Lookup
    <2> QED
        BY <2>1, <2>2
  <1>3. creation' = [creation EXCEPT ![c] = w]
      BY DEF Insert
  <1>4. creation' \in [Creation -> Routed] /\ \A d \in Creation : Grounded(creation'[d])
      BY <1>2, <1>3, CreationStep
  <1>5. v.stamp \in Nat
      BY <1>1 DEF Routed
  <1>6. user' \in [User -> Row]
    <2>1. user' = [user EXCEPT ![v.assignee].last = v.stamp] \/ user' = user
        BY DEF Insert
    <2>2. user \in [User -> Row]
        BY DEF Typed, TypeOK
    <2> HIDE DEF v, w
    <2> QED
        BY <1>5, <2>1, <2>2, StampTyped
  <1>7. dealt' \in [User -> Nat]
    <2>1. dealt' = [dealt EXCEPT ![v.assignee] = v.stamp] \/ dealt' = dealt
        BY DEF Insert
    <2> QED
        BY <1>5, <2>1 DEF Typed, TypeOK
  <1>8. bypassed' \in [User -> [User -> Nat]]
    <2>1. Count(c) \/ bypassed' = bypassed
        BY DEF Insert
    <2> QED
        BY <2>1, NeverPassedTyped DEF Count, Typed, TypeOK
  <1>9. taken' \in BOOLEAN
      BY DEF Insert, Typed, TypeOK
  <1> QED
      BY <1>4, <1>6, <1>7, <1>8, <1>9 DEF Insert, slack, bounds, Typed, TypeOK

LEMMA OutsideTyped ==
  ASSUME Typed,
         \/ \E u \in User, state \in {"active", "inactive", "gone"} : Administer(u, state)
         \/ \E h \in Handle, p \in User \union {NONE} : Rename(h, p)
         \/ Restart
  PROVE  Typed'
  <1>1. ASSUME NEW u \in User, NEW state \in {"active", "inactive", "gone"},
               Administer(u, state)
        PROVE  Typed'
    <2>1. user' \in [User -> Row]
        BY <1>1 DEF Administer, Typed, TypeOK, Row
    <2>2. changes' \in 0..MaxChanges
        BY <1>1, RoutingAssumption DEF Administer, Typed, TypeOK
    <2>3. bypassed' \in [User -> [User -> Nat]]
        BY <1>1, NeverPassedTyped DEF Administer, Typed, TypeOK
    <2> QED
        BY <1>1, <2>1, <2>2, <2>3 DEF Administer, slack, Typed, TypeOK
  <1>2. ASSUME NEW h \in Handle, NEW p \in User \union {NONE}, Rename(h, p)
        PROVE  Typed'
    <2>1. roster' \in Roster /\ changes' \in 0..MaxChanges
        BY <1>2, RoutingAssumption DEF Rename, Typed, TypeOK, Roster
    <2> QED
        BY <1>2, <2>1 DEF Rename, turns, Typed, TypeOK
  <1>3. CASE Restart
    <2>1. creation' \in [Creation -> Routed] /\ \A d \in Creation : Grounded(creation'[d])
        BY <1>3, IdleIsRouted DEF Restart
    <2>2. restarts' \in 0..MaxRestarts
        BY <1>3, RoutingAssumption DEF Restart, Typed, TypeOK
    <2> QED
        BY <1>3, <2>1, <2>2 DEF Restart, turns, Typed, TypeOK
  <1> QED
      BY <1>1, <1>2, <1>3

LEMMA NextTyped == ASSUME Typed, [Next]_vars PROVE Typed'
  <1>1. ASSUME NEW c \in Creation, Create(c) PROVE Typed'
      BY <1>1, BeginTyped, PickByFilterTyped, PickByAddressTyped, UnroutedTyped, ResolveTyped,
         SlackTyped, BuildIndexTyped, FindAssigneeTyped, LeaveTyped, InsertTyped DEF Create
  <1>2. CASE UNCHANGED vars
      BY <1>2 DEF vars, Typed, TypeOK
  <1> QED
      BY <1>1, <1>2, OutsideTyped DEF Next

\* The variables keep their types, and a creation has what its next statement needs:
\* Routing.
THEOREM AlwaysTyped == Spec => []Typed
  <1> QED
      BY InitTyped, NextTyped, PTL DEF Spec

-----------------------------------------------------------------------------
LEMMA NextTurns == ASSUME Typed, TurnsComeWithTasks, [Next]_vars PROVE TurnsComeWithTasks'
  <1> USE DEF turns
  <1>1. CASE UNCHANGED <<user, dealt>>
      BY <1>1 DEF TurnsComeWithTasks
  <1>2. ASSUME NEW c \in Creation, Create(c) PROVE TurnsComeWithTasks'
    <2>1. CASE Insert(c)
      <3>1. CASE creation[c].stamp > 0
        <4>1. /\ user' = [user EXCEPT ![creation[c].assignee].last = creation[c].stamp]
              /\ dealt' = [dealt EXCEPT ![creation[c].assignee] = creation[c].stamp]
            BY <2>1, <3>1 DEF Insert
        <4> QED
            BY <4>1 DEF TurnsComeWithTasks, Typed, TypeOK, Row
      <3>2. CASE ~(creation[c].stamp > 0)
          BY <1>1, <2>1, <3>2 DEF Insert
      <3> QED
          BY <3>1, <3>2
    <2>2. CASE ~Insert(c)
        BY <1>1, <1>2, <2>2
           DEF Create, Begin, PickByFilter, PickByAddress, Unrouted, Resolve, SlackLists,
               SlackFails, BuildIndex, FindAssignee, Deliver, Refuse
    <2> QED
        BY <2>1, <2>2
  <1>3. ASSUME NEW u \in User, NEW state \in {"active", "inactive", "gone"},
               Administer(u, state)
        PROVE  TurnsComeWithTasks'
      BY <1>3 DEF Administer, TurnsComeWithTasks, Typed, TypeOK, Row
  <1> QED
      BY <1>1, <1>2, <1>3 DEF Next, Rename, Restart, vars

\* last_assigned_at moves with the tasks a user gets, and with nothing else, whatever
\* conflicts, deletions, replays and restarts creations meet.
THEOREM TurnsAlwaysComeWithTasks == Spec => []TurnsComeWithTasks
  <1>1. Init => TurnsComeWithTasks
      BY DEF Init, TurnsComeWithTasks
  <1> QED
      BY <1>1, AlwaysTyped, NextTurns, PTL DEF Spec

-----------------------------------------------------------------------------
(***************************************************************************)
(* Which person a handle stands for is decided by the copy of the roster.  *)
(* Without two fetches at one time nobody fetches over a copy, so a copy,  *)
(* once made, stays what it is for as long as the creations that saw it.   *)
(***************************************************************************)
Fetches(w) == w.pc \in {"listing", "listed"}

\* What a creation has from the copy i.
Agrees(w, i) ==
    /\ w.pc = "found" /\ w.person # NONE => i # NONE /\ w.person = i[w.ask.handle]
    /\ w.pc = "routing" => ~w.implicit
    /\ w.implicit => i # NONE /\ w.assignee = i[w.ask.handle]

Copied ==
    /\ \A c \in Creation : Agrees(creation[c], index)
    /\ \A c \in Creation : Fetches(creation[c]) => index = NONE
    /\ \A c, d \in Creation : Fetches(creation[c]) /\ Fetches(creation[d]) => c = d

OneCopy == together \/ Copied

LEMMA InitOneCopy == Init => OneCopy
  BY DEF Init, OneCopy, Copied, Agrees, Fetches, Idle

LEMMA IdleAgrees == ~Fetches(Idle) /\ \A i : Agrees(Idle, i)
  BY DEF Fetches, Agrees, Idle

\* One creation moves on and fetches nothing.
LEMMA SameCopy ==
  ASSUME Typed, OneCopy, NEW c \in Creation, NEW w,
         creation' = [creation EXCEPT ![c] = w], UNCHANGED <<index, together>>,
         Copied => Agrees(w, index),
         Fetches(w) => Fetches(creation[c])
  PROVE  OneCopy'
  BY DEF OneCopy, Copied, Typed, TypeOK

LEMMA RoutingKeepsCopy ==
  ASSUME Typed, OneCopy, NEW c \in Creation,
         \/ PickByFilter(c) \/ PickByAddress(c) \/ Unrouted(c)
         \/ \E ask \in Ask : Begin(c, ask)
  PROVE  OneCopy'
  <1> USE DEF slack
  <1> DEFINE v == creation[c]
  <1>1. v \in Routed /\ (Copied => Agrees(v, index))
      BY CreationTyped DEF Copied
  <1>2. ASSUME NEW ask \in Ask, Begin(c, ask) PROVE OneCopy'
    <2> DEFINE w == [Idle EXCEPT !.pc = "routing", !.ask = ask]
    <2>1. Agrees(w, index) /\ ~Fetches(w)
        BY DEF Agrees, Fetches, Idle
    <2> QED
        BY <1>2, <2>1, SameCopy DEF Begin
  <1>3. CASE PickByFilter(c)
    <2>1. PICK u \in User :
             creation' = [creation EXCEPT ![c].pc = "inserting", ![c].assignee = u,
                                          ![c].stamp = clock']
        BY <1>3 DEF PickByFilter, Eligible, Active
    <2>2. clock' = clock + 1
        BY <1>3 DEF PickByFilter
    <2> DEFINE w == [v EXCEPT !.pc = "inserting", !.assignee = u, !.stamp = clock + 1]
    <2>3. creation' = [creation EXCEPT ![c] = w]
        BY <2>1, <2>2 DEF Typed, TypeOK
    <2>4. (Copied => Agrees(w, index)) /\ ~Fetches(w)
        BY <1>1, <1>3 DEF PickByFilter, Agrees, Fetches, Routed
    <2>5. UNCHANGED <<index, together>>
        BY <1>3 DEF PickByFilter
    <2> QED
        BY <2>3, <2>4, <2>5, SameCopy
  <1>4. CASE PickByAddress(c)
    <2> DEFINE w == [v EXCEPT !.pc = "inserting",
                              !.assignee = IF v.ask.address \in Present THEN v.ask.address
                                           ELSE NONE]
    <2>1. creation' = [creation EXCEPT ![c] = w]
        BY <1>4 DEF PickByAddress, Typed, TypeOK
    <2>2. (Copied => Agrees(w, index)) /\ ~Fetches(w)
        BY <1>1, <1>4 DEF PickByAddress, Agrees, Fetches, Routed
    <2> QED
        BY <1>4, <2>1, <2>2, SameCopy DEF PickByAddress
  <1>5. CASE Unrouted(c)
    <2> DEFINE w == [v EXCEPT !.pc = IF v.ask.handle = NONE THEN "inserting" ELSE "resolving"]
    <2>1. creation' = [creation EXCEPT ![c] = w]
        BY <1>5 DEF Unrouted, Typed, TypeOK
    <2>2. (Copied => Agrees(w, index)) /\ ~Fetches(w)
        BY <1>1 DEF Agrees, Fetches, Routed
    <2> QED
        BY <1>5, <2>1, <2>2, SameCopy DEF Unrouted
  <1> QED
      BY <1>2, <1>3, <1>4, <1>5

LEMMA AnswerKeepsCopy ==
  ASSUME Typed, OneCopy, NEW c \in Creation, SlackLists(c) \/ SlackFails(c)
  PROVE  OneCopy'
  <1> USE DEF slack
  <1> DEFINE v == creation[c]
             listed == [v EXCEPT !.pc = "listed", !.listed = roster]
             failed == [v EXCEPT !.pc = "found", !.person = NONE]
  <1>1. v \in Routed /\ (Copied => Agrees(v, index))
      BY CreationTyped DEF Copied
  <1>2. CASE SlackLists(c)
    <2>1. creation' = [creation EXCEPT ![c] = listed]
        BY <1>2 DEF SlackLists, Typed, TypeOK
    <2>2. (Copied => Agrees(listed, index)) /\ Fetches(v)
        BY <1>1, <1>2 DEF SlackLists, Agrees, Fetches, Routed
    <2> QED
        BY <1>2, <2>1, <2>2, SameCopy DEF SlackLists
  <1>3. CASE SlackFails(c)
    <2>1. creation' = [creation EXCEPT ![c] = failed]
        BY <1>3 DEF SlackFails, Typed, TypeOK
    <2>2. (Copied => Agrees(failed, index)) /\ ~Fetches(failed)
        BY <1>1 DEF Agrees, Fetches, Routed
    <2> QED
        BY <1>3, <2>1, <2>2, SameCopy DEF SlackFails
  <1> QED
      BY <1>2, <1>3

LEMMA TaskKeepsCopy ==
  ASSUME Typed, OneCopy, NEW c \in Creation,
         FindAssignee(c) \/ Deliver(c) \/ Refuse(c) \/ Insert(c)
  PROVE  OneCopy'
  <1> USE DEF slack
  <1> DEFINE v == creation[c]
  <1>1. v \in Routed /\ (Copied => Agrees(v, index))
      BY CreationTyped DEF Copied
  <1>2. CASE FindAssignee(c)
    <2> DEFINE w == IF v.person \in Active
                    THEN [v EXCEPT !.pc = "inserting", !.assignee = v.person,
                                   !.implicit = TRUE, !.person = NONE]
                    ELSE [v EXCEPT !.pc = "inserting", !.person = NONE]
    <2>1. v.person \in Active => v.person # NONE
        BY RoutingAssumption DEF Active
    <2>2. v.pc = "found"
        BY <1>2 DEF FindAssignee
    <2>3. (Copied => Agrees(w, index)) /\ ~Fetches(w)
      <3>1. CASE v.person \in Active
          BY <1>1, <2>1, <2>2, <3>1 DEF Agrees, Fetches, Routed
      <3>2. CASE v.person \notin Active
          BY <1>1, <3>2 DEF Agrees, Fetches, Routed
      <3> QED
          BY <3>1, <3>2
    <2>4. creation' = [creation EXCEPT ![c] = w] /\ UNCHANGED <<index, together>>
        BY <1>2 DEF FindAssignee
    <2> QED
        BY <2>3, <2>4, SameCopy
  <1>3. CASE Deliver(c) \/ Refuse(c)
    <2>1. creation' = [creation EXCEPT ![c] = Idle] /\ UNCHANGED <<index, together>>
        BY <1>3 DEF Deliver, Refuse, Done
    <2> QED
        BY <2>1, IdleAgrees, SameCopy
  <1>4. CASE Insert(c)
    <2> DEFINE w == IF v.ask.handle = NONE THEN Idle
                    ELSE [v EXCEPT !.pc = "resolving", !.created = TRUE]
    <2>1. (Copied => Agrees(w, index)) /\ ~Fetches(w)
      <3>1. CASE v.ask.handle = NONE
          BY <3>1, IdleAgrees
      <3>2. CASE v.ask.handle # NONE
          BY <1>1, <3>2 DEF Agrees, Fetches, Routed
      <3> QED
          BY <3>1, <3>2
    <2>2. creation' = [creation EXCEPT ![c] = w] /\ UNCHANGED <<index, together>>
        BY <1>4 DEF Insert
    <2> QED
        BY <2>1, <2>2, SameCopy
  <1> QED
      BY <1>2, <1>3, <1>4

LEMMA ResolveKeepsCopy ==
  ASSUME Typed, OneCopy, NEW c \in Creation, Resolve(c)
  PROVE  OneCopy'
  <1> DEFINE v == creation[c]
             hit == [v EXCEPT !.pc = "found", !.person = index[v.ask.handle]]
             miss == [v EXCEPT !.pc = "listing"]
  <1>1. v \in Routed /\ (Copied => Agrees(v, index))
      BY CreationTyped DEF Copied
  <1>2. CASE Cached
    <2>1. creation' = [creation EXCEPT ![c] = hit] /\ UNCHANGED index
        BY <1>2 DEF Resolve
    <2>2. UNCHANGED together
        BY <1>2 DEF Resolve, Typed, TypeOK
    <2>3. (Copied => Agrees(hit, index)) /\ ~Fetches(hit)
        BY <1>1, <1>2 DEF Cached, Agrees, Fetches, Routed
    <2> QED
        BY <2>1, <2>2, <2>3, SameCopy
  <1>3. CASE ~Cached
    <2>1. creation' = [creation EXCEPT ![c] = miss] /\ UNCHANGED index
        BY <1>3 DEF Resolve
    <2>2. together' = (together \/ Fetching)
        BY <1>3 DEF Resolve
    <2>3. CASE together \/ Fetching
        BY <2>2, <2>3 DEF OneCopy
    <2>4. CASE ~together /\ ~Fetching
      <3>1. Agrees(miss, index)
          BY <1>1, <2>4 DEF OneCopy, Agrees, Routed
      <3>2. \A d \in Creation : creation'[d] = IF d = c THEN miss ELSE creation[d]
          BY <2>1 DEF Typed, TypeOK
      <3>3. \A d \in Creation : Fetches(creation'[d]) => d = c
          BY <2>4, <3>2 DEF Fetches, Fetching
      <3> QED
          BY <1>3, <2>1, <2>4, <3>1, <3>2, <3>3 DEF OneCopy, Copied, Cached
    <2> QED
        BY <2>3, <2>4
  <1> QED
      BY <1>2, <1>3

LEMMA BuildKeepsCopy ==
  ASSUME Typed, OneCopy, NEW c \in Creation, BuildIndex(c)
  PROVE  OneCopy'
  <1> DEFINE v == creation[c]
             w == [v EXCEPT !.pc = "found", !.listed = NONE, !.person = v.listed[v.ask.handle]]
  <1>1. CASE together
      BY <1>1 DEF BuildIndex, OneCopy
  <1>2. CASE ~together
    <2>1. Copied
        BY <1>2 DEF OneCopy
    <2>2. v \in Routed /\ Grounded(v) /\ v.pc = "listed" /\ v.listed \in Roster
        BY CreationTyped DEF BuildIndex, Grounded
    <2>3. index = NONE /\ \A d \in Creation : Fetches(creation[d]) => d = c
        BY <2>1, <2>2 DEF Copied, Fetches
    <2>4. index' = v.listed /\ index' # NONE
        BY <2>2, RoutingAssumption DEF BuildIndex
    <2>5. \A d \in Creation : Agrees(creation[d], index')
        BY <2>1, <2>3 DEF Copied, Agrees
    <2>6. creation' = [creation EXCEPT ![c] = w]
        BY DEF BuildIndex, Typed, TypeOK
    <2>7. ~Fetches(w)
        BY <2>2 DEF Fetches, Routed
    <2>8. Agrees(w, index')
        BY <2>2, <2>4, <2>5 DEF Agrees, Routed
    <2>9. \A d \in Creation : creation'[d] = IF d = c THEN w ELSE creation[d]
        BY <2>6 DEF Typed, TypeOK
    <2> HIDE DEF w
    <2> QED
        BY <2>3, <2>5, <2>7, <2>8, <2>9 DEF OneCopy, Copied
  <1> QED
      BY <1>1, <1>2

LEMMA NextOneCopy == ASSUME Typed, OneCopy, [Next]_vars PROVE OneCopy'
  <1>1. ASSUME NEW c \in Creation, Create(c) PROVE OneCopy'
      BY <1>1, RoutingKeepsCopy, AnswerKeepsCopy, TaskKeepsCopy, ResolveKeepsCopy,
         BuildKeepsCopy DEF Create
  <1>2. CASE UNCHANGED <<creation, index, together>>
      BY <1>2 DEF OneCopy, Copied
  <1>3. CASE Restart
    <2>1. \A d \in Creation : creation'[d] = Idle
        BY <1>3 DEF Restart
    <2> QED
        BY <2>1, IdleAgrees DEF OneCopy, Copied
  <1> QED
      BY <1>1, <1>2, <1>3 DEF Next, Administer, Rename, vars, slack

\* The message for a handle goes to the person who was made the task's assignee for it,
\* unless two creations fetched the roster at one time.
THEOREM RecipientIsAlwaysAssignee == Spec => []RecipientIsAssignee
  <1>1. OneCopy => RecipientIsAssignee
      BY DEF OneCopy, Copied, Agrees, RecipientIsAssignee
  <1> QED
      BY <1>1, InitOneCopy, NextOneCopy, AlwaysTyped, PTL DEF Spec
-----------------------------------------------------------------------------
(***************************************************************************)
(* How long users wait.  Of two users in line, u and v, the one who was    *)
(* assigned a task less recently goes first.  While that is v, creations   *)
(* may pick v ahead of u; the first of them that inserts ends it, unless   *)
(* it writes, late, a stamp from before u's last turn.                     *)
(***************************************************************************)
N == Cardinality(Creation)

\* A creation that has picked a user and waits to insert.
Holding(w) == w.pc = "inserting" /\ w.stamp > 0

\* Its pick was one for which u was in line.
Asks(w, u) == w.ask.filter # NONE /\ u \in Match[w.ask.filter]

\* Those that will write v's turn from before u's last one, and those that will put v
\* ahead of u, but with a turn that u's next one comes after.
Late(u, v) == {c \in Creation : /\ Holding(creation[c]) /\ creation[c].assignee = v
                                /\ creation[c].stamp < user[u].last}

Ahead(u, v) == {c \in Creation : /\ Holding(creation[c]) /\ creation[c].assignee = v
                                 /\ creation[c].stamp > user[u].last
                                 /\ Asks(creation[c], u)}

\* Twice what late stamps, o of them, may still cost: each lets every creation that is
\* not late itself pick once more.
Weight(o) == o * (2 * N - o + 1)

Ceiling == N * (N + 1) + 2 * N - 2

\* b tasks so far, with o late and p more picks ahead, leave the backlog in sight: when v
\* goes first, all creations that are not late may pick v.
Fits(b, o, p, first) ==
    2 * b + Weight(o) + (IF first THEN 2 * N ELSE 2 * (p + o)) <= Ceiling

LEMMA SomeCreations == N \in Nat \ {0}
  BY RoutingAssumption, FS_CardinalityType, FS_EmptySet DEF N

LEMMA WeightIsInt == ASSUME NEW o \in Nat PROVE Weight(o) \in Int
  BY SomeCreations DEF Weight

LEMMA WeightStep ==
  ASSUME NEW o \in 1..N
  PROVE  Weight(o) = Weight(o - 1) + 2 * N - 2 * o + 2
  BY SomeCreations DEF Weight

LEMMA WeightFewer ==
  ASSUME NEW o \in 0..N, NEW q \in 0..o
  PROVE  Weight(q) <= Weight(o)
  <1>1. N \in Nat
      BY SomeCreations
  <1>2. Weight(o) - Weight(q) = (o - q) * (2 * N + 1 - o - q)
      BY <1>1 DEF Weight
  <1>3. o - q \in Nat /\ 2 * N + 1 - o - q \in Nat
      BY <1>1
  <1>4. (o - q) * (2 * N + 1 - o - q) \in Nat
      BY <1>3
  <1> QED
      BY <1>1, <1>2, <1>4, WeightIsInt

LEMMA WeightMost ==
  ASSUME NEW o \in 0..(N - 1)
  PROVE  Weight(o) + 2 * N <= Ceiling
  <1>1. N \in Nat \ {0}
      BY SomeCreations
  <1>2. Ceiling - (Weight(o) + 2 * N) = (N - 1 - o) * (N + 2 - o)
      BY <1>1 DEF Weight, Ceiling
  <1>3. N - 1 - o \in Nat /\ N + 2 - o \in Nat
      BY <1>1
  <1>4. (N - 1 - o) * (N + 2 - o) \in Nat
      BY <1>3
  <1>5. Ceiling \in Int /\ Weight(o) \in Int
      BY <1>1, WeightIsInt DEF Ceiling
  <1> QED
      BY <1>1, <1>2, <1>4, <1>5

LEMMA FitsBacklog ==
  ASSUME NEW b \in Nat, NEW o \in 0..N, NEW p \in Nat, NEW first \in BOOLEAN,
         Fits(b, o, p, first)
  PROVE  b <= Backlog(N)
  <1>1. N \in Nat \ {0}
      BY SomeCreations
  <1>2. Weight(0) = 0 /\ Weight(0) <= Weight(o) /\ Weight(o) \in Int
      BY <1>1, WeightFewer, WeightIsInt DEF Weight
  <1>3. 2 * b <= Ceiling
      BY <1>1, <1>2 DEF Fits, Ceiling
  <1>4. PICK m \in Nat : m = N * (N + 1)
      BY <1>1
  <1>5. 2 * b <= m + 2 * N - 2
      BY <1>3, <1>4 DEF Ceiling
  <1>6. b <= (m \div 2) + N - 1
      BY <1>1, <1>5
  <1> QED
      BY <1>4, <1>6 DEF Backlog

-----------------------------------------------------------------------------
LEMMA FitsAfresh ==
  ASSUME NEW o \in 0..(N - 1), NEW p \in Nat, o + p <= N, NEW first \in BOOLEAN
  PROVE  Fits(0, o, p, first)
  <1>1. N \in Nat \ {0}
      BY SomeCreations
  <1>2. Weight(o) + 2 * N <= Ceiling /\ Weight(o) \in Int /\ Ceiling \in Int
      BY <1>1, WeightMost, WeightIsInt DEF Ceiling
  <1> QED
      BY <1>1, <1>2 DEF Fits

\* Picks are given up.
LEMMA FitsFewer ==
  ASSUME NEW b \in Nat, NEW o \in 0..N, NEW p \in Nat, NEW first \in BOOLEAN,
         NEW q \in 0..o, NEW r \in 0..p, Fits(b, o, p, first)
  PROVE  Fits(b, q, r, first)
  <1>1. N \in Nat \ {0} /\ Ceiling \in Int
      BY SomeCreations DEF Ceiling
  <1>2. Weight(q) <= Weight(o) /\ Weight(q) \in Int /\ Weight(o) \in Int
      BY WeightFewer, WeightIsInt
  <1> QED
      BY <1>1, <1>2 DEF Fits

\* v is picked once more, which it can only be when it goes first.
LEMMA FitsPick ==
  ASSUME NEW b, NEW o, NEW p, NEW q, Fits(b, o, p, TRUE)
  PROVE  Fits(b, o, q, TRUE)
  BY DEF Fits

\* A task with a turn later than u's: from then on, u goes first.
LEMMA FitsLater ==
  ASSUME NEW b \in Nat, NEW o \in 0..N, NEW p \in Nat, o + p <= N, NEW first \in BOOLEAN,
         Fits(b, o, p, first), NEW q \in 0..p
  PROVE  Fits(b, o, q, FALSE) /\ (q < p => Fits(b + 1, o, q, FALSE))
  <1>1. N \in Nat \ {0} /\ Ceiling \in Int /\ Weight(o) \in Int
      BY SomeCreations, WeightIsInt DEF Ceiling
  <1> QED
      BY <1>1 DEF Fits

\* A late one: v goes first again.
LEMMA FitsLate ==
  ASSUME NEW b \in Nat, NEW o \in 1..N, NEW p \in Nat, NEW first \in BOOLEAN,
         Fits(b, o, p, first), NEW q \in Nat
  PROVE  Fits(b, o - 1, q, TRUE) /\ Fits(b + 1, o - 1, q, TRUE)
  <1>1. N \in Nat \ {0} /\ Ceiling \in Int /\ Weight(o) \in Int /\ Weight(o - 1) \in Int
      BY SomeCreations, WeightIsInt DEF Ceiling
  <1>2. Weight(o) = Weight(o - 1) + 2 * N - 2 * o + 2
      BY WeightStep
  <1> QED
      BY <1>1, <1>2 DEF Fits

-----------------------------------------------------------------------------
(***************************************************************************)
(* The stamps that wait to be written are all different, and nobody's yet. *)
(***************************************************************************)
\* A pick is over once the task is there.
Handled(w) == /\ w.stamp > 0 => w.pc = "inserting" \/ w.created
              /\ w.created => w.pc \in Lookup

Stamped ==
    /\ \A c \in Creation : Handled(creation[c])
    /\ \A c \in Creation : Holding(creation[c]) => creation[c].stamp <= clock
    /\ \A c, d \in Creation :
          Holding(creation[c]) /\ Holding(creation[d]) /\ creation[c].stamp = creation[d].stamp
          => c = d
    /\ \A u \in User : user[u].last <= clock
    /\ \A c \in Creation, u \in User :
          Holding(creation[c]) => creation[c].stamp # user[u].last

LEMMA IdleHandled == Handled(Idle) /\ ~Holding(Idle)
  BY DEF Handled, Holding, Idle

LEMMA InitStamped == Init => Stamped
  BY IdleHandled DEF Init, Stamped

\* A step of a creation that neither picks by attributes nor writes a stamp.
Plain(c) == \E w : /\ creation' = [creation EXCEPT ![c] = w]
                   /\ Handled(w) /\ ~Holding(w)
                   /\ UNCHANGED <<user, clock, bypassed>>

LEMMA PlainStamped ==
  ASSUME Typed, Stamped, NEW c \in Creation, Plain(c)
  PROVE  Stamped'
  <1>1. PICK w : /\ creation' = [creation EXCEPT ![c] = w]
                 /\ Handled(w) /\ ~Holding(w)
                 /\ UNCHANGED <<user, clock>>
      BY DEF Plain
  <1>2. \A d \in Creation : creation'[d] = IF d = c THEN w ELSE creation[d]
      BY <1>1 DEF Typed, TypeOK
  <1> QED
      BY <1>1, <1>2 DEF Stamped

LEMMA StepCases ==
  ASSUME Typed, Stamped, NEW c \in Creation, Create(c)
  PROVE  Plain(c) \/ PickByFilter(c) \/ (Insert(c) /\ creation[c].stamp > 0)
  <1> DEFINE v == creation[c]
  <1>0. v \in Routed /\ Grounded(v) /\ Handled(v)
      BY CreationTyped DEF Stamped
  <1> USE DEF turns, slack, bounds
  <1>1. ASSUME NEW ask \in Ask, Begin(c, ask) PROVE Plain(c)
    <2>1. Handled([Idle EXCEPT !.pc = "routing", !.ask = ask])
        BY DEF Handled, Idle
    <2>2. ~Holding([Idle EXCEPT !.pc = "routing", !.ask = ask])
        BY DEF Holding, Idle
    <2> QED
        BY <1>1, <2>1, <2>2 DEF Begin, Plain
  <1>2. CASE PickByAddress(c)
    <2> DEFINE w == [v EXCEPT !.pc = "inserting",
                              !.assignee = IF v.ask.address \in Present THEN v.ask.address
                                           ELSE NONE]
    <2>1. creation' = [creation EXCEPT ![c] = w]
        BY <1>2 DEF PickByAddress, Typed, TypeOK
    <2>2. v.stamp = 0 /\ ~v.created
        BY <1>0, <1>2 DEF PickByAddress, Grounded, Handled, Lookup
    <2>3. Handled(w) /\ ~Holding(w)
        BY <1>0, <2>2 DEF Handled, Holding, Routed
    <2> QED
        BY <1>2, <2>1, <2>3 DEF PickByAddress, Plain
  <1>3. CASE Unrouted(c)
    <2> DEFINE w == [v EXCEPT !.pc = IF v.ask.handle = NONE THEN "inserting" ELSE "resolving"]
    <2>1. creation' = [creation EXCEPT ![c] = w]
        BY <1>3 DEF Unrouted, Typed, TypeOK
    <2>2. v.stamp = 0 /\ ~v.created
        BY <1>0, <1>3 DEF Unrouted, Grounded, Handled, Lookup
    <2>3. Handled(w) /\ ~Holding(w)
        BY <1>0, <2>2 DEF Handled, Holding, Routed
    <2> QED
        BY <1>3, <2>1, <2>3 DEF Unrouted, Plain
  <1>4. CASE Resolve(c)
    <2> DEFINE w == IF Cached THEN [v EXCEPT !.pc = "found", !.person = index[v.ask.handle]]
                    ELSE [v EXCEPT !.pc = "listing"]
    <2>1. v.pc = "resolving"
        BY <1>4 DEF Resolve
    <2>2. Handled(w) /\ ~Holding(w)
        BY <1>0, <2>1 DEF Handled, Holding, Routed, Lookup
    <2> QED
        BY <1>4, <2>2 DEF Resolve, Plain
  <1>5. CASE SlackLists(c)
    <2> DEFINE w == [v EXCEPT !.pc = "listed", !.listed = roster]
    <2>1. creation' = [creation EXCEPT ![c] = w] /\ v.pc = "listing"
        BY <1>5 DEF SlackLists, Typed, TypeOK
    <2>2. Handled(w) /\ ~Holding(w)
        BY <1>0, <2>1 DEF Handled, Holding, Routed, Lookup
    <2> QED
        BY <1>5, <2>1, <2>2 DEF SlackLists, Plain
  <1>6. CASE SlackFails(c)
    <2> DEFINE w == [v EXCEPT !.pc = "found", !.person = NONE]
    <2>1. creation' = [creation EXCEPT ![c] = w] /\ v.pc = "listing"
        BY <1>6 DEF SlackFails, Typed, TypeOK
    <2>2. Handled(w) /\ ~Holding(w)
        BY <1>0, <2>1 DEF Handled, Holding, Routed, Lookup
    <2> QED
        BY <1>6, <2>1, <2>2 DEF SlackFails, Plain
  <1>7. CASE BuildIndex(c)
    <2> DEFINE w == [v EXCEPT !.pc = "found", !.listed = NONE,
                              !.person = v.listed[v.ask.handle]]
    <2>1. creation' = [creation EXCEPT ![c] = w] /\ v.pc = "listed"
        BY <1>7 DEF BuildIndex, Typed, TypeOK
    <2>2. Handled(w) /\ ~Holding(w)
        BY <1>0, <2>1 DEF Handled, Holding, Routed, Lookup
    <2> QED
        BY <1>7, <2>1, <2>2 DEF BuildIndex, Plain
  <1>8. CASE FindAssignee(c)
    <2> DEFINE w == IF v.person \in Active
                    THEN [v EXCEPT !.pc = "inserting", !.assignee = v.person,
                                   !.implicit = TRUE, !.person = NONE]
                    ELSE [v EXCEPT !.pc = "inserting", !.person = NONE]
    <2>1. v.pc = "found" /\ ~v.created
        BY <1>8 DEF FindAssignee
    <2>2. v.stamp = 0
        BY <1>0, <2>1 DEF Handled, Routed
    <2>3. Handled(w) /\ ~Holding(w)
        BY <1>0, <2>1, <2>2 DEF Handled, Holding, Routed
    <2>4. creation' = [creation EXCEPT ![c] = w]
        BY <1>8 DEF FindAssignee
    <2> QED
        BY <1>8, <2>3, <2>4 DEF FindAssignee, Plain
  <1>9. CASE Deliver(c) \/ Refuse(c)
      BY <1>9, IdleHandled DEF Deliver, Refuse, Done, Plain
  <1>10. CASE Insert(c) /\ ~(v.stamp > 0)
    <2> DEFINE w == IF v.ask.handle = NONE THEN Idle
                    ELSE [v EXCEPT !.pc = "resolving", !.created = TRUE]
    <2>1. Handled(w) /\ ~Holding(w)
      <3>1. CASE v.ask.handle = NONE
          BY <3>1, IdleHandled
      <3>2. CASE v.ask.handle # NONE
          BY <1>0, <3>2 DEF Handled, Holding, Routed, Lookup
      <3> QED
          BY <3>1, <3>2
    <2>2. creation' = [creation EXCEPT ![c] = w]
        BY <1>10 DEF Insert
    <2> QED
        BY <1>10, <2>1, <2>2 DEF Insert, Plain
  <1> QED
      BY <1>1, <1>2, <1>3, <1>4, <1>5, <1>6, <1>7, <1>8, <1>9, <1>10 DEF Create

\* A turn is dealt: its stamp is newer than all others.
LEMMA PickSteps ==
  ASSUME Typed, NEW c \in Creation, PickByFilter(c)
  PROVE  \E x \in Eligible(creation[c].ask.filter), w \in Routed :
            /\ x \in User
            /\ \A v \in Eligible(creation[c].ask.filter) : Before(x, v)
            /\ w.pc = "inserting" /\ w.assignee = x /\ w.stamp = clock + 1
            /\ w.ask = creation[c].ask /\ w.created = creation[c].created
            /\ creation' = [creation EXCEPT ![c] = w]
            /\ \A d \in Creation : creation'[d] = IF d = c THEN w ELSE creation[d]
            /\ clock' = clock + 1
            /\ UNCHANGED <<user, bypassed>>
  <1>1. PICK x \in Eligible(creation[c].ask.filter) :
           /\ \A v \in Eligible(creation[c].ask.filter) : Before(x, v)
           /\ creation' = [creation EXCEPT ![c].pc = "inserting", ![c].assignee = x,
                                           ![c].stamp = clock']
      BY DEF PickByFilter
  <1>2. x \in User
      BY DEF Eligible, Active
  <1>3. clock' = clock + 1 /\ clock \in Nat
      BY RoutingAssumption DEF PickByFilter, Typed, TypeOK
  <1> DEFINE w == [creation[c] EXCEPT !.pc = "inserting", !.assignee = x, !.stamp = clock + 1]
  <1>4. clock + 1 \in Nat
      BY <1>3
  <1>5. w \in Routed
      BY <1>2, <1>4, CreationTyped DEF Routed
  <1>6. creation' = [creation EXCEPT ![c] = w]
      BY <1>1, <1>3 DEF Typed, TypeOK
  <1>7. \A d \in Creation : creation'[d] = IF d = c THEN w ELSE creation[d]
      BY <1>6 DEF Typed, TypeOK
  <1>8. /\ w.pc = "inserting" /\ w.assignee = x /\ w.stamp = clock + 1
        /\ w.ask = creation[c].ask /\ w.created = creation[c].created
      BY CreationTyped DEF Routed
  <1>9. UNCHANGED <<user, bypassed>>
      BY DEF PickByFilter
  <1> HIDE DEF w
  <1> QED
      BY <1>1, <1>2, <1>3, <1>5, <1>6, <1>7, <1>8, <1>9

LEMMA PickStamped ==
  ASSUME Typed, Stamped, NEW c \in Creation, PickByFilter(c)
  PROVE  Stamped'
  <1>1. PICK w : /\ w.pc = "inserting" /\ w.stamp = clock + 1
                 /\ w.created = creation[c].created
                 /\ \A d \in Creation : creation'[d] = IF d = c THEN w ELSE creation[d]
                 /\ clock' = clock + 1
                 /\ UNCHANGED user
      BY PickSteps
  <1>2. clock \in Nat /\ \A d \in Creation : creation[d].stamp \in Nat
      BY RoutingAssumption, CreationTyped DEF Typed, TypeOK, Routed
  <1>3. \A u \in User : user[u].last \in Nat
      BY DEF Typed, TypeOK, Row
  <1>4. creation[c].pc = "routing"
      BY DEF PickByFilter
  <1>5. Handled(w)
      BY <1>1, <1>4 DEF Stamped, Handled, Lookup
  <1>6. \A d \in Creation : Holding(creation[d]) => creation[d].stamp < clock + 1
      BY <1>2 DEF Stamped
  <1>7. \A u \in User : user[u].last < clock + 1
      BY <1>2, <1>3 DEF Stamped
  <1>8. \A d \in Creation : Handled(creation'[d])
      BY <1>1, <1>5 DEF Stamped
  <1>9. \A d \in Creation : Holding(creation'[d]) => creation'[d].stamp <= clock'
      BY <1>1, <1>2, <1>6
  <1>10. \A d, e \in Creation :
            Holding(creation'[d]) /\ Holding(creation'[e]) /\ creation'[d].stamp = creation'[e].stamp
            => d = e
      BY <1>1, <1>2, <1>6 DEF Stamped
  <1>11. \A u \in User : user'[u].last <= clock'
      BY <1>1, <1>2, <1>3, <1>7
  <1>12. \A d \in Creation, u \in User :
            Holding(creation'[d]) => creation'[d].stamp # user'[u].last
      BY <1>1, <1>2, <1>3, <1>7 DEF Stamped
  <1> QED
      BY <1>8, <1>9, <1>10, <1>11, <1>12 DEF Stamped

\* A turn is taken: the stamp is written, and the task is there.
LEMMA InsertSteps ==
  ASSUME Typed, NEW c \in Creation, Insert(c), creation[c].stamp > 0
  PROVE  LET x == creation[c].assignee IN
         /\ Holding(creation[c])
         /\ x \in User
         /\ \A u \in User : user'[u].state = user[u].state
         /\ \A u \in User : user'[u].last = IF u = x THEN creation[c].stamp ELSE user[u].last
         /\ \E w : /\ Handled(w) /\ ~Holding(w)
                   /\ \A d \in Creation : creation'[d] = IF d = c THEN w ELSE creation[d]
         /\ clock' = clock
         /\ bypassed'[x] = NeverPassed
         /\ \A u \in User : u # x => \A v \in User :
               bypassed'[u][v] = IF /\ v = x /\ user[u].state = "active"
                                    /\ Asks(creation[c], u)
                                 THEN bypassed[u][v] + 1 ELSE bypassed[u][v]
  <1> DEFINE v == creation[c]
             x == v.assignee
             w == IF v.ask.handle = NONE THEN Idle
                  ELSE [v EXCEPT !.pc = "resolving", !.created = TRUE]
  <1>1. v \in Routed /\ Grounded(v) /\ v.pc = "inserting" /\ v.stamp \in Nat /\ v.stamp # 0
      BY CreationTyped DEF Insert, Routed
  <1>2. x \in User /\ Holding(v)
      BY <1>1 DEF Grounded, Holding
  <1>3. Handled(w) /\ ~Holding(w)
    <2>1. CASE v.ask.handle = NONE
        BY <2>1, IdleHandled
    <2>2. CASE v.ask.handle # NONE
        BY <1>1, <2>2 DEF Handled, Holding, Routed, Lookup
    <2> QED
        BY <2>1, <2>2
  <1>4. creation' = [creation EXCEPT ![c] = w]
      BY DEF Insert
  <1>5. \A d \in Creation : creation'[d] = IF d = c THEN w ELSE creation[d]
      BY <1>4 DEF Typed, TypeOK
  <1>6. user' = [user EXCEPT ![x].last = v.stamp] /\ Count(c) /\ clock' = clock
      BY DEF Insert
  <1> HIDE DEF w
  <1>7. user \in [User -> Row]
      BY DEF Typed, TypeOK
  <1>8. \A u \in User : user'[u].state = user[u].state
      BY <1>6, <1>7 DEF Row
  <1>9. \A u \in User : user'[u].last = IF u = x THEN v.stamp ELSE user[u].last
      BY <1>6, <1>7 DEF Row
  <1>10. bypassed'[x] = NeverPassed
      BY <1>2, <1>6 DEF Count
  <1>11. ASSUME NEW u \in User, u # x, NEW y \in User
         PROVE  bypassed'[u][y] = IF y = x /\ user[u].state = "active" /\ Asks(v, u)
                                  THEN bypassed[u][y] + 1 ELSE bypassed[u][y]
    <2>1. u \in Eligible(v.ask.filter) <=> user[u].state = "active" /\ Asks(v, u)
        BY DEF Eligible, Active, Asks
    <2>2. bypassed'[u] = IF user[u].state = "active" /\ Asks(v, u)
                         THEN [bypassed[u] EXCEPT ![x] = @ + 1] ELSE bypassed[u]
        BY <1>6, <1>11, <2>1 DEF Count
    <2>3. bypassed[u] \in [User -> Nat]
        BY DEF Typed, TypeOK
    <2> QED
        BY <1>2, <2>2, <2>3
  <1> QED
      BY <1>2, <1>3, <1>5, <1>6, <1>8, <1>9, <1>10, <1>11

LEMMA InsertStamped ==
  ASSUME Typed, Stamped, NEW c \in Creation, Insert(c), creation[c].stamp > 0
  PROVE  Stamped'
  <1> DEFINE x == creation[c].assignee
             t == creation[c].stamp
  <1>1. PICK w : /\ Handled(w) /\ ~Holding(w)
                 /\ \A d \in Creation : creation'[d] = IF d = c THEN w ELSE creation[d]
      BY InsertSteps
  <1>2. /\ Holding(creation[c]) /\ clock' = clock
        /\ \A u \in User : user'[u].last = IF u = x THEN t ELSE user[u].last
      BY InsertSteps
  <1>3. t <= clock /\ \A u \in User : user[u].last <= clock
      BY <1>2 DEF Stamped
  <1>4. \A d \in Creation : Holding(creation'[d]) => d # c /\ creation'[d] = creation[d]
      BY <1>1
  <1>5. \A d \in Creation : d # c /\ Holding(creation[d]) => creation[d].stamp # t
      BY <1>2 DEF Stamped
  <1> HIDE DEF x, t
  <1>6. \A d \in Creation : Handled(creation'[d])
      BY <1>1 DEF Stamped
  <1>7. \A d \in Creation : Holding(creation'[d]) => creation'[d].stamp <= clock'
      BY <1>2, <1>4 DEF Stamped
  <1>8. \A d, e \in Creation :
           Holding(creation'[d]) /\ Holding(creation'[e]) /\ creation'[d].stamp = creation'[e].stamp
           => d = e
      BY <1>4 DEF Stamped
  <1>9. \A u \in User : user'[u].last <= clock'
      BY <1>2, <1>3
  <1>10. \A d \in Creation, u \in User :
            Holding(creation'[d]) => creation'[d].stamp # user'[u].last
      BY <1>2, <1>4, <1>5 DEF Stamped
  <1> QED
      BY <1>6, <1>7, <1>8, <1>9, <1>10 DEF Stamped

LEMMA AdministerSteps ==
  ASSUME Typed, NEW x \in User, NEW state \in {"active", "inactive", "gone"},
         Administer(x, state)
  PROVE  /\ \A u \in User : user'[u].last = user[u].last
         /\ \A u \in User : u # x => user'[u] = user[u] /\ bypassed'[u] = bypassed[u]
         /\ bypassed'[x] = NeverPassed
         /\ UNCHANGED <<creation, clock>>
  BY DEF Administer, Typed, TypeOK, Row

LEMMA NextStamped == ASSUME Typed, Stamped, [Next]_vars PROVE Stamped'
  <1>1. ASSUME NEW c \in Creation, Create(c) PROVE Stamped'
      BY <1>1, StepCases, PlainStamped, PickStamped, InsertStamped
  <1>2. ASSUME NEW x \in User, NEW state \in {"active", "inactive", "gone"},
               Administer(x, state)
        PROVE  Stamped'
      BY <1>2, AdministerSteps DEF Stamped
  <1>3. CASE Restart
    <2>1. \A c \in Creation : creation'[c] = Idle
        BY <1>3 DEF Restart
    <2> QED
        BY <1>3, <2>1, IdleHandled DEF Restart, turns, Stamped
  <1>4. CASE UNCHANGED <<user, clock, creation>>
      BY <1>4 DEF Stamped
  <1> QED
      BY <1>1, <1>2, <1>3, <1>4 DEF Next, Rename, turns, vars

-----------------------------------------------------------------------------
Waits(u, v) ==
    LET o == Cardinality(Late(u, v))
        p == Cardinality(Ahead(u, v))
    IN /\ o <= N - 1
       /\ user[u].state # "active" => bypassed[u][v] = 0
       /\ user[u].state = "active" => Fits(bypassed[u][v], o, p, Before(v, u))

AllWait ==
    /\ \A u, v \in User : u # v => Waits(u, v)
    /\ \A u \in User : bypassed[u][u] = 0

\* Two separate sets of creations.
LEMMA Counted ==
  ASSUME NEW S \in SUBSET Creation, NEW T \in SUBSET Creation, S \intersect T = {}
  PROVE  /\ Cardinality(S) \in 0..N /\ Cardinality(T) \in 0..N
         /\ Cardinality(S) + Cardinality(T) <= N
  <1>1. IsFiniteSet(Creation) /\ IsFiniteSet(S) /\ IsFiniteSet(T) /\ N \in Nat
      BY RoutingAssumption, FS_Subset, SomeCreations
  <1>2. /\ Cardinality(S) \in Nat /\ Cardinality(S) <= N
        /\ Cardinality(T) \in Nat /\ Cardinality(T) <= N
      BY <1>1, FS_Subset, FS_CardinalityType DEF N
  <1>3. S \union T \in SUBSET Creation
      OBVIOUS
  <1>4. Cardinality(S \union T) <= N
      BY <1>1, <1>3, FS_Subset DEF N
  <1>5. Cardinality(S \union T) = Cardinality(S) + Cardinality(T) - Cardinality({})
      BY <1>1, FS_Union
  <1>6. Cardinality({}) = 0
      BY FS_EmptySet
  <1> QED
      BY <1>1, <1>2, <1>4, <1>5, <1>6

LEMMA Fewer ==
  ASSUME NEW S \in SUBSET Creation, NEW T \in SUBSET S
  PROVE  /\ Cardinality(T) \in 0..Cardinality(S)
         /\ \A c \in S : c \notin T => Cardinality(T) < Cardinality(S)
  <1>1. IsFiniteSet(S)
      BY RoutingAssumption, FS_Subset
  <1>2. Cardinality(T) \in Nat /\ Cardinality(S) \in Nat /\ Cardinality(T) <= Cardinality(S)
      BY <1>1, FS_Subset, FS_CardinalityType
  <1>3. Cardinality(T) = Cardinality(S) => S = T
      BY <1>1, FS_Subset
  <1> QED
      BY <1>2, <1>3

\* The two kinds of creations are counted apart.
LEMMA InLine ==
  ASSUME Typed, NEW u \in User, NEW v \in User
  PROVE  /\ Late(u, v) \in SUBSET Creation /\ Ahead(u, v) \in SUBSET Creation
         /\ Late(u, v) \intersect Ahead(u, v) = {}
         /\ bypassed[u][v] \in Nat
         /\ user[u].last \in Nat /\ user[v].last \in Nat
         /\ Before(v, u) \in BOOLEAN
  <1>1. \A c \in Creation : creation[c].stamp \in Nat
      BY CreationTyped DEF Routed
  <1>2. user[u].last \in Nat /\ user[v].last \in Nat /\ bypassed[u][v] \in Nat
      BY DEF Typed, TypeOK, Row
  <1>3. Late(u, v) \in SUBSET Creation /\ Ahead(u, v) \in SUBSET Creation
      BY DEF Late, Ahead
  <1>4. \A c \in Creation : ~(c \in Late(u, v) /\ c \in Ahead(u, v))
      BY <1>1, <1>2 DEF Late, Ahead
  <1>5. Before(v, u) \in BOOLEAN
      BY DEF Before
  <1> QED
      BY <1>2, <1>3, <1>4, <1>5

\* Nothing that u waits for has changed, except that creations have given up.
LEMMA WaitOn ==
  ASSUME Typed, NEW u \in User, NEW v \in User, Waits(u, v),
         user'[u] = user[u], user'[v].last = user[v].last, bypassed'[u][v] = bypassed[u][v],
         Late(u, v)' \subseteq Late(u, v), Ahead(u, v)' \subseteq Ahead(u, v)
  PROVE  Waits(u, v)'
  <1> DEFINE o == Cardinality(Late(u, v))
             p == Cardinality(Ahead(u, v))
             b == bypassed[u][v]
             f == Before(v, u)
  <1>1. /\ o <= N - 1
        /\ user[u].state # "active" => b = 0
        /\ user[u].state = "active" => Fits(b, o, p, f)
      BY DEF Waits
  <1>2. /\ Late(u, v) \in SUBSET Creation /\ Ahead(u, v) \in SUBSET Creation
        /\ Late(u, v) \intersect Ahead(u, v) = {}
        /\ b \in Nat /\ f \in BOOLEAN
      BY InLine
  <1>3. o \in 0..N /\ p \in Nat
      BY <1>2, Counted, SomeCreations
  <1>4. o' \in 0..o /\ p' \in 0..p
      BY <1>2, Fewer
  <1>5. b' = b /\ f' = f /\ user'[u].state = user[u].state
      BY DEF Before
  <1> HIDE DEF o, p, b, f
  <1>6. Fits(b, o, p, f) => Fits(b, o', p', f)
      BY <1>2, <1>3, <1>4, FitsFewer
  <1>7. o' <= N - 1
      BY <1>1, <1>3, <1>4, SomeCreations
  <1>8. /\ user'[u].state # "active" => b' = 0
        /\ user'[u].state = "active" => Fits(b', o', p', f')
      BY <1>1, <1>5, <1>6
  <1>9. N' = N
      BY DEF N
  <1> USE DEF o, p, b, f
  <1> QED
      BY <1>7, <1>8, <1>9 DEF Waits, Fits, Weight, Ceiling

\* u starts to wait, with others that have picked already.
LEMMA WaitAfresh ==
  ASSUME Typed', NEW u \in User, NEW v \in User, bypassed'[u][v] = 0,
         NEW S \in SUBSET Creation, Late(u, v)' \subseteq S, Cardinality(S) <= N - 1
  PROVE  Waits(u, v)'
  <1> DEFINE o == Cardinality(Late(u, v))
             p == Cardinality(Ahead(u, v))
             f == Before(v, u)
  <1>1. /\ Late(u, v)' \in SUBSET Creation /\ Ahead(u, v)' \in SUBSET Creation
        /\ Late(u, v)' \intersect Ahead(u, v)' = {}
        /\ f' \in BOOLEAN
    <2>1. \A c \in Creation : creation'[c].stamp \in Nat
        BY DEF Typed, TypeOK, Routed
    <2>2. user'[u].last \in Nat
        BY DEF Typed, TypeOK, Row
    <2>3. \A c \in Creation : ~(c \in Late(u, v)' /\ c \in Ahead(u, v)')
        BY <2>1, <2>2 DEF Late, Ahead
    <2>4. Late(u, v)' \in SUBSET Creation /\ Ahead(u, v)' \in SUBSET Creation
        BY DEF Late, Ahead
    <2>5. f' \in BOOLEAN
        BY DEF Before
    <2> QED
        BY <2>3, <2>4, <2>5
  <1>2. o' \in 0..N /\ p' \in 0..N /\ o' + p' <= N
      BY <1>1, Counted
  <1>3. o' \in 0..Cardinality(S) /\ Cardinality(S) \in 0..N
    <2>1. S \intersect {} = {} /\ {} \in SUBSET Creation
        OBVIOUS
    <2> QED
        BY <2>1, Fewer, Counted
  <1> HIDE DEF o, p, f
  <1>4. o' \in 0..(N - 1)
    <2>1. N \in Nat \ {0}
        BY SomeCreations
    <2>2. PICK k \in 0..N : k = Cardinality(S) /\ k <= N - 1 /\ o' \in 0..k
        BY <1>3
    <2> QED
        BY <1>2, <2>1, <2>2
  <1>5. Fits(0, o', p', f')
    <2>1. p' \in Nat /\ o' + p' <= N
        BY <1>2
    <2> QED
        BY <1>1, <1>4, <2>1, FitsAfresh
  <1>6. o' <= N - 1
      BY <1>4, SomeCreations
  <1> USE DEF o, p, f
  <1> QED
      BY <1>5, <1>6 DEF Waits, Fits, Weight, Ceiling, N

\* Creations that hold no turn are in nobody's way.
LEMMA GiveUp ==
  ASSUME NEW u \in User, NEW v \in User, user' = user,
         \A d \in Creation : Holding(creation'[d]) => creation'[d] = creation[d]
  PROVE  Late(u, v)' \subseteq Late(u, v) /\ Ahead(u, v)' \subseteq Ahead(u, v)
  <1>1. \A d \in Creation : d \in Late(u, v)' => d \in Late(u, v)
      BY DEF Late
  <1>2. \A d \in Creation : d \in Ahead(u, v)' => d \in Ahead(u, v)
      BY DEF Ahead
  <1>3. Late(u, v)' \subseteq Creation /\ Ahead(u, v)' \subseteq Creation
      BY DEF Late, Ahead
  <1> QED
      BY <1>1, <1>2, <1>3

LEMMA GiveUpWait ==
  ASSUME Typed, AllWait, UNCHANGED <<user, bypassed>>,
         \A d \in Creation : Holding(creation'[d]) => creation'[d] = creation[d]
  PROVE  AllWait'
  <1>1. ASSUME NEW u \in User, NEW v \in User, u # v PROVE Waits(u, v)'
    <2>1. Late(u, v)' \subseteq Late(u, v) /\ Ahead(u, v)' \subseteq Ahead(u, v)
        BY GiveUp
    <2> QED
        BY <1>1, <2>1, WaitOn DEF AllWait
  <1> QED
      BY <1>1 DEF AllWait

LEMMA PlainWait ==
  ASSUME Typed, AllWait, NEW c \in Creation, Plain(c)
  PROVE  AllWait'
  <1>1. PICK w : creation' = [creation EXCEPT ![c] = w] /\ ~Holding(w)
      BY DEF Plain
  <1>2. \A d \in Creation : Holding(creation'[d]) => creation'[d] = creation[d]
      BY <1>1 DEF Typed, TypeOK
  <1> QED
      BY <1>2, GiveUpWait DEF Plain

LEMMA PickWait ==
  ASSUME Typed, Stamped, AllWait, Typed', NEW c \in Creation, PickByFilter(c)
  PROVE  AllWait'
  <1>1. PICK x \in Eligible(creation[c].ask.filter), w \in Routed :
           /\ x \in User
           /\ \A v \in Eligible(creation[c].ask.filter) : Before(x, v)
           /\ w.assignee = x /\ w.stamp = clock + 1 /\ w.ask = creation[c].ask
           /\ \A d \in Creation : creation'[d] = IF d = c THEN w ELSE creation[d]
           /\ UNCHANGED <<user, bypassed>>
      BY PickSteps
  <1>2. ASSUME NEW u \in User, NEW v \in User, u # v PROVE Waits(u, v)'
    <2>1. Waits(u, v)
        BY <1>2 DEF AllWait
    <2>2. user[u].last < w.stamp /\ ~(w.stamp < user[u].last)
      <3>1. user[u].last \in Nat /\ clock \in Nat
          BY DEF Typed, TypeOK, Row
      <3>2. user[u].last <= clock
          BY DEF Stamped
      <3> QED
          BY <1>1, <3>1, <3>2
    <2>3. Late(u, v)' \subseteq Late(u, v)
        BY <1>1, <2>2 DEF Late
    <2>4. CASE x = v /\ Asks(w, u) /\ user[u].state = "active"
      <3> DEFINE o == Cardinality(Late(u, v))
                 p == Cardinality(Ahead(u, v))
                 b == bypassed[u][v]
                 f == Before(v, u)
      <3>1. u \in Eligible(creation[c].ask.filter)
          BY <1>1, <2>4 DEF Asks, Eligible, Active
      <3>2. f /\ o <= N - 1 /\ Fits(b, o, p, TRUE)
          BY <1>1, <2>1, <2>4, <3>1 DEF Waits
      <3>3. /\ Late(u, v) \in SUBSET Creation /\ Ahead(u, v) \in SUBSET Creation
            /\ Late(u, v) \intersect Ahead(u, v) = {} /\ b \in Nat
          BY InLine
      <3>4. o \in 0..N /\ p \in Nat
          BY <3>3, Counted, SomeCreations
      <3>5. o' \in 0..o
          BY <2>3, <3>3, Fewer
      <3>6. b' = b /\ f' = f /\ user'[u].state = user[u].state
          BY <1>1 DEF Before
      <3> HIDE DEF o, p, b, f
      <3>7. p \in 0..p
          BY <3>4
      <3>8. Fits(b, o', p, TRUE)
          BY <3>2, <3>3, <3>4, <3>5, <3>7, FitsFewer
      <3>9. Fits(b, o', p', TRUE)
          BY <3>8, FitsPick
      <3>10. o' <= N - 1
          BY <3>2, <3>4, <3>5, SomeCreations
      <3>11. /\ user'[u].state # "active" => b' = 0
             /\ user'[u].state = "active" => Fits(b', o', p', f')
          BY <2>4, <3>2, <3>6, <3>9
      <3>12. N' = N
          BY DEF N
      <3> USE DEF o, p, b, f
      <3> QED
          BY <3>10, <3>11, <3>12 DEF Waits, Fits, Weight, Ceiling
    <2>5. CASE user[u].state # "active"
      <3>1. bypassed'[u][v] = 0 /\ user'[u].state # "active"
          BY <1>1, <2>1, <2>5 DEF Waits
      <3>2. Late(u, v) \in SUBSET Creation /\ Cardinality(Late(u, v)) <= N - 1
          BY <2>1, InLine DEF Waits
      <3> QED
          BY <2>3, <3>1, <3>2, WaitAfresh
    <2>6. CASE ~(x = v /\ Asks(w, u))
      <3>1. Ahead(u, v)' \subseteq Ahead(u, v)
          BY <1>1, <2>6 DEF Ahead
      <3> QED
          BY <1>1, <2>1, <2>3, <3>1, WaitOn
    <2> QED
        BY <2>4, <2>5, <2>6
  <1> QED
      BY <1>1, <1>2 DEF AllWait

LEMMA AdministerWait ==
  ASSUME Typed, AllWait, Typed', NEW x \in User, NEW state \in {"active", "inactive", "gone"},
         Administer(x, state)
  PROVE  AllWait'
  <1>1. /\ \A u \in User : user'[u].last = user[u].last
        /\ \A u \in User : u # x => user'[u] = user[u] /\ bypassed'[u] = bypassed[u]
        /\ bypassed'[x] = NeverPassed
        /\ UNCHANGED creation
      BY AdministerSteps
  <1>2. ASSUME NEW u \in User, NEW v \in User, u # v PROVE Waits(u, v)'
    <2>1. Late(u, v)' = Late(u, v) /\ Ahead(u, v)' = Ahead(u, v)
        BY <1>1 DEF Late, Ahead
    <2>2. Waits(u, v)
        BY <1>2 DEF AllWait
    <2>3. CASE u = x
      <3>1. bypassed'[u][v] = 0
          BY <1>1, <2>3 DEF NeverPassed
      <3>2. Late(u, v) \in SUBSET Creation /\ Cardinality(Late(u, v)) <= N - 1
          BY <2>2, InLine DEF Waits
      <3> QED
          BY <2>1, <3>1, <3>2, WaitAfresh
    <2>4. CASE u # x
        BY <1>1, <2>1, <2>2, <2>4, WaitOn
    <2> QED
        BY <2>3, <2>4
  <1>3. \A u \in User : bypassed'[u][u] = 0
      BY <1>1 DEF AllWait, NeverPassed
  <1> QED
      BY <1>2, <1>3 DEF AllWait

\* Who gets the task waits anew; those that are left to write an older turn for another
\* are all the others, at most.
LEMMA TakerWaits ==
  ASSUME Typed, AllWait, Typed', NEW c \in Creation, Insert(c), creation[c].stamp > 0,
         NEW u \in User, NEW v \in User, creation[c].assignee = u
  PROVE  Waits(u, v)'
  <1> DEFINE S == Creation \ {c}
  <1>1. bypassed'[u] = NeverPassed
      BY InsertSteps
  <1>2. PICK w : /\ ~Holding(w)
                 /\ \A d \in Creation : creation'[d] = IF d = c THEN w ELSE creation[d]
      BY InsertSteps
  <1>3. Late(u, v)' \subseteq S
    <2>1. \A d \in Creation : Holding(creation'[d]) => d # c
        BY <1>2
    <2> QED
        BY <2>1 DEF Late
  <1>4. Cardinality(S) <= N - 1
    <2>1. IsFiniteSet(Creation)
        BY RoutingAssumption
    <2>2. Cardinality(S) = N - 1
        BY <2>1, FS_RemoveElement DEF N
    <2> QED
        BY <2>2, SomeCreations
  <1>5. bypassed'[u][v] = 0
      BY <1>1 DEF NeverPassed
  <1> QED
      BY <1>1, <1>3, <1>4, <1>5, WaitAfresh

\* v gets the task, and u, who may have been in line for it, waits on.
LEMMA OthersWait ==
  ASSUME Typed, Stamped, AllWait, Typed', NEW c \in Creation, Insert(c), creation[c].stamp > 0,
         NEW u \in User, NEW v \in User, u # v, creation[c].assignee = v
  PROVE  Waits(u, v)'
  <1> DEFINE t == creation[c].stamp
             o == Cardinality(Late(u, v))
             p == Cardinality(Ahead(u, v))
             b == bypassed[u][v]
             f == Before(v, u)
  <1>1. /\ Holding(creation[c])
        /\ user'[u].state = user[u].state
        /\ user'[u].last = user[u].last /\ user'[v].last = t
        /\ b' = IF user[u].state = "active" /\ Asks(creation[c], u) THEN b + 1 ELSE b
      BY InsertSteps
  <1>2. PICK w : /\ ~Holding(w)
                 /\ \A d \in Creation : creation'[d] = IF d = c THEN w ELSE creation[d]
      BY InsertSteps
  <1>3. Waits(u, v)
      BY DEF AllWait
  <1>4. /\ Late(u, v) \in SUBSET Creation /\ Ahead(u, v) \in SUBSET Creation
        /\ Late(u, v) \intersect Ahead(u, v) = {}
        /\ b \in Nat /\ user[u].last \in Nat /\ f \in BOOLEAN
      BY InLine
  <1>5. o \in 0..N /\ p \in 0..N /\ o + p <= N
      BY <1>4, Counted
  <1>6. t \in Nat /\ t # user[u].last
      BY <1>1, CreationTyped DEF Stamped, Routed
  <1>7. Ahead(u, v)' \subseteq Ahead(u, v) \ {c}
    <2>1. \A d \in Creation : Holding(creation'[d]) => d # c /\ creation'[d] = creation[d]
        BY <1>2
    <2> QED
        BY <1>1, <2>1 DEF Ahead
  <1>8. Late(u, v)' = Late(u, v) \ {c}
    <2>1. \A d \in Creation : d # c => creation'[d] = creation[d]
        BY <1>2
    <2>2. ~Holding(creation'[c])
        BY <1>2
    <2> QED
        BY <1>1, <2>1, <2>2 DEF Late
  <1>9. p' \in 0..p
      BY <1>4, <1>7, Fewer
  <1>10. N' = N
      BY DEF N
  <1>11. CASE t < user[u].last
    <2>1. c \in Late(u, v)
        BY <1>1, <1>11 DEF Late
    <2>2. o' = o - 1 /\ o \in 1..N
      <3>1. IsFiniteSet(Late(u, v))
          BY <1>4, RoutingAssumption, FS_Subset
      <3>2. o' = o - 1
          BY <1>8, <2>1, <3>1, FS_RemoveElement
      <3>3. o # 0
          BY <2>1, <3>1, FS_EmptySet
      <3> HIDE DEF o
      <3> QED
          BY <1>5, <3>2, <3>3
    <2>3. f'
        BY <1>1, <1>11 DEF Before
    <2>4. /\ o <= N - 1
          /\ user[u].state # "active" => b = 0
          /\ user[u].state = "active" => Fits(b, o, p, f)
        BY <1>3 DEF Waits
    <2> HIDE DEF t, o, p, b, f
    <2>5. p \in Nat /\ p' \in Nat
        BY <1>5, <1>9
    <2>6. Fits(b, o, p, f) => Fits(b, o - 1, p', TRUE) /\ Fits(b + 1, o - 1, p', TRUE)
        BY <1>4, <2>2, <2>5, FitsLate
    <2>7. Fits(b, o, p, f) => Fits(b', o', p', TRUE)
        BY <1>1, <2>2, <2>6
    <2>8. f' = TRUE
        BY <2>3 DEF f, Before
    <2>9. /\ user'[u].state # "active" => b' = 0
          /\ user'[u].state = "active" => Fits(b', o', p', f')
        BY <1>1, <2>4, <2>7, <2>8
    <2>10. o' <= N - 1
        BY <2>2, <2>4, SomeCreations
    <2> USE DEF o, p, b, f
    <2> QED
        BY <1>10, <2>9, <2>10 DEF Waits, Fits, Weight, Ceiling
  <1>12. CASE t > user[u].last
    <2>1. c \notin Late(u, v)
        BY <1>4, <1>6, <1>12 DEF Late
    <2>2. o' = o
        BY <1>8, <2>1
    <2>3. f' = FALSE
        BY <1>1, <1>4, <1>6, <1>12 DEF Before
    <2>4. /\ o <= N - 1
          /\ user[u].state # "active" => b = 0
          /\ user[u].state = "active" => Fits(b, o, p, f)
        BY <1>3 DEF Waits
    <2>5. Asks(creation[c], u) => p' < p
      <3>1. Asks(creation[c], u) => c \in Ahead(u, v)
          BY <1>1, <1>12 DEF Ahead
      <3> QED
          BY <1>4, <1>7, <3>1, Fewer
    <2> HIDE DEF t, o, p, b, f
    <2>6. p \in Nat
        BY <1>5
    <2>7. Fits(b, o, p, f) => Fits(b, o, p', FALSE) /\ (p' < p => Fits(b + 1, o, p', FALSE))
        BY <1>4, <1>5, <1>9, <2>6, FitsLater
    <2>8. Fits(b, o, p, f) => Fits(b', o', p', FALSE)
        BY <1>1, <2>2, <2>5, <2>7
    <2>9. /\ user'[u].state # "active" => b' = 0
          /\ user'[u].state = "active" => Fits(b', o', p', f')
        BY <1>1, <2>3, <2>4, <2>8
    <2> USE DEF o, p, b, f
    <2> QED
        BY <1>10, <2>2, <2>4, <2>9 DEF Waits, Fits, Weight, Ceiling
  <1>13. t < user[u].last \/ t > user[u].last
      BY <1>4, <1>6
  <1> QED
      BY <1>11, <1>12, <1>13

LEMMA InsertWait ==
  ASSUME Typed, Stamped, AllWait, Typed', NEW c \in Creation, Insert(c), creation[c].stamp > 0
  PROVE  AllWait'
  <1> DEFINE x == creation[c].assignee
  <1>1. /\ x \in User
        /\ \A u \in User : u # x => user'[u].last = user[u].last
        /\ \A u \in User : user'[u].state = user[u].state
        /\ bypassed'[x] = NeverPassed
        /\ \A u \in User : u # x => \A v \in User :
              v # x => bypassed'[u][v] = bypassed[u][v]
      BY InsertSteps
  <1>2. PICK w : /\ ~Holding(w)
                 /\ \A d \in Creation : creation'[d] = IF d = c THEN w ELSE creation[d]
      BY InsertSteps
  <1>3. \A u \in User : u # x => user'[u] = user[u]
      BY <1>1 DEF Insert, Typed, TypeOK
  <1>4. ASSUME NEW u \in User, NEW v \in User, u # v, x # u, x # v
        PROVE  Waits(u, v)'
    <2>1. \A d \in Creation : Holding(creation'[d]) => creation'[d] = creation[d]
        BY <1>2
    <2>2. Late(u, v)' \subseteq Late(u, v) /\ Ahead(u, v)' \subseteq Ahead(u, v)
        BY <1>3, <1>4, <2>1 DEF Late, Ahead
    <2>3. /\ user'[u] = user[u] /\ user'[v].last = user[v].last
          /\ bypassed'[u][v] = bypassed[u][v]
        BY <1>1, <1>3, <1>4
    <2>4. Waits(u, v)
        BY <1>4 DEF AllWait
    <2> QED
        BY <2>2, <2>3, <2>4, WaitOn
  <1>5. ASSUME NEW u \in User, NEW v \in User, u # v PROVE Waits(u, v)'
      BY <1>1, <1>4, <1>5, TakerWaits, OthersWait
  <1>6. \A u \in User : bypassed'[u][u] = 0
      BY <1>1 DEF AllWait, NeverPassed
  <1> QED
      BY <1>5, <1>6 DEF AllWait

LEMMA NextWait == ASSUME Typed, Stamped, AllWait, [Next]_vars PROVE AllWait'
  <1>1. Typed'
      BY NextTyped
  <1>2. ASSUME NEW c \in Creation, Create(c) PROVE AllWait'
      BY <1>1, <1>2, StepCases, PlainWait, PickWait, InsertWait
  <1>3. ASSUME NEW x \in User, NEW state \in {"active", "inactive", "gone"},
               Administer(x, state)
        PROVE  AllWait'
      BY <1>1, <1>3, AdministerWait
  <1>4. CASE Restart
    <2>1. \A d \in Creation : creation'[d] = Idle
        BY <1>4 DEF Restart
    <2> QED
        BY <1>4, <2>1, IdleHandled, GiveUpWait DEF Restart, turns
  <1>5. CASE UNCHANGED <<user, creation, bypassed>>
      BY <1>5, GiveUpWait
  <1> QED
      BY <1>2, <1>3, <1>4, <1>5 DEF Next, Rename, turns, vars

LEMMA InitWait == Init => AllWait
  <1> SUFFICES ASSUME Init PROVE AllWait
      OBVIOUS
  <1>1. Typed
      BY InitTyped
  <1>2. \A u, v \in User : bypassed[u][v] = 0
      BY DEF Init, NeverPassed
  <1>3. ASSUME NEW u \in User, NEW v \in User PROVE Waits(u, v)
    <2>1. Late(u, v) = {} /\ Ahead(u, v) = {}
        BY IdleHandled DEF Init, Late, Ahead
    <2>2. Cardinality(Late(u, v)) = 0 /\ Cardinality(Ahead(u, v)) = 0
        BY <2>1, FS_EmptySet
    <2>3. 0 \in 0..(N - 1) /\ 0 \in Nat /\ 0 + 0 <= N /\ 0 <= N - 1
        BY SomeCreations
    <2>4. Fits(0, 0, 0, Before(v, u))
        BY <1>1, <2>3, InLine, FitsAfresh
    <2> QED
        BY <1>2, <2>2, <2>3, <2>4 DEF Waits
  <1> QED
      BY <1>2, <1>3 DEF AllWait

LEMMA WaitBounded == ASSUME Typed, AllWait PROVE WaitingIsBounded
  <1>1. Backlog(N) \in Nat
    <2>1. N \in Nat \ {0}
        BY SomeCreations
    <2>2. PICK m \in Nat : m = N * (N + 1)
        BY <2>1
    <2>3. (m \div 2) + N - 1 \in Nat
        BY <2>1
    <2> QED
        BY <2>2, <2>3 DEF Backlog
  <1>2. ASSUME NEW u \in User, NEW v \in User PROVE bypassed[u][v] <= Backlog(N)
    <2>1. CASE bypassed[u][v] = 0
        BY <1>1, <2>1
    <2>2. CASE bypassed[u][v] # 0
      <3> DEFINE o == Cardinality(Late(u, v))
                 p == Cardinality(Ahead(u, v))
      <3>1. Fits(bypassed[u][v], o, p, Before(v, u))
          BY <2>2 DEF AllWait, Waits
      <3>2. bypassed[u][v] \in Nat /\ Before(v, u) \in BOOLEAN
          BY InLine
      <3>3. o \in 0..N /\ p \in 0..N
          BY InLine, Counted
      <3> HIDE DEF o, p
      <3>4. p \in Nat
          BY <3>3, SomeCreations
      <3> QED
          BY <3>1, <3>2, <3>3, <3>4, FitsBacklog
    <2> QED
        BY <2>1, <2>2
  <1> QED
      BY <1>2 DEF WaitingIsBounded, N

\* Of two users in line, the one assigned a task less recently is passed over only by
\* creations that overlap: with n of them at a time the other gets no more than
\* n(n + 1)/2 + n - 1 tasks before the first one's turn, whatever conflicts, deletions
\* and restarts they meet.
THEOREM WaitingAlwaysBounded == Spec => []WaitingIsBounded
  <1>1. Init => Typed /\ Stamped /\ AllWait
      BY InitTyped, InitStamped, InitWait
  <1>2. Typed /\ Stamped /\ AllWait /\ [Next]_vars => (Typed /\ Stamped /\ AllWait)'
      BY NextTyped, NextStamped, NextWait
  <1>3. Typed /\ AllWait => WaitingIsBounded
      BY WaitBounded
  <1> QED
      BY <1>1, <1>2, <1>3, PTL DEF Spec
=============================================================================
