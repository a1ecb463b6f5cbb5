----------------------- MODULE DirectorySlack_proofs -----------------------
(***************************************************************************)
(* Proofs about Directory, for every finite set of users, every number of  *)
(* requests and of restarts; and about SlackMessages, for every set of     *)
(* messages, workspaces, claimers and overlapping updates.  The two meet   *)
(* in the person who claims, whose row Directory is about.                 *)
(***************************************************************************)
EXTENDS Directory, SlackMessages, FiniteSetTheorems, TLAPS

-----------------------------------------------------------------------------
\* What a request in flight has settled on by the time it needs it.
Grounded(c) ==
    /\ request[c].pc # "idle" => request[c].id \in Id
    /\ request[c].pc \in {"counting", "writing"} => request[c].change \in Change
    /\ request[c].pc = "counting" => Guarded(request[c].seen, request[c].change)

Typed ==
    /\ TypeOK
    /\ \A c \in Request : Grounded(c)

LEMMA IdleIsWork == Idle \in Work
  BY DEF Idle, Work, Row

LEMMA InitTyped == Init => Typed
  <1> SUFFICES ASSUME Init PROVE Typed
      OBVIOUS
  <1>1. user \in [Id -> Row]
      BY DEF Init, Row
  <1>2. request \in [Request -> Work] /\ \A c \in Request : Grounded(c)
      BY IdleIsWork DEF Init, Grounded, Idle
  <1>3. restarts \in 0..MaxRestarts
      BY DirectoryAssumption DEF Init
  <1> QED
      BY <1>1, <1>2, <1>3 DEF Init, Typed, TypeOK

\* A row put in its place, and what is remembered of it.
LEMMA PutTyped ==
  ASSUME Typed, NEW i \in Id, NEW state \in {"active"}, NEW operator \in BOOLEAN,
         Put(i, state, operator)
  PROVE  user' \in [Id -> Row]
  BY DEF Typed, TypeOK, Put, Row

LEMMA RememberTyped ==
  ASSUME Typed, Remember
  PROVE  led' \in BOOLEAN
  BY DEF Typed, TypeOK, Remember

\* The next request of one slot keeps the others typed and grounded.
LEMMA RequestStep ==
  ASSUME Typed, NEW c \in Request, NEW w \in Work,
         request' = [request EXCEPT ![c] = w],
         w.pc # "idle" => w.id \in Id,
         w.pc \in {"counting", "writing"} => w.change \in Change,
         w.pc = "counting" => Guarded(w.seen, w.change)
  PROVE  request' \in [Request -> Work] /\ \A d \in Request : Grounded(d)'
  BY DEF Typed, TypeOK, Grounded

LEMMA DoneStep ==
  ASSUME Typed, NEW c \in Request, Done(c)
  PROVE  request' \in [Request -> Work] /\ \A d \in Request : Grounded(d)'
  BY RequestStep, IdleIsWork DEF Done, Idle

LEMMA SameRequests ==
  ASSUME Typed, UNCHANGED request
  PROVE  request' \in [Request -> Work] /\ \A d \in Request : Grounded(d)'
  BY DEF Typed, TypeOK, Grounded

LEMMA AppliedIsRow ==
  ASSUME NEW seen \in Row, NEW change \in Change
  PROVE  Applied(seen, change) \in Row
  BY DEF Applied, Row, Change

LEMMA MergeIsRow ==
  ASSUME NEW now \in Row, NEW seen \in Row, NEW new \in Row
  PROVE  Merge(now, seen, new) \in Row
  BY DEF Merge, Row

\* The row a write leaves.
Written(w) ==
    IF w.id \in Present THEN Merge(user[w.id], w.seen, Applied(w.seen, w.change))
    ELSE user[w.id]

LEMMA WrittenIsRow ==
  ASSUME Typed, NEW c \in Request, request[c].pc = "writing"
  PROVE  Written(request[c]) \in Row
  <1>1. request[c].id \in Id /\ request[c].change \in Change /\ request[c].seen \in Row
      BY DEF Typed, TypeOK, Grounded, Work
  <1>2. user[request[c].id] \in Row
      BY <1>1 DEF Typed, TypeOK
  <1> QED
      BY <1>1, <1>2, AppliedIsRow, MergeIsRow DEF Written

LEMMA WriteIsWritten ==
  ASSUME NEW c \in Request, Write(c)
  PROVE  /\ user' = [user EXCEPT ![request[c].id] = Written(request[c])]
         /\ raced' = (raced \/ (/\ Leads(user[request[c].id])
                                /\ ~Leads(Written(request[c]))
                                /\ \/ ~Leads(request[c].seen)
                                   \/ ~(request[c].counted \subseteq Leaders)))
  BY DEF Write, Written

\* Setup.
Setup(c) ==
    \/ Found(c)
    \/ \E i \in Id : BeginSetup(c, i) \/ BeginBootstrap(c, i)

\* Administration.
Administration(c) ==
    \/ CountOperators(c) \/ Write(c)
    \/ \E i \in Id : RemoveUser(c, i) \/ \E change \in Change : ReadUser(c, i, change)

\* What no request slot takes part in.
Alone ==
    \/ \E i \in Id, operator \in BOOLEAN : AddUser(i, operator)
    \/ RefuseSetup \/ Restart

LEMMA NextCases ==
  ASSUME Next
  PROVE  Alone \/ \E c \in Request : Setup(c) \/ Administration(c)
  BY DEF Next, Alone, Setup, Administration

LEMMA SetupTyped == ASSUME Typed, NEW c \in Request, Setup(c) PROVE Typed'
  <1> USE DEF setup
  <1> request[c] \in Work
      BY DEF Typed, TypeOK
  <1>1. CASE Found(c)
    <2> DEFINE i == request[c].id
    <2>1. request[c].id \in Id
        BY <1>1 DEF Found, Typed, Grounded
    <2>2. user' \in [Id -> Row]
        BY <1>1, <2>1, PutTyped DEF Found, Typed, TypeOK
    <2>3. token' \in {"none", "live", "done"} /\ founders' \in Nat /\ overlapped' \in BOOLEAN
      <3>1. token' \in {"none", "live", "done"}
          BY <1>1 DEF Found, MarkComplete, Typed, TypeOK
      <3>2. founders' \in Nat
        <4>1. founders' = founders + 1 \/ founders' = founders
            BY <1>1 DEF Found
        <4> QED
            BY <4>1 DEF Typed, TypeOK
      <3>3. overlapped' \in BOOLEAN
        <4>1. \/ overlapped' = (overlapped \/ founders # request[c].since)
              \/ overlapped' = overlapped
            BY <1>1 DEF Found
        <4> QED
            BY <4>1 DEF Typed, TypeOK
      <3> QED
          BY <3>1, <3>2, <3>3
    <2>4. led' \in BOOLEAN
        BY <1>1, RememberTyped DEF Found
    <2>5. request' \in [Request -> Work] /\ \A d \in Request : Grounded(d)'
        BY <1>1, DoneStep DEF Found
    <2> QED
        BY <1>1, <2>2, <2>3, <2>4, <2>5 DEF Found, Typed, TypeOK
  <1>2. ASSUME NEW w \in Work, w.pc = "founding", w.id \in Id,
               request' = [request EXCEPT ![c] = w],
               UNCHANGED <<user, setup, raced, led, restarts>>
        PROVE  Typed'
    <2>1. request' \in [Request -> Work] /\ \A d \in Request : Grounded(d)'
        BY <1>2, RequestStep
    <2> QED
        BY <1>2, <2>1 DEF Typed, TypeOK
  <1>3. founders \in Nat
      BY DEF Typed, TypeOK
  <1>4. ASSUME NEW i \in Id, BeginSetup(c, i) PROVE Typed'
    <2> DEFINE w == [Idle EXCEPT !.pc = "founding", !.id = i, !.since = founders]
    <2>1. w \in Work /\ w.pc = "founding" /\ w.id = i
        BY <1>3, IdleIsWork DEF Work
    <2> QED
        BY <1>2, <1>4, <2>1 DEF BeginSetup
  <1>5. ASSUME NEW i \in Id, BeginBootstrap(c, i) PROVE Typed'
    <2> DEFINE w == [Idle EXCEPT !.pc = "founding", !.shell = TRUE, !.id = i, !.since = founders]
    <2>1. w \in Work /\ w.pc = "founding" /\ w.id = i
        BY <1>3, IdleIsWork DEF Work
    <2> QED
        BY <1>2, <1>5, <2>1 DEF BeginBootstrap
  <1> QED
      BY <1>1, <1>4, <1>5 DEF Setup

LEMMA ReadTyped ==
  ASSUME Typed, NEW c \in Request, NEW i \in Id, NEW change \in Change, NEW shell \in BOOLEAN,
         Read(c, i, change, shell)
  PROVE  Typed'
  <1> DEFINE w == [Idle EXCEPT !.pc = IF Guarded(user[i], change) THEN "counting" ELSE "writing",
                               !.shell = shell, !.id = i, !.change = change, !.seen = user[i]]
  <1>1. w \in Work /\ w.id = i /\ w.change = change /\ w.seen = user[i]
        /\ (w.pc = "counting" => Guarded(user[i], change))
    <2>1. user[i] \in Row
        BY DEF Typed, TypeOK
    <2> QED
        BY <2>1, IdleIsWork DEF Work
  <1>2. request' = [request EXCEPT ![c] = w]
      BY DEF Read
  <1>3. request' \in [Request -> Work] /\ \A d \in Request : Grounded(d)'
      BY <1>1, <1>2, RequestStep
  <1> QED
      BY <1>3 DEF Read, setup, Typed, TypeOK

LEMMA AdministrationTyped == ASSUME Typed, NEW c \in Request, Administration(c) PROVE Typed'
  <1> USE DEF setup
  <1> request[c] \in Work
      BY DEF Typed, TypeOK
  <1>1. CASE CountOperators(c)
    <2> DEFINE w == IF LastOperator THEN Idle
                    ELSE [request[c] EXCEPT !.pc = "writing", !.counted = Leaders]
    <2>1. request[c].id \in Id /\ request[c].change \in Change
        BY <1>1 DEF CountOperators, Typed, Grounded
    <2>2. w \in Work /\ w.pc # "counting" /\ (w.pc # "idle" => w.id \in Id /\ w.change \in Change)
        BY <2>1, IdleIsWork DEF Work, Idle, Leaders
    <2>3. request' = [request EXCEPT ![c] = w]
        BY <1>1 DEF CountOperators
    <2>4. request' \in [Request -> Work] /\ \A d \in Request : Grounded(d)'
        BY <2>2, <2>3, RequestStep
    <2> QED
        BY <1>1, <2>4 DEF CountOperators, Typed, TypeOK
  <1>2. CASE Write(c)
    <2>1. user' \in [Id -> Row]
        BY <1>2, WriteIsWritten, WrittenIsRow DEF Write, Typed, TypeOK
    <2>2. led' \in BOOLEAN
        BY <1>2, RememberTyped DEF Write
    <2>3. request' \in [Request -> Work] /\ \A d \in Request : Grounded(d)'
        BY <1>2, DoneStep DEF Write
    <2>4. raced' \in BOOLEAN
        BY <1>2, WriteIsWritten DEF Typed, TypeOK
    <2> QED
        BY <1>2, <2>1, <2>2, <2>3, <2>4 DEF Write, Typed, TypeOK
  <1>3. ASSUME NEW i \in Id, RemoveUser(c, i) PROVE Typed'
      BY <1>3, ReadTyped DEF RemoveUser, Change
  <1>4. ASSUME NEW i \in Id, NEW change \in Change, ReadUser(c, i, change) PROVE Typed'
      BY <1>4, ReadTyped DEF ReadUser
  <1> QED
      BY <1>1, <1>2, <1>3, <1>4 DEF Administration

LEMMA AloneTyped == ASSUME Typed, Alone PROVE Typed'
  <1> USE DEF setup
  <1>1. ASSUME NEW i \in Id, NEW operator \in BOOLEAN, AddUser(i, operator) PROVE Typed'
      BY <1>1, PutTyped, RememberTyped, SameRequests DEF AddUser, Typed, TypeOK
  <1>2. CASE RefuseSetup
      BY <1>2, SameRequests DEF RefuseSetup, MarkComplete, Typed, TypeOK
  <1>3. CASE Restart
    <2>1. request' \in [Request -> Work] /\ \A d \in Request : Grounded(d)'
        BY <1>3, IdleIsWork DEF Restart, Typed, TypeOK, Grounded, Idle
    <2>2. restarts' \in 0..MaxRestarts
        BY <1>3, DirectoryAssumption DEF Restart, Typed, TypeOK
    <2> QED
        BY <1>3, <2>1, <2>2 DEF Restart, EnsureToken, Typed, TypeOK
  <1> QED
      BY <1>1, <1>2, <1>3 DEF Alone

LEMMA NextTyped == ASSUME Typed, [Next]_vars PROVE Typed'
  <1>1. CASE UNCHANGED vars
      BY <1>1, SameRequests DEF vars, Typed, TypeOK
  <1> QED
      BY <1>1, NextCases, SetupTyped, AdministrationTyped, AloneTyped

\* Every variable has its type, and only a change that removes an operator is counted.
THEOREM AlwaysTyped == Spec => []Typed
  BY InitTyped, NextTyped, PTL DEF Spec

-----------------------------------------------------------------------------
(***************************************************************************)
(* The last operator.  A write that may remove an operator has counted     *)
(* another one besides; as long as all that were counted still lead, one   *)
(* is left.                                                                *)
(***************************************************************************)
\* Whoever is about to remove an operator has counted somebody else.
Spared(c) ==
    request[c].pc = "writing" /\ Guarded(request[c].seen, request[c].change)
    => \E j \in request[c].counted : j # request[c].id

Kept ==
    /\ \A c \in Request : Spared(c)
    /\ LockoutsAreRaces

LEMMA TwoLeaders ==
  ASSUME ~LastOperator, NEW i
  PROVE  \E j \in Leaders : j # i
  <1> SUFFICES ASSUME \A j \in Leaders : j = i PROVE FALSE
      OBVIOUS
  <1>1. IsFiniteSet({i}) /\ Cardinality({i}) = 1
      BY FS_Singleton
  <1>2. Leaders \subseteq {i}
      OBVIOUS
  <1>3. Cardinality(Leaders) <= 1
      BY <1>1, <1>2, FS_Subset
  <1> QED
      BY <1>3 DEF LastOperator

LEMMA InitKept == Init => Kept
  BY DEF Init, Kept, Spared, LockoutsAreRaces, Idle

\* A table with an operator before, the same one or another after: no lockout is due.
LEMMA LockoutStep ==
  ASSUME LockoutsAreRaces, Remember, raced => raced',
         Leaders # {} /\ Leaders' = {} => raced'
  PROVE  LockoutsAreRaces'
  <1>1. led' /\ Leaders' = {} => led
      BY DEF Remember, Leaders
  <1> QED
      BY <1>1 DEF LockoutsAreRaces

LEMMA SameUsers ==
  ASSUME LockoutsAreRaces, UNCHANGED <<user, raced, led>>
  PROVE  LockoutsAreRaces'
  BY DEF LockoutsAreRaces, Leaders

LEMMA PutLeader ==
  ASSUME Typed, NEW i \in Id, NEW operator \in BOOLEAN, Put(i, "active", operator), Free(i)
  PROVE  Leaders \subseteq Leaders'
  BY DEF Typed, TypeOK, Put, Free, Leaders, Leads, Row

\* The write of an operator's removal that leaves nobody was made on outdated grounds.
LEMMA WriteKept ==
  ASSUME Typed, Kept, NEW c \in Request, Write(c), Leaders # {}, Leaders' = {}
  PROVE  raced'
  <1> DEFINE w == request[c]
             i == request[c].id
  <1>1. w.pc = "writing" /\ w.id \in Id /\ w.change \in Change /\ w.seen \in Row
      BY DEF Write, Typed, TypeOK, Grounded, Work
  <1>2. user' = [user EXCEPT ![i] = Written(w)]
      BY WriteIsWritten
  <1>3. \A j \in Leaders : j = i
      BY <1>1, <1>2 DEF Leaders, Typed, TypeOK
  <1>4. Leads(user[i]) /\ ~Leads(Written(w))
      BY <1>1, <1>2, <1>3 DEF Leaders, Typed, TypeOK
  <1>5. CASE ~Leads(w.seen) \/ ~(w.counted \subseteq Leaders)
      BY <1>4, <1>5, WriteIsWritten
  <1>6. CASE Leads(w.seen) /\ w.counted \subseteq Leaders
    <2>1. i \in Present /\ user[i] \in Row
        BY <1>1, <1>4 DEF Present, Leads, Typed, TypeOK
    <2>2. Written(w) = Merge(user[i], w.seen, Applied(w.seen, w.change))
        BY <2>1 DEF Written
    <2>3. CASE w.change \in {"promote", "activate"}
      <3>1. Applied(w.seen, w.change) = w.seen
          BY <1>1, <1>6, <2>3 DEF Applied, Leads, Row
      <3>2. Merge(user[i], w.seen, w.seen) = user[i]
          BY <2>1 DEF Merge, Row
      <3> QED
          BY <1>4, <2>2, <3>1, <3>2
    <2>4. CASE w.change \in {"demote", "deactivate", "delete"}
      <3>1. \E j \in w.counted : j # i
          BY <1>1, <1>6, <2>4 DEF Kept, Spared, Guarded
      <3> QED
          BY <1>3, <1>6, <3>1
    <2> QED
        BY <1>1, <2>3, <2>4 DEF Change
  <1> QED
      BY <1>5, <1>6

LEMMA SetupKept == ASSUME Typed, Kept, NEW c \in Request, Setup(c) PROVE Kept'
  <1> USE DEF setup
  <1>1. CASE Found(c)
    <2>1. \A d \in Request : Spared(d)'
        BY <1>1 DEF Found, Done, Kept, Spared, Idle, Typed, TypeOK
    <2>2. request[c].id \in Id
        BY <1>1 DEF Found, Typed, Grounded
    <2>3. Leaders \subseteq Leaders'
        BY <1>1, <2>2, PutLeader DEF Found, Leaders
    <2>4. raced' = raced /\ Remember
        BY <1>1 DEF Found
    <2>5. LockoutsAreRaces'
        BY <2>3, <2>4, LockoutStep DEF Kept
    <2> QED
        BY <2>1, <2>5 DEF Kept
  <1>2. ASSUME NEW i \in Id, BeginSetup(c, i) \/ BeginBootstrap(c, i) PROVE Kept'
    <2>1. \A d \in Request : \/ request'[d] = request[d]
                              \/ request'[d].pc = "founding"
      <3>1. CASE BeginSetup(c, i)
          BY <3>1, IdleIsWork DEF BeginSetup, Typed, TypeOK, Work
      <3>2. CASE BeginBootstrap(c, i)
          BY <3>2, IdleIsWork DEF BeginBootstrap, Typed, TypeOK, Work
      <3> QED
          BY <1>2, <3>1, <3>2
    <2>2. UNCHANGED <<user, raced>>
        BY <1>2 DEF BeginSetup, BeginBootstrap
    <2>3. \A d \in Request : Spared(d)'
        BY <2>1, <2>2 DEF Kept, Spared
    <2>4. LockoutsAreRaces'
        BY <1>2, SameUsers DEF BeginSetup, BeginBootstrap, Kept
    <2> QED
        BY <2>3, <2>4 DEF Kept
  <1> QED
      BY <1>1, <1>2 DEF Setup

LEMMA ReadKept ==
  ASSUME Typed, Kept, NEW c \in Request, NEW i \in Id, NEW change \in Change,
         NEW shell \in BOOLEAN, Read(c, i, change, shell)
  PROVE  Kept'
  <1>1. \A d \in Request : Spared(d)'
      BY DEF Read, Kept, Spared, Idle, Typed, TypeOK
  <1>2. LockoutsAreRaces'
      BY SameUsers DEF Read, Kept
  <1> QED
      BY <1>1, <1>2 DEF Kept

LEMMA AdministrationKept ==
  ASSUME Typed, Kept, NEW c \in Request, Administration(c) PROVE Kept'
  <1>1. CASE CountOperators(c)
    <2>1. Spared(c)'
      <3>1. CASE LastOperator
          BY <1>1, <3>1 DEF CountOperators, Spared, Idle, Typed, TypeOK
      <3>2. CASE ~LastOperator
        <4>1. request[c] \in Work /\ request' = [request EXCEPT ![c] =
                                       [request[c] EXCEPT !.pc = "writing", !.counted = Leaders]]
            BY <1>1, <3>2 DEF CountOperators, Typed, TypeOK
        <4>2. request'[c].counted = Leaders /\ request'[c].id = request[c].id
            BY <4>1 DEF Work, Typed, TypeOK
        <4>3. \E j \in Leaders : j # request[c].id
            BY <3>2, TwoLeaders
        <4> QED
            BY <4>2, <4>3 DEF Spared
      <3> QED
          BY <3>1, <3>2
    <2>2. \A d \in Request \ {c} : Spared(d)'
        BY <1>1 DEF CountOperators, Kept, Spared, Typed, TypeOK
    <2>3. LockoutsAreRaces'
        BY <1>1, SameUsers DEF CountOperators, Kept
    <2> QED
        BY <2>1, <2>2, <2>3 DEF Kept
  <1>2. CASE Write(c)
    <2>1. \A d \in Request : Spared(d)'
        BY <1>2 DEF Write, Done, Kept, Spared, Idle, Typed, TypeOK
    <2>2. raced => raced'
        BY <1>2, WriteIsWritten
    <2>3. Leaders # {} /\ Leaders' = {} => raced'
        BY <1>2, WriteKept
    <2>4. LockoutsAreRaces'
        BY <1>2, <2>2, <2>3, LockoutStep DEF Write, Kept
    <2> QED
        BY <2>1, <2>4 DEF Kept
  <1>3. ASSUME NEW i \in Id, RemoveUser(c, i) PROVE Kept'
      BY <1>3, ReadKept DEF RemoveUser, Change
  <1>4. ASSUME NEW i \in Id, NEW change \in Change, ReadUser(c, i, change) PROVE Kept'
      BY <1>4, ReadKept DEF ReadUser
  <1> QED
      BY <1>1, <1>2, <1>3, <1>4 DEF Administration

LEMMA AloneKept == ASSUME Typed, Kept, Alone PROVE Kept'
  <1>1. ASSUME NEW i \in Id, NEW operator \in BOOLEAN, AddUser(i, operator) PROVE Kept'
    <2>1. \A d \in Request : Spared(d)'
        BY <1>1 DEF AddUser, Kept, Spared
    <2>2. Leaders \subseteq Leaders'
        BY <1>1, PutLeader DEF AddUser
    <2>3. LockoutsAreRaces'
        BY <1>1, <2>2, LockoutStep DEF AddUser, Kept
    <2> QED
        BY <2>1, <2>3 DEF Kept
  <1>2. CASE RefuseSetup
      BY <1>2, SameUsers DEF RefuseSetup, Kept, Spared
  <1>3. CASE Restart
    <2>1. \A d \in Request : Spared(d)'
        BY <1>3 DEF Restart, Kept, Spared, Idle
    <2> QED
        BY <1>3, <2>1, SameUsers DEF Restart, Kept
  <1> QED
      BY <1>1, <1>2, <1>3 DEF Alone

LEMMA NextKept == ASSUME Typed, Kept, [Next]_vars PROVE Kept'
  <1>1. CASE UNCHANGED vars
      BY <1>1, SameUsers DEF vars, Kept, Spared
  <1> QED
      BY <1>1, NextCases, SetupKept, AdministrationKept, AloneKept

LEMMA AlwaysKept == Spec => []Kept
  <1>1. Typed /\ Kept /\ [Next]_vars => Kept'
      BY NextKept
  <1> QED
      BY <1>1, InitKept, AlwaysTyped, PTL DEF Spec

\* The directory loses its last operator only to a write whose grounds (the row that was
\* read, or the operators that were counted) had changed since.
THEOREM LockoutsAlwaysRaces == Spec => []LockoutsAreRaces
  BY AlwaysKept, PTL DEF Kept

-----------------------------------------------------------------------------
(***************************************************************************)
(* Founders.  A setup that found an empty directory found none that had    *)
(* been founded, unless a lockout had emptied it.                          *)
(***************************************************************************)
Founded ==
    /\ founders > 0 => led
    /\ \A c \in Request : request[c].pc = "founding" => request[c].since = 0 \/ raced
    /\ FoundersExplained

LEMMA InitFounded == Init => Founded
  BY DEF Init, Founded, FoundersExplained, Idle

LEMMA BeginFounded ==
  ASSUME Typed, Kept, Founded, NobodyYet
  PROVE  founders = 0 \/ raced
  <1>1. Leaders = {}
      BY DEF NobodyYet, Present, Leaders, Leads
  <1> QED
      BY <1>1 DEF Kept, LockoutsAreRaces, Founded, Typed, TypeOK

\* Whatever founds nobody.
LEMMA SameFounders ==
  ASSUME Typed, Founded, UNCHANGED <<founders, overlapped>>, led => led', raced => raced',
         \A c \in Request : request'[c].pc = "founding"
                           => \/ request'[c] = request[c]
                              \/ request'[c].since = 0 \/ raced
  PROVE  Founded'
  BY DEF Founded, FoundersExplained

LEMMA SetupFounded == ASSUME Typed, Kept, Founded, NEW c \in Request, Setup(c) PROVE Founded'
  <1> USE DEF setup
  <1>1. CASE Found(c)
    <2>1. \A d \in Request : request'[d].pc = "founding" => request'[d] = request[d]
        BY <1>1 DEF Found, Done, Idle, Typed, TypeOK
    <2>2. CASE Free(request[c].id)
      <3>1. request[c].id \in Id /\ founders \in Nat
          BY <1>1 DEF Found, Typed, TypeOK, Grounded
      <3>2. led'
        <4>1. Put(request[c].id, "active", TRUE) /\ Remember
            BY <1>1, <2>2 DEF Found
        <4>2. user'[request[c].id] = [state |-> "active", operator |-> TRUE]
            BY <3>1, <4>1 DEF Put, Typed, TypeOK
        <4>3. \E j \in Id : Leads(user'[j])
            BY <3>1, <4>2 DEF Leads
        <4> QED
            BY <4>1, <4>3 DEF Remember
      <3>3. founders' = founders + 1 /\ raced' = raced
          BY <1>1, <2>2 DEF Found
      <3>4. request[c].since = 0 \/ raced
          BY <1>1 DEF Found, Founded
      <3>5. founders # request[c].since => overlapped'
          BY <1>1, <2>2 DEF Found
      <3>6. FoundersExplained'
        <4>1. CASE raced
            BY <3>3, <4>1 DEF FoundersExplained
        <4>2. CASE ~raced /\ founders = 0
            BY <3>3, <4>2 DEF FoundersExplained
        <4>3. CASE ~raced /\ founders # 0
            BY <3>4, <3>5, <4>3 DEF FoundersExplained
        <4> QED
            BY <4>1, <4>2, <4>3
      <3>7. \A d \in Request : request'[d].pc = "founding" => request'[d].since = 0 \/ raced'
          BY <2>1, <3>3 DEF Founded
      <3> QED
          BY <3>2, <3>6, <3>7 DEF Founded
    <2>3. CASE ~Free(request[c].id)
      <3>1. UNCHANGED <<founders, overlapped, raced>> /\ (led => led')
          BY <1>1, <2>3 DEF Found, Remember
      <3> QED
          BY <2>1, <3>1, SameFounders
    <2> QED
        BY <2>2, <2>3
  <1>2. ASSUME NEW i \in Id, BeginSetup(c, i) \/ BeginBootstrap(c, i) PROVE Founded'
    <2>1. founders = 0 \/ raced
        BY <1>2, BeginFounded DEF BeginSetup, BeginBootstrap
    <2>2. \A d \in Request : request'[d].pc = "founding"
                            => request'[d] = request[d] \/ request'[d].since = founders
        BY <1>2, IdleIsWork DEF BeginSetup, BeginBootstrap, Typed, TypeOK, Work
    <2> QED
        BY <1>2, <2>1, <2>2, SameFounders DEF BeginSetup, BeginBootstrap
  <1> QED
      BY <1>1, <1>2 DEF Setup

LEMMA AdministrationFounded ==
  ASSUME Typed, Founded, NEW c \in Request, Administration(c) PROVE Founded'
  <1> USE DEF setup
  <1>1. CASE CountOperators(c)
      BY <1>1, SameFounders DEF CountOperators, Idle, Typed, TypeOK, Work
  <1>2. CASE Write(c)
    <2>1. \A d \in Request : request'[d].pc = "founding" => request'[d] = request[d]
        BY <1>2 DEF Write, Done, Idle, Typed, TypeOK
    <2>2. (led => led') /\ (raced => raced') /\ UNCHANGED <<founders, overlapped>>
        BY <1>2, WriteIsWritten DEF Write, Remember
    <2> QED
        BY <2>1, <2>2, SameFounders
  <1>3. ASSUME NEW i \in Id, NEW change \in Change, NEW shell \in BOOLEAN,
               Read(c, i, change, shell)
        PROVE  Founded'
    <2>1. \A d \in Request : request'[d].pc = "founding" => request'[d] = request[d]
        BY <1>3 DEF Read, Idle, Typed, TypeOK
    <2> QED
        BY <1>3, <2>1, SameFounders DEF Read
  <1> QED
      BY <1>1, <1>2, <1>3 DEF Administration, RemoveUser, ReadUser, Change

LEMMA NextFounded == ASSUME Typed, Kept, Founded, [Next]_vars PROVE Founded'
  <1> USE DEF setup
  <1>1. CASE Alone
    <2>1. \A d \in Request : request'[d].pc = "founding" => request'[d] = request[d]
        BY <1>1 DEF Alone, AddUser, RefuseSetup, Restart, Idle
    <2>2. UNCHANGED <<founders, overlapped, raced>>
        BY <1>1 DEF Alone, AddUser, RefuseSetup, Restart
    <2>3. led => led'
        BY <1>1 DEF Alone, AddUser, RefuseSetup, Restart, Remember
    <2> QED
        BY <2>1, <2>2, <2>3, SameFounders
  <1>2. CASE UNCHANGED vars
      BY <1>2, SameFounders DEF vars
  <1> QED
      BY <1>1, <1>2, NextCases, SetupFounded, AdministrationFounded

\* First-run setups make one operator, unless two of them overlapped, or the directory
\* had lost its operators to a race.
THEOREM FoundersAlwaysExplained == Spec => []FoundersExplained
  <1>1. Typed /\ Kept /\ Founded /\ [Next]_vars => Founded'
      BY NextFounded
  <1>2. Founded => FoundersExplained
      BY DEF Founded
  <1> QED
      BY <1>1, <1>2, InitFounded, AlwaysTyped, AlwaysKept, PTL DEF Spec

-----------------------------------------------------------------------------
(***************************************************************************)
(* Slack's messages, from here on.  Types first.                           *)
(***************************************************************************)
\* A button click that is being handled has a message it was made under.
Held == \A u \in User : click[u].pc # "idle" => click[u].route \in Route

\* A run that has read the task has a face to show.
Faced == \A x \in Updater : updater[x].pc \in {"listing", "updating"} => updater[x].face # "none"

SlackTyped == SlackTypeOK /\ Held /\ Faced

LEMMA UnusedIsRun == Unused \in Run /\ Unused.pc = "unused" /\ Finished \in Run /\ Finished.pc = "done"
  BY DEF Unused, Finished, Run

LEMMA NoClickIsClick == NoClick \in Click /\ NoClick.pc = "idle"
  BY DEF NoClick, Click

LEMMA SlackInitTyped == SlackInit => SlackTyped
  <1> SUFFICES ASSUME SlackInit PROVE SlackTyped
      OBVIOUS
  <1>1. notifier \in Notifier
      BY DEF SlackInit, Notifier
  <1>2. message \in [Route -> Message]
      BY DEF SlackInit, Message, NoMessage
  <1>3. crashes \in 0..MaxCrashes /\ changes \in 0..MaxChanges
      BY SlackAssumption DEF SlackInit
  <1>4. updater \in [Updater -> Run] /\ click \in [User -> Click] /\ Held /\ Faced
      BY UnusedIsRun, NoClickIsClick DEF SlackInit, Held, Faced
  <1> QED
      BY <1>1, <1>2, <1>3, <1>4 DEF SlackInit, SlackTyped, SlackTypeOK, Status

\* A client is one for a workspace.
LEMMA ClientTyped ==
  ASSUME SlackTypeOK, NEW r \in Route
  PROVE  ClientFor(r) \in Team \union {NIL}
  <1>1. env \in Team \union {NIL} /\ Identity[r] \in Team \union {NIL}
      BY SlackAssumption DEF SlackTypeOK
  <1>2. ASSUME NEW t \in Team PROVE ClientForTeam(t) \in Team \union {NIL}
      BY <1>1, <1>2 DEF ClientForTeam
  <1>3. DefaultClient \in Team \union {NIL}
    <2>1. CASE env # NIL
        BY <1>1, <2>1 DEF DefaultClient
    <2>2. CASE env = NIL /\ Cardinality(installed) = 1
      <3>1. Cardinality({}) = 0
          BY FS_EmptySet
      <3>2. \E t \in Team : t \in installed
        <4>1. installed # {}
            BY <2>2, <3>1
        <4> QED
            BY <4>1 DEF SlackTypeOK
      <3>3. (CHOOSE t \in Team : t \in installed) \in Team
          BY <3>2
      <3> QED
          BY <2>2, <3>3 DEF DefaultClient
    <2> QED
        BY <2>1, <2>2 DEF DefaultClient
  <1> QED
      BY <1>1, <1>2, <1>3 DEF ClientFor

LEMMA MessageStep ==
  ASSUME SlackTypeOK, NEW r \in Route, NEW w \in Message, message' = [message EXCEPT ![r] = w]
  PROVE  message' \in [Route -> Message]
  BY DEF SlackTypeOK

LEMMA RunStep ==
  ASSUME SlackTyped, NEW x \in Updater, NEW w \in Run,
         w.pc \in {"listing", "updating"} => w.face # "none",
         updater' = [updater EXCEPT ![x] = w]
  PROVE  updater' \in [Updater -> Run] /\ Faced'
  BY DEF SlackTyped, SlackTypeOK, Faced

LEMMA ClickStep ==
  ASSUME SlackTyped, NEW u \in User, NEW w \in Click, w.pc # "idle" => w.route \in Route,
         click' = [click EXCEPT ![u] = w]
  PROVE  click' \in [User -> Click] /\ Held'
  BY DEF SlackTyped, SlackTypeOK, Held, Faced

LEMMA LaunchStep == ASSUME SlackTyped, Launch PROVE updater' \in [Updater -> Run] /\ Faced'
  <1>1. PICK x \in Updater : updater' = [updater EXCEPT ![x].pc = "loading"]
      BY DEF Launch
  <1> PICK w : w = [updater[x] EXCEPT !.pc = "loading"]
      OBVIOUS
  <1>2. w \in Run /\ w.pc = "loading"
      BY DEF SlackTyped, SlackTypeOK, Run
  <1>3. updater' = [updater EXCEPT ![x] = w]
      BY <1>1
  <1> QED
      BY <1>2, <1>3, RunStep

LEMMA NotifyTyped == ASSUME SlackTyped, Notify PROVE SlackTyped'
  <1> USE DEF row, config
  <1>1. CASE Load
    <2>1. notifier' \in Notifier
        BY <1>1 DEF Load, SlackTyped, SlackTypeOK, Notifier
    <2> QED
        BY <1>1, <2>1 DEF Load, SlackTyped, SlackTypeOK, Held, Faced
  <1>2. CASE CommitRows
    <2>1. notifier' \in Notifier
        BY <1>2 DEF CommitRows, SlackTyped, SlackTypeOK, Notifier
    <2>2. notifier.pending \subseteq Route
        BY DEF SlackTyped, SlackTypeOK, Notifier
    <2> QED
        BY <1>2, <2>1, <2>2 DEF CommitRows, SlackTyped, SlackTypeOK, Held, Faced
  <1>3. ASSUME NEW r \in Route, Post(r) PROVE message' \in [Route -> Message]
    <2>1. OpenReview(ClientFor(r), notifier.link) \in Message
        BY ClientTyped DEF OpenReview, Message, SlackTyped, SlackTypeOK, Notifier
    <2> QED
        BY <1>3, <2>1, MessageStep DEF Post, SlackTyped
  <1>4. ASSUME NEW r \in Route, CommitFailure(r) PROVE notifier' \in Notifier /\ logged' \subseteq Route
      BY <1>4 DEF CommitFailure, SlackTyped, SlackTypeOK, Notifier
  <1>5. ASSUME NEW r \in Route, PostAnswered(r) PROVE SlackTyped'
    <2>1. notifier' \in Notifier
        BY <1>5 DEF PostAnswered, SlackTyped, SlackTypeOK, Notifier
    <2> QED
        BY <1>3, <1>5, <2>1 DEF PostAnswered, SlackTyped, SlackTypeOK, Held, Faced
  <1>6. ASSUME NEW r \in Route, Undeliverable(r) PROVE SlackTyped'
      BY <1>4, <1>6 DEF Undeliverable, SlackTyped, SlackTypeOK, Held, Faced
  <1>7. ASSUME NEW r \in Route, PostUnanswered(r) PROVE SlackTyped'
      BY <1>3, <1>4, <1>7 DEF PostUnanswered, SlackTyped, SlackTypeOK, Held, Faced
  <1> QED
      BY <1>1, <1>2, <1>5, <1>6, <1>7 DEF Notify

LEMMA UpdateTyped == ASSUME SlackTyped, NEW x \in Updater, Update(x) PROVE SlackTyped'
  <1> USE DEF row, config
  <1>0. updater[x] \in Run
      BY DEF SlackTyped, SlackTypeOK
  <1>1. CASE LoadTask(x)
    <2> PICK seen : seen = [updater[x] EXCEPT !.pc = "listing", !.face = Headline(status),
                                              !.link = assignee]
        OBVIOUS
    <2>1. Headline(status) \in {"closed"} \union Terminal
        BY DEF Headline
    <2>2. seen \in Run /\ seen.face # "none"
        BY <1>0, <2>1 DEF SlackTyped, SlackTypeOK, Run, Terminal
    <2>3. \/ updater' = [updater EXCEPT ![x] = Finished]
          \/ updater' = [updater EXCEPT ![x] = seen]
        BY <1>1 DEF LoadTask
    <2>4. updater' \in [Updater -> Run] /\ Faced'
        BY <2>2, <2>3, UnusedIsRun, RunStep
    <2> QED
        BY <1>1, <2>4 DEF LoadTask, SlackTyped, SlackTypeOK, Held
  <1>2. CASE ListMessages(x)
    <2> PICK w : w = [updater[x] EXCEPT !.pc = "updating", !.todo = logged]
        OBVIOUS
    <2>1. w \in Run /\ w.face # "none"
        BY <1>0, <1>2 DEF ListMessages, SlackTyped, SlackTypeOK, Faced, Run
    <2>2. updater' = [updater EXCEPT ![x] = w]
        BY <1>2 DEF ListMessages
    <2>3. missed' \subseteq Route
        BY <1>2 DEF ListMessages, SlackTyped, SlackTypeOK, Notifier
    <2>4. updater' \in [Updater -> Run] /\ Faced'
        BY <2>1, <2>2, RunStep
    <2> QED
        BY <1>2, <2>3, <2>4 DEF ListMessages, SlackTyped, SlackTypeOK, Held
  <1>3. CASE NothingPosted(x)
    <2>1. updater' \in [Updater -> Run] /\ Faced'
        BY <1>3, UnusedIsRun, RunStep DEF NothingPosted
    <2> QED
        BY <1>3, <2>1 DEF NothingPosted, SlackTyped, SlackTypeOK, Held
  <1>4. ASSUME NEW r \in Route, After(x, r), updater[x].pc = "updating"
        PROVE  updater' \in [Updater -> Run] /\ Faced'
    <2> PICK rest : rest = updater[x].todo \ {r}
        OBVIOUS
    <2> PICK w : w = [updater[x] EXCEPT !.todo = rest]
        OBVIOUS
    <2>1. w \in Run /\ w.face # "none"
        BY <1>0, <1>4 DEF SlackTyped, Faced, Run
    <2>2. \/ updater' = [updater EXCEPT ![x] = Finished]
          \/ updater' = [updater EXCEPT ![x] = w]
        BY <1>4 DEF After
    <2> QED
        BY <2>1, <2>2, UnusedIsRun, RunStep
  <1>5. ASSUME NEW r \in Route, UpdateMessage(x, r) PROVE SlackTyped'
    <2>1. updater[x].pc = "updating" /\ After(x, r)
        BY <1>5 DEF UpdateMessage
    <2>2. Closed(message[r], updater[x].face, updater[x].link) \in Message
      <3>1. message[r] \in Message
          BY DEF SlackTyped, SlackTypeOK
      <3>2. updater[x].face \in {"closed"} \union Terminal /\ updater[x].link \in User \union {NIL}
          BY <1>0, <2>1 DEF Run, SlackTyped, Faced
      <3> QED
          BY <3>1, <3>2 DEF Closed, Message
    <2>3. message' \in [Route -> Message]
        BY <1>5, <2>2, MessageStep DEF UpdateMessage, SlackTyped
    <2> QED
        BY <1>4, <1>5, <2>1, <2>3 DEF UpdateMessage, SlackTyped, SlackTypeOK, Held
  <1>6. ASSUME NEW r \in Route, SkipMessage(x, r) PROVE SlackTyped'
    <2>1. updater' \in [Updater -> Run] /\ Faced'
        BY <1>4, <1>6 DEF SkipMessage
    <2> QED
        BY <1>6, <2>1 DEF SkipMessage, SlackTyped, SlackTypeOK, Held
  <1> QED
      BY <1>1, <1>2, <1>3, <1>5, <1>6 DEF Update

LEMMA OpenModalTyped == ASSUME SlackTyped, NEW u \in User, OpenModal(u) PROVE modal' \subseteq User
  BY DEF OpenModal, SlackTyped, SlackTypeOK

LEMMA UserTyped ==
  ASSUME SlackTyped, NEW u \in User,
         \/ Handle(u) \/ Submit(u) \/ AssignElsewhere(u)
         \/ \E r \in Route : ClickClaim(u, r) \/ ClickOpen(u, r)
  PROVE  SlackTyped'
  <1> USE DEF row, config
  <1>0. click[u] \in Click
      BY DEF SlackTyped, SlackTypeOK
  <1>1. CASE ClaimTask(u)
    <2> PICK w : w = [click[u] EXCEPT !.pc = "claimed"]
        OBVIOUS
    <2>1. w \in Click /\ w.route \in Route
        BY <1>0, <1>1 DEF ClaimTask, Click, SlackTyped, Held
    <2>2. \/ click' = [click EXCEPT ![u] = w] /\ assignee' = u
          \/ click' = [click EXCEPT ![u] = NoClick] /\ assignee' = assignee
        BY <1>1 DEF ClaimTask
    <2>3. click' \in [User -> Click] /\ Held'
        BY <2>1, <2>2, NoClickIsClick, ClickStep
    <2> QED
        BY <1>1, <2>2, <2>3 DEF ClaimTask, SlackTyped, SlackTypeOK, Faced
  <1>2. CASE ShowClaim(u)
    <2>1. click[u].route \in Route
        BY <1>2 DEF ShowClaim, SlackTyped, Held
    <2>2. ClaimedBy(message[click[u].route], u) \in Message
        BY <2>1 DEF ClaimedBy, Message, SlackTyped, SlackTypeOK
    <2>3. message' \in [Route -> Message]
        BY <1>2, <2>1, <2>2, MessageStep DEF ShowClaim, SlackTyped
    <2>4. click' \in [User -> Click] /\ Held'
        BY <1>2, NoClickIsClick, ClickStep DEF ShowClaim
    <2>5. modal' \subseteq User
        BY <1>2, OpenModalTyped DEF ShowClaim
    <2>6. missed' \subseteq Route
        BY <1>2, <2>1 DEF ShowClaim, SlackTyped, SlackTypeOK
    <2> QED
        BY <1>2, <2>3, <2>4, <2>5, <2>6 DEF ShowClaim, SlackTyped, SlackTypeOK, Faced
  <1>3. CASE ClaimNotShown(u)
    <2>1. click' \in [User -> Click] /\ Held'
        BY <1>3, NoClickIsClick, ClickStep DEF ClaimNotShown
    <2>2. modal' \subseteq User
        BY <1>3, OpenModalTyped DEF ClaimNotShown
    <2> QED
        BY <1>3, <2>1, <2>2 DEF ClaimNotShown, SlackTyped, SlackTypeOK, Faced
  <1>4. CASE Submit(u)
    <2>1. updater' \in [Updater -> Run] /\ Faced'
        BY <1>4, LaunchStep DEF Submit
    <2>2. status' \in Status
        BY <1>4, SlackAssumption DEF Submit, Status
    <2> QED
        BY <1>4, <2>1, <2>2 DEF Submit, SlackTyped, SlackTypeOK, Held
  <1>5. CASE AssignElsewhere(u)
      BY <1>5 DEF AssignElsewhere, SlackTyped, SlackTypeOK, Held, Faced
  <1>6. ASSUME NEW r \in Route, ClickClaim(u, r) PROVE SlackTyped'
    <2>1. [pc |-> "clicked", route |-> r] \in Click
        BY DEF Click
    <2>2. click' \in [User -> Click] /\ Held'
        BY <1>6, <2>1, ClickStep DEF ClickClaim
    <2> QED
        BY <1>6, <2>2 DEF ClickClaim, SlackTyped, SlackTypeOK, Faced
  <1>7. ASSUME NEW r \in Route, ClickOpen(u, r) PROVE SlackTyped'
    <2>1. modal' \subseteq User
        BY <1>7, OpenModalTyped DEF ClickOpen
    <2> QED
        BY <1>7, <2>1 DEF ClickOpen, SlackTyped, SlackTypeOK, Held, Faced
  <1> QED
      BY <1>1, <1>2, <1>3, <1>4, <1>5, <1>6, <1>7 DEF Handle

\* Settlements, installations and crashes.
Elsewhere == \/ Settle \/ SweepSettled \/ SettleByEmail \/ Delete
             \/ \E t \in Team : Install(t) \/ Uninstall(t)
             \/ Crash

LEMMA ElsewhereTyped == ASSUME SlackTyped, Elsewhere PROVE SlackTyped'
  <1> USE DEF row, config
  <1>1. CASE Settle
    <2>1. updater' \in [Updater -> Run] /\ Faced'
        BY <1>1, LaunchStep DEF Settle
    <2>2. status' \in Status
        BY <1>1, SlackAssumption DEF Settle, Status
    <2> QED
        BY <1>1, <2>1, <2>2 DEF Settle, SlackTyped, SlackTypeOK, Held
  <1>2. CASE SweepSettled
    <2>1. updater' \in [Updater -> Run] /\ Faced'
        BY <1>2, LaunchStep DEF SweepSettled
    <2> QED
        BY <1>2, <2>1 DEF SweepSettled, SlackTyped, SlackTypeOK, Held
  <1>3. CASE SettleByEmail
    <2>1. status' \in Status
        BY <1>3, SlackAssumption DEF SettleByEmail, Status
    <2> QED
        BY <1>3, <2>1 DEF SettleByEmail, SlackTyped, SlackTypeOK, Held, Faced
  <1>4. CASE Delete
      BY <1>4 DEF Delete, Status, SlackTyped, SlackTypeOK, Held, Faced
  <1>5. ASSUME changes < MaxChanges, changes' = changes + 1, SlackTypeOK
        PROVE  changes' \in 0..MaxChanges
      BY <1>5, SlackAssumption DEF SlackTypeOK
  <1>6. ASSUME NEW t \in Team, Install(t) PROVE SlackTyped'
    <2>1. changes' \in 0..MaxChanges
        BY <1>5, <1>6 DEF Install, SlackTyped
    <2>2. installed' \subseteq Team
        BY <1>6 DEF Install, Upserted, SlackTyped, SlackTypeOK
    <2> QED
        BY <1>6, <2>1, <2>2 DEF Install, SlackTyped, SlackTypeOK, Held, Faced
  <1>7. ASSUME NEW t \in Team, Uninstall(t) PROVE SlackTyped'
    <2>1. changes' \in 0..MaxChanges
        BY <1>5, <1>7 DEF Uninstall, SlackTyped
    <2>2. installed' \subseteq Team
        BY <1>7 DEF Uninstall, Removed, SlackTyped, SlackTypeOK
    <2> QED
        BY <1>7, <2>1, <2>2 DEF Uninstall, SlackTyped, SlackTypeOK, Held, Faced
  <1>8. CASE Crash
    <2>1. crashes' \in 0..MaxCrashes
        BY <1>8, SlackAssumption DEF Crash, SlackTyped, SlackTypeOK
    <2>2. notifier' \in Notifier
        BY <1>8 DEF Crash, SlackTyped, SlackTypeOK, Notifier
    <2>3. updater' \in [Updater -> Run]
        BY <1>8, UnusedIsRun DEF Crash, SlackTyped, SlackTypeOK
    <2>4. Faced'
        BY <1>8, UnusedIsRun DEF Crash, SlackTyped, Faced
    <2>5. click' \in [User -> Click] /\ Held'
        BY <1>8, NoClickIsClick DEF Crash, Held
    <2>6. \A x \in Updater : updater[x].todo \subseteq Route
        BY DEF SlackTyped, SlackTypeOK, Run
    <2>7. missed' \subseteq Route
      <3> DEFINE lost(x) == IF updater[x].pc = "updating" THEN updater[x].todo ELSE logged
      <3>1. \A x \in Updater : lost(x) \subseteq Route
          BY <2>6 DEF SlackTyped, SlackTypeOK
      <3>2. missed' = missed \union notifier.pending \union UNION {lost(x) : x \in InFlight}
          BY <1>8 DEF Crash
      <3> HIDE DEF lost
      <3>3. UNION {lost(x) : x \in InFlight} \subseteq Route
          BY <3>1 DEF InFlight
      <3>4. notifier.pending \subseteq Route /\ missed \subseteq Route
          BY DEF SlackTyped, SlackTypeOK, Notifier
      <3> QED
          BY <3>2, <3>3, <3>4
    <2> QED
        BY <1>8, <2>1, <2>2, <2>3, <2>4, <2>5, <2>7 DEF Crash, SlackTyped, SlackTypeOK
  <1> QED
      BY <1>1, <1>2, <1>3, <1>4, <1>6, <1>7, <1>8 DEF Elsewhere

LEMMA SlackNextTyped == ASSUME SlackTyped, [SlackNext]_slackVars PROVE SlackTyped'
  <1>1. CASE UNCHANGED slackVars
      BY <1>1 DEF slackVars, SlackTyped, SlackTypeOK, Held, Faced
  <1> QED
      BY <1>1, NotifyTyped, UpdateTyped, UserTyped, ElsewhereTyped DEF SlackNext, Elsewhere

\* The types of the Slack channel's state, for every number of routes, users and updates.
THEOREM SlackAlwaysTyped == SlackSpec => []SlackTypeOK
  <1>1. SlackSpec => []SlackTyped
      BY SlackInitTyped, SlackNextTyped, PTL DEF SlackSpec
  <1>2. SlackTyped => SlackTypeOK
      BY DEF SlackTyped
  <1> QED
      BY <1>1, <1>2, PTL
-----------------------------------------------------------------------------
\* A headline that names an outcome names the task's, on a message and in the hands of
\* an update on its way.
Headed ==
    /\ \A r \in Route : message[r].face \in Terminal => status \in {message[r].face, "deleted"}
    /\ \A x \in Updater : updater[x].face \in Terminal => status \in {updater[x].face, "deleted"}

\* So does a link, and who has claimed the task is its assignee before the message says so.
Linked ==
    /\ notifier.link # NIL => notifier.link = assignee
    /\ \A r \in Route : message[r].link # NIL => message[r].link = assignee
    /\ \A x \in Updater : updater[x].link # NIL => updater[x].link = assignee
    /\ \A u \in User : click[u].pc = "claimed" => assignee = u

LEMMA UnusedSaysNothing ==
  /\ Unused.face = "none" /\ Unused.link = NIL
  /\ Finished.face = "none" /\ Finished.link = NIL
  BY DEF Unused, Finished

LEMMA InitTold == SlackInit => Headed /\ Linked
  BY UnusedSaysNothing, NoClickIsClick DEF SlackInit, Headed, Linked, NoMessage, Terminal

\* What a run has in hand is what it had, nothing, or what the row says.
Reread ==
    \A x \in Updater :
        /\ updater'[x].face \in {updater[x].face, "none", Headline(status)}
        /\ updater'[x].link \in {updater[x].link, NIL, assignee}

LEMMA HeadlineIsTrue == Headline(status) \in Terminal => Headline(status) = status
  BY DEF Headline, Terminal

LEMMA RereadTold ==
  ASSUME SlackTyped, Headed, Linked, Reread, UNCHANGED row
  PROVE  /\ \A x \in Updater : updater'[x].face \in Terminal => status' \in {updater'[x].face, "deleted"}
         /\ \A x \in Updater : updater'[x].link # NIL => updater'[x].link = assignee'
  <1>1. "none" \notin Terminal /\ status' = status /\ assignee' = assignee
      BY DEF Terminal, row
  <1> QED
      BY <1>1, HeadlineIsTrue DEF Reread, Headed, Linked

LEMMA SameRunsReread == ASSUME UNCHANGED updater PROVE Reread
  BY DEF Reread

LEMMA LaunchRereads == ASSUME SlackTyped, Launch PROVE Reread
  BY DEF Launch, Reread, SlackTyped, SlackTypeOK, Run

LEMMA UpdateRereads == ASSUME SlackTyped, NEW x \in Updater, Update(x) PROVE Reread
  <1>0. updater \in [Updater -> Run]
      BY DEF SlackTyped, SlackTypeOK
  <1>1. CASE LoadTask(x)
    <2> PICK seen : seen = [updater[x] EXCEPT !.pc = "listing", !.face = Headline(status),
                                              !.link = assignee]
        OBVIOUS
    <2>1. seen.face = Headline(status) /\ seen.link = assignee
        BY <1>0 DEF Run
    <2>2. \/ updater' = [updater EXCEPT ![x] = Finished]
          \/ updater' = [updater EXCEPT ![x] = seen]
        BY <1>1 DEF LoadTask
    <2> QED
        BY <1>0, <2>1, <2>2, UnusedSaysNothing DEF Reread
  <1>2. CASE ListMessages(x)
      BY <1>0, <1>2 DEF ListMessages, Reread, Run
  <1>3. CASE NothingPosted(x)
      BY <1>0, <1>3, UnusedSaysNothing DEF NothingPosted, Reread
  <1>4. ASSUME NEW r \in Route, After(x, r) PROVE Reread
    <2> PICK w : w = [updater[x] EXCEPT !.todo = updater[x].todo \ {r}]
        OBVIOUS
    <2>1. w.face = updater[x].face /\ w.link = updater[x].link
        BY <1>0 DEF Run
    <2>2. \/ updater' = [updater EXCEPT ![x] = Finished]
          \/ updater' = [updater EXCEPT ![x] = w]
        BY <1>4 DEF After
    <2> QED
        BY <1>0, <2>1, <2>2, UnusedSaysNothing DEF Reread
  <1> QED
      BY <1>1, <1>2, <1>3, <1>4 DEF Update, UpdateMessage, SkipMessage

LEMMA NotifyTold ==
  ASSUME SlackTyped, Headed, Linked, Notify PROVE Headed' /\ Linked'
  <1> USE DEF row, config
  <1>0. message \in [Route -> Message] /\ notifier \in Notifier
      BY DEF SlackTyped, SlackTypeOK
  <1>1. UNCHANGED <<row, updater, click>>
      BY DEF Notify, Load, CommitRows, PostAnswered, Undeliverable, PostUnanswered
  <1>2. notifier'.link \in {notifier.link, assignee}
      BY <1>0 DEF Notify, Load, CommitRows, PostAnswered, Undeliverable, PostUnanswered,
             CommitFailure, Notifier
  <1>3. \A r \in Route : \/ message'[r] = message[r]
                         \/ message'[r].face = "actionable" /\ message'[r].link = notifier.link
    <2>1. \/ UNCHANGED message
          \/ \E r \in Route : message' = [message EXCEPT ![r] = OpenReview(ClientFor(r), notifier.link)]
        BY DEF Notify, Load, CommitRows, PostAnswered, Undeliverable, PostUnanswered, Post
    <2>2. \A t : OpenReview(t, notifier.link).face = "actionable" /\ OpenReview(t, notifier.link).link = notifier.link
        BY DEF OpenReview
    <2> QED
        BY <1>0, <2>1, <2>2
  <1>4. "actionable" \notin Terminal
      BY DEF Terminal
  <1> QED
      BY <1>1, <1>2, <1>3, <1>4 DEF Headed, Linked

LEMMA UpdateTold ==
  ASSUME SlackTyped, Headed, Linked, NEW x \in Updater, Update(x) PROVE Headed' /\ Linked'
  <1> USE DEF row, config
  <1>0. message \in [Route -> Message]
      BY DEF SlackTyped, SlackTypeOK
  <1>1. UNCHANGED <<row, notifier, click>>
      BY DEF Update, LoadTask, ListMessages, NothingPosted, UpdateMessage, SkipMessage
  <1>2. \A r \in Route : \/ message'[r] = message[r]
                         \/ message'[r].face = updater[x].face /\ message'[r].link = updater[x].link
    <2>1. \/ UNCHANGED message
          \/ \E r \in Route : message' = [message EXCEPT ![r] = Closed(message[r], updater[x].face, updater[x].link)]
        BY DEF Update, LoadTask, ListMessages, NothingPosted, UpdateMessage, SkipMessage
    <2>2. \A r \in Route : /\ Closed(message[r], updater[x].face, updater[x].link).face = updater[x].face
                           /\ Closed(message[r], updater[x].face, updater[x].link).link = updater[x].link
        BY <1>0 DEF Closed, Message
    <2> QED
        BY <1>0, <2>1, <2>2
  <1>3. Reread
      BY UpdateRereads
  <1>4. /\ \A y \in Updater : updater'[y].face \in Terminal => status' \in {updater'[y].face, "deleted"}
        /\ \A y \in Updater : updater'[y].link # NIL => updater'[y].link = assignee'
      BY <1>1, <1>3, RereadTold
  <1> QED
      BY <1>1, <1>2, <1>4 DEF Headed, Linked

\* The task ends or is deleted, or somebody takes an unassigned one.
LEMMA RowTold ==
  ASSUME SlackTyped, Headed, Linked, Reread, UNCHANGED <<message, notifier>>,
         \/ UNCHANGED status
         \/ status = "open" /\ status' \in Status
         \/ status' = "deleted",
         \/ UNCHANGED <<assignee, click>>
         \/ /\ assignee = NIL
            /\ \A u \in User : click'[u].pc = "claimed" => u = assignee'
         \/ /\ UNCHANGED assignee
            /\ \A u \in User : click'[u].pc = "claimed" => click[u].pc = "claimed",
         \/ UNCHANGED row
         \/ UNCHANGED updater
         \/ UNCHANGED assignee /\ Launch
  PROVE  Headed' /\ Linked'
  <1>1. "open" \notin Terminal /\ "none" \notin Terminal
      BY DEF Terminal
  <1>2. \/ UNCHANGED row
        \/ \A x \in Updater : /\ updater'[x].face = updater[x].face
                              /\ updater'[x].link = updater[x].link
      BY DEF Launch, SlackTyped, SlackTypeOK, Run
  <1> QED
      BY <1>1, <1>2, RereadTold DEF Headed, Linked, row
LEMMA UserTold ==
  ASSUME SlackTyped, Headed, Linked, NEW u \in User,
         \/ Handle(u) \/ Submit(u) \/ AssignElsewhere(u)
         \/ \E r \in Route : ClickClaim(u, r) \/ ClickOpen(u, r)
  PROVE  Headed' /\ Linked'
  <1> USE DEF row, config
  <1>0. click \in [User -> Click] /\ NIL \notin User /\ NoClick.pc = "idle"
      BY SlackAssumption, NoClickIsClick DEF SlackTyped, SlackTypeOK
  <1>1. CASE ClaimTask(u)
    <2>1. UNCHANGED <<status, message, notifier, updater>> /\ Reread
        BY <1>1, SameRunsReread DEF ClaimTask
    <2>2. CASE assignee = NIL
      <3>1. \A v \in User : click[v].pc # "claimed"
          BY <1>0, <2>2 DEF Linked
      <3>2. \/ click' = [click EXCEPT ![u].pc = "claimed"] /\ assignee' = u
            \/ click' = [click EXCEPT ![u] = NoClick] /\ assignee' = assignee
          BY <1>1 DEF ClaimTask
      <3>3. \A v \in User : click'[v].pc = "claimed" => v = assignee'
          BY <1>0, <3>1, <3>2
      <3> QED
          BY <2>1, <2>2, <3>3, RowTold
    <2>3. CASE assignee # NIL
      <3>1. click' = [click EXCEPT ![u] = NoClick] /\ assignee' = assignee
          BY <1>1, <2>3 DEF ClaimTask
      <3>2. \A v \in User : click'[v].pc = "claimed" => click[v].pc = "claimed"
          BY <1>0, <3>1
      <3> QED
          BY <2>1, <3>1, <3>2, RowTold
    <2> QED
        BY <2>2, <2>3
  <1>2. CASE ShowClaim(u)
    <2>1. /\ click[u].pc = "claimed" /\ click[u].route \in Route
          /\ click' = [click EXCEPT ![u] = NoClick] /\ UNCHANGED <<row, notifier, updater>>
          /\ message' = [message EXCEPT ![click[u].route] = ClaimedBy(message[click[u].route], u)]
        BY <1>2 DEF ShowClaim, SlackTyped, Held
    <2>2. \A r \in Route : ClaimedBy(message[r], u).face = "claimed" /\ ClaimedBy(message[r], u).link = u
        BY DEF ClaimedBy, SlackTyped, SlackTypeOK, Message
    <2>3. assignee = u
        BY <2>1 DEF Linked
    <2>4. \A r \in Route : \/ message'[r] = message[r]
                           \/ message'[r].face = "claimed" /\ message'[r].link = u
        BY <2>1, <2>2 DEF SlackTyped, SlackTypeOK
    <2>5. \A v \in User : click'[v].pc = "claimed" => click[v].pc = "claimed"
        BY <1>0, <2>1
    <2>6. "claimed" \notin Terminal
        BY DEF Terminal
    <2> QED
        BY <2>1, <2>3, <2>4, <2>5, <2>6 DEF Headed, Linked
  <1>3. CASE ClaimNotShown(u)
    <2>1. UNCHANGED <<row, message, notifier, updater>> /\ click' = [click EXCEPT ![u] = NoClick]
        BY <1>3 DEF ClaimNotShown
    <2>2. \A v \in User : click'[v].pc = "claimed" => click[v].pc = "claimed"
        BY <1>0, <2>1
    <2> QED
        BY <2>1, <2>2, SameRunsReread, RowTold
  <1>4. CASE Submit(u)
    <2>1. status = "open" /\ status' \in Status /\ Launch /\ UNCHANGED <<assignee, message, notifier, click>>
        BY <1>4, SlackAssumption DEF Submit, Status
    <2> QED
        BY <2>1, LaunchRereads, RowTold
  <1>5. CASE AssignElsewhere(u)
    <2>1. UNCHANGED <<status, message, notifier, updater, click>> /\ assignee = NIL
        BY <1>5 DEF AssignElsewhere
    <2>2. \A v \in User : click'[v].pc # "claimed"
        BY <1>0, <2>1 DEF Linked
    <2> QED
        BY <2>1, <2>2, SameRunsReread, RowTold
  <1>6. ASSUME NEW r \in Route, ClickClaim(u, r) PROVE Headed' /\ Linked'
    <2>1. /\ UNCHANGED <<row, message, notifier, updater>>
          /\ click' = [click EXCEPT ![u] = [pc |-> "clicked", route |-> r]]
        BY <1>6 DEF ClickClaim
    <2>2. \A v \in User : click'[v].pc = "claimed" => click[v].pc = "claimed"
        BY <1>0, <2>1
    <2> QED
        BY <2>1, <2>2, SameRunsReread, RowTold
  <1>7. ASSUME NEW r \in Route, ClickOpen(u, r) PROVE Headed' /\ Linked'
    <2>1. UNCHANGED <<row, message, notifier, updater, click>>
        BY <1>7 DEF ClickOpen
    <2> QED
        BY <2>1, SameRunsReread, RowTold
  <1> QED
      BY <1>1, <1>2, <1>3, <1>4, <1>5, <1>6, <1>7 DEF Handle

LEMMA ElsewhereTold ==
  ASSUME SlackTyped, Headed, Linked, Elsewhere PROVE Headed' /\ Linked'
  <1> USE DEF row, config
  <1>1. CASE Settle \/ SweepSettled
    <2>1. /\ Launch /\ UNCHANGED <<assignee, message, notifier, click>>
          /\ UNCHANGED status \/ (status = "open" /\ status' \in Status)
        BY <1>1, SlackAssumption DEF Settle, SweepSettled, Status
    <2> QED
        BY <2>1, LaunchRereads, RowTold
  <1>2. CASE SettleByEmail \/ Delete
    <2>1. /\ UNCHANGED <<assignee, message, notifier, updater, click>>
          /\ status' = "deleted" \/ (status = "open" /\ status' \in Status)
        BY <1>2, SlackAssumption DEF SettleByEmail, Delete, Status
    <2> QED
        BY <2>1, SameRunsReread, RowTold
  <1>3. CASE \E t \in Team : Install(t) \/ Uninstall(t)
    <2>1. UNCHANGED <<row, message, notifier, updater, click>>
        BY <1>3 DEF Install, Uninstall
    <2> QED
        BY <2>1, SameRunsReread, RowTold
  <1>4. CASE Crash
    <2>1. UNCHANGED <<row, message>> /\ notifier'.link = notifier.link
        BY <1>4 DEF Crash, SlackTyped, SlackTypeOK, Notifier
    <2>2. \A x \in Updater : updater'[x] \in {updater[x], Finished}
        BY <1>4 DEF Crash
    <2>3. \A u \in User : click'[u].pc # "claimed"
        BY <1>4, NoClickIsClick DEF Crash
    <2>4. "none" \notin Terminal
        BY DEF Terminal
    <2> QED
        BY <2>1, <2>2, <2>3, <2>4, UnusedSaysNothing DEF Headed, Linked
  <1> QED
      BY <1>1, <1>2, <1>3, <1>4 DEF Elsewhere

LEMMA SlackNextTold ==
  ASSUME SlackTyped, Headed, Linked, [SlackNext]_slackVars PROVE Headed' /\ Linked'
  <1>1. CASE UNCHANGED slackVars
      BY <1>1 DEF slackVars, Headed, Linked
  <1> QED
      BY <1>1, NotifyTold, UpdateTold, UserTold, ElsewhereTold DEF SlackNext, Elsewhere

LEMMA SlackAlwaysTold == SlackSpec => [](SlackTyped /\ Headed /\ Linked)
  <1>1. SlackTyped /\ (Headed /\ Linked) /\ [SlackNext]_slackVars => SlackTyped' /\ (Headed /\ Linked)'
      BY SlackNextTyped, SlackNextTold
  <1>2. SlackInit => SlackTyped /\ (Headed /\ Linked)
      BY SlackInitTyped, InitTold
  <1> QED
      BY <1>1, <1>2, PTL DEF SlackSpec

\* A headline that names an outcome names the task's, however the updates of several
\* endings overtook one another.
THEOREM HeadlinesAlwaysTrue == SlackSpec => []HeadlinesAreTrue
  <1>1. SlackTyped /\ Headed /\ Linked => HeadlinesAreTrue
      BY DEF Headed, HeadlinesAreTrue
  <1> QED
      BY <1>1, SlackAlwaysTold, PTL

\* A link that signs a user in, and a claimer's name, are the assignee's.
THEOREM LinksAlwaysNameTheAssignee == SlackSpec => []LinksNameTheAssignee
  <1>1. SlackTyped /\ Headed /\ Linked => LinksNameTheAssignee
      BY DEF Linked, LinksNameTheAssignee
  <1> QED
      BY <1>1, SlackAlwaysTold, PTL
-----------------------------------------------------------------------------
\* Where a message is booked: not posted yet, posted without a committed row, in the
\* table, or known to be out of an update's reach.
Booked ==
    /\ notifier.todo \intersect notifier.pending = {}
    /\ logged \intersect (notifier.todo \union notifier.pending) = {}
    /\ \A r \in Route : message[r].face # "absent" => r \in logged \union notifier.pending \union missed
    /\ \A x \in Updater : updater[x].pc = "updating" => updater[x].todo \subseteq logged

\* An update that has not listed the messages yet, or has this one on its list.
Minds(x, r) == \/ updater[x].pc \in {"loading", "listing"}
               \/ updater[x].pc = "updating" /\ r \in updater[x].todo

Awaits(r) == \/ message[r].face \in {"actionable", "claimed"}
             \/ r \in notifier.todo \union notifier.pending

\* Once the task has ended, a message that still awaits its headline has an update on its
\* way, or is missed.
Minded == Settled => \A r \in Route \ missed : Awaits(r) => \E x \in Updater : Minds(x, r)

LEMMA MindedExplains == ASSUME SlackTyped, Minded PROVE StaleMessagesExplained
  BY DEF Minded, StaleMessagesExplained, InFlight, Minds, Awaits

LEMMA InitMinded == SlackInit => Booked /\ Minded
  <1> SUFFICES ASSUME SlackInit PROVE Booked /\ Minded
      OBVIOUS
  <1>1. Booked
      BY UnusedIsRun DEF SlackInit, Booked, NoMessage
  <1>2. status = "open" /\ "open" \notin Terminal
      BY DEF SlackInit, Terminal
  <1> QED
      BY <1>1, <1>2 DEF Minded, Settled

\* The updates stay as they are, and no message comes to await one.
LEMMA SameMinded ==
  ASSUME Minded, UNCHANGED <<status, updater>>, NEW R \in SUBSET Route, R \subseteq missed',
         \A r \in Route \ R : (r \in missed => r \in missed') /\ (Awaits(r)' => Awaits(r))
  PROVE  Minded'
  <1> SUFFICES ASSUME Settled', NEW r \in Route, r \notin missed', Awaits(r)'
               PROVE  \E x \in Updater : Minds(x, r)'
      BY DEF Minded
  <1>1. Settled /\ r \notin missed /\ Awaits(r)
      BY DEF Settled
  <1>2. PICK x \in Updater : Minds(x, r)
      BY <1>1 DEF Minded
  <1> QED
      BY <1>2 DEF Minds

\* A fresh update minds every message.
LEMMA LaunchMinded == ASSUME SlackTyped, Launch PROVE Minded'
  <1>1. \E x \in Updater : updater'[x].pc = "loading"
      BY DEF Launch, SlackTyped, SlackTypeOK, Run
  <1> QED
      BY <1>1 DEF Minded, Minds

LEMMA NotifyBooked ==
  ASSUME SlackTyped, Booked, Minded, Notify PROVE Booked' /\ Minded'
  <1> USE DEF row, config
  <1>0. message \in [Route -> Message] /\ notifier \in Notifier
      BY DEF SlackTyped, SlackTypeOK
  <1>1. CASE Load
    <2>1. /\ notifier'.todo \in {notifier.todo, {}} /\ notifier'.pending = notifier.pending
          /\ UNCHANGED <<status, message, logged, updater, missed>>
        BY <1>0, <1>1 DEF Load, Notifier
    <2>2. Booked'
        BY <2>1 DEF Booked
    <2>3. Minded'
        BY <2>1, SameMinded DEF Awaits
    <2> QED
        BY <2>2, <2>3
  <1>2. CASE CommitRows
    <2>1. /\ notifier'.todo = {} /\ notifier.todo = {} /\ notifier'.pending = {}
          /\ logged' = logged \union notifier.pending
          /\ UNCHANGED <<status, message, updater, missed>>
        BY <1>0, <1>2 DEF CommitRows, Notifier
    <2>2. Booked'
        BY <2>1 DEF Booked
    <2>3. Minded'
        BY <2>1, SameMinded DEF Awaits
    <2> QED
        BY <2>2, <2>3
  <1>3. ASSUME NEW r \in Route, Post(r)
        PROVE  r \in notifier.todo /\ \A q \in Route \ {r} : message'[q] = message[q]
      BY <1>0, <1>3 DEF Post
  <1>4. ASSUME NEW r \in Route, CommitFailure(r)
        PROVE  /\ notifier'.todo = notifier.todo \ {r} /\ notifier'.pending = {}
               /\ logged' = logged \union notifier.pending
      BY <1>0, <1>4 DEF CommitFailure, Notifier
  <1>5. ASSUME NEW r \in Route, PostAnswered(r) PROVE Booked' /\ Minded'
    <2>1. /\ notifier'.todo = notifier.todo \ {r} /\ notifier'.pending = notifier.pending \union {r}
          /\ UNCHANGED <<status, logged, updater, missed>>
        BY <1>0, <1>5 DEF PostAnswered, Notifier
    <2>2. r \in notifier.todo /\ \A q \in Route \ {r} : message'[q] = message[q]
        BY <1>3, <1>5 DEF PostAnswered
    <2>3. Booked'
        BY <2>1, <2>2 DEF Booked
    <2>4. \A q \in Route : Awaits(q)' => Awaits(q)
        BY <2>1, <2>2 DEF Awaits
    <2>5. Minded'
      <3>1. {} \in SUBSET Route /\ {} \subseteq missed'
          OBVIOUS
      <3> QED
          BY <2>1, <2>4, <3>1, SameMinded
    <2> QED
        BY <2>3, <2>5
  <1>6. ASSUME NEW r \in Route, Undeliverable(r) PROVE Booked' /\ Minded'
    <2>1. /\ notifier'.todo = notifier.todo \ {r} /\ notifier'.pending = {}
          /\ logged' = logged \union notifier.pending
          /\ UNCHANGED <<status, message, updater, missed>>
        BY <1>4, <1>6 DEF Undeliverable
    <2>2. Booked'
        BY <2>1 DEF Booked
    <2>3. Minded'
        BY <2>1, SameMinded DEF Awaits
    <2> QED
        BY <2>2, <2>3
  <1>7. ASSUME NEW r \in Route, PostUnanswered(r) PROVE Booked' /\ Minded'
    <2>1. /\ notifier'.todo = notifier.todo \ {r} /\ notifier'.pending = {}
          /\ logged' = logged \union notifier.pending /\ missed' = missed \union {r}
          /\ UNCHANGED <<status, updater>>
        BY <1>4, <1>7 DEF PostUnanswered
    <2>2. \A q \in Route \ {r} : message'[q] = message[q]
        BY <1>3, <1>7 DEF PostUnanswered
    <2>3. Booked'
        BY <2>1, <2>2 DEF Booked
    <2>4. \A q \in Route \ {r} : Awaits(q)' => Awaits(q)
        BY <2>1, <2>2 DEF Awaits
    <2>5. Minded'
      <3>1. {r} \in SUBSET Route /\ {r} \subseteq missed'
          BY <2>1
      <3> QED
          BY <2>1, <2>4, <3>1, SameMinded
    <2> QED
        BY <2>3, <2>5
  <1> QED
      BY <1>1, <1>2, <1>5, <1>6, <1>7 DEF Notify

\* One run moves on and keeps minding whatever it has not dealt with.
LEMMA RunMinded ==
  ASSUME SlackTyped, Minded, UNCHANGED status, NEW x \in Updater,
         \A y \in Updater \ {x} : updater'[y] = updater[y],
         \A r \in Route \ missed' :
            /\ Awaits(r)' => r \notin missed /\ Awaits(r)
            /\ Awaits(r)' /\ Minds(x, r) => Minds(x, r)'
  PROVE  Minded'
  <1> SUFFICES ASSUME Settled', NEW r \in Route, r \notin missed', Awaits(r)'
               PROVE  \E y \in Updater : Minds(y, r)'
      BY DEF Minded
  <1>1. Settled /\ r \notin missed /\ Awaits(r)
      BY DEF Settled
  <1>2. PICK y \in Updater : Minds(y, r)
      BY <1>1 DEF Minded
  <1>3. CASE y = x
      BY <1>2, <1>3
  <1>4. CASE y # x
      BY <1>2, <1>4 DEF Minds
  <1> QED
      BY <1>3, <1>4

LEMMA AfterMinds ==
  ASSUME SlackTyped, NEW x \in Updater, NEW r \in Route, updater[x].pc = "updating", After(x, r)
  PROVE  /\ \A y \in Updater \ {x} : updater'[y] = updater[y]
         /\ updater'[x].pc \in {"updating", "done"}
         /\ updater'[x].pc = "updating" => updater'[x].todo = updater[x].todo \ {r}
         /\ \A q \in Route \ {r} : Minds(x, q) => Minds(x, q)'
  <1>0. updater \in [Updater -> Run]
      BY DEF SlackTyped, SlackTypeOK
  <1> PICK rest : rest = updater[x].todo \ {r}
      OBVIOUS
  <1> PICK w : w = [updater[x] EXCEPT !.todo = rest]
      OBVIOUS
  <1>1. w.pc = "updating" /\ w.todo = rest
      BY <1>0 DEF Run
  <1>2. \/ rest = {} /\ updater' = [updater EXCEPT ![x] = Finished]
        \/ updater' = [updater EXCEPT ![x] = w]
      BY DEF After
  <1>3. CASE rest = {} /\ updater' = [updater EXCEPT ![x] = Finished]
    <2>1. updater'[x].pc = "done" /\ \A y \in Updater \ {x} : updater'[y] = updater[y]
        BY <1>0, <1>3, UnusedIsRun
    <2>2. \A q \in Route \ {r} : ~ Minds(x, q)
        BY <1>3 DEF Minds
    <2> QED
        BY <2>1, <2>2
  <1>4. CASE updater' = [updater EXCEPT ![x] = w]
    <2>1. /\ updater'[x].pc = "updating" /\ updater'[x].todo = rest
          /\ \A y \in Updater \ {x} : updater'[y] = updater[y]
        BY <1>0, <1>1, <1>4
    <2> QED
        BY <2>1 DEF Minds
  <1> QED
      BY <1>2, <1>3, <1>4

LEMMA UpdateBooked ==
  ASSUME SlackTyped, Booked, Minded, NEW x \in Updater, Update(x) PROVE Booked' /\ Minded'
  <1> USE DEF row, config
  <1>0. updater \in [Updater -> Run] /\ message \in [Route -> Message]
      BY DEF SlackTyped, SlackTypeOK
  <1>1. CASE LoadTask(x)
    <2>1. /\ UNCHANGED <<status, message, logged, notifier, missed>>
          /\ updater[x].pc = "loading"
          /\ updater'[x].pc = IF status = "deleted" THEN "done" ELSE "listing"
          /\ \A y \in Updater \ {x} : updater'[y] = updater[y]
        BY <1>0, <1>1, UnusedIsRun DEF LoadTask, Run
    <2>2. Booked'
        BY <2>1 DEF Booked
    <2>3. CASE status = "deleted"
      <3>1. status' = "deleted"
          BY <2>1, <2>3
      <3>2. Minded'
          BY <3>1 DEF Minded, Settled, Terminal
      <3> QED
          BY <2>2, <3>2
    <2>4. CASE status # "deleted"
      <3>1. \A r \in Route : Minds(x, r)'
          BY <2>1, <2>4 DEF Minds
      <3> QED
          BY <2>2, <3>1 DEF Minded
    <2> QED
        BY <2>2, <2>3, <2>4
  <1>2. CASE ListMessages(x)
    <2>1. /\ UNCHANGED <<status, message, logged, notifier>>
          /\ updater'[x].pc = "updating" /\ updater'[x].todo = logged
          /\ missed' = missed \union (notifier.todo \union notifier.pending)
          /\ \A y \in Updater \ {x} : updater'[y] = updater[y]
        BY <1>0, <1>2 DEF ListMessages, Run
    <2>2. Booked'
        BY <2>1 DEF Booked
    <2>3. \A r \in Route \ missed' : Awaits(r)' => Minds(x, r)'
        BY <2>1 DEF Awaits, Minds, Booked
    <2> QED
        BY <2>2, <2>3 DEF Minded
  <1>3. CASE NothingPosted(x)
    <2>1. /\ UNCHANGED <<status, message, logged, notifier, missed>>
          /\ updater[x].pc = "updating" /\ updater[x].todo = {} /\ updater'[x].pc = "done"
          /\ \A y \in Updater \ {x} : updater'[y] = updater[y]
        BY <1>0, <1>3, UnusedIsRun DEF NothingPosted
    <2>2. Booked'
        BY <2>1 DEF Booked
    <2>3. \A r \in Route : (Awaits(r)' => Awaits(r)) /\ ~ Minds(x, r)
        BY <2>1 DEF Awaits, Minds
    <2>4. Minded'
        BY <2>1, <2>3, RunMinded
    <2> QED
        BY <2>2, <2>4
  <1>4. ASSUME NEW r \in Route, UpdateMessage(x, r) PROVE Booked' /\ Minded'
    <2>1. /\ UNCHANGED <<status, logged, notifier>> /\ missed' = missed \ {r}
          /\ updater[x].pc = "updating" /\ r \in updater[x].todo /\ After(x, r)
          /\ message' = [message EXCEPT ![r] = Closed(message[r], updater[x].face, updater[x].link)]
        BY <1>4 DEF UpdateMessage
    <2>2. /\ \A y \in Updater \ {x} : updater'[y] = updater[y]
          /\ updater'[x].pc \in {"updating", "done"}
          /\ updater'[x].pc = "updating" => updater'[x].todo = updater[x].todo \ {r}
          /\ \A q \in Route \ {r} : Minds(x, q) => Minds(x, q)'
        BY <2>1, AfterMinds
    <2>3. r \in logged
        BY <2>1 DEF Booked
    <2>4. \A q \in Route \ {r} : message'[q] = message[q]
        BY <1>0, <2>1
    <2>5. message'[r].face \notin {"actionable", "claimed"}
      <3>1. updater[x].face \in {"closed"} \union Terminal
          BY <1>0, <2>1 DEF SlackTyped, Faced, Run
      <3>2. message'[r].face = updater[x].face
          BY <1>0, <2>1 DEF Closed, Message
      <3> QED
          BY <3>1, <3>2 DEF Terminal
    <2>6. Booked'
        BY <2>1, <2>2, <2>3, <2>4 DEF Booked
    <2>7. ~ Awaits(r)'
        BY <2>1, <2>3, <2>5 DEF Awaits, Booked
    <2>8. \A q \in Route \ {r} : Awaits(q)' => Awaits(q)
        BY <2>1, <2>4 DEF Awaits
    <2>9. Minded'
        BY <2>1, <2>2, <2>7, <2>8, RunMinded
    <2> QED
        BY <2>6, <2>9
  <1>5. ASSUME NEW r \in Route, SkipMessage(x, r) PROVE Booked' /\ Minded'
    <2>1. /\ UNCHANGED <<status, message, logged, notifier>> /\ missed' = missed \union {r}
          /\ updater[x].pc = "updating" /\ r \in updater[x].todo /\ After(x, r)
        BY <1>5 DEF SkipMessage
    <2>2. /\ \A y \in Updater \ {x} : updater'[y] = updater[y]
          /\ updater'[x].pc \in {"updating", "done"}
          /\ updater'[x].pc = "updating" => updater'[x].todo = updater[x].todo \ {r}
          /\ \A q \in Route \ {r} : Minds(x, q) => Minds(x, q)'
        BY <2>1, AfterMinds
    <2>3. Booked'
        BY <2>1, <2>2 DEF Booked
    <2>4. \A q \in Route \ {r} : Awaits(q)' => Awaits(q)
        BY <2>1 DEF Awaits
    <2>5. Minded'
        BY <2>1, <2>2, <2>4, RunMinded
    <2> QED
        BY <2>3, <2>5
  <1> QED
      BY <1>1, <1>2, <1>3, <1>4, <1>5 DEF Update

LEMMA LaunchBooked ==
  ASSUME SlackTyped, Booked, Launch, UNCHANGED <<message, logged, notifier, missed>>
  PROVE  Booked'
  <1>1. \A x \in Updater : updater'[x].pc = "updating" => updater'[x] = updater[x]
      BY DEF Launch, SlackTyped, SlackTypeOK, Run
  <1> QED
      BY <1>1 DEF Booked

LEMMA UserBooked ==
  ASSUME SlackTyped, Booked, Minded, NEW u \in User,
         \/ Handle(u) \/ Submit(u) \/ AssignElsewhere(u)
         \/ \E r \in Route : ClickClaim(u, r) \/ ClickOpen(u, r)
  PROVE  Booked' /\ Minded'
  <1> USE DEF row, config
  <1>1. CASE ShowClaim(u)
    <2> PICK r \in Route : r = click[u].route
        BY <1>1 DEF ShowClaim, SlackTyped, Held
    <2>1. /\ UNCHANGED <<status, logged, notifier, updater>>
          /\ missed' = IF message[r].face = "actionable" THEN missed ELSE missed \union {r}
        BY <1>1 DEF ShowClaim
    <2>2. \A q \in Route \ {r} : message'[q] = message[q]
        BY <1>1 DEF ShowClaim, SlackTyped, SlackTypeOK
    <2>3. r \notin missed' => message[r].face = "actionable"
        BY <2>1
    <2>4. missed \subseteq missed'
        BY <2>1
    <2>5. Booked'
        BY <2>1, <2>2, <2>3, <2>4 DEF Booked
    <2>6. \A q \in Route \ {r} : Awaits(q)' => Awaits(q)
        BY <2>1, <2>2 DEF Awaits
    <2>7. Minded'
      <3>1. CASE r \in missed'
        <4>1. {r} \in SUBSET Route /\ {r} \subseteq missed'
            BY <3>1
        <4> QED
            BY <2>1, <2>4, <2>6, <4>1, SameMinded
      <3>2. CASE r \notin missed'
        <4>1. Awaits(r)
            BY <2>3, <3>2 DEF Awaits
        <4>2. {} \in SUBSET Route /\ {} \subseteq missed'
            OBVIOUS
        <4> QED
            BY <2>1, <2>4, <2>6, <4>1, <4>2, SameMinded
      <3> QED
          BY <3>1, <3>2
    <2> QED
        BY <2>5, <2>7
  <1>2. CASE Submit(u)
    <2>1. Launch /\ UNCHANGED <<message, logged, notifier, missed>>
        BY <1>2 DEF Submit
    <2> QED
        BY <2>1, LaunchBooked, LaunchMinded
  <1>3. CASE ~ ShowClaim(u) /\ ~ Submit(u)
    <2>1. UNCHANGED <<status, message, logged, notifier, updater, missed>>
        BY <1>3 DEF Handle, ClaimTask, ClaimNotShown, AssignElsewhere, ClickClaim, ClickOpen
    <2>2. Booked'
        BY <2>1 DEF Booked
    <2>3. Minded'
        BY <2>1 DEF Minded, Settled, Awaits, Minds
    <2> QED
        BY <2>2, <2>3
  <1> QED
      BY <1>1, <1>2, <1>3

LEMMA ElsewhereBooked ==
  ASSUME SlackTyped, Booked, Minded, Elsewhere PROVE Booked' /\ Minded'
  <1> USE DEF row, config
  <1>1. CASE Settle \/ SweepSettled
    <2>1. Launch /\ UNCHANGED <<message, logged, notifier, missed>>
        BY <1>1 DEF Settle, SweepSettled
    <2> QED
        BY <2>1, LaunchBooked, LaunchMinded
  <1>2. CASE SettleByEmail
    <2>1. missed' = Route /\ UNCHANGED <<message, logged, notifier, updater>>
        BY <1>2 DEF SettleByEmail
    <2> QED
        BY <2>1 DEF Booked, Minded
  <1>3. CASE Delete
    <2>1. status' = "deleted" /\ UNCHANGED <<message, logged, notifier, updater, missed>>
        BY <1>3 DEF Delete
    <2> QED
        BY <2>1 DEF Booked, Minded, Settled, Terminal
  <1>4. CASE \E t \in Team : Install(t) \/ Uninstall(t)
    <2>1. UNCHANGED <<status, message, logged, notifier, updater, missed>>
        BY <1>4 DEF Install, Uninstall
    <2>2. Booked'
        BY <2>1 DEF Booked
    <2>3. Minded'
        BY <2>1 DEF Minded, Settled, Awaits, Minds
    <2> QED
        BY <2>2, <2>3
  <1>5. CASE Crash
    <2> DEFINE lost(x) == IF updater[x].pc = "updating" THEN updater[x].todo ELSE logged
    <2>1. /\ UNCHANGED <<status, message, logged>>
          /\ notifier'.todo = {} /\ notifier'.pending = {}
        BY <1>5 DEF Crash, SlackTyped, SlackTypeOK, Notifier
    <2>2. missed' = missed \union notifier.pending \union UNION {lost(x) : x \in InFlight}
        BY <1>5 DEF Crash
    <2>3. \A x \in Updater : updater'[x].pc # "updating"
        BY <1>5, UnusedIsRun DEF Crash, InFlight
    <2>4. Booked'
        BY <2>1, <2>2, <2>3 DEF Booked
    <2>5. ASSUME NEW r \in Route, NEW x \in Updater, Minds(x, r), message[r].face # "absent"
          PROVE  r \in missed'
      <3>1. x \in InFlight
          BY <2>5 DEF Minds, InFlight
      <3>2. lost(x) \subseteq missed'
          BY <2>2, <3>1
      <3>3. r \in lost(x) \/ r \in missed \union notifier.pending
          BY <2>5 DEF Minds, Booked
      <3> QED
          BY <2>2, <3>2, <3>3
    <2>6. Minded'
      <3> SUFFICES ASSUME Settled', NEW r \in Route, r \notin missed', Awaits(r)'
                   PROVE  FALSE
          BY DEF Minded
      <3>1. Settled /\ r \notin missed
          BY <2>1, <2>2 DEF Settled
      <3>2. message[r].face \in {"actionable", "claimed"}
          BY <2>1 DEF Awaits
      <3>3. PICK x \in Updater : Minds(x, r)
          BY <3>1, <3>2 DEF Minded, Awaits
      <3> QED
          BY <2>5, <3>2, <3>3
    <2> QED
        BY <2>4, <2>6
  <1> QED
      BY <1>1, <1>2, <1>3, <1>4, <1>5 DEF Elsewhere

LEMMA SlackNextBooked ==
  ASSUME SlackTyped, Booked, Minded, [SlackNext]_slackVars PROVE Booked' /\ Minded'
  <1>1. CASE UNCHANGED slackVars
    <2>1. Booked'
        BY <1>1 DEF slackVars, Booked
    <2>2. Minded'
        BY <1>1 DEF slackVars, Minded, Settled, Awaits, Minds
    <2> QED
        BY <2>1, <2>2
  <1> QED
      BY <1>1, NotifyBooked, UpdateBooked, UserBooked, ElsewhereBooked DEF SlackNext, Elsewhere

\* Once the task has ended and no update is on its way, a message that still shows its
\* buttons or its claimer is accounted for.
THEOREM StaleAlwaysExplained == SlackSpec => []StaleMessagesExplained
  <1>1. SlackTyped /\ (Booked /\ Minded) /\ [SlackNext]_slackVars => SlackTyped' /\ (Booked /\ Minded)'
      BY SlackNextTyped, SlackNextBooked
  <1>2. SlackInit => SlackTyped /\ (Booked /\ Minded)
      BY SlackInitTyped, InitMinded
  <1>3. SlackTyped /\ (Booked /\ Minded) => StaleMessagesExplained
      BY MindedExplains
  <1> QED
      BY <1>1, <1>2, <1>3, PTL DEF SlackSpec
=============================================================================
