------------------------- MODULE TaskCreation_proofs -------------------------
(***************************************************************************)
(* Proofs about TaskCreation, for every number of callers, rows, deletions *)
(* and crashes.                                                            *)
(***************************************************************************)
EXTENDS TaskCreation, FiniteSetTheorems, TLAPS

\* Somebody in flight has no row yet, somebody answered has one.
Typed ==
    /\ TypeOK
    /\ \A c \in Caller :
          /\ call[c].pc \in {"replayed", "refreshing", "created", "notified"} =>
                call[c].got \in TaskId
          /\ call[c].pc \in {"idle", "routing", "inserting", "conflict", "error", "lost"} =>
                call[c].got = NONE

\* Any two rows that are not late are the same row.
AtMostOne == \A t, u \in Rows \ late : t = u

\* A call whose lookup is not outdated knows that no row has settled since: if the
\* index lets it insert, there is no row at all.
FreshLookups ==
    \A c \in Caller \ overtaken : \A t \in TaskId :
        call[c].pc \in {"routing", "inserting"} => status[t] # "terminal"

\* The loser of an insert race finds the winner's row, unless it was deleted.
WinnerThere ==
    \A c \in Caller : call[c].pc = "conflict" => Rows # {} \/ deletes > 0

\* A row that its creator may not find again was deleted.
Creator == {"refreshing", "created"}

MissedRows ==
    \A t \in TaskId : status[t] = "deleted" => deletes > 0

\* A row is announced by the call that created it, which nobody else is told.
OneCreator ==
    /\ \A t \in TaskId : pings[t] <= 1
    /\ \A t \in Unused : pings[t] = 0
    /\ \A c \in Caller : call[c].pc \in Creator =>
          /\ call[c].got \notin Unused
          /\ pings[call[c].got] = 0
          /\ \A d \in Caller \ {c} : call[d].pc \in Creator => call[d].got # call[c].got

Inductive ==
    /\ Typed
    /\ AtMostOne
    /\ FreshLookups
    /\ WinnerThere
    /\ OneCreator
    /\ MissedRows
    /\ ErrorsAreExplained

-----------------------------------------------------------------------------
\* The chosen id is an unused one, if there is one.
LEMMA FreshIdUnused ==
  ASSUME Unused # {}
  PROVE  FreshId \in TaskId /\ status[FreshId] = "unused"
  BY DEF Unused, FreshId

\* One row is returned, several raise.
LEMMA SeveralRows ==
  ASSUME AtMostOne, Rows # {}, Cardinality(Rows) # 1
  PROVE  late # {}
  <1> SUFFICES ASSUME late = {} PROVE FALSE
      OBVIOUS
  <1>1. PICK t \in Rows : TRUE
      OBVIOUS
  <1>2. Rows = {t}
      BY <1>1 DEF AtMostOne
  <1> QED
      BY <1>2, FS_Singleton

LEMMA FoundTyped ==
  ASSUME Typed, NEW c \in Caller, NEW none \in {"routing", "error"}, Found(c, none)
  PROVE  /\ call' \in [Caller -> Call]
         /\ \A d \in Caller \ {c} : call'[d] = call[d]
         /\ \/ call'[c].pc = none /\ call'[c].got = NONE /\ Rows = {}
            \/ call'[c].pc = "replayed" /\ call'[c].got \in TaskId
            \/ /\ call'[c].pc = "error" /\ call'[c].got = NONE
               /\ Rows # {} /\ Cardinality(Rows) # 1
  <1>1. CASE Rows = {}
      <2>1. [Idle EXCEPT !.pc = none] \in Call
          BY DEF Idle, Call
      <2>2. call' = [call EXCEPT ![c] = [Idle EXCEPT !.pc = none]]
          BY <1>1 DEF Found
      <2> QED
          BY <1>1, <2>1, <2>2 DEF Typed, TypeOK, Idle
  <1>2. CASE Rows # {} /\ Cardinality(Rows) = 1
      <2>1. PICK t \in TaskId : t = CHOOSE x \in TaskId : x \in Rows
          BY <1>2 DEF Rows
      <2>2. call' = [call EXCEPT ![c] = [Idle EXCEPT !.pc = "replayed", !.got = t]]
          BY <1>2, <2>1 DEF Found
      <2>3. [Idle EXCEPT !.pc = "replayed", !.got = t] \in Call
          BY DEF Call, Idle
      <2> QED
          BY <2>2, <2>3 DEF Typed, TypeOK, Idle
  <1>3. CASE Rows # {} /\ Cardinality(Rows) # 1
      <2>1. [Idle EXCEPT !.pc = "error"] \in Call
          BY DEF Idle, Call
      <2>2. call' = [call EXCEPT ![c] = [Idle EXCEPT !.pc = "error"]]
          BY <1>3 DEF Found
      <2> QED
          BY <1>3, <2>1, <2>2 DEF Typed, TypeOK, Idle
  <1> QED
      BY <1>1, <1>2, <1>3

\* A step that leaves the rows alone, and moves one call to a state in which it
\* neither comes by a row to announce nor waits for one, keeps what concerns rows.
LEMMA CallMoves ==
  ASSUME Inductive, NEW c \in Caller, call' \in [Caller -> Call],
         \A d \in Caller \ {c} : call'[d] = call[d],
         UNCHANGED <<status, users, pings, late, crashes, deletes>>,
         overtaken' = overtaken \/ (overtaken' = overtaken \ {c} /\ call[c].pc = "idle"),
         \/ call'[c].pc \in {"idle", "error", "lost"} /\ call'[c].got = NONE
         \/ call'[c].pc \in {"replayed", "notified"} /\ call'[c].got \in TaskId
         \/ call'[c].pc = "routing" /\ call'[c].got = NONE /\ Rows = {}
         \/ call'[c].pc = "inserting" /\ call'[c].got = NONE /\ call[c].pc = "routing"
         \/ call'[c].pc = "created" /\ call[c].pc = "refreshing" /\ call'[c].got = call[c].got
         \/ call'[c].pc = "conflict" /\ call'[c].got = NONE /\ Rows # {},
         call'[c].pc = "error" => late # {} \/ deletes > 0 \/ Stale(c)'
  PROVE  Inductive'
  <1>1. Typed'
      BY DEF Inductive, Typed, TypeOK
  <1>2. AtMostOne' /\ Rows' = Rows /\ Unused' = Unused
      BY DEF Inductive, AtMostOne, Rows, Unused
  <1>3. FreshLookups'
      <2> SUFFICES ASSUME NEW d \in Caller \ overtaken', NEW t \in TaskId,
                          call'[d].pc \in {"routing", "inserting"}
                   PROVE  status[t] # "terminal"
          BY DEF FreshLookups
      <2>1. CASE d # c
          BY <2>1 DEF Inductive, FreshLookups
      <2>2. CASE d = c
          BY <2>2 DEF Rows, Inductive, FreshLookups
      <2> QED
          BY <2>1, <2>2
  <1>4. WinnerThere' /\ MissedRows'
      BY <1>2 DEF Inductive, WinnerThere, MissedRows
  <1>5. OneCreator'
      BY <1>2 DEF Inductive, OneCreator, Creator
  <1>6. ErrorsAreExplained'
      <2> SUFFICES ASSUME NEW d \in Caller, call'[d].pc = "error"
                   PROVE  late' # {} \/ deletes' > 0 \/ Stale(d)'
          BY DEF ErrorsAreExplained
      <2>1. CASE d = c
          BY <2>1
      <2>2. CASE d # c
          BY <2>2 DEF Inductive, ErrorsAreExplained, Stale
      <2> QED
          BY <2>1, <2>2
  <1> QED
      BY <1>1, <1>2, <1>3, <1>4, <1>5, <1>6 DEF Inductive

LEMMA LookupKeeps ==
  ASSUME Inductive, NEW c \in Caller, Lookup(c)
  PROVE  Inductive'
  <1>1. Found(c, "routing")
      BY DEF Lookup
  <1>2. Typed
      BY DEF Inductive
  <1>3. call'[c].pc = "error" => late # {}
      BY <1>1, <1>2, FoundTyped, SeveralRows DEF Inductive
  <1>4. /\ call' \in [Caller -> Call]
        /\ \A d \in Caller \ {c} : call'[d] = call[d]
        /\ \/ call'[c].pc = "routing" /\ call'[c].got = NONE /\ Rows = {}
           \/ call'[c].pc = "replayed" /\ call'[c].got \in TaskId
           \/ call'[c].pc = "error" /\ call'[c].got = NONE
      BY <1>1, <1>2, FoundTyped
  <1> QED
      BY <1>3, <1>4, CallMoves DEF Lookup

LEMMA RouteKeeps ==
  ASSUME Inductive, NEW c \in Caller, NEW u \in users \union {NONE}, Route(c, u)
  PROVE  Inductive'
  <1>1. call[c] \in Call /\ call[c].got = NONE /\ u \in User \union {NONE}
      BY DEF Inductive, Typed, TypeOK, Route
  <1>2. /\ call' \in [Caller -> Call]
        /\ \A d \in Caller \ {c} : call'[d] = call[d]
        /\ call'[c].pc = "inserting" /\ call'[c].got = NONE
      BY <1>1 DEF Route, Inductive, Typed, TypeOK, Call
  <1> QED
      BY <1>2, CallMoves DEF Route

LEMMA PickGoneKeeps ==
  ASSUME Inductive, NEW c \in Caller, PickGone(c)
  PROVE  Inductive'
  <1>1. call[c] \in Call /\ call[c].got = NONE
      BY DEF Inductive, Typed, TypeOK, PickGone
  <1>2. /\ call' \in [Caller -> Call]
        /\ \A d \in Caller \ {c} : call'[d] = call[d]
        /\ call'[c].pc = "error" /\ call'[c].got = NONE /\ call'[c].pick = call[c].pick
      BY <1>1 DEF PickGone, Inductive, Typed, TypeOK, Call
  <1>3. Stale(c)'
      BY <1>2 DEF PickGone, Stale
  <1> QED
      BY <1>2, <1>3, CallMoves DEF PickGone

LEMMA RefreshKeeps ==
  ASSUME Inductive, NEW c \in Caller, Refresh(c)
  PROVE  Inductive'
  <1>1. call[c] \in Call /\ call[c].got \in TaskId
      BY DEF Inductive, Typed, TypeOK, Refresh
  <1>2. CASE status[call[c].got] = "deleted"
      <2>1. /\ call' \in [Caller -> Call]
            /\ \A d \in Caller \ {c} : call'[d] = call[d]
            /\ call'[c].pc = "error" /\ call'[c].got = NONE
          BY <1>2 DEF Refresh, Inductive, Typed, TypeOK, Call, Idle
      <2>2. deletes > 0
          BY <1>1, <1>2 DEF Inductive, MissedRows
      <2> QED
          BY <2>1, <2>2, CallMoves DEF Refresh
  <1>3. CASE status[call[c].got] # "deleted"
      <2>1. /\ call' \in [Caller -> Call]
            /\ \A d \in Caller \ {c} : call'[d] = call[d]
            /\ call'[c].pc = "created" /\ call'[c].got = call[c].got
          BY <1>1, <1>3 DEF Refresh, Inductive, Typed, TypeOK, Call
      <2> QED
          BY <2>1, CallMoves DEF Refresh
  <1> QED
      BY <1>2, <1>3

LEMMA RelookupKeeps ==
  ASSUME Inductive, NEW c \in Caller, Relookup(c)
  PROVE  Inductive'
  <1>1. Found(c, "error") /\ UNCHANGED <<status, users, pings, overtaken, late, crashes, deletes>>
      BY DEF Relookup
  <1>2. Typed
      BY DEF Inductive
  <1>3. call'[c].pc = "error" => late # {} \/ deletes > 0
      BY <1>1, <1>2, FoundTyped, SeveralRows DEF Relookup, Inductive, WinnerThere
  <1>4. /\ call' \in [Caller -> Call]
        /\ \A d \in Caller \ {c} : call'[d] = call[d]
        /\ \/ call'[c].pc = "error" /\ call'[c].got = NONE
           \/ call'[c].pc = "replayed" /\ call'[c].got \in TaskId
      BY <1>1, <1>2, FoundTyped
  <1> QED
      BY <1>1, <1>3, <1>4, CallMoves

LEMMA ConflictKeeps ==
  ASSUME Inductive, NEW c \in Caller, Conflict(c)
  PROVE  Inductive'
  <1>1. call[c] \in Call /\ call[c].got = NONE
      BY DEF Inductive, Typed, TypeOK, Conflict
  <1>2. /\ call' \in [Caller -> Call]
        /\ \A d \in Caller \ {c} : call'[d] = call[d]
        /\ call'[c].pc = "conflict" /\ call'[c].got = NONE
      BY <1>1 DEF Conflict, Inductive, Typed, TypeOK, Call, Idle
  <1>3. Rows # {}
      BY DEF Conflict, KeyTaken, Rows
  <1> QED
      BY <1>2, <1>3, CallMoves DEF Conflict

LEMMA CallAgainKeeps ==
  ASSUME Inductive, NEW c \in Caller, CallAgain(c)
  PROVE  Inductive'
  <1>1. /\ call' \in [Caller -> Call]
        /\ \A d \in Caller \ {c} : call'[d] = call[d]
        /\ call'[c].pc = "idle" /\ call'[c].got = NONE
      BY DEF CallAgain, Inductive, Typed, TypeOK, Idle, Call
  <1> QED
      BY <1>1, CallMoves DEF CallAgain

\* The one action that makes a duplicate: by a call whose lookup is outdated.
LEMMA InsertKeeps ==
  ASSUME Inductive, NEW c \in Caller, Insert(c)
  PROVE  Inductive'
  <1> PICK new \in TaskId : new = FreshId /\ status[new] = "unused"
      BY FreshIdUnused DEF Insert
  <1>1. /\ call' \in [Caller -> Call]
        /\ \A d \in Caller \ {c} : call'[d] = call[d]
        /\ call'[c].pc = "refreshing" /\ call'[c].got = new
      <2>1. [Idle EXCEPT !.pc = "refreshing", !.got = new] \in Call
          BY DEF Call, Idle
      <2> QED
          BY <2>1 DEF Insert, Inductive, Typed, TypeOK, Idle
  <1>2. /\ status' \in [TaskId -> {"unused", "active", "terminal", "deleted"}]
        /\ status'[new] = "active"
        /\ \A t \in TaskId \ {new} : status'[t] = status[t]
      BY DEF Insert, Inductive, Typed, TypeOK
  <1>3. /\ UNCHANGED <<users, pings, overtaken, crashes, deletes>>
        /\ late' = IF c \in overtaken THEN late \union {new} ELSE late
      BY DEF Insert
  <1>4. Typed'
      BY <1>1, <1>2, <1>3 DEF Inductive, Typed, TypeOK
  <1>5. Rows' = Rows \union {new} /\ Unused' = Unused \ {new}
      BY <1>2 DEF Rows, Unused
  <1>6. AtMostOne'
      <2>1. CASE c \in overtaken
          BY <1>3, <1>5, <2>1 DEF Inductive, AtMostOne
      <2>2. CASE c \notin overtaken
          <3>1. Rows = {}
              BY <2>2 DEF Insert, KeyTaken, Inductive, FreshLookups, Rows
          <3> QED
              BY <1>5, <3>1 DEF AtMostOne
      <2> QED
          BY <2>1, <2>2
  <1>7. FreshLookups'
      BY <1>1, <1>2, <1>3 DEF Inductive, FreshLookups
  <1>8. WinnerThere' /\ MissedRows'
      BY <1>1, <1>2, <1>3, <1>5 DEF Inductive, WinnerThere, MissedRows
  <1>9. OneCreator'
      <2>1. new \in Unused
          BY DEF Unused
      <2>2. \A d \in Caller \ {c} : call'[d].pc \in Creator => call'[d].got # new
          BY <1>1, <2>1 DEF Inductive, OneCreator
      <2> QED
          BY <1>1, <1>3, <1>5, <2>1, <2>2 DEF Inductive, OneCreator
  <1>10. ErrorsAreExplained'
      BY <1>1, <1>3 DEF Inductive, ErrorsAreExplained, Stale
  <1> QED
      BY <1>4, <1>6, <1>7, <1>8, <1>9, <1>10 DEF Inductive

LEMMA NotifyKeeps ==
  ASSUME Inductive, NEW c \in Caller, Notify(c)
  PROVE  Inductive'
  <1> PICK t \in TaskId : t = call[c].got
      BY DEF Notify, Inductive, Typed
  <1>1. call[c] \in Call
      BY DEF Inductive, Typed, TypeOK
  <1>2. /\ call' \in [Caller -> Call]
        /\ \A d \in Caller \ {c} : call'[d] = call[d]
        /\ call'[c].pc = "notified" /\ call'[c].got = t
      BY <1>1 DEF Notify, Inductive, Typed, TypeOK, Call
  <1>3. pings[t] = 0 /\ t \notin Unused
      BY DEF Notify, Inductive, OneCreator, Creator
  <1>4. /\ pings' \in [TaskId -> Nat]
        /\ pings'[t] \in {0, 1}
        /\ \A u \in TaskId \ {t} : pings'[u] = pings[u]
      BY <1>3 DEF Notify, Inductive, Typed, TypeOK
  <1>5. UNCHANGED <<status, users, overtaken, late, crashes, deletes>>
      BY DEF Notify
  <1>6. Rows' = Rows /\ Unused' = Unused
      BY <1>5 DEF Rows, Unused
  <1>7. Typed'
      BY <1>2, <1>4, <1>5 DEF Inductive, Typed, TypeOK
  <1>8. AtMostOne' /\ FreshLookups' /\ WinnerThere' /\ MissedRows' /\ ErrorsAreExplained'
      BY <1>2, <1>5, <1>6
         DEF Inductive, AtMostOne, FreshLookups, WinnerThere, MissedRows, ErrorsAreExplained, Stale
  <1>9. OneCreator'
      <2>1. \A u \in TaskId : pings'[u] <= 1
          BY <1>4 DEF Inductive, OneCreator
      <2>2. \A u \in Unused : pings'[u] = 0
          BY <1>3, <1>4 DEF Inductive, OneCreator, Unused
      <2>3. ASSUME NEW d \in Caller, call'[d].pc \in Creator
            PROVE  /\ call'[d].got \notin Unused
                   /\ pings'[call'[d].got] = 0
                   /\ \A b \in Caller \ {d} : call'[b].pc \in Creator => call'[b].got # call'[d].got
          <3>1. d # c /\ call'[d] = call[d]
              BY <1>2, <2>3 DEF Creator
          <3>2. call[d].got # t /\ call[d].got \in TaskId
              BY <2>3, <3>1 DEF Notify, Inductive, OneCreator, Typed, Creator
          <3> QED
              BY <1>2, <1>4, <2>3, <3>1, <3>2 DEF Inductive, OneCreator, Creator
      <2> QED
          BY <1>6, <2>1, <2>2, <2>3 DEF OneCreator
  <1> QED
      BY <1>7, <1>8, <1>9 DEF Inductive

\* Settling outdates every lookup under way.
LEMMA SettleKeeps ==
  ASSUME Inductive, NEW t \in TaskId, Settle(t)
  PROVE  Inductive'
  <1>1. /\ status' \in [TaskId -> {"unused", "active", "terminal", "deleted"}]
        /\ status[t] = "active" /\ status'[t] = "terminal"
        /\ \A u \in TaskId \ {t} : status'[u] = status[u]
      BY DEF Settle, Inductive, Typed, TypeOK
  <1>2. Rows' = Rows /\ Unused' = Unused
      BY <1>1 DEF Rows, Unused
  <1>3. /\ UNCHANGED <<call, users, pings, late, crashes, deletes>>
        /\ overtaken' = overtaken \union {c \in Caller : call[c].pc \in {"routing", "inserting"}}
      BY DEF Settle, Outdate
  <1>4. Typed'
      BY <1>1, <1>3 DEF Inductive, Typed, TypeOK
  <1>5. FreshLookups'
      BY <1>3 DEF FreshLookups
  <1>6. AtMostOne' /\ WinnerThere' /\ OneCreator' /\ MissedRows' /\ ErrorsAreExplained'
      BY <1>1, <1>2, <1>3
         DEF Inductive, AtMostOne, WinnerThere, OneCreator, MissedRows, ErrorsAreExplained, Stale
  <1> QED
      BY <1>4, <1>5, <1>6 DEF Inductive

LEMMA DeleteKeeps ==
  ASSUME Inductive, NEW t \in TaskId, Delete(t)
  PROVE  Inductive'
  <1>1. /\ status' \in [TaskId -> {"unused", "active", "terminal", "deleted"}]
        /\ status[t] \in {"active", "terminal"} /\ status'[t] = "deleted"
        /\ \A u \in TaskId \ {t} : status'[u] = status[u]
      BY DEF Delete, Inductive, Typed, TypeOK
  <1>2. Rows' \subseteq Rows /\ Unused' = Unused
      BY <1>1 DEF Rows, Unused
  <1>3. /\ UNCHANGED <<call, users, pings, overtaken, late, crashes>>
        /\ deletes' = deletes + 1 /\ deletes' \in 0..MaxDeletes /\ deletes' > 0
      BY CreationAssumption DEF Delete, Inductive, Typed, TypeOK
  <1>4. Typed'
      BY <1>1, <1>3 DEF Inductive, Typed, TypeOK
  <1>5. FreshLookups'
      BY <1>1, <1>3 DEF Inductive, FreshLookups
  <1>6. AtMostOne' /\ WinnerThere' /\ OneCreator' /\ MissedRows' /\ ErrorsAreExplained'
      BY <1>1, <1>2, <1>3
         DEF Inductive, AtMostOne, WinnerThere, OneCreator, MissedRows, ErrorsAreExplained, Stale
  <1> QED
      BY <1>4, <1>5, <1>6 DEF Inductive

LEMMA CrashKeeps ==
  ASSUME Inductive, Crash
  PROVE  Inductive'
  <1>1. /\ UNCHANGED <<status, users, pings, overtaken, late, deletes>>
        /\ crashes' \in 0..MaxCrashes
      BY CreationAssumption DEF Crash, Inductive, Typed, TypeOK
  <1>2. [Idle EXCEPT !.pc = "lost"] \in Call
      BY DEF Idle, Call
  <1>3. \A c \in Caller :
           \/ call'[c] = call[c]
           \/ call'[c].pc = "lost" /\ call'[c].got = NONE
      BY DEF Crash, Idle
  <1>4. Typed'
      BY <1>1, <1>2, <1>3 DEF Crash, Inductive, Typed, TypeOK
  <1>5. Rows' = Rows /\ Unused' = Unused
      BY <1>1 DEF Rows, Unused
  <1>6. AtMostOne' /\ FreshLookups' /\ WinnerThere' /\ MissedRows'
      BY <1>1, <1>3, <1>5 DEF Inductive, AtMostOne, FreshLookups, WinnerThere, MissedRows
  <1>7. OneCreator' /\ ErrorsAreExplained'
      BY <1>1, <1>3, <1>5 DEF Inductive, OneCreator, Creator, ErrorsAreExplained, Stale
  <1> QED
      BY <1>4, <1>6, <1>7 DEF Inductive

\* A deleted user makes the picks of calls in flight stale, and no pick fresh.
LEMMA DeleteUserKeeps ==
  ASSUME Inductive, NEW u \in User, DeleteUser(u)
  PROVE  Inductive'
  <1>1. UNCHANGED <<status, call, pings, overtaken, late, crashes, deletes>> /\ users' \subseteq users
      BY DEF DeleteUser
  <1>2. Typed' /\ AtMostOne' /\ FreshLookups' /\ WinnerThere' /\ OneCreator' /\ MissedRows'
      BY <1>1 DEF Inductive, Typed, TypeOK, AtMostOne, Rows, FreshLookups, WinnerThere,
                  OneCreator, Unused, MissedRows
  <1>3. ErrorsAreExplained'
      BY <1>1 DEF Inductive, ErrorsAreExplained, Stale
  <1> QED
      BY <1>2, <1>3 DEF Inductive

LEMMA InitInductive == Init => Inductive
  BY CreationAssumption
     DEF Init, Inductive, Typed, TypeOK, Idle, Call, AtMostOne, Rows, FreshLookups, WinnerThere,
         OneCreator, Creator, Unused, MissedRows, ErrorsAreExplained

LEMMA NextInductive == Inductive /\ [Next]_vars => Inductive'
  <1> SUFFICES ASSUME Inductive, [Next]_vars PROVE Inductive'
      OBVIOUS
  <1>1. ASSUME NEW c \in Caller, Handle(c) \/ CallAgain(c)
        PROVE  Inductive'
      BY <1>1, LookupKeeps, RouteKeeps, InsertKeeps, ConflictKeeps, PickGoneKeeps, RelookupKeeps,
         RefreshKeeps, NotifyKeeps, CallAgainKeeps DEF Handle
  <1>2. ASSUME NEW t \in TaskId, Settle(t) \/ Delete(t)
        PROVE  Inductive'
      BY <1>2, SettleKeeps, DeleteKeeps
  <1>3. CASE UNCHANGED vars
      BY <1>3 DEF vars, Inductive, Typed, TypeOK, AtMostOne, Rows, FreshLookups, WinnerThere,
                  OneCreator, Unused, MissedRows, ErrorsAreExplained, Stale
  <1> QED
      BY <1>1, <1>2, <1>3, CrashKeeps, DeleteUserKeeps DEF Next

LEMMA AlwaysInductive == Spec => []Inductive
  BY InitInductive, NextInductive, PTL DEF Spec

\* Every reachable state is well typed.
THEOREM CreationTyped == Spec => []TypeOK
  <1>1. Inductive => TypeOK
      BY DEF Inductive, Typed
  <1> QED
      BY <1>1, AlwaysInductive, PTL

\* Two tasks under one key are always the fault of an outdated lookup.
THEOREM DuplicatesAlwaysLate == Spec => []DuplicatesAreLate
  <1>1. Inductive => DuplicatesAreLate
      <2> SUFFICES ASSUME Inductive PROVE Cardinality(Rows \ late) <= 1
          BY DEF DuplicatesAreLate
      <2>1. CASE Rows \ late = {}
          BY <2>1, FS_EmptySet
      <2>2. CASE \E t \in Rows \ late : TRUE
          <3>1. PICK t \in Rows \ late : TRUE
              BY <2>2
          <3>2. Rows \ late = {t}
              BY <3>1 DEF Inductive, AtMostOne
          <3> QED
              BY <3>2, FS_Singleton
      <2> QED
          BY <2>1, <2>2
  <1> QED
      BY <1>1, AlwaysInductive, PTL

\* Reviewers are notified of a task at most once, by the call that created it.
THEOREM AlwaysNotifiedOnce == Spec => []NotifiedOnce
  <1>1. Inductive => NotifiedOnce
      BY DEF Inductive, OneCreator, NotifiedOnce
  <1> QED
      BY <1>1, AlwaysInductive, PTL

\* A call fails only after a late row, the deletion of a row, or that of the very user
\* whose turn it had picked.
THEOREM ErrorsAlwaysExplained == Spec => []ErrorsAreExplained
  <1>1. Inductive => ErrorsAreExplained
      BY DEF Inductive
  <1> QED
      BY <1>1, AlwaysInductive, PTL
=============================================================================
