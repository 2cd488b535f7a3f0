--------------------------- MODULE ErasureProofs ---------------------------
(* What TLAPS proves of Erasure, for any requests, people, stores, holds,   *)
(* workers and bounds.                                                      *)
EXTENDS Erasure, TLAPS

-----------------------------------------------------------------------------
(* Types.                                                                  *)

LEMMA StoreHere ==
    ASSUME TypeOK, NEW w \in Workers, pc[w] = "store", at[w] \in 1..Len(Stores)
    PROVE  Stores[at[w]] \in ListedStores
  BY StoresAssumption DEF TypeOK

AtInv == \A w \in Workers : pc[w] = "store" => at[w] \in 1..Len(Stores)
AtSession == \A w \in Workers : pc[w] = "session" => at[w] \in 1..Len(Stores)
BusyInv == \A w \in Workers : taken[w] \in Requests <=> pc[w] \notin {"idle", "next"}
AtStart == \A w \in Workers : pc[w] \in {"idle", "next", "holds", "threads"} => at[w] = 1
PlaceInv == AtStart /\ AtInv /\ AtSession /\ BusyInv
TypeInv == TypeOK /\ PlaceInv

LEMMA WhoseType ==
    ASSUME TypeInv, NEW w \in Workers, pc[w] \notin {"idle", "next"}
    PROVE  Busy(w) /\ taken[w] \in Requests /\ Whose(w) \in Subjects
  BY RequestsAssumption DEF TypeInv, PlaceInv, BusyInv, Busy, Whose

LEMMA StoresNotEmpty == Len(Stores) \in Nat \ {0}
  <1>1. PICK i \in 1..Len(Stores) : Stores[i] = "memory"
    BY StoresAssumption DEF ListedStores
  <1> QED
    BY <1>1, StoresAssumption

LEMMA TypeInit == Init => TypeInv
  <1> SUFFICES ASSUME Init PROVE TypeInv
    OBVIOUS
  <1>1. Unread \in [ListedStores -> Answers]
    BY DEF Unread, Answers
  <1>2. live \in [Subjects -> SUBSET Pieces] /\ opened \subseteq Subjects
    BY WrittenAssumption DEF Init
  <1> QED
    BY <1>1, <1>2, StoresNotEmpty, RequestsAssumption, BoundsAssumption
    DEF Init, TypeInv, TypeOK, PlaceInv, AtInv, AtSession, AtStart, BusyInv

LEMMA ReleasedType ==
    ASSUME TypeInv, NEW w \in Workers, LetGo(w)
    PROVE  /\ taken' \in [Workers -> Requests \union {NoRequest}]
           /\ held' \in [Workers -> SUBSET Holds] /\ knows' \in [Workers -> BOOLEAN]
           /\ at' \in [Workers -> 1..(Len(Stores) + 1)]
           /\ said' \in [Workers -> [ListedStores -> Answers]]
           /\ fresh' \in [Workers -> SUBSET Pieces] /\ cut' \subseteq Workers
           /\ before' \in [Workers -> SUBSET Holds]
           /\ old' \in [Workers -> SUBSET Pieces]
           /\ \A v \in Workers : v # w => at'[v] = at[v] /\ taken'[v] = taken[v]
           /\ taken'[w] \notin Requests /\ at'[w] = 1
  <1>1. Unread \in [ListedStores -> Answers]
    BY DEF Unread, Answers
  <1> QED
    BY <1>1, StoresNotEmpty, RequestsAssumption DEF LetGo, TypeInv, TypeOK

LEMMA ReleasedPlace ==
    ASSUME TypeInv, NEW w \in Workers, LetGo(w), NEW p \in {"idle", "next"},
           pc' = [pc EXCEPT ![w] = p]
    PROVE  PlaceInv'
  <1>1. pc'[w] = p /\ \A v \in Workers : v # w => pc'[v] = pc[v]
    BY DEF TypeInv, TypeOK
  <1>2. /\ \A v \in Workers : v # w => at'[v] = at[v] /\ taken'[v] = taken[v]
        /\ taken'[w] \notin Requests /\ at'[w] = 1
    BY ReleasedType
  <1> QED
    BY <1>1, <1>2 DEF TypeInv, PlaceInv, AtInv, AtSession, AtStart, BusyInv

LEMMA AfterStoreType ==
    ASSUME TypeInv, NEW w \in Workers, AfterStore(w), at[w] \in 1..Len(Stores),
           pc[w] \in {"store", "session"}, UNCHANGED taken
    PROVE  /\ at' \in [Workers -> 1..(Len(Stores) + 1)]
           /\ pc' \in [Workers -> {"idle", "next", "holds", "threads", "store", "session", "own",
                           "finish"}]
           /\ AtInv' /\ AtSession'
           /\ PlaceInv'
  BY StoresNotEmpty DEF AfterStore, TypeInv, TypeOK, PlaceInv, AtInv, AtSession, AtStart, BusyInv

LEMMA TypeStep == TypeInv /\ [Next]_vars => TypeInv'
  <1> SUFFICES ASSUME TypeInv, [Next]_vars PROVE TypeInv'
    OBVIOUS
  <1> USE DEF TypeInv
  <1>1. CASE UNCHANGED vars
    BY <1>1 DEF vars, queueVars, dataVars, holdVars, drainVars,
        TypeOK, PlaceInv, AtInv, AtSession, AtStart, BusyInv
  <1>2. CASE PersonStep
    <2>1. ASSUME NEW r \in Requests, File(r) PROVE TypeInv'
      BY <2>1 DEF File, dataVars, holdVars, drainVars,
          TypeOK, PlaceInv, AtInv, AtSession, AtStart, BusyInv
    <2>2. ASSUME NEW h \in Holds, Place(h) PROVE TypeInv'
      BY <2>2 DEF Place, queueVars, dataVars, drainVars,
          TypeOK, PlaceInv, AtInv, AtSession, AtStart, BusyInv
    <2>3. ASSUME NEW h \in Holds, Lift(h) PROVE TypeInv'
      BY <2>3 DEF Lift, queueVars, dataVars, drainVars,
          TypeOK, PlaceInv, AtInv, AtSession, AtStart, BusyInv
    <2>4. ASSUME NEW s \in Subjects, Issue(s) PROVE TypeInv'
      <3>1. "operations" \in Pieces
        BY StoresAssumption DEF Pieces
      <3> QED
        BY <2>4, <3>1 DEF Issue, queueVars, holdVars, drainVars,
            TypeOK, PlaceInv, AtInv, AtSession, AtStart, BusyInv
    <2>5. ASSUME NEW s \in Subjects, NEW p \in Written, Use(s, p) PROVE TypeInv'
      <3>1. p \in Pieces
        BY WrittenAssumption
      <3>2. fresh' \in [Workers -> SUBSET Pieces] /\ old' \in [Workers -> SUBSET Pieces]
        BY <2>5, <3>1 DEF Use, TypeOK
      <3>3. live' \in [Subjects -> SUBSET Pieces] /\ opened' \subseteq Subjects /\ writes' \in Nat
        BY <2>5, <3>1 DEF Use, TypeOK
      <3> QED
        BY <2>5, <3>2, <3>3 DEF Use, queueVars, holdVars,
            TypeOK, PlaceInv, AtInv, AtSession, AtStart, BusyInv
    <2>6. ASSUME Tick PROVE TypeInv'
      BY <2>6 DEF Tick, queueVars, dataVars, holdVars, drainVars,
          TypeOK, PlaceInv, AtInv, AtSession, AtStart, BusyInv
    <2> QED
      BY <1>2, <2>1, <2>2, <2>3, <2>4, <2>5, <2>6 DEF PersonStep
  <1>3. ASSUME NEW w \in Workers, Drain(w) \/ Fail(w) \/ Cut(w) PROVE TypeInv'
    <2>1. CASE Begin(w)
      BY <2>1, BoundsAssumption
      DEF Begin, queueVars, dataVars, holdVars, TypeOK, PlaceInv, AtInv, AtSession, AtStart, BusyInv
    <2>2. CASE Take(w)
      <3>1. taken' \in [Workers -> Requests \union {NoRequest}]
        BY <2>2 DEF Take, Owed, TypeOK
      <3>2. taken'[w] \in Requests /\ \A v \in Workers : v # w => taken'[v] = taken[v]
        BY <2>2 DEF Take, Owed, TypeOK
      <3>3. TypeOK'
        BY <2>2, <3>1 DEF Take, queueVars, dataVars, holdVars, TypeOK
      <3>4. PlaceInv'
        BY <2>2, <3>2 DEF Take, TypeOK, PlaceInv, AtInv, AtSession, AtStart, BusyInv
      <3> QED
        BY <3>3, <3>4
    <2>3. CASE EndDrain(w)
      BY <2>3 DEF EndDrain, EndPass, queueVars, dataVars, holdVars,
          TypeOK, PlaceInv, AtInv, AtSession, AtStart, BusyInv
    <2>4. CASE ReadHolds(w)
      BY <2>4 DEF ReadHolds, HoldsOver, queueVars, dataVars, holdVars,
          TypeOK, PlaceInv, AtInv, AtSession, AtStart, BusyInv
    <2>5. CASE ReadThreads(w)
      <3>0. Whose(w) \in Subjects
        BY <2>5, WhoseType DEF ReadThreads
      <3>1. live[Whose(w)] \in SUBSET Pieces
        BY <3>0 DEF TypeOK
      <3>2. knows' \in [Workers -> BOOLEAN] /\ old' \in [Workers -> SUBSET Pieces]
        BY <2>5, <3>1 DEF ReadThreads, Conversed, TypeOK
      <3>3. TypeOK'
        BY <2>5, <3>2 DEF ReadThreads, queueVars, dataVars, holdVars, TypeOK
      <3>4. PlaceInv'
        BY <2>5, StoresNotEmpty
        DEF ReadThreads, TypeOK, PlaceInv, AtInv, AtSession, AtStart, BusyInv
      <3> QED
        BY <3>3, <3>4
    <2>6. CASE EraseStore(w)
      <3> DEFINE store == Stores[at[w]]
      <3>1. store \in ListedStores /\ at[w] \in 1..Len(Stores)
        BY <2>6, StoreHere DEF EraseStore, PlaceInv, AtInv
      <3>2. said' \in [Workers -> [ListedStores -> Answers]]
        BY <2>6, <3>1 DEF EraseStore, Reached, Answers, TypeOK
      <3>3. /\ at' \in [Workers -> 1..(Len(Stores) + 1)]
            /\ pc' \in [Workers -> {"idle", "next", "holds", "threads", "store", "session", "own",
                           "finish"}]
            /\ PlaceInv'
        <4>1. CASE store = "memory" /\ knows[w]
          <5>1. pc' = [pc EXCEPT ![w] = "session"] /\ UNCHANGED <<at, taken>> /\ pc[w] = "store"
            BY <2>6, <4>1 DEF EraseStore
          <5>2. PlaceInv'
            BY <3>1, <5>1 DEF TypeOK, PlaceInv, AtInv, AtSession, AtStart, BusyInv
          <5> QED
            BY <5>1, <5>2 DEF TypeOK
        <4>2. CASE ~(store = "memory" /\ knows[w])
          BY <2>6, <3>1, <4>2, AfterStoreType DEF EraseStore
        <4> QED
          BY <4>1, <4>2
      <3> QED
        BY <2>6, <3>2, <3>3 DEF EraseStore, queueVars, dataVars, holdVars, TypeOK
    <2>7. CASE RefuseStore(w)
      <3>1. Stores[at[w]] \in ListedStores /\ at[w] \in 1..Len(Stores)
        BY <2>7, StoreHere DEF RefuseStore, PlaceInv, AtInv
      <3>2. said' \in [Workers -> [ListedStores -> Answers]] /\ faults' \in Nat
        BY <2>7, <3>1 DEF RefuseStore, Answers, TypeOK
      <3>3. AfterStore(w) /\ UNCHANGED taken /\ pc[w] = "store"
        BY <2>7 DEF RefuseStore
      <3>4. PlaceInv'
        BY <3>1, <3>3, AfterStoreType
      <3>5. TypeOK'
        BY <2>7, <3>1, <3>2, <3>3, AfterStoreType
        DEF RefuseStore, queueVars, dataVars, holdVars, TypeOK
      <3> QED
        BY <3>4, <3>5
    <2>8. CASE EraseSession(w)
      <3>1. live' \in [Subjects -> SUBSET Pieces]
        BY <2>8 DEF EraseSession, TypeOK
      <3>2. AfterStore(w) /\ UNCHANGED taken /\ pc[w] = "session" /\ at[w] \in 1..Len(Stores)
        BY <2>8 DEF EraseSession, PlaceInv, AtSession
      <3>3. PlaceInv'
        BY <3>2, AfterStoreType
      <3>4. TypeOK'
        BY <2>8, <3>1, <3>2, AfterStoreType DEF EraseSession, queueVars, holdVars, TypeOK
      <3> QED
        BY <3>3, <3>4
    <2>9. CASE EraseTokens(w)
      BY <2>9 DEF EraseTokens, queueVars, holdVars,
          TypeOK, PlaceInv, AtInv, AtSession, AtStart, BusyInv
    <2>10. CASE Finish(w)
      <3>1. live' \in [Subjects -> SUBSET Pieces]
        BY <2>10 DEF Finish, TypeOK
      <3>2. outcome' \in [Requests -> {"none", "open", "held", "incomplete", "erased"}]
        BY <2>10 DEF Finish, OutcomeOf, TypeOK
      <3>3. LetGo(w)
        BY <2>10 DEF Finish
      <3>7. /\ taken' \in [Workers -> Requests \union {NoRequest}]
            /\ held' \in [Workers -> SUBSET Holds] /\ knows' \in [Workers -> BOOLEAN]
            /\ at' \in [Workers -> 1..(Len(Stores) + 1)]
            /\ said' \in [Workers -> [ListedStores -> Answers]]
            /\ fresh' \in [Workers -> SUBSET Pieces] /\ cut' \subseteq Workers
            /\ before' \in [Workers -> SUBSET Holds] /\ old' \in [Workers -> SUBSET Pieces]
        BY <3>3, ReleasedType
      <3>4. TypeOK'
        BY <2>10, <3>1, <3>2, <3>7 DEF Finish, holdVars, TypeOK
      <3>5. pc' = [pc EXCEPT ![w] = "next"]
        BY <2>10 DEF Finish
      <3>6. PlaceInv'
        BY <3>3, <3>5, ReleasedPlace
      <3> QED
        BY <3>4, <3>6
    <2>11. CASE Abandon(w) /\ faults' \in Nat
      <3>1. LetGo(w) /\ pc' = [pc EXCEPT ![w] = "idle"]
        BY <2>11 DEF Abandon, EndPass
      <3>2. PlaceInv'
        BY <3>1, ReleasedPlace
      <3>3. /\ taken' \in [Workers -> Requests \union {NoRequest}]
            /\ held' \in [Workers -> SUBSET Holds] /\ knows' \in [Workers -> BOOLEAN]
            /\ at' \in [Workers -> 1..(Len(Stores) + 1)]
            /\ said' \in [Workers -> [ListedStores -> Answers]]
            /\ fresh' \in [Workers -> SUBSET Pieces] /\ cut' \subseteq Workers
            /\ before' \in [Workers -> SUBSET Holds] /\ old' \in [Workers -> SUBSET Pieces]
        BY <3>1, ReleasedType
      <3>4. /\ pc' \in [Workers -> {"idle", "next", "holds", "threads", "store", "session",
                                    "own", "finish"}]
            /\ now' \in [Workers -> Nat] /\ left' \in [Workers -> Nat]
        BY <2>11 DEF Abandon, EndPass, TypeOK
      <3>5. /\ clock' \in Nat /\ writes' \in Nat /\ faults' \in Nat
            /\ UNCHANGED <<queueVars, dataVars, holdVars>>
        BY <2>11 DEF Abandon, TypeOK
      <3>6. TypeOK'
        BY <3>3, <3>4, <3>5 DEF queueVars, dataVars, holdVars, TypeOK
      <3> QED
        BY <3>2, <3>6
    <2>12. CASE Cut(w)
      BY <2>12 DEF Cut, queueVars, dataVars, holdVars,
          TypeOK, PlaceInv, AtInv, AtSession, AtStart, BusyInv
    <2>13. MeetTheCut(w) \/ Fail(w) => Abandon(w) /\ faults' \in Nat
      BY DEF MeetTheCut, Fail, TypeOK
    <2> QED
      BY <1>3, <2>1, <2>2, <2>3, <2>4, <2>5, <2>6, <2>7, <2>8, <2>9, <2>10, <2>11, <2>12, <2>13
      DEF Drain
  <1> QED
    BY <1>1, <1>2, <1>3 DEF Next

\* For any values of the constants, every variable keeps its type and a drain that is
\* at a store is at one of its list.
THEOREM TypeCorrect == Spec => []TypeOK
  <1>1. TypeInv => TypeOK
    BY DEF TypeInv
  <1> QED
    BY <1>1, TypeInit, TypeStep, PTL DEF Spec

-----------------------------------------------------------------------------
(* Keys.  A send leaves its record, and no step removes a record.          *)

KeysInv == \A s \in Subjects : sends[s] = 0 \/ (sends[s] = 1 /\ "operations" \in live[s])

LEMMA KeysStep == TypeInv /\ KeysInv /\ [Next]_vars => KeysInv'
  <1> SUFFICES ASSUME TypeInv, KeysInv, [Next]_vars PROVE KeysInv'
    OBVIOUS
  <1> USE DEF KeysInv
  <1>0. live \in [Subjects -> SUBSET Pieces] /\ sends \in [Subjects -> Nat]
    BY DEF TypeInv, TypeOK
  <1>1. ASSUME UNCHANGED <<live, sends>> PROVE KeysInv'
    BY <1>1
  <1>2. ASSUME NEW s \in Subjects, Issue(s) PROVE KeysInv'
    BY <1>0, <1>2 DEF Issue
  <1>3. ASSUME NEW s \in Subjects, NEW p \in Written, Use(s, p) PROVE KeysInv'
    BY <1>0, <1>3 DEF Use
  <1>4. ASSUME NEW w \in Workers, EraseSession(w) PROVE KeysInv'
    BY <1>0, <1>4 DEF EraseSession
  <1>5. ASSUME NEW w \in Workers, EraseTokens(w) PROVE KeysInv'
    BY <1>0, <1>5 DEF EraseTokens
  <1>6. ASSUME NEW w \in Workers, Finish(w) PROVE KeysInv'
    <2>1. "operations" \notin Removed(w)
      BY StoresAssumption DEF Removed, Leaves
    <2> QED
      BY <1>0, <1>6, <2>1 DEF Finish
  <1>7. CASE PersonStep
    BY <1>1, <1>2, <1>3, <1>7 DEF PersonStep, File, Place, Lift, Tick, dataVars
  <1>8. ASSUME NEW w \in Workers, Drain(w) \/ Fail(w) \/ Cut(w) PROVE KeysInv'
    BY <1>1, <1>4, <1>5, <1>6, <1>8
    DEF Drain, Fail, Cut, Begin, Take, EndDrain, ReadHolds, ReadThreads, EraseStore, RefuseStore,
        MeetTheCut, Abandon, dataVars
  <1>9. CASE UNCHANGED vars
    BY <1>1, <1>9 DEF vars, dataVars
  <1> QED
    BY <1>7, <1>8, <1>9 DEF Next

\* For any requests, drains and faults, what was sent for a person is sent once,
\* however often they are erased.
THEOREM KeysSpent == Spec => []KeysStaySpent
  <1>1. Init => KeysInv
    BY DEF Init, KeysInv
  <1>2. KeysInv => KeysStaySpent
    BY DEF KeysInv, KeysStaySpent
  <1> QED
    BY <1>1, <1>2, TypeInit, TypeStep, KeysStep, PTL DEF Spec

-----------------------------------------------------------------------------
(* Holds.                                                                  *)

Late == {"store", "session", "own", "finish"}

\* A drain that has gone on knows every hold it had to, and touches nothing under one.
HoldInv ==
    \A w \in Workers :
        /\ \A h \in before[w] : placed[h] > 0
        /\ pc[w] \in Late \union {"threads"} =>
              \A h \in before[w] :
                  Whose(w) \in HoldOver[h] /\ lifted[h] = 0 /\ placed[h] <= now[w] => h \in held[w]
        /\ pc[w] \in {"store", "session", "own"} => held[w] = {}
        /\ (pc[w] \notin Late \/ held[w] # {}) => said[w] = Unread

LEMMA HoldFrame ==
    ASSUME HoldInv, UNCHANGED <<pc, now, taken, held, said, before, placed, lifted>>
    PROVE  HoldInv'
  BY DEF HoldInv, Whose

LEMMA HoldStep == TypeInv /\ HoldInv /\ [Next]_vars => HoldInv'
  <1> SUFFICES ASSUME TypeInv, HoldInv, [Next]_vars PROVE HoldInv'
    OBVIOUS
  <1>0. TypeOK /\ AtStart
    BY DEF TypeInv, PlaceInv
  <1>1. CASE PersonStep
    <2>1. ASSUME NEW h \in Holds, Place(h) PROVE HoldInv'
      BY <1>0, <2>1 DEF Place, drainVars, HoldInv, Whose, TypeOK
    <2>2. ASSUME NEW h \in Holds, Lift(h) PROVE HoldInv'
      BY <1>0, <2>2 DEF Lift, drainVars, HoldInv, Whose, TypeOK
    <2>3. ASSUME UNCHANGED <<pc, now, taken, held, said, before, placed, lifted>> PROVE HoldInv'
      BY <2>3, HoldFrame
    <2> QED
      BY <1>1, <2>1, <2>2, <2>3 DEF PersonStep, File, Issue, Use, Tick, holdVars, drainVars
  <1>2. ASSUME NEW w \in Workers, Drain(w) \/ Fail(w) \/ Cut(w) PROVE HoldInv'
    <2>1. CASE Begin(w)
      BY <1>0, <2>1 DEF Begin, holdVars, HoldInv, Whose, Late, TypeOK
    <2>2. CASE Take(w)
      BY <1>0, <2>2 DEF Take, holdVars, HoldInv, Whose, Late, TypeOK
    <2>3. CASE EndDrain(w)
      BY <1>0, <2>3 DEF EndDrain, EndPass, holdVars, HoldInv, Whose, Late, TypeOK
    <2>4. CASE ReadHolds(w)
      BY <1>0, <2>4 DEF ReadHolds, HoldsOver, holdVars, HoldInv, Whose, Late, TypeOK
    <2>5. CASE ReadThreads(w)
      BY <1>0, <2>5 DEF ReadThreads, holdVars, HoldInv, Whose, Late, TypeOK
    <2>6. CASE EraseStore(w)
      BY <1>0, <2>6 DEF EraseStore, AfterStore, holdVars, HoldInv, Whose, Late, TypeOK
    <2>7. CASE RefuseStore(w)
      BY <1>0, <2>7 DEF RefuseStore, AfterStore, holdVars, HoldInv, Whose, Late, TypeOK
    <2>8. CASE EraseSession(w)
      BY <1>0, <2>8 DEF EraseSession, AfterStore, holdVars, HoldInv, Whose, Late, TypeOK
    <2>9. CASE EraseTokens(w)
      BY <1>0, <2>9 DEF EraseTokens, holdVars, HoldInv, Whose, Late, TypeOK
    <2>10. CASE LetGo(w) /\ pc'[w] \notin Late \union {"threads"}
                 /\ (\A v \in Workers : v # w => pc'[v] = pc[v] /\ now'[v] = now[v])
                 /\ UNCHANGED holdVars
      BY <1>0, <2>10 DEF LetGo, holdVars, HoldInv, Whose, TypeOK
    <2>11. CASE Cut(w)
      BY <2>11, HoldFrame DEF Cut, holdVars
    <2>12. Finish(w) \/ MeetTheCut(w) \/ Fail(w) =>
              /\ LetGo(w) /\ pc'[w] \notin Late \union {"threads"}
              /\ \A v \in Workers : v # w => pc'[v] = pc[v] /\ now'[v] = now[v]
              /\ UNCHANGED holdVars
      BY <1>0 DEF Finish, MeetTheCut, Fail, Abandon, EndPass, Late, TypeOK
    <2> QED
      BY <1>2, <2>1, <2>2, <2>3, <2>4, <2>5, <2>6, <2>7, <2>8, <2>9, <2>10, <2>11, <2>12 DEF Drain
  <1>3. CASE UNCHANGED vars
    BY <1>3, HoldFrame DEF vars, holdVars, drainVars
  <1> QED
    BY <1>1, <1>2, <1>3 DEF Next

Unheld(s) ==
    \E w \in Workers :
        /\ pc'[w] # pc[w] /\ Busy(w) /\ Whose(w) = s
        /\ \A h \in before[w] : s \in HoldOver[h] /\ lifted[h] = 0 => placed[h] > now[w]

KeepsHeld == \A s \in Subjects : live[s] \subseteq live'[s] \/ Unheld(s)

LEMMA NoHoldOver ==
    ASSUME TypeInv, HoldInv, NEW w \in Workers, pc[w] \in Late, held[w] = {}, pc'[w] # pc[w]
    PROVE  Unheld(Whose(w))
  <1>1. Busy(w)
    BY WhoseType DEF Late
  <1>2. ASSUME NEW h \in before[w], Whose(w) \in HoldOver[h], lifted[h] = 0
        PROVE  placed[h] > now[w]
    <2>1. ~(placed[h] <= now[w])
      BY <1>2 DEF HoldInv
    <2>2. placed[h] \in Nat /\ now[w] \in Nat
      BY DEF TypeInv, TypeOK
    <2> QED
      BY <2>1, <2>2
  <1> QED
    BY <1>1, <1>2 DEF Unheld

LEMMA HeldStep == TypeInv /\ HoldInv /\ [Next]_vars => KeepsHeld
  <1> SUFFICES ASSUME TypeInv, HoldInv, [Next]_vars PROVE KeepsHeld
    OBVIOUS
  <1>0. TypeOK /\ live \in [Subjects -> SUBSET Pieces]
    BY DEF TypeInv, TypeOK
  <1>1. ASSUME UNCHANGED live PROVE KeepsHeld
    BY <1>1 DEF KeepsHeld
  <1>2. ASSUME NEW s \in Subjects, Issue(s) PROVE KeepsHeld
    BY <1>0, <1>2 DEF Issue, KeepsHeld
  <1>3. ASSUME NEW s \in Subjects, NEW p \in Written, Use(s, p) PROVE KeepsHeld
    BY <1>0, <1>3 DEF Use, KeepsHeld
  <1>4. ASSUME NEW w \in Workers, EraseSession(w) PROVE KeepsHeld
    <2>1. pc[w] \in Late /\ held[w] = {} /\ pc'[w] # pc[w]
      BY <1>0, <1>4 DEF EraseSession, AfterStore, HoldInv, Late, TypeOK
    <2>2. Unheld(Whose(w))
      BY <2>1, NoHoldOver
    <2> QED
      BY <1>0, <1>4, <2>2 DEF EraseSession, KeepsHeld
  <1>5. ASSUME NEW w \in Workers, EraseTokens(w) PROVE KeepsHeld
    <2>1. pc[w] \in Late /\ held[w] = {} /\ pc'[w] # pc[w]
      BY <1>0, <1>5 DEF EraseTokens, HoldInv, Late, TypeOK
    <2>2. Unheld(Whose(w))
      BY <2>1, NoHoldOver
    <2> QED
      BY <1>0, <1>5, <2>2 DEF EraseTokens, KeepsHeld
  <1>6. ASSUME NEW w \in Workers, Finish(w) PROVE KeepsHeld
    <2>1. pc[w] \in Late /\ pc'[w] # pc[w]
      BY <1>0, <1>6 DEF Finish, Late, TypeOK
    <2>2. CASE held[w] = {}
      <3>1. Unheld(Whose(w))
        BY <2>1, <2>2, NoHoldOver
      <3> QED
        BY <1>0, <1>6, <3>1 DEF Finish, KeepsHeld
    <2>3. CASE held[w] # {}
      <3>1. said[w] = Unread
        BY <2>3 DEF HoldInv
      <3>2. Removed(w) = {}
        BY <3>1 DEF Removed, Unread
      <3> QED
        BY <1>0, <1>6, <3>2 DEF Finish, KeepsHeld
    <2> QED
      BY <2>2, <2>3
  <1>7. CASE PersonStep
    BY <1>1, <1>2, <1>3, <1>7 DEF PersonStep, File, Place, Lift, Tick, dataVars
  <1>8. ASSUME NEW w \in Workers, Drain(w) \/ Fail(w) \/ Cut(w) PROVE KeepsHeld
    BY <1>1, <1>4, <1>5, <1>6, <1>8
    DEF Drain, Fail, Cut, Begin, Take, EndDrain, ReadHolds, ReadThreads, EraseStore, RefuseStore,
        MeetTheCut, Abandon, dataVars
  <1>9. CASE UNCHANGED vars
    BY <1>1, <1>9 DEF vars, dataVars
  <1> QED
    BY <1>7, <1>8, <1>9 DEF Next

\* For any people, holds, drains and faults, nothing of a person is lost under a hold
\* that stood when their request was taken, one placed after the drain began apart.
THEOREM HoldsKeep == Spec => HeldIsKept
  <1>1. Init => HoldInv
    BY DEF Init, HoldInv, Late
  <1>2. TypeInv /\ HoldInv /\ [Next]_vars => [KeepsHeld]_vars
    BY HeldStep
  <1> QED
    BY <1>1, <1>2, TypeInit, TypeStep, HoldStep, PTL DEF Spec, HeldIsKept, KeepsHeld, Unheld

-----------------------------------------------------------------------------
(* Reports.  Whose hand a request is in, what a drain found and what it    *)
(* left of it.                                                             *)

HandInv ==
    \A w \in Workers \ cut :
        Busy(w) => /\ outcome[taken[w]] = "open"
                   /\ \A v \in Workers \ cut : taken[v] = taken[w] => v = w

LEMMA HandFrame ==
    ASSUME HandInv, UNCHANGED <<taken, outcome, cut>> PROVE HandInv'
  BY DEF HandInv, Busy

LEMMA HandStep == TypeInv /\ HandInv /\ [Next]_vars => HandInv'
  <1> SUFFICES ASSUME TypeInv, HandInv, [Next]_vars PROVE HandInv'
    OBVIOUS
  <1>0. TypeOK /\ NoRequest \notin Requests
    BY RequestsAssumption DEF TypeInv
  <1>1. ASSUME UNCHANGED <<taken, outcome, cut>> PROVE HandInv'
    BY <1>1, HandFrame
  <1>2. ASSUME NEW r \in Requests, File(r) PROVE HandInv'
    BY <1>0, <1>2 DEF File, drainVars, HandInv, Busy, TypeOK
  <1>3. ASSUME NEW w \in Workers, Take(w) PROVE HandInv'
    <2>1. /\ taken'[w] \in Requests /\ outcome[taken'[w]] = "open" /\ taken'[w] \notin Locked
          /\ \A v \in Workers : v # w => taken'[v] = taken[v]
          /\ UNCHANGED <<outcome, cut>>
      BY <1>0, <1>3 DEF Take, Owed, queueVars, TypeOK
    <2>2. \A v \in Workers \ cut : v # w => taken[v] # taken'[w]
      BY <2>1 DEF Locked
    <2> QED
      BY <2>1, <2>2 DEF HandInv, Busy
  <1>4. ASSUME NEW w \in Workers, LetGo(w), UNCHANGED outcome PROVE HandInv'
    <2>1. taken'[w] \notin Requests /\ \A v \in Workers : v # w => taken'[v] = taken[v]
      BY <1>0, <1>4 DEF LetGo, TypeOK
    <2>2. cut' = cut \ {w}
      BY <1>4 DEF LetGo
    <2> QED
      BY <1>4, <2>1, <2>2 DEF HandInv, Busy
  <1>5. ASSUME NEW w \in Workers, Finish(w) PROVE HandInv'
    <2>1. taken'[w] \notin Requests /\ \A v \in Workers : v # w => taken'[v] = taken[v]
      BY <1>0, <1>5 DEF Finish, LetGo, TypeOK
    <2>2. cut' = cut /\ w \notin cut
      BY <1>5 DEF Finish, LetGo
    <2>3. Busy(w)
      BY <1>5, WhoseType DEF Finish
    <2>4. \A r \in Requests : r # taken[w] => outcome'[r] = outcome[r]
      BY <1>0, <1>5 DEF Finish, TypeOK
    <2> QED
      BY <2>1, <2>2, <2>3, <2>4 DEF HandInv, Busy
  <1>6. ASSUME NEW w \in Workers, Cut(w) PROVE HandInv'
    BY <1>6 DEF Cut, queueVars, HandInv, Busy
  <1>7. CASE PersonStep
    BY <1>1, <1>2, <1>7 DEF PersonStep, Place, Lift, Issue, Use, Tick, queueVars, drainVars
  <1>8. ASSUME NEW w \in Workers, Drain(w) \/ Fail(w) PROVE HandInv'
    BY <1>1, <1>3, <1>4, <1>5, <1>8
    DEF Drain, Fail, Begin, EndDrain, ReadHolds, ReadThreads, EraseStore, RefuseStore,
        EraseSession, EraseTokens, MeetTheCut, Abandon, queueVars
  <1>9. CASE UNCHANGED vars
    BY <1>1, <1>9 DEF vars, queueVars, drainVars
  <1> QED
    BY <1>6, <1>7, <1>8, <1>9 DEF Next

\* What was found of the stores that keep their rows is there still, and of none of them
\* was it said that it was removed.
OldOf(w) ==
    /\ pc[w] \notin Late => old[w] = {} /\ fresh[w] = {}
    /\ \A p \in fresh[w] : p \notin old[w]
    /\ \A p \in ListedStores :
          p \in Keeps /\ p \in old[w] => p \in live[Whose(w)] /\ said[w][p] # "removed"

OldInv == \A w \in Workers : OldOf(w)

\* Where session memory was found, so was a conversation; what was said of the memory
\* is then true of the session as well.
Opened == \A s \in Subjects : "session" \in live[s] => s \in opened

SessionOf(w) ==
    /\ pc[w] \in Late /\ "session" \in old[w] => knows[w]
    /\ /\ pc[w] \in Late \ {"session"} /\ said[w]["memory"] \in {"removed", "kept"}
       /\ "session" \in old[w]
       => "session" \notin live[Whose(w)]

SessionInv == Opened /\ \A w \in Workers : SessionOf(w)

LEMMA OldInit == Init => HandInv /\ OldInv /\ SessionInv
  <1> SUFFICES ASSUME Init PROVE HandInv /\ OldInv /\ SessionInv
    OBVIOUS
  <1>1. HandInv
    BY RequestsAssumption DEF Init, HandInv, Busy
  <1>2. OldInv
    BY DEF Init, OldInv, OldOf, Late
  <1>3. Opened
    BY DEF Init, Opened
  <1>4. \A w \in Workers : pc[w] \notin Late
    BY DEF Init, Late
  <1> QED
    BY <1>1, <1>2, <1>3, <1>4 DEF SessionInv, SessionOf

\* What a step leaves of the rest: rows that no path removes stay, and a key of session
\* memory comes back only with a person's own use.
KeptStay == \A s \in Subjects : \A p \in ListedStores \intersect Keeps :
                p \in live[s] => p \in live'[s]
NoKeyBack == \A s \in Subjects : "session" \in live'[s] => "session" \in live[s]

OldFrame(w) == UNCHANGED <<pc[w], old[w], fresh[w], said[w], taken[w], knows[w]>>

LEMMA OldApart ==
    ASSUME TypeInv, OldInv, NEW w \in Workers, OldFrame(w), KeptStay PROVE OldOf(w)'
  <1>1. CASE pc[w] \in Late
    <2>1. Whose(w) \in Subjects /\ Whose(w)' = Whose(w)
      BY <1>1, WhoseType DEF Late, OldFrame, Whose
    <2> QED
      BY <2>1 DEF OldInv, OldOf, OldFrame, KeptStay
  <1>2. CASE pc[w] \notin Late
    BY <1>2 DEF OldInv, OldOf, OldFrame
  <1> QED
    BY <1>1, <1>2

LEMMA SessionApart ==
    ASSUME TypeInv, SessionInv, NEW w \in Workers, OldFrame(w), NoKeyBack PROVE SessionOf(w)'
  <1>1. CASE pc[w] \in Late
    <2>1. Whose(w) \in Subjects /\ Whose(w)' = Whose(w)
      BY <1>1, WhoseType DEF Late, OldFrame, Whose
    <2> QED
      BY <2>1 DEF SessionInv, SessionOf, OldFrame, NoKeyBack
  <1>2. CASE pc[w] \notin Late
    BY <1>2 DEF SessionOf, OldFrame
  <1> QED
    BY <1>1, <1>2

LEMMA OthersApart ==
    ASSUME TypeInv, NEW w \in Workers, Drain(w) \/ Fail(w) \/ Cut(w), NEW v \in Workers, v # w
    PROVE  OldFrame(v)
  <1>0. TypeOK
    BY DEF TypeInv
  <1>1. CASE Begin(w) \/ Take(w) \/ EndDrain(w)
    BY <1>0, <1>1 DEF Begin, Take, EndDrain, EndPass, OldFrame, TypeOK
  <1>2. CASE ReadHolds(w) \/ ReadThreads(w)
    BY <1>0, <1>2 DEF ReadHolds, ReadThreads, OldFrame, TypeOK
  <1>3. CASE EraseStore(w)
    BY <1>0, <1>3 DEF EraseStore, AfterStore, OldFrame, TypeOK
  <1>4. CASE RefuseStore(w)
    BY <1>0, <1>4 DEF RefuseStore, AfterStore, OldFrame, TypeOK
  <1>5. CASE EraseSession(w) \/ EraseTokens(w)
    BY <1>0, <1>5 DEF EraseSession, EraseTokens, AfterStore, OldFrame, TypeOK
  <1>6. CASE Finish(w) \/ MeetTheCut(w) \/ Fail(w)
    BY <1>0, <1>6 DEF Finish, MeetTheCut, Fail, Abandon, EndPass, LetGo, OldFrame, TypeOK
  <1>7. CASE Cut(w)
    BY <1>7 DEF Cut, OldFrame
  <1> QED
    BY <1>1, <1>2, <1>3, <1>4, <1>5, <1>6, <1>7 DEF Drain

LEMMA DrainKeeps ==
    ASSUME TypeInv, NEW w \in Workers, Drain(w) \/ Fail(w) \/ Cut(w)
    PROVE  /\ KeptStay /\ NoKeyBack /\ UNCHANGED opened
           /\ \A s \in Subjects : live'[s] \subseteq live[s]
  <1> DEFINE Goal == /\ KeptStay /\ NoKeyBack /\ UNCHANGED opened
                     /\ \A s \in Subjects : live'[s] \subseteq live[s]
  <1>0. live \in [Subjects -> SUBSET Pieces]
    BY DEF TypeInv, TypeOK
  <1>1. CASE EraseSession(w)
    BY <1>0, <1>1, StoresAssumption DEF EraseSession, KeptStay, NoKeyBack
  <1>2. CASE EraseTokens(w)
    BY <1>0, <1>2, StoresAssumption DEF EraseTokens, KeptStay, NoKeyBack
  <1>3. CASE Finish(w)
    <2>1. \A p \in Keeps : p \notin Removed(w)
      BY DEF Removed, Leaves
    <2> QED
      BY <1>0, <1>3, <2>1 DEF Finish, KeptStay, NoKeyBack
  <1>4. CASE UNCHANGED dataVars
    BY <1>4 DEF dataVars, KeptStay, NoKeyBack
  <1> HIDE DEF Goal
  <1>5. Goal
    BY <1>1, <1>2, <1>3, <1>4
    DEF Goal, Drain, Fail, Cut, Begin, Take, EndDrain, ReadHolds, ReadThreads, EraseStore,
        RefuseStore, MeetTheCut, Abandon
  <1> QED
    BY <1>5 DEF Goal

LEMMA ReadThreadsOf ==
    ASSUME TypeInv, HoldInv, OldInv, Opened, NEW w \in Workers, ReadThreads(w)
    PROVE  OldOf(w)' /\ SessionOf(w)'
  <1>0. TypeOK /\ Whose(w) \in Subjects /\ pc[w] = "threads"
    BY WhoseType DEF TypeInv, ReadThreads
  <1>1. said[w] = Unread /\ fresh[w] = {}
    BY <1>0 DEF HoldInv, OldInv, OldOf, Late
  <1>2. /\ pc'[w] \in Late /\ old'[w] = live[Whose(w)] /\ knows'[w] = Conversed(Whose(w))
        /\ UNCHANGED <<live, taken, said, fresh>>
    BY <1>0 DEF ReadThreads, dataVars, Late, TypeOK
  <1>3. \A p \in ListedStores : said'[w][p] = "unread"
    BY <1>1, <1>2 DEF Unread
  <1>4. OldOf(w)'
    BY <1>1, <1>2, <1>3 DEF OldOf, Whose
  <1>5. SessionOf(w)'
    BY <1>0, <1>2, <1>3, StoresAssumption DEF SessionOf, Opened, Conversed
  <1> QED
    BY <1>4, <1>5

LEMMA StoreOf ==
    ASSUME TypeInv, OldInv, SessionInv, NEW w \in Workers, EraseStore(w) \/ RefuseStore(w)
    PROVE  OldOf(w)' /\ SessionOf(w)'
  <1> DEFINE store == Stores[at[w]]
  <1>0. TypeOK /\ Whose(w) \in Subjects /\ pc[w] = "store" /\ store \in ListedStores
    BY WhoseType, StoreHere DEF TypeInv, PlaceInv, AtInv, EraseStore, RefuseStore
  <1>1. /\ UNCHANGED <<live, taken, old, fresh, knows>>
        /\ pc'[w] \in Late /\ Whose(w)' = Whose(w)
    BY <1>0 DEF EraseStore, RefuseStore, AfterStore, dataVars, Late, Whose, TypeOK
  <1>2. /\ \A p \in ListedStores : p # store => said'[w][p] = said[w][p]
        /\ said'[w][store] = IF EraseStore(w) THEN Reached(w, store) ELSE "refused"
    BY <1>0 DEF EraseStore, RefuseStore, TypeOK
  <1>3. store \in Keeps /\ store \in old[w] => said'[w][store] # "removed"
    BY <1>0, <1>2 DEF Reached, Leaves, OldInv, OldOf
  <1>4. OldOf(w)'
    BY <1>0, <1>1, <1>2, <1>3 DEF OldInv, OldOf, Late
  <1>5. CASE store = "memory" /\ EraseStore(w) /\ knows[w]
    <2>1. pc'[w] = "session"
      BY <1>0, <1>5 DEF EraseStore, TypeOK
    <2> QED
      BY <1>0, <1>1, <1>4, <2>1 DEF SessionInv, SessionOf, Late
  <1>6. CASE store = "memory" /\ ~knows[w]
    BY <1>0, <1>1, <1>4, <1>6 DEF SessionInv, SessionOf, Late
  <1>7. CASE store = "memory" /\ ~EraseStore(w)
    BY <1>0, <1>1, <1>2, <1>4, <1>7 DEF SessionInv, SessionOf, Late
  <1>8. CASE store # "memory"
    BY <1>0, <1>1, <1>2, <1>4, <1>8, StoresAssumption DEF SessionInv, SessionOf, Late
  <1> QED
    BY <1>5, <1>6, <1>7, <1>8

LEMMA OutsideOf ==
    ASSUME TypeInv, OldInv, SessionInv, NEW w \in Workers, EraseSession(w) \/ EraseTokens(w)
    PROVE  OldOf(w)' /\ SessionOf(w)'
  <1>0. TypeOK /\ Whose(w) \in Subjects /\ pc[w] \in {"session", "own"}
    BY WhoseType DEF TypeInv, EraseSession, EraseTokens
  <1>1. /\ UNCHANGED <<taken, said, old, fresh, knows>>
        /\ pc'[w] \in Late /\ Whose(w)' = Whose(w)
    BY <1>0 DEF EraseSession, EraseTokens, AfterStore, Late, Whose, TypeOK
  <1>2. KeptStay /\ NoKeyBack
    BY DrainKeeps DEF Drain
  <1>3. pc[w] = "session" => "session" \notin live'[Whose(w)]
    BY <1>0 DEF EraseSession, EraseTokens, TypeOK
  <1>4. OldOf(w)'
    BY <1>0, <1>1, <1>2 DEF OldInv, OldOf, KeptStay, Late
  <1>5. SessionOf(w)'
    BY <1>0, <1>1, <1>2, <1>3 DEF SessionInv, SessionOf, NoKeyBack, Late
  <1> QED
    BY <1>4, <1>5

LEMMA IdleOf ==
    ASSUME TypeInv, OldInv, NEW w \in Workers,
           Begin(w) \/ Take(w) \/ EndDrain(w) \/ ReadHolds(w)
           \/ Finish(w) \/ MeetTheCut(w) \/ Fail(w)
    PROVE  OldOf(w)' /\ SessionOf(w)'
  <1>0. TypeOK
    BY DEF TypeInv
  <1>1. pc'[w] \notin Late
    BY <1>0 DEF Begin, Take, EndDrain, EndPass, ReadHolds, Finish, MeetTheCut, Fail, Abandon,
        Late, TypeOK
  <1>2. CASE LetGo(w)
    <2>1. old'[w] = {} /\ fresh'[w] = {}
      BY <1>0, <1>2 DEF LetGo, TypeOK
    <2> QED
      BY <1>1, <2>1 DEF OldOf, SessionOf
  <1>3. CASE UNCHANGED <<old, fresh>> /\ pc[w] \notin Late
    BY <1>1, <1>3 DEF OldInv, OldOf, SessionOf
  <1> QED
    BY <1>2, <1>3 DEF Begin, Take, EndDrain, ReadHolds, Finish, MeetTheCut, Fail, Abandon, Late

LEMMA UseOf ==
    ASSUME TypeInv, HoldInv, OldInv, SessionInv, NEW s \in Subjects, NEW p \in Written,
           Use(s, p), NEW w \in Workers
    PROVE  OldOf(w)' /\ SessionOf(w)'
  <1>0. TypeOK /\ p \in Pieces
    BY WrittenAssumption DEF TypeInv
  <1>1. /\ UNCHANGED <<pc, taken, said, knows>> /\ Whose(w)' = Whose(w)
        /\ live'[s] = live[s] \union {p} /\ \A t \in Subjects : t # s => live'[t] = live[t]
    BY <1>0 DEF Use, Whose, TypeOK
  <1>2. /\ old'[w] = IF Busy(w) /\ Whose(w) = s THEN old[w] \ {p} ELSE old[w]
        /\ fresh'[w] = IF /\ Busy(w) /\ Whose(w) = s
                          /\ p \in ListedStores /\ said[w][p] # "unread"
                       THEN fresh[w] \union {p} ELSE fresh[w]
    BY DEF Use
  <1>3. CASE pc[w] \in Late
    <2>1. Busy(w) /\ Whose(w) \in Subjects
      BY <1>3, WhoseType DEF Late
    <2>2. OldOf(w)'
      BY <1>1, <1>2, <1>3, <2>1 DEF OldInv, OldOf
    <2>3. SessionOf(w)'
      BY <1>1, <1>2, <1>3, <2>1 DEF SessionInv, SessionOf
    <2> QED
      BY <2>2, <2>3
  <1>4. CASE pc[w] \notin Late
    <2>1. said[w] = Unread
      BY <1>4 DEF HoldInv
    <2>2. p \in ListedStores => said[w][p] = "unread"
      BY <2>1 DEF Unread
    <2>3. old[w] = {} /\ fresh[w] = {}
      BY <1>4 DEF OldInv, OldOf
    <2>4. old'[w] = {} /\ fresh'[w] = {}
      BY <1>2, <2>2, <2>3
    <2> QED
      BY <1>1, <1>4, <2>4 DEF OldOf, SessionOf
  <1> QED
    BY <1>3, <1>4

LEMMA OldStep ==
    TypeInv /\ HoldInv /\ OldInv /\ SessionInv /\ [Next]_vars => OldInv' /\ SessionInv'
  <1> SUFFICES ASSUME TypeInv, HoldInv, OldInv, SessionInv, [Next]_vars
               PROVE  OldInv' /\ SessionInv'
    OBVIOUS
  <1>0. TypeOK /\ Opened
    BY DEF TypeInv, SessionInv
  <1>1. ASSUME \A w \in Workers : OldFrame(w), KeptStay, NoKeyBack, UNCHANGED opened
        PROVE  OldInv' /\ SessionInv'
    <2>1. Opened'
      BY <1>0, <1>1 DEF Opened, NoKeyBack
    <2> QED
      BY <1>1, <2>1, OldApart, SessionApart DEF OldInv, SessionInv
  <1>2. CASE UNCHANGED <<dataVars, drainVars>>
    BY <1>1, <1>2 DEF OldFrame, KeptStay, NoKeyBack, dataVars, drainVars
  <1>3. ASSUME NEW s \in Subjects, Issue(s) PROVE OldInv' /\ SessionInv'
    BY <1>0, <1>1, <1>3 DEF Issue, OldFrame, KeptStay, NoKeyBack, drainVars, TypeOK
  <1>4. ASSUME NEW s \in Subjects, NEW p \in Written, Use(s, p) PROVE OldInv' /\ SessionInv'
    <2>1. Opened'
      BY <1>0, <1>4 DEF Use, Opened, TypeOK
    <2>2. \A w \in Workers : OldOf(w)' /\ SessionOf(w)'
      BY <1>4, UseOf
    <2> QED
      BY <2>1, <2>2 DEF OldInv, SessionInv
  <1>5. CASE PersonStep
    BY <1>2, <1>3, <1>4, <1>5 DEF PersonStep, File, Place, Lift, Tick
  <1>6. ASSUME NEW w \in Workers, Drain(w) \/ Fail(w) \/ Cut(w) PROVE OldInv' /\ SessionInv'
    <2>1. KeptStay /\ NoKeyBack /\ UNCHANGED opened
      BY <1>6, DrainKeeps
    <2>2. Opened'
      BY <1>0, <2>1 DEF Opened, NoKeyBack
    <2>3. \A v \in Workers : v # w => OldOf(v)' /\ SessionOf(v)'
      BY <1>6, <2>1, OthersApart, OldApart, SessionApart
    <2>4. OldOf(w)' /\ SessionOf(w)'
      <3>1. CASE Cut(w)
        BY <2>1, <3>1, OldApart, SessionApart DEF Cut, OldFrame
      <3>2. CASE Drain(w) \/ Fail(w)
        BY <1>0, <3>2, ReadThreadsOf, StoreOf, OutsideOf, IdleOf DEF Drain
      <3> QED
        BY <1>6, <3>1, <3>2
    <2> QED
      BY <2>2, <2>3, <2>4 DEF OldInv, SessionInv
  <1>7. CASE UNCHANGED vars
    BY <1>2, <1>7 DEF vars
  <1> QED
    BY <1>5, <1>6, <1>7 DEF Next

SaysSo(w) ==
    Busy(w) /\ w \notin cut /\ outcome'[taken[w]] # outcome[taken[w]] =>
       LET removed == {s \in ListedStores : said[w][s] = "removed"}
       IN  /\ old[w] \intersect removed \intersect live'[Whose(w)] = {}
           /\ said[w]["memory"] \in {"removed", "kept"} =>
                 "session" \notin old[w] \intersect live'[Whose(w)]
           /\ live[Whose(w)] \ live'[Whose(w)] \subseteq removed

SayTrue == \A w \in Workers : SaysSo(w)

LEMMA ReportStep ==
    TypeInv /\ HandInv /\ OldInv /\ SessionInv /\ [Next]_vars => SayTrue
  <1> SUFFICES ASSUME TypeInv, HandInv, OldInv, SessionInv, [Next]_vars,
                      NEW w \in Workers, Busy(w), w \notin cut,
                      outcome'[taken[w]] # outcome[taken[w]]
               PROVE  SaysSo(w)
    BY DEF SayTrue, SaysSo
  <1>0. TypeOK /\ taken[w] \in Requests /\ outcome[taken[w]] = "open"
    BY DEF TypeInv, HandInv, Busy
  <1>1. Finish(w)
    <2>1. PICK v \in Workers : Finish(v)
      <3>1. ~PersonStep
        BY <1>0 DEF PersonStep, File, Place, Lift, Issue, Use, Tick, queueVars, TypeOK
      <3>2. outcome' # outcome
        OBVIOUS
      <3> QED
        BY <3>1, <3>2
        DEF Next, Drain, Fail, Cut, Begin, Take, EndDrain, ReadHolds, ReadThreads, EraseStore,
            RefuseStore, EraseSession, EraseTokens, MeetTheCut, Abandon, vars, queueVars
    <2>2. taken[v] = taken[w] /\ v \notin cut
      BY <1>0, <2>1 DEF Finish, TypeOK
    <2>3. v = w
      BY <1>0, <2>2 DEF HandInv
    <2> QED
      BY <2>1, <2>3
  <1>2. Whose(w) \in Subjects /\ pc[w] = "finish"
    BY <1>0, <1>1, RequestsAssumption DEF Finish, Whose
  <1>3. live'[Whose(w)] = live[Whose(w)] \ Removed(w)
    BY <1>0, <1>1, <1>2 DEF Finish, TypeOK
  <1>4. ASSUME NEW p \in old[w], p \in ListedStores, said[w][p] = "removed" PROVE p \in Removed(w)
    BY <1>4 DEF OldInv, OldOf, Removed, Leaves
  <1>5. said[w]["memory"] \in {"removed", "kept"} /\ "session" \in old[w]
        => "session" \notin live[Whose(w)]
    BY <1>2 DEF SessionInv, SessionOf, Late
  <1>6. Removed(w) \subseteq {s \in ListedStores : said[w][s] = "removed"}
    BY DEF Removed
  <1> QED
    BY <1>3, <1>4, <1>5, <1>6 DEF SaysSo

\* For any people, stores, drains and faults, a finished request says what became of
\* what was there as its drain began on it.
THEOREM ReportsAreSo == Spec => ReportsAreTrue
  <1>1. Init => HoldInv
    BY DEF Init, HoldInv, Late
  <1>2. TypeInv /\ HandInv /\ OldInv /\ SessionInv /\ [Next]_vars => [SayTrue]_vars
    BY ReportStep
  <1> QED
    BY <1>1, <1>2, OldInit, TypeInit, TypeStep, HoldStep, HandStep, OldStep, PTL
    DEF Spec, ReportsAreTrue, SayTrue, SaysSo

-----------------------------------------------------------------------------
(* The promise.  A drain that is cut has a request in hand still, and what *)
(* is in hand of one that is not is open.                                  *)

CutInv == \A w \in cut : Busy(w)

LEMMA CutStep == TypeInv /\ CutInv /\ [Next]_vars => CutInv'
  <1> SUFFICES ASSUME TypeInv, CutInv, [Next]_vars PROVE CutInv'
    OBVIOUS
  <1>0. TypeOK /\ cut \subseteq Workers
    BY DEF TypeInv, TypeOK
  <1>1. ASSUME UNCHANGED <<taken, cut>> PROVE CutInv'
    BY <1>1 DEF CutInv, Busy
  <1>2. ASSUME NEW w \in Workers, Take(w) PROVE CutInv'
    <2>1. taken'[w] \in Requests /\ UNCHANGED cut /\ \A v \in Workers : v # w => taken'[v] = taken[v]
      BY <1>0, <1>2 DEF Take, Owed, TypeOK
    <2> QED
      BY <1>0, <2>1 DEF CutInv, Busy
  <1>3. ASSUME NEW w \in Workers, LetGo(w) PROVE CutInv'
    <2>1. cut' = cut \ {w} /\ \A v \in Workers : v # w => taken'[v] = taken[v]
      BY <1>0, <1>3 DEF LetGo, TypeOK
    <2> QED
      BY <1>0, <2>1 DEF CutInv, Busy
  <1>4. ASSUME NEW w \in Workers, Cut(w) PROVE CutInv'
    BY <1>4 DEF Cut, CutInv, Busy
  <1>5. CASE PersonStep
    BY <1>1, <1>5 DEF PersonStep, File, Place, Lift, Issue, Use, Tick, drainVars
  <1>6. ASSUME NEW w \in Workers, Drain(w) \/ Fail(w) PROVE CutInv'
    BY <1>1, <1>2, <1>3, <1>6
    DEF Drain, Fail, Begin, EndDrain, ReadHolds, ReadThreads, EraseStore, RefuseStore,
        EraseSession, EraseTokens, Finish, MeetTheCut, Abandon
  <1>7. CASE UNCHANGED vars
    BY <1>1, <1>7 DEF vars, drainVars
  <1> QED
    BY <1>4, <1>5, <1>6, <1>7 DEF Next

\* A drain that lets go of its request takes it off those astray, or leaves
\* them as they are.
LEMMA LetGoReturns ==
    ASSUME TypeInv, NEW w \in Workers, LetGo(w)
    PROVE  /\ Astray' = Astray \/ (taken[w] \in Requests /\ Astray' = Astray \ {taken[w]})
           /\ w \notin cut => Astray' = Astray
  <1>1. /\ cut' = cut \ {w} /\ cut \subseteq Workers
        /\ \A v \in Workers : v # w => taken'[v] = taken[v]
    BY DEF LetGo, TypeInv, TypeOK
  <1>2. \A r \in Requests : r \in Astray' <=> \E v \in cut : v # w /\ taken[v] = r
    BY <1>1 DEF Astray
  <1>3. \A r \in Requests : r # taken[w] => (r \in Astray' <=> r \in Astray)
    BY <1>2 DEF Astray
  <1>4. Astray \subseteq Requests /\ Astray' \subseteq Requests
    BY DEF Astray
  <1>5. taken[w] \in Astray' => taken[w] \in Astray
    BY <1>2, <1>4 DEF Astray
  <1>6. w \notin cut => Astray' = Astray
    BY <1>1 DEF Astray
  <1>7. CASE taken[w] \in Requests
    BY <1>3, <1>4, <1>5, <1>6, <1>7
  <1>8. CASE taken[w] \notin Requests
    BY <1>3, <1>4, <1>6, <1>8
  <1> QED
    BY <1>6, <1>7, <1>8

\* The end of a request takes rows no hold was over, with its answer.
LEMMA FinishEnds ==
    ASSUME TypeInv, HandInv, HoldInv, NEW w \in Workers, Finish(w)
    PROVE  Promise!ENext
  <1> DEFINE r == taken[w]
  <1>1. r \in Requests /\ outcome[r] = "open" /\ w \notin cut
    BY WhoseType DEF Finish, HandInv
  <1>2. /\ outcome' = [outcome EXCEPT ![r] = OutcomeOf(w)]
        /\ live' = [live EXCEPT ![SubjectOf[r]] = @ \ Removed(w)]
        /\ UNCHANGED sends
    BY DEF Finish, Whose
  <1>3. Astray' = Astray
    BY <1>1, LetGoReturns DEF Finish
  <1>4. OutcomeOf(w) \in {"held", "incomplete", "erased"}
    BY DEF OutcomeOf
  <1>5. /\ Removed(w) \in SUBSET Pieces
        /\ Removed(w) \subseteq Pieces \ ({"session", "token"} \union Keeps)
    BY StoresAssumption DEF Removed, Leaves, Pieces
  <1>6. OutcomeOf(w) = "held" => Removed(w) = {}
    <2>1. OutcomeOf(w) = "held" => held[w] # {}
      BY DEF OutcomeOf
    <2>2. held[w] # {} => said[w] = Unread
      BY DEF HoldInv
    <2>3. said[w] = Unread => Removed(w) = {}
      BY DEF Removed, Unread
    <2> QED
      BY <2>1, <2>2, <2>3
  <1>7. Promise!End(r, Removed(w), OutcomeOf(w))
    BY <1>1, <1>2, <1>3, <1>5, <1>6 DEF Promise!End
  <1> QED
    BY <1>1, <1>4, <1>5, <1>7 DEF Promise!ENext

\* Every step is a step of ErasurePromise, or shows nothing of one.
LEMMA PromiseStep ==
    TypeInv /\ HandInv /\ HoldInv /\ CutInv /\ [Next]_vars => [Promise!ENext]_(Promise!evars)
  <1> SUFFICES ASSUME TypeInv, HandInv, HoldInv, CutInv, [Next]_vars
               PROVE  Promise!ENext \/ UNCHANGED Promise!evars
    OBVIOUS
  <1>0. TypeOK /\ cut \subseteq Workers
    BY DEF TypeInv, TypeOK
  <1>1. ASSUME UNCHANGED <<outcome, live, sends, taken, cut>> PROVE UNCHANGED Promise!evars
    BY <1>1 DEF Promise!evars, Astray
  <1>2. ASSUME NEW r \in Requests, File(r) PROVE Promise!ENext
    <2>1. Promise!File(r)
      BY <1>2 DEF File, dataVars, drainVars, Promise!File, Astray
    <2> QED
      BY <2>1 DEF Promise!ENext
  <1>3. ASSUME NEW s \in Subjects, Issue(s) PROVE Promise!ENext
    <2>1. Promise!Send(s)
      BY <1>3 DEF Issue, queueVars, drainVars, Promise!Send, Astray
    <2> QED
      BY <2>1 DEF Promise!ENext
  <1>4. ASSUME NEW s \in Subjects, NEW p \in Written, Use(s, p) PROVE Promise!ENext
    <2>1. p \in Pieces \ {"operations"}
      BY WrittenAssumption
    <2>2. Promise!Keep(s, p)
      BY <1>4 DEF Use, queueVars, Promise!Keep, Astray
    <2> QED
      BY <2>1, <2>2 DEF Promise!ENext
  <1>5. ASSUME NEW w \in Workers, NEW p \in {"session", "token"}, Busy(w),
               live' = [live EXCEPT ![Whose(w)] = @ \ {p}],
               UNCHANGED <<outcome, sends, taken, cut>>
        PROVE  Promise!ENext
    <2>1. taken[w] \in Requests /\ (outcome[taken[w]] = "open" \/ taken[w] \in Astray)
      BY <1>5 DEF HandInv, Busy, Astray
    <2>2. Promise!Slip(taken[w], p)
      BY <1>5, <2>1 DEF Promise!Slip, Whose, Astray
    <2> QED
      BY <2>1, <2>2 DEF Promise!ENext
  <1>6. ASSUME NEW w \in Workers, EraseSession(w) PROVE Promise!ENext
    <2>1. Busy(w)
      BY <1>6, WhoseType DEF EraseSession
    <2> QED
      BY <1>5, <1>6, <2>1 DEF EraseSession, queueVars
  <1>7. ASSUME NEW w \in Workers, EraseTokens(w) PROVE Promise!ENext
    <2>1. Busy(w)
      BY <1>7, WhoseType DEF EraseTokens
    <2> QED
      BY <1>5, <1>7, <2>1 DEF EraseTokens, queueVars
  <1>8. ASSUME NEW w \in Workers, Finish(w) PROVE Promise!ENext
    BY <1>8, FinishEnds
  <1>9. ASSUME NEW w \in Workers, Take(w) PROVE UNCHANGED Promise!evars
    <2>1. w \notin cut
      BY <1>9 DEF Take, CutInv, Busy, TypeInv, PlaceInv, BusyInv
    <2>2. \A v \in cut : taken'[v] = taken[v]
      BY <1>0, <1>9, <2>1 DEF Take, TypeOK
    <2> QED
      BY <1>9, <2>2 DEF Take, queueVars, dataVars, Promise!evars, Astray
  <1>10. ASSUME NEW w \in Workers, LetGo(w), UNCHANGED <<outcome, live, sends>>
         PROVE  Promise!ENext \/ UNCHANGED Promise!evars
    <2>1. CASE Astray' = Astray
      BY <1>10, <2>1 DEF Promise!evars
    <2>2. CASE taken[w] \in Requests /\ Astray' = Astray \ {taken[w]}
      BY <1>10, <2>2 DEF Promise!ENext, Promise!Return
    <2> QED
      BY <1>10, <2>1, <2>2, LetGoReturns
  <1>11. ASSUME NEW w \in Workers, MeetTheCut(w) \/ Fail(w)
         PROVE  Promise!ENext \/ UNCHANGED Promise!evars
    BY <1>10, <1>11 DEF MeetTheCut, Fail, Abandon, queueVars, dataVars
  <1>12. ASSUME NEW w \in Workers, Cut(w) PROVE Promise!ENext
    <2>1. taken[w] \in Requests /\ outcome[taken[w]] = "open"
      BY <1>12 DEF Cut, Busy, HandInv
    <2>2. Astray' = Astray \union {taken[w]}
      BY <1>12, <2>1 DEF Cut, Astray
    <2>3. Promise!Stray(taken[w])
      BY <1>12, <2>1, <2>2 DEF Cut, queueVars, dataVars, Promise!Stray
    <2> QED
      BY <2>1, <2>3 DEF Promise!ENext
  <1>13. CASE PersonStep
    BY <1>1, <1>2, <1>3, <1>4, <1>13 DEF PersonStep, Place, Lift, Tick, queueVars, dataVars, drainVars
  <1>14. ASSUME NEW w \in Workers, Drain(w) PROVE Promise!ENext \/ UNCHANGED Promise!evars
    BY <1>1, <1>6, <1>7, <1>8, <1>9, <1>11, <1>14
    DEF Drain, Begin, EndDrain, ReadHolds, ReadThreads, EraseStore, RefuseStore, queueVars, dataVars
  <1>15. CASE UNCHANGED vars
    BY <1>1, <1>15 DEF vars, queueVars, dataVars, drainVars
  <1> QED
    BY <1>11, <1>12, <1>13, <1>14, <1>15 DEF Next

\* For any requests, people, stores, holds, drains and faults, the erasure queue
\* implements ErasurePromise.
THEOREM ImplementsThePromise == Spec => KeepsThePromise
  <1>1. Init => Promise!EInit
    <2> SUFFICES ASSUME Init PROVE Promise!EInit
      OBVIOUS
    <2>1. live \in [Subjects -> SUBSET (Pieces \ {"operations"})]
      BY DEF Init
    <2>2. Astray = {}
      BY DEF Init, Astray
    <2> QED
      BY <2>1, <2>2 DEF Init, Promise!EInit
  <1>2. Init => HoldInv /\ CutInv
    BY DEF Init, HoldInv, Late, CutInv
  <1> QED
    BY <1>1, <1>2, OldInit, TypeInit, TypeStep, HoldStep, HandStep, CutStep, PromiseStep, PTL
    DEF Spec, KeepsThePromise, Promise!ESpec

=============================================================================
