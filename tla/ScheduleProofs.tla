--------------------------- MODULE ScheduleProofs ---------------------------
(***************************************************************************)
(* Proofs about Schedule for any controls, intervals and processes.        *)
(*                                                                         *)
(* PhaseInv: what a process holds in each phase of a tick.                 *)
(* HoldInv: a process that is in a run of a control holds its lock, until  *)
(* something ends the transaction under it and it is adrift.               *)
(* DriftInv: who is adrift is still in that run, and has no lock.          *)
(* OwedInv: what a process has chosen and not come to is owed, or was      *)
(* asked for, or was recorded by another process since it read the clocks. *)
(***************************************************************************)
EXTENDS Schedule, TLAPS

PhaseInv ==
    \A p \in Processes :
        /\ phase[p] \notin {"running", "stopping"} => inside[p] = NoControl
        /\ phase[p] \in {"running", "ended"} => current[p] \in Controls
        /\ phase[p] \notin {"running", "ended"} => current[p] = NoControl
        /\ phase[p] = "running" => inside[p] = current[p]
        /\ ~Awake(p) => todo[p] = {}

HoldInv ==
    \A p \in Processes \ adrift :
        /\ inside[p] # NoControl => lock[inside[p]] = p
        /\ phase[p] = "ended" => lock[current[p]] = p

DriftInv ==
    \A p \in adrift :
        /\ phase[p] \in {"running", "ended", "stopping"}
        /\ phase[p] = "stopping" => inside[p] # NoControl
        /\ \A c \in Controls : lock[c] # p

OwedInv ==
    \A p \in Processes : \A c \in todo[p] :
        tried[c] >= Every[c] \/ c \in asked[p] \/ c \in overtaken[p]

IInv == TypeOK /\ PhaseInv /\ HoldInv /\ DriftInv /\ OwedInv

Phases == {"sleeping", "ticking", "running", "ended", "stopping", "down"}

\* A process starts asleep, and every control has waited its interval.
LEMMA InvInit == Init => IInv
<1> SUFFICES ASSUME Init PROVE IInv
    OBVIOUS
<1>1. TypeOK
    BY EveryAssumption DEF Init, TypeOK
<1>2. PhaseInv /\ HoldInv /\ DriftInv /\ OwedInv
    BY DEF Init, PhaseInv, HoldInv, DriftInv, OwedInv, Awake
<1> QED BY <1>1, <1>2 DEF IInv

\* An age stays an age, and does not shrink.
LEMMA OlderIsAnAge == \A age \in 0 .. Longest : Older(age) \in 0 .. Longest /\ Older(age) >= age
BY EveryAssumption DEF Older

\* Giving back a lock leaves alone what other processes hold.
LEMMA LetGoLocks ==
    ASSUME TypeOK, NEW p \in Processes, LetGo(p)
    PROVE  /\ lock' \in [Controls -> Processes \union {NoProcess}]
           /\ \A c \in Controls : lock[c] # p => lock'[c] = lock[c]
           /\ \A c \in Controls : lock'[c] # p
BY NamesAssumption DEF LetGo, TypeOK

\* Leaving a tick or a job touches what that process holds, and nothing else.
LEMMA LeaveHolds ==
    ASSUME TypeOK, NEW p \in Processes, NEW next \in Phases, Leave(p, next)
    PROVE  /\ phase' \in [Processes -> Phases] /\ todo' \in [Processes -> SUBSET Controls]
           /\ asked' \in [Processes -> SUBSET Controls]
           /\ reporting' \in [Processes -> SUBSET Controls]
           /\ began' \in [Processes -> 0 .. Longest]
           /\ current' \in [Processes -> Controls \union {NoControl}]
           /\ outcome' \in [Processes -> {"none", "ok", "failed", "refused"}]
           /\ fresh' \in [Processes -> SUBSET Controls]
           /\ overtaken' \in [Processes -> SUBSET Controls]
           /\ phase'[p] = next /\ todo'[p] = {} /\ current'[p] = NoControl
           /\ \A q \in Processes \ {p} :
                 /\ phase'[q] = phase[q] /\ todo'[q] = todo[q] /\ current'[q] = current[q]
                 /\ asked'[q] = asked[q] /\ overtaken'[q] = overtaken[q]
BY DEF Leave, TypeOK, Phases

\* Recording a run takes it off that process's list, and every other process
\* in a tick is overtaken in it.  No other control's attempt clock moves.
LEMMA RecordHolds ==
    ASSUME TypeOK, NEW p \in Processes, NEW c \in Controls, Record(p, c)
    PROVE  /\ tried' \in [Controls -> 0 .. Longest] /\ worked' \in [Controls -> 0 .. Longest]
           /\ wanted' \subseteq Controls
           /\ phase' \in [Processes -> Phases] /\ todo' \in [Processes -> SUBSET Controls]
           /\ current' \in [Processes -> Controls \union {NoControl}]
           /\ outcome' \in [Processes -> {"none", "ok", "failed", "refused"}]
           /\ overtaken' \in [Processes -> SUBSET Controls]
           /\ \A d \in Controls \ {c} : tried'[d] = tried[d]
           /\ phase'[p] = "ticking" /\ todo'[p] = todo[p] \ {c} /\ overtaken'[p] = overtaken[p]
           /\ current'[p] = NoControl
           /\ \A q \in Processes \ {p} :
                 /\ phase'[q] = phase[q] /\ todo'[q] = todo[q] /\ current'[q] = current[q]
                 /\ Awake(q) => overtaken'[q] = overtaken[q] \union {c}
<1> USE EveryAssumption
<1>1. tried[c] \in 0 .. Longest /\ began[p] \in 0 .. Longest
    BY DEF TypeOK
<1>2. Newer(tried[c], began[p]) \in 0 .. Longest
    BY <1>1 DEF Newer
<1>3. tried' \in [Controls -> 0 .. Longest] /\ worked' \in [Controls -> 0 .. Longest]
    BY <1>2 DEF Record, TypeOK
<1>4. wanted' \subseteq Controls
    BY DEF Record, TypeOK
<1>5. /\ phase' \in [Processes -> Phases] /\ todo' \in [Processes -> SUBSET Controls]
      /\ current' \in [Processes -> Controls \union {NoControl}]
      /\ outcome' \in [Processes -> {"none", "ok", "failed", "refused"}]
    BY DEF Record, TypeOK, Phases
<1>6. /\ overtaken' \in [Processes -> SUBSET Controls]
      /\ overtaken'[p] = overtaken[p]
      /\ \A q \in Processes \ {p} : Awake(q) => overtaken'[q] = overtaken[q] \union {c}
    BY DEF Record, TypeOK
<1>7. \A d \in Controls \ {c} : tried'[d] = tried[d]
    BY DEF Record, TypeOK
<1>8. /\ phase'[p] = "ticking" /\ todo'[p] = todo[p] \ {c} /\ current'[p] = NoControl
      /\ \A q \in Processes \ {p} :
             phase'[q] = phase[q] /\ todo'[q] = todo[q] /\ current'[q] = current[q]
    BY DEF Record, TypeOK
<1> QED BY <1>3, <1>4, <1>5, <1>6, <1>7, <1>8

\* A process sets out on controls that are owed, or that it was asked for.
LEMMA SettingOut ==
    ASSUME TypeOK, NEW p \in Processes, ReadClocks(p) \/ \E c \in Controls : TakeJob(p, c)
    PROVE  \E names \in SUBSET Controls, by \in SUBSET Controls :
              /\ SetOut(p, names, by) /\ phase[p] = "sleeping"
              /\ \A c \in names : tried[c] >= Every[c] \/ c \in by
<1>1. CASE ReadClocks(p)
    <2>1. Chosen \in SUBSET Controls /\ wanted \in SUBSET Controls
        BY DEF Chosen, TypeOK
    <2>2. \A c \in Chosen : tried[c] >= Every[c] \/ c \in wanted
        BY DEF Chosen, Due
    <2> QED BY <1>1, <2>1, <2>2 DEF ReadClocks
<1>2. CASE \E c \in Controls : TakeJob(p, c)
    <2>1. PICK c \in Controls : TakeJob(p, c)
        BY <1>2
    <2>2. {c} \in SUBSET Controls /\ \A d \in {c} : d \in {c}
        OBVIOUS
    <2> QED BY <2>1, <2>2 DEF TakeJob
<1> QED BY <1>1, <1>2

\* Every variable keeps its type.
LEMMA TypeStep == TypeOK /\ PhaseInv /\ [Next]_vars => TypeOK'
<1> SUFFICES ASSUME TypeOK, PhaseInv, [Next]_vars PROVE TypeOK'
    OBVIOUS
<1> USE DEF records, people, tick, run, since, failures
<1> USE EveryAssumption, SubsetAssumption, NamesAssumption
<1>1. CASE UNCHANGED vars
    BY <1>1 DEF vars, TypeOK
<1>2. CASE TimePasses
    BY <1>2, OlderIsAnAge DEF TimePasses, TypeOK
<1>3. ASSUME NEW c \in Askable, Pause(c) PROVE TypeOK'
    BY <1>3 DEF Pause, TypeOK
<1>4. ASSUME NEW c \in Askable, RequestRun(c) PROVE TypeOK'
    BY <1>4 DEF RequestRun, TypeOK
<1>5. ASSUME NEW c \in Destructive, ReleaseOrWithdraw(c) PROVE TypeOK'
    BY <1>5 DEF ReleaseOrWithdraw, TypeOK
<1>6. ASSUME NEW p \in Processes, ReadClocks(p) \/ (\E c \in Controls : TakeJob(p, c))
      PROVE  TypeOK'
    <2>1. PICK names \in SUBSET Controls, by \in SUBSET Controls : SetOut(p, names, by)
        BY <1>6, SettingOut
    <2>2. Destructive \ released \in SUBSET Controls /\ 0 \in 0 .. Longest
        BY DEF TypeOK
    <2> QED BY <2>1, <2>2 DEF SetOut, TypeOK, records, people, failures
<1>7. ASSUME NEW p \in Processes, TickEnds(p)
      PROVE  TypeOK'
    BY <1>7, LeaveHolds DEF TickEnds, Phases, TypeOK
<1>8. ASSUME NEW p \in Processes, FinishRefused(p)
      PROVE  TypeOK'
    BY <1>8, LeaveHolds DEF FinishRefused, Phases, TypeOK
<1>9. ASSUME NEW p \in Processes, TickAborts(p)
      PROVE  TypeOK'
    BY <1>9, LeaveHolds DEF TickAborts, Phases, TypeOK
<1>10. ASSUME NEW p \in Processes, Stop(p)
       PROVE  TypeOK'
    BY <1>10, LeaveHolds, LetGoLocks DEF Stop, Phases, TypeOK
<1>11. ASSUME NEW p \in Processes, Crash(p)
       PROVE  TypeOK'
    BY <1>11, LeaveHolds, LetGoLocks DEF Crash, Phases, TypeOK
<1>12. ASSUME NEW p \in Processes, NEW c \in Controls, Start(p, c)
       PROVE  TypeOK'
    BY <1>12 DEF Start, TypeOK
<1>13. ASSUME NEW p \in Processes, NEW c \in Controls, LockedElsewhere(p, c)
       PROVE  TypeOK'
    BY <1>13 DEF LockedElsewhere, TypeOK
<1>14. ASSUME NEW p \in Processes, NEW how \in {"ok", "failed"}, BodyEnds(p, how)
       PROVE  TypeOK'
    BY <1>14 DEF BodyEnds, TypeOK
<1>15. ASSUME NEW p \in Processes, Finish(p)
       PROVE  TypeOK'
    <2>1. current[p] \in Controls
        BY <1>15 DEF Finish, PhaseInv
    <2>2. Record(p, current[p]) /\ LetGo(p) /\ UNCHANGED <<inside, failures>>
        BY <1>15 DEF Finish
    <2>3. UNCHANGED <<paused, released, asked, reporting, began, fresh>>
        BY <2>2 DEF Record
    <2>4. lock' \in [Controls -> Processes \union {NoProcess}]
        BY <2>2, LetGoLocks
    <2> QED BY <2>1, <2>2, <2>3, <2>4, RecordHolds DEF Phases, TypeOK, failures
<1>16. ASSUME NEW p \in Processes, ConnectionCut(p)
       PROVE  TypeOK'
    BY <1>16, LetGoLocks DEF ConnectionCut, TypeOK
<1>17. ASSUME NEW p \in Processes, ThreadEnds(p)
       PROVE  TypeOK'
    BY <1>17 DEF ThreadEnds, TypeOK
<1>18. ASSUME NEW p \in Processes, Restart(p)
       PROVE  TypeOK'
    BY <1>18 DEF Restart, TypeOK
<1> QED
    BY <1>1, <1>2, <1>3, <1>4, <1>5, <1>6, <1>7, <1>8, <1>9, <1>10, <1>11, <1>12, <1>13, <1>14,
       <1>15, <1>16, <1>17, <1>18
       DEF Next, Ticking, Failure, Person, Processes

\* A process holds what its phase says it holds.
LEMMA PhaseStep == TypeOK /\ PhaseInv /\ [Next]_vars => PhaseInv'
<1> SUFFICES ASSUME TypeOK, PhaseInv, [Next]_vars PROVE PhaseInv'
    OBVIOUS
<1> USE DEF records, people, tick, run, since, failures
<1> USE NamesAssumption
<1>1. CASE UNCHANGED vars
    BY <1>1 DEF vars, PhaseInv, Awake, TypeOK
<1>2. CASE TimePasses
    BY <1>2 DEF TimePasses, PhaseInv, Awake, TypeOK
<1>3. ASSUME NEW c \in Askable, Pause(c) PROVE PhaseInv'
    BY <1>3 DEF Pause, PhaseInv, Awake, TypeOK
<1>4. ASSUME NEW c \in Askable, RequestRun(c) PROVE PhaseInv'
    BY <1>4 DEF RequestRun, PhaseInv, Awake, TypeOK
<1>5. ASSUME NEW c \in Destructive, ReleaseOrWithdraw(c) PROVE PhaseInv'
    BY <1>5 DEF ReleaseOrWithdraw, PhaseInv, Awake, TypeOK
<1>6. ASSUME NEW p \in Processes, ReadClocks(p) \/ (\E c \in Controls : TakeJob(p, c))
      PROVE  PhaseInv'
    BY <1>6, SettingOut DEF SetOut, PhaseInv, Awake, TypeOK
<1>7. ASSUME NEW p \in Processes, TickEnds(p)
      PROVE  PhaseInv'
    BY <1>7, LeaveHolds DEF TickEnds, Phases, PhaseInv, Awake, TypeOK
<1>8. ASSUME NEW p \in Processes, FinishRefused(p)
      PROVE  PhaseInv'
    BY <1>8, LeaveHolds DEF FinishRefused, Phases, PhaseInv, Awake, TypeOK
<1>9. ASSUME NEW p \in Processes, TickAborts(p)
      PROVE  PhaseInv'
    BY <1>9, LeaveHolds, SMTT(30) DEF TickAborts, Phases, PhaseInv, Awake, TypeOK
<1>10. ASSUME NEW p \in Processes, Stop(p)
       PROVE  PhaseInv'
    BY <1>10, LeaveHolds DEF Stop, Phases, PhaseInv, Awake, TypeOK
<1>11. ASSUME NEW p \in Processes, Crash(p)
       PROVE  PhaseInv'
    BY <1>11, LeaveHolds DEF Crash, Phases, PhaseInv, Awake, TypeOK
<1>12. ASSUME NEW p \in Processes, NEW c \in Controls, Start(p, c)
       PROVE  PhaseInv'
    BY <1>12 DEF Start, PhaseInv, Awake, TypeOK
<1>13. ASSUME NEW p \in Processes, NEW c \in Controls, LockedElsewhere(p, c)
       PROVE  PhaseInv'
    BY <1>13 DEF LockedElsewhere, PhaseInv, Awake, TypeOK
<1>14. ASSUME NEW p \in Processes, NEW how \in {"ok", "failed"}, BodyEnds(p, how)
       PROVE  PhaseInv'
    BY <1>14 DEF BodyEnds, PhaseInv, Awake, TypeOK
<1>15. ASSUME NEW p \in Processes, Finish(p)
       PROVE  PhaseInv'
    <2>1. current[p] \in Controls
        BY <1>15 DEF Finish, PhaseInv
    <2> QED BY <1>15, <2>1, RecordHolds DEF Finish, Phases, PhaseInv, Awake, TypeOK
<1>16. ASSUME NEW p \in Processes, ConnectionCut(p)
       PROVE  PhaseInv'
    BY <1>16 DEF ConnectionCut, PhaseInv, Awake, TypeOK
<1>17. ASSUME NEW p \in Processes, ThreadEnds(p)
       PROVE  PhaseInv'
    BY <1>17 DEF ThreadEnds, PhaseInv, Awake, TypeOK
<1>18. ASSUME NEW p \in Processes, Restart(p)
       PROVE  PhaseInv'
    BY <1>18 DEF Restart, PhaseInv, Awake, TypeOK
<1> QED
    BY <1>1, <1>2, <1>3, <1>4, <1>5, <1>6, <1>7, <1>8, <1>9, <1>10, <1>11, <1>12, <1>13, <1>14,
       <1>15, <1>16, <1>17, <1>18
       DEF Next, Ticking, Failure, Person, Processes

\* Who leaves a tick or a job, and is in no body or adrift in one, takes no lock of
\* another.
LEMMA LeavingHolds ==
    ASSUME TypeOK, PhaseInv, HoldInv, NEW p \in Processes, NEW next \in Phases \ {"ended"}, Leave(p, next),
           \A c \in Controls : lock[c] # p => lock'[c] = lock[c],
           \A q \in Processes \ {p} : inside'[q] = inside[q] /\ (q \in adrift => q \in adrift'),
           inside'[p] = NoControl \/ p \in adrift'
    PROVE  HoldInv'
<1> SUFFICES ASSUME NEW q \in Processes \ adrift'
             PROVE  /\ inside'[q] # NoControl => lock'[inside'[q]] = q
                    /\ phase'[q] = "ended" => lock'[current'[q]] = q
    BY DEF HoldInv
<1>1. CASE q = p
    BY <1>1, LeaveHolds
<1>2. CASE q # p
    <2>1. q \in Processes \ adrift
        BY <1>2
    <2>2. phase'[q] = phase[q] /\ current'[q] = current[q] /\ inside'[q] = inside[q]
        BY <1>2, LeaveHolds
    <2>3. \A c \in Controls : lock[c] = q => lock'[c] = q
        BY <1>2
    <2>4. (inside[q] # NoControl => inside[q] \in Controls) /\ (phase[q] = "ended" => current[q] \in Controls)
        BY DEF TypeOK, PhaseInv
    <2> QED BY <2>1, <2>2, <2>3, <2>4 DEF HoldInv
<1> QED BY <1>1, <1>2

\* A body is entered with the lock taken, which stays until it is left.
LEMMA HoldStep == TypeOK /\ PhaseInv /\ HoldInv /\ [Next]_vars => HoldInv'
<1> SUFFICES ASSUME TypeOK, PhaseInv, HoldInv, [Next]_vars PROVE HoldInv'
    OBVIOUS
<1> USE DEF records, people, tick, run, since, failures
<1> USE NamesAssumption
<1>1. CASE UNCHANGED vars
    BY <1>1 DEF vars, HoldInv, TypeOK
<1>2. CASE TimePasses
    BY <1>2 DEF TimePasses, HoldInv, TypeOK
<1>3. ASSUME NEW c \in Askable, Pause(c) PROVE HoldInv'
    BY <1>3 DEF Pause, HoldInv, TypeOK
<1>4. ASSUME NEW c \in Askable, RequestRun(c) PROVE HoldInv'
    BY <1>4 DEF RequestRun, HoldInv, TypeOK
<1>5. ASSUME NEW c \in Destructive, ReleaseOrWithdraw(c) PROVE HoldInv'
    BY <1>5 DEF ReleaseOrWithdraw, HoldInv, TypeOK
<1>6. ASSUME NEW p \in Processes, ReadClocks(p) \/ (\E c \in Controls : TakeJob(p, c))
      PROVE  HoldInv'
    BY <1>6, SettingOut DEF SetOut, HoldInv, TypeOK
<1>7. ASSUME NEW p \in Processes, TickEnds(p)
      PROVE  HoldInv'
    BY <1>7, LeavingHolds DEF TickEnds, Phases, PhaseInv
<1>8. ASSUME NEW p \in Processes, FinishRefused(p)
      PROVE  HoldInv'
    BY <1>8, LeavingHolds DEF FinishRefused, Phases, PhaseInv
<1>9. ASSUME NEW p \in Processes, TickAborts(p)
      PROVE  HoldInv'
    BY <1>9, LeavingHolds DEF TickAborts, Phases, PhaseInv
<1>10. ASSUME NEW p \in Processes, Stop(p)
       PROVE  HoldInv'
    <2>1. \A c \in Controls : lock[c] # p => lock'[c] = lock[c]
        BY <1>10, LetGoLocks DEF Stop
    <2>2. inside'[p] = NoControl \/ p \in adrift'
        BY <1>10 DEF Stop
    <2> QED BY <1>10, <2>1, <2>2, LeavingHolds DEF Stop, Phases
<1>11. ASSUME NEW p \in Processes, Crash(p)
       PROVE  HoldInv'
    <2>1. \A c \in Controls : lock[c] # p => lock'[c] = lock[c]
        BY <1>11, LetGoLocks DEF Crash
    <2>2. \A q \in Processes \ {p} : inside'[q] = inside[q] /\ (q \in adrift => q \in adrift')
        BY <1>11 DEF Crash, TypeOK
    <2>3. inside'[p] = NoControl
        BY <1>11 DEF Crash, TypeOK
    <2> QED BY <1>11, <2>1, <2>2, <2>3, LeavingHolds DEF Crash, Phases
<1>12. ASSUME NEW p \in Processes, NEW c \in Controls, Start(p, c)
       PROVE  HoldInv'
    BY <1>12 DEF Start, HoldInv, TypeOK
<1>13. ASSUME NEW p \in Processes, NEW c \in Controls, LockedElsewhere(p, c)
       PROVE  HoldInv'
    BY <1>13 DEF LockedElsewhere, HoldInv, TypeOK
<1>14. ASSUME NEW p \in Processes, NEW how \in {"ok", "failed"}, BodyEnds(p, how)
       PROVE  HoldInv'
    BY <1>14 DEF BodyEnds, HoldInv, PhaseInv, TypeOK
<1>15. ASSUME NEW p \in Processes, Finish(p)
       PROVE  HoldInv'
    <2>1. /\ inside[p] = NoControl /\ current[p] \in Controls /\ UNCHANGED <<inside, adrift>>
          /\ Record(p, current[p])
        BY <1>15 DEF Finish, PhaseInv
    <2>2. /\ phase'[p] = "ticking"
          /\ \A q \in Processes \ {p} : phase'[q] = phase[q] /\ current'[q] = current[q]
        BY <2>1, RecordHolds
    <2>3. \A c \in Controls : lock[c] # p => lock'[c] = lock[c]
        BY <1>15, LetGoLocks DEF Finish
    <2>4. \A q \in Processes : /\ inside[q] # NoControl => inside[q] \in Controls
                               /\ phase[q] = "ended" => current[q] \in Controls
        BY DEF TypeOK, PhaseInv
    <2> QED BY <2>1, <2>2, <2>3, <2>4 DEF HoldInv
<1>16. ASSUME NEW p \in Processes, ConnectionCut(p)
       PROVE  HoldInv'
    <2>1. \A c \in Controls : lock[c] # p => lock'[c] = lock[c]
        BY <1>16, LetGoLocks DEF ConnectionCut
    <2>2. \A q \in Processes : /\ inside[q] # NoControl => inside[q] \in Controls
                               /\ phase[q] = "ended" => current[q] \in Controls
        BY DEF TypeOK, PhaseInv
    <2> QED BY <1>16, <2>1, <2>2 DEF ConnectionCut, HoldInv
<1>17. ASSUME NEW p \in Processes, ThreadEnds(p)
       PROVE  HoldInv'
    BY <1>17 DEF ThreadEnds, HoldInv, TypeOK
<1>18. ASSUME NEW p \in Processes, Restart(p)
       PROVE  HoldInv'
    BY <1>18 DEF Restart, HoldInv, TypeOK
<1> QED
    BY <1>1, <1>2, <1>3, <1>4, <1>5, <1>6, <1>7, <1>8, <1>9, <1>10, <1>11, <1>12, <1>13, <1>14,
       <1>15, <1>16, <1>17, <1>18
       DEF Next, Ticking, Failure, Person, Processes

\* Who leaves a run is adrift only in the body of a control, and takes no lock.
LEMMA LeavingDrifts ==
    ASSUME TypeOK, DriftInv, NEW p \in Processes, NEW next \in Phases, Leave(p, next),
           \A c \in Controls : lock'[c] # p \/ p \notin adrift',
           \A c \in Controls : lock[c] # p => lock'[c] = lock[c],
           \A c \in Controls : lock'[c] = lock[c] \/ lock'[c] = NoProcess,
           \A q \in Processes \ {p} : inside'[q] = inside[q], adrift' \subseteq adrift \union {p},
           p \in adrift' => next = "stopping" /\ inside'[p] # NoControl
    PROVE  DriftInv'
<1> SUFFICES ASSUME NEW q \in adrift'
             PROVE  /\ phase'[q] \in {"running", "ended", "stopping"}
                    /\ phase'[q] = "stopping" => inside'[q] # NoControl
                    /\ \A c \in Controls : lock'[c] # q
    BY DEF DriftInv
<1>1. CASE q = p
    BY <1>1, LeaveHolds
<1>2. CASE q # p
    <2>1. q \in adrift /\ q \in Processes
        BY <1>2 DEF TypeOK
    <2>2. phase'[q] = phase[q] /\ inside'[q] = inside[q]
        BY <1>2, <2>1, LeaveHolds
    <2> QED BY <2>1, <2>2, NamesAssumption DEF DriftInv
<1> QED BY <1>1, <1>2

\* Nobody takes a lock while adrift, or goes on to another control.
LEMMA DriftStep == TypeOK /\ PhaseInv /\ HoldInv /\ DriftInv /\ [Next]_vars => DriftInv'
<1> SUFFICES ASSUME TypeOK, PhaseInv, HoldInv, DriftInv, [Next]_vars PROVE DriftInv'
    OBVIOUS
<1> USE DEF records, people, tick, run, since, failures
<1> USE NamesAssumption
<1>1. CASE UNCHANGED <<phase, inside, lock, adrift>>
    BY <1>1 DEF DriftInv
<1>2. ASSUME NEW p \in Processes, ReadClocks(p) \/ (\E c \in Controls : TakeJob(p, c))
      PROVE  DriftInv'
    <2>1. PICK names \in SUBSET Controls, by \in SUBSET Controls :
              SetOut(p, names, by) /\ phase[p] = "sleeping"
        BY <1>2, SettingOut
    <2>2. UNCHANGED <<lock, inside, adrift>> /\ \A q \in Processes \ {p} : phase'[q] = phase[q]
        BY <2>1 DEF SetOut, TypeOK
    <2>3. p \notin adrift /\ adrift \subseteq Processes
        BY <2>1 DEF DriftInv, TypeOK
    <2> QED BY <2>2, <2>3 DEF DriftInv
<1>3. ASSUME NEW p \in Processes, LetGo(p)
      PROVE  /\ \A c \in Controls : lock'[c] # p
             /\ \A c \in Controls : lock[c] # p => lock'[c] = lock[c]
             /\ \A c \in Controls : lock'[c] = lock[c] \/ lock'[c] = NoProcess
    BY <1>3, LetGoLocks DEF LetGo
<1>4. ASSUME NEW p \in Processes, TickEnds(p)
      PROVE  DriftInv'
    BY <1>4, LeavingDrifts DEF TickEnds, Phases, DriftInv
<1>5. ASSUME NEW p \in Processes, FinishRefused(p)
      PROVE  DriftInv'
    BY <1>5, LeavingDrifts DEF FinishRefused, Phases
<1>6. ASSUME NEW p \in Processes, TickAborts(p)
      PROVE  DriftInv'
    BY <1>6, LeavingDrifts DEF TickAborts, Phases, DriftInv
<1>7. ASSUME NEW p \in Processes, Stop(p)
      PROVE  DriftInv'
    <2>1. Leave(p, "stopping") /\ inside' = inside /\ LetGo(p)
        BY <1>7 DEF Stop
    <2>2. adrift' \subseteq adrift \union {p} /\ (p \in adrift' => inside[p] # NoControl)
        BY <1>7 DEF Stop
    <2> QED BY <2>1, <2>2, <1>3, LeavingDrifts DEF Phases
<1>8. ASSUME NEW p \in Processes, Crash(p)
      PROVE  DriftInv'
    <2>1. Leave(p, "down") /\ LetGo(p)
        BY <1>8 DEF Crash
    <2>2. \A q \in Processes \ {p} : inside'[q] = inside[q]
        BY <1>8 DEF Crash, TypeOK
    <2>3. adrift' = adrift \ {p}
        BY <1>8 DEF Crash
    <2> QED BY <2>1, <2>2, <2>3, <1>3, LeavingDrifts DEF Phases
<1>9. ASSUME NEW p \in Processes, NEW c \in Controls, Start(p, c)
      PROVE  DriftInv'
    BY <1>9 DEF Start, DriftInv, TypeOK
<1>10. ASSUME NEW p \in Processes, NEW how \in {"ok", "failed"}, BodyEnds(p, how)
       PROVE  DriftInv'
    BY <1>10 DEF BodyEnds, DriftInv, TypeOK
<1>11. ASSUME NEW p \in Processes, Finish(p)
       PROVE  DriftInv'
    <2>1. current[p] \in Controls /\ Record(p, current[p]) /\ UNCHANGED <<inside, adrift>>
        BY <1>11 DEF Finish, PhaseInv
    <2>2. p \notin adrift
        BY <1>11, <2>1 DEF Finish, DriftInv
    <2>3. \A q \in Processes \ {p} : phase'[q] = phase[q]
        BY <2>1, RecordHolds
    <2>4. \A c \in Controls : lock'[c] = lock[c] \/ lock'[c] = NoProcess
        BY <1>11, <1>3 DEF Finish
    <2>5. adrift \subseteq Processes
        BY DEF TypeOK
    <2> QED BY <2>1, <2>2, <2>3, <2>4, <2>5 DEF DriftInv
<1>12. ASSUME NEW p \in Processes, ConnectionCut(p)
       PROVE  DriftInv'
    <2>1. UNCHANGED <<phase, inside>> /\ adrift' = adrift \union {p} /\ phase[p] \in {"running", "ended"}
        BY <1>12 DEF ConnectionCut
    <2>2. /\ \A c \in Controls : lock'[c] # p
          /\ \A c \in Controls : lock'[c] = lock[c] \/ lock'[c] = NoProcess
        BY <1>12, <1>3 DEF ConnectionCut
    <2>3. adrift \subseteq Processes
        BY DEF TypeOK
    <2> QED BY <2>1, <2>2, <2>3 DEF DriftInv
<1>13. ASSUME NEW p \in Processes, ThreadEnds(p)
       PROVE  DriftInv'
    BY <1>13 DEF ThreadEnds, DriftInv, TypeOK
<1>14. ASSUME NEW p \in Processes, Restart(p)
       PROVE  DriftInv'
    BY <1>14 DEF Restart, DriftInv, TypeOK
<1> QED
    BY <1>1, <1>2, <1>4, <1>5, <1>6, <1>7, <1>8, <1>9, <1>10, <1>11, <1>12, <1>13, <1>14
       DEF Next, Ticking, Failure, Person, Processes, vars, TimePasses, Pause, RequestRun,
           ReleaseOrWithdraw, LockedElsewhere

\* A chosen control stays owed until somebody else's run of it is recorded.
LEMMA OwedStep == TypeOK /\ PhaseInv /\ OwedInv /\ [Next]_vars => OwedInv'
<1> SUFFICES ASSUME TypeOK, PhaseInv, OwedInv, [Next]_vars PROVE OwedInv'
    OBVIOUS
<1> USE DEF records, people, tick, run, since, failures
<1>1. CASE UNCHANGED vars
    BY <1>1 DEF vars, OwedInv, TypeOK
<1>2. CASE TimePasses
    <2>1. \A c \in Controls : tried'[c] >= tried[c]
        BY <1>2, OlderIsAnAge DEF TimePasses, TypeOK
    <2>2. \A c \in Controls : tried[c] \in Nat /\ tried'[c] \in Nat /\ Every[c] \in Nat
        BY <1>2, OlderIsAnAge, EveryAssumption DEF TimePasses, TypeOK
    <2>3. UNCHANGED <<todo, asked, overtaken>>
        BY <1>2 DEF TimePasses, since
    <2> QED BY <2>1, <2>2, <2>3 DEF OwedInv, TypeOK
<1>3. ASSUME NEW c \in Askable, Pause(c) PROVE OwedInv'
    BY <1>3 DEF Pause, OwedInv, TypeOK
<1>4. ASSUME NEW c \in Askable, RequestRun(c) PROVE OwedInv'
    BY <1>4 DEF RequestRun, OwedInv, TypeOK
<1>5. ASSUME NEW c \in Destructive, ReleaseOrWithdraw(c) PROVE OwedInv'
    BY <1>5 DEF ReleaseOrWithdraw, OwedInv, TypeOK
<1>6. ASSUME NEW p \in Processes, ReadClocks(p) \/ (\E c \in Controls : TakeJob(p, c))
      PROVE  OwedInv'
    BY <1>6, SettingOut DEF SetOut, OwedInv, TypeOK
<1>7. ASSUME NEW p \in Processes, TickEnds(p)
      PROVE  OwedInv'
    <2>1. UNCHANGED tried
        BY <1>7 DEF TickEnds, records
    <2> QED BY <1>7, <2>1, LeaveHolds DEF TickEnds, Phases, OwedInv
<1>8. ASSUME NEW p \in Processes, FinishRefused(p)
      PROVE  OwedInv'
    <2>1. UNCHANGED tried
        BY <1>8 DEF FinishRefused, records
    <2> QED BY <1>8, <2>1, LeaveHolds DEF FinishRefused, Phases, OwedInv
<1>9. ASSUME NEW p \in Processes, TickAborts(p)
      PROVE  OwedInv'
    <2>1. UNCHANGED tried
        BY <1>9 DEF TickAborts, records
    <2> QED BY <1>9, <2>1, LeaveHolds DEF TickAborts, Phases, OwedInv
<1>10. ASSUME NEW p \in Processes, Stop(p)
       PROVE  OwedInv'
    <2>1. UNCHANGED tried
        BY <1>10 DEF Stop, records
    <2> QED BY <1>10, <2>1, LeaveHolds DEF Stop, Phases, OwedInv
<1>11. ASSUME NEW p \in Processes, Crash(p)
       PROVE  OwedInv'
    <2>1. UNCHANGED tried
        BY <1>11 DEF Crash, records
    <2> QED BY <1>11, <2>1, LeaveHolds DEF Crash, Phases, OwedInv
<1>12. ASSUME NEW p \in Processes, NEW c \in Controls, Start(p, c)
       PROVE  OwedInv'
    BY <1>12 DEF Start, OwedInv, TypeOK
<1>13. ASSUME NEW p \in Processes, NEW c \in Controls, LockedElsewhere(p, c)
       PROVE  OwedInv'
    BY <1>13 DEF LockedElsewhere, OwedInv, TypeOK
<1>14. ASSUME NEW p \in Processes, NEW how \in {"ok", "failed"}, BodyEnds(p, how)
       PROVE  OwedInv'
    BY <1>14 DEF BodyEnds, OwedInv, TypeOK
<1>15. ASSUME NEW p \in Processes, Finish(p)
       PROVE  OwedInv'
    <2>1. current[p] \in Controls /\ Record(p, current[p])
        BY <1>15 DEF Finish, PhaseInv
    <2>2. UNCHANGED asked
        BY <2>1 DEF Record
    <2>3. \A q \in Processes : ~Awake(q) => todo[q] = {}
        BY DEF PhaseInv
    <2>4. todo'[p] = todo[p] \ {current[p]} /\ overtaken'[p] = overtaken[p]
        BY <2>1, RecordHolds
    <2>5. \A q \in Processes \ {p} :
             /\ todo'[q] = todo[q]
             /\ Awake(q) => overtaken'[q] = overtaken[q] \union {current[p]}
        BY <2>1, RecordHolds
    <2>6. \A d \in Controls \ {current[p]} : tried'[d] = tried[d]
        BY <2>1, RecordHolds
    <2> QED BY <2>2, <2>3, <2>4, <2>5, <2>6 DEF OwedInv, TypeOK
<1>16. ASSUME NEW p \in Processes, ConnectionCut(p)
       PROVE  OwedInv'
    BY <1>16 DEF ConnectionCut, OwedInv, TypeOK
<1>17. ASSUME NEW p \in Processes, ThreadEnds(p)
       PROVE  OwedInv'
    BY <1>17 DEF ThreadEnds, OwedInv, TypeOK
<1>18. ASSUME NEW p \in Processes, Restart(p)
       PROVE  OwedInv'
    BY <1>18 DEF Restart, OwedInv, TypeOK
<1> QED
    BY <1>1, <1>2, <1>3, <1>4, <1>5, <1>6, <1>7, <1>8, <1>9, <1>10, <1>11, <1>12, <1>13, <1>14,
       <1>15, <1>16, <1>17, <1>18
       DEF Next, Ticking, Failure, Person, Processes

\* The parts of the invariant hold together at every step.
LEMMA InvStep == IInv /\ [Next]_vars => IInv'
BY TypeStep, PhaseStep, HoldStep, DriftStep, OwedStep DEF IInv

\* Spec keeps every variable in its type.
THEOREM TypeCorrect == Spec => []TypeOK
<1>1. IInv => TypeOK
    BY DEF IInv
<1> QED BY <1>1, InvInit, InvStep, PTL DEF Spec

\* Whoever is in a run of a control and not adrift has its lock.
LEMMA RunsHoldTheLock ==
    PhaseInv /\ HoldInv =>
        \A p \in Processes : On[p] # NoControl /\ p \notin adrift => lock[On[p]] = p
BY DEF PhaseInv, HoldInv, On

\* However many processes tick, crash, stop, are cut off and restart, a control has
\* one run at a time but for those whose transaction was ended under their thread.
THEOREM OneRun == Spec => []OneRunUnlessAdrift
<1>1. IInv => OneRunUnlessAdrift
    BY RunsHoldTheLock DEF IInv, OneRunUnlessAdrift
<1> QED BY <1>1, InvInit, InvStep, PTL DEF Spec

\* No process runs again, inside its interval and unasked, a control it ran
\* itself: a second run has read the clocks before another's was recorded.
THEOREM SecondRunsAreStale == Spec => RunTwiceOnlyByAStaleRead
<1>1. ASSUME IInv, [Next]_vars, NEW p \in Processes, NEW c \in Controls,
             current[p] # c, current'[p] = c
      PROVE  c \in todo[p]
    <2> USE <1>1, NamesAssumption DEF IInv
    <2>1. CASE \E q \in Processes, d \in Controls : Start(q, d)
        BY <2>1 DEF Start, TypeOK
    <2>2. CASE \E q \in Processes :
                 TickEnds(q) \/ FinishRefused(q) \/ TickAborts(q) \/ Stop(q) \/ Crash(q)
        BY <2>2 DEF TickEnds, FinishRefused, TickAborts, Stop, Crash, Leave, TypeOK
    <2>3. CASE \E q \in Processes : Finish(q)
        BY <2>3 DEF Finish, Record, TypeOK
    <2>4. CASE UNCHANGED current
        BY <2>4
    <2> QED
        BY <2>1, <2>2, <2>3, <2>4
           DEF Next, Ticking, Failure, Person, Processes, vars, run, TimePasses, Pause, RequestRun,
               ReleaseOrWithdraw, ReadClocks, TakeJob, SetOut, LockedElsewhere, BodyEnds,
               ConnectionCut, ThreadEnds, Restart
<1>2. IInv /\ [Next]_vars =>
        [\A p \in Processes, c \in Controls :
            /\ current[p] # c /\ current'[p] = c
            /\ tried[c] < Every[c] /\ c \notin asked[p]
            => c \in overtaken[p]]_vars
    <2> SUFFICES ASSUME IInv, [Next]_vars, NEW p \in Processes, NEW c \in Controls,
                        current[p] # c, current'[p] = c, tried[c] < Every[c], c \notin asked[p]
                 PROVE  c \in overtaken[p]
        OBVIOUS
    <2>1. tried[c] \in Nat /\ Every[c] \in Nat
        BY EveryAssumption DEF IInv, TypeOK
    <2> QED BY <1>1, <2>1 DEF IInv, OwedInv
<1> QED BY <1>2, InvInit, InvStep, PTL DEF Spec, RunTwiceOnlyByAStaleRead

\* No run swallows a request made after the process set out on it.
THEOREM RequestsAreKept == Spec => RequestsOutliveOlderRuns
<1>1. IInv /\ [Next]_vars =>
        [\A c \in wanted \ wanted' :
            \E p \in Processes : current[p] = c /\ c \notin fresh[p]]_vars
    <2> SUFFICES ASSUME IInv, [Next]_vars, NEW c \in wanted \ wanted'
                 PROVE  \E p \in Processes : current[p] = c /\ c \notin fresh[p]
        OBVIOUS
    <2>1. CASE \E p \in Processes : Finish(p)
        BY <2>1 DEF Finish, Record
    <2>2. CASE \E d \in Askable : RequestRun(d)
        BY <2>2 DEF RequestRun
    <2>3. CASE UNCHANGED wanted
        BY <2>3
    <2> QED
        BY <2>1, <2>2, <2>3
           DEF Next, Ticking, Failure, Person, Processes, vars, people, TimePasses, Pause,
               ReleaseOrWithdraw, ReadClocks, TakeJob, SetOut, TickEnds, Start, LockedElsewhere,
               BodyEnds, FinishRefused, ConnectionCut, TickAborts, Stop, ThreadEnds, Crash, Restart
<1> QED BY <1>1, InvInit, InvStep, PTL DEF Spec, RequestsOutliveOlderRuns

-----------------------------------------------------------------------------
(* RunPromise: what a step of Schedule is, with the locks out of sight.    *)

\* Leaving is nothing to the promise for whoever was in no run, and the end of one for
\* whoever was.
LEMMA LeavingEnds ==
    ASSUME TypeOK, NEW p \in Processes, NEW next \in Phases, Leave(p, next),
           \A q \in Processes \ {p} : inside'[q] = inside[q], inside'[p] = NoControl
    PROVE  On' = [On EXCEPT ![p] = NoControl]
BY LeaveHolds DEF On

\* Each step of the schedule is a step of the promise, or none.
LEMMA PromiseStep == IInv /\ [Next]_vars => [Promise!RNext]_(Promise!rvars)
<1> SUFFICES ASSUME IInv, [Next]_vars PROVE Promise!RNext \/ UNCHANGED Promise!rvars
    OBVIOUS
<1> USE NamesAssumption DEF IInv
<1>1. ASSUME UNCHANGED <<inside, current, adrift, tried, wanted>> PROVE UNCHANGED Promise!rvars
    BY <1>1 DEF Promise!rvars, On
<1>2. ASSUME NEW p \in Processes, Promise!Drift(p) \/ Promise!GiveUp(p) \/ Promise!PutOnRecord(p)
      PROVE  Promise!RNext
    BY <1>2 DEF Promise!RNext
<1>3. CASE TimePasses
    <2>1. tried' \in [Controls -> Nat] /\ \A c \in Controls : tried'[c] >= tried[c]
        BY <1>3, OlderIsAnAge DEF TimePasses, TypeOK
    <2>2. On' = On /\ UNCHANGED <<adrift, wanted>>
        BY <1>3 DEF TimePasses, run, people, failures, On
    <2> QED BY <2>1, <2>2 DEF Promise!TimePasses, Promise!RNext
<1>4. ASSUME NEW c \in Controls, RequestRun(c) PROVE Promise!RNext
    <2>1. On' = On /\ UNCHANGED <<adrift, tried>> /\ wanted' = wanted \union {c}
        BY <1>4 DEF RequestRun, run, records, failures, On
    <2> QED BY <2>1 DEF Promise!Ask, Promise!RNext
<1>5. ASSUME NEW p \in Processes, NEW c \in Controls, Start(p, c) PROVE Promise!RNext
    <2>1. On[p] = NoControl
        BY <1>5 DEF Start, PhaseInv, On
    <2>2. \A q \in Processes : On[q] = c => q \in adrift
        BY <1>5, RunsHoldTheLock DEF Start
    <2>3. On' = [On EXCEPT ![p] = c]
        BY <1>5 DEF Start, On, TypeOK
    <2>4. UNCHANGED <<adrift, tried, wanted>>
        BY <1>5 DEF Start, records, people, failures
    <2> QED BY <2>1, <2>2, <2>3, <2>4 DEF Promise!Begin, Promise!RNext
<1>6. ASSUME NEW p \in Processes, NEW how \in {"ok", "failed"}, BodyEnds(p, how)
      PROVE  UNCHANGED Promise!rvars
    <2>1. On' = On
        BY <1>6 DEF BodyEnds, PhaseInv, On, TypeOK
    <2> QED BY <1>6, <2>1 DEF BodyEnds, Promise!rvars, records, people, failures
<1>7. ASSUME NEW p \in Processes, Finish(p) PROVE Promise!RNext
    <2>1. /\ current[p] \in Controls /\ inside[p] = NoControl /\ lock[current[p]] = p
          /\ Record(p, current[p]) /\ UNCHANGED <<inside, adrift>>
        BY <1>7 DEF Finish, PhaseInv, failures
    <2>2. On[p] = current[p] /\ p \notin adrift
        BY <2>1 DEF On, DriftInv
    <2>3. tried[current[p]] \in Nat /\ began[p] \in Nat
        BY <2>1, EveryAssumption DEF TypeOK
    <2>4. Newer(tried[current[p]], began[p]) \in 0 .. tried[current[p]]
        BY <2>3 DEF Newer
    <2>5. tried' = [tried EXCEPT ![On[p]] = Newer(tried[current[p]], began[p])]
        BY <2>1, <2>2 DEF Record
    <2>6. wanted' \in {wanted, wanted \ {On[p]}}
        BY <2>1, <2>2 DEF Record
    <2>7. On' = [On EXCEPT ![p] = NoControl]
        <3>1. current'[p] = NoControl /\ \A q \in Processes \ {p} : current'[q] = current[q]
            BY <2>1, RecordHolds
        <3>2. inside' = inside /\ inside[p] = NoControl
            BY <2>1
        <3> QED BY <3>1, <3>2 DEF On
    <2>8. Promise!PutOnRecord(p)
        BY <2>1, <2>2, <2>4, <2>5, <2>6, <2>7 DEF Promise!PutOnRecord
    <2> QED BY <1>2, <2>8
<1>8. ASSUME NEW p \in Processes, TickEnds(p) \/ TickAborts(p) PROVE UNCHANGED Promise!rvars
    <2>1. /\ UNCHANGED <<inside, adrift, tried, wanted>> /\ Leave(p, "sleeping")
          /\ current[p] = NoControl
        BY <1>8 DEF TickEnds, TickAborts, PhaseInv, records, people, failures
    <2>2. current' = current
        BY <2>1 DEF Leave, TypeOK
    <2> QED BY <1>1, <2>1, <2>2
<1>9. ASSUME NEW p \in Processes, FinishRefused(p) PROVE Promise!RNext
    <2>1. /\ UNCHANGED <<inside, tried, wanted>> /\ adrift' = adrift \ {p} /\ Leave(p, "sleeping")
          /\ inside[p] = NoControl
        BY <1>9 DEF FinishRefused, PhaseInv, records, people
    <2>2. On' = [On EXCEPT ![p] = NoControl]
        BY <2>1, LeavingEnds DEF Phases
    <2> QED BY <1>2, <2>1, <2>2 DEF Promise!GiveUp
<1>10. ASSUME NEW p \in Processes, ConnectionCut(p) PROVE Promise!RNext
    <2>1. /\ UNCHANGED <<inside, current, tried, wanted>> /\ adrift' = adrift \union {p}
          /\ phase[p] \in {"running", "ended"}
        BY <1>10 DEF ConnectionCut, records, people, run
    <2>2. On[p] # NoControl /\ On' = On
        BY <2>1 DEF On, PhaseInv
    <2> QED BY <1>2, <2>1, <2>2 DEF Promise!Drift
<1>11. ASSUME NEW p \in Processes, Stop(p) PROVE Promise!RNext
    <2>1. UNCHANGED <<inside, tried, wanted>> /\ Leave(p, "stopping")
        BY <1>11 DEF Stop, records, people
    <2>2. CASE inside[p] = NoControl
        <3>1. On' = [On EXCEPT ![p] = NoControl]
            BY <2>1, <2>2, LeavingEnds DEF Phases
        <3> QED BY <1>2, <1>11, <2>1, <2>2, <3>1 DEF Stop, Promise!GiveUp
    <2>3. CASE inside[p] # NoControl
        <3>1. On[p] # NoControl /\ On' = On
            BY <2>1, <2>3, LeaveHolds DEF On, Phases
        <3> QED BY <1>2, <1>11, <2>1, <2>3, <3>1 DEF Stop, Promise!Drift
    <2> QED BY <2>2, <2>3
<1>12. ASSUME NEW p \in Processes, ThreadEnds(p) PROVE Promise!RNext
    <2>1. On' = [On EXCEPT ![p] = NoControl]
        BY <1>12 DEF ThreadEnds, PhaseInv, On, TypeOK
    <2> QED BY <1>2, <1>12, <2>1 DEF ThreadEnds, Promise!GiveUp, records, people
<1>13. ASSUME NEW p \in Processes, Crash(p) PROVE Promise!RNext
    <2>1. Leave(p, "down") /\ UNCHANGED <<tried, wanted>> /\ adrift' = adrift \ {p}
        BY <1>13 DEF Crash, records, people
    <2>2. (\A q \in Processes \ {p} : inside'[q] = inside[q]) /\ inside'[p] = NoControl
        BY <1>13 DEF Crash, TypeOK
    <2>3. On' = [On EXCEPT ![p] = NoControl]
        BY <2>1, <2>2, LeavingEnds DEF Phases
    <2> QED BY <1>2, <2>1, <2>3 DEF Promise!GiveUp
<1>14. CASE UNCHANGED vars
    BY <1>1, <1>14 DEF vars, records, people, run, failures
<1>15. ASSUME NEW c \in Controls, Pause(c) \/ ReleaseOrWithdraw(c) PROVE UNCHANGED Promise!rvars
    BY <1>1, <1>15 DEF Pause, ReleaseOrWithdraw, records, run, failures
<1>16. ASSUME NEW p \in Processes, ReadClocks(p) \/ (\E c \in Controls : TakeJob(p, c))
       PROVE  UNCHANGED Promise!rvars
    BY <1>1, <1>16, SettingOut DEF SetOut, records, people, failures
<1>17. ASSUME NEW p \in Processes, NEW c \in Controls, LockedElsewhere(p, c)
       PROVE  UNCHANGED Promise!rvars
    BY <1>1, <1>17 DEF LockedElsewhere, records, people, run, failures
<1>18. ASSUME NEW p \in Processes, Restart(p) PROVE UNCHANGED Promise!rvars
    BY <1>1, <1>18 DEF Restart, records, people, failures
<1> QED
    BY <1>3, <1>4, <1>5, <1>6, <1>7, <1>8, <1>9, <1>10, <1>11, <1>12, <1>13, <1>14, <1>15, <1>16,
       <1>17, <1>18, SubsetAssumption
       DEF Next, Ticking, Failure, Person, Processes

\* The schedule implements RunPromise.
THEOREM ImplementsThePromise == Spec => KeepsThePromise
<1>1. Init => Promise!RInit
    BY EveryAssumption DEF Init, Promise!RInit, On
<1> QED BY <1>1, InvInit, InvStep, PromiseStep, PTL DEF Spec, KeepsThePromise, Promise!RSpec

=============================================================================
