------------------------- MODULE AutomationsProofs --------------------------
(***************************************************************************)
(* For any automations, people, halts, processes and bounds: the types,    *)
(* that a run is owed when it is recorded, that stops hold, that a halt    *)
(* holds what it covers and ends only by a later restart, that only a start*)
(* applied late schedules a slot again, and that what fails is paused.     *)
(***************************************************************************)
EXTENDS Automations, FiniteSetTheorems, TLAPS

(***************************************************************************)
(* Type correctness.                                                       *)
(***************************************************************************)

\* The next run of a schedule is strictly after the instant it is reckoned from.
LEMMA NextRunIsLater ==
    ASSUME NEW c \in Nat \ {0}, NEW t \in Nat
    PROVE  NextRun(c, t) \in Nat /\ NextRun(c, t) > t
BY SMT DEF NextRun

\* An administrator's step keeps the types of the halts.
LEMMA HaltTypes == HaltTypeOK /\ HaltNext => HaltTypeOK'
<1> SUFFICES ASSUME HaltTypeOK, HaltNext PROVE HaltTypeOK'
    OBVIOUS
<1> USE DEF HaltTypeOK
<1>1. ASSUME NEW p \in Admins, NEW k \in Targets, PressStop(p, k) \/ PressResume(p, k) PROVE HaltTypeOK'
    BY <1>1 DEF PressStop, PressResume, Press, TakeStamp
<1>2. ASSUME NEW p \in Admins, WriteStop(p) \/ Lift(p) PROVE HaltTypeOK'
    BY <1>2 DEF WriteStop, Lift, Insert, LetGo
<1>3. ASSUME NEW p \in Admins, LookUp(p) PROVE HaltTypeOK'
    BY <1>3 DEF LookUp
<1>4. ASSUME NEW p \in Admins, GiveUpPressing(p) PROVE HaltTypeOK'
    BY <1>4 DEF GiveUpPressing, LetGo
<1> QED
    BY <1>1, <1>2, <1>3, <1>4 DEF HaltNext

\* The types but those of the halts, so that a step that leaves one part alone
\* is not asked about it.
RowTypes ==
    /\ now \in Nat /\ faults \in Nat
    /\ next \in [Automations -> Nat]
    /\ owner \in [Automations -> People] /\ ownedAt \in [Automations -> Nat]
    /\ cadence \in [Automations -> Cadences] /\ cadencedAt \in [Automations -> Nat]
    /\ startedAt \in [Automations -> Nat]
    /\ removed \subseteq Automations
    /\ ran \in [Automations -> SUBSET Nat]
    /\ failedAt \in [Automations -> SUBSET [slot : Nat, at : Nat]]
    /\ overtaken \subseteq Automations /\ raced \subseteq Automations

ProcessTypes ==
    /\ at \in [Processes -> {"idle", "passing", "asking", "claiming", "running"}]
    /\ tick \in [Processes -> Nat] /\ tickAt \in [Processes -> Nat]
    /\ todo \in [Processes -> SUBSET Automations]
    /\ hand \in [Processes -> Automations \union {NoWork}]
    /\ \A w \in Processes : at[w] \notin {"idle", "passing"} => hand[w] \in Automations
    /\ seen \in [Processes -> SUBSET Targets] /\ standing \in [Processes -> SUBSET Targets]
    /\ runsAs \in [Processes -> People \union {NoOne}] /\ admitted \in [Processes -> BOOLEAN]

AskTypes ==
    /\ asking \in [People -> {"nothing", "asked", "moving"}]
    /\ req \in [People -> Requests \union {NoRequest}]
    /\ \A p \in People : asking[p] # "nothing" => req[p] \in Requests
    /\ sawRemoved \in [People -> BOOLEAN]
    /\ behind \subseteq People

\* The type invariant is the four together.
LEMMA TypesByPart == TypeOK <=> HaltTypeOK /\ RowTypes /\ ProcessTypes /\ AskTypes
BY DEF TypeOK, RowTypes, ProcessTypes, AskTypes

\* What is in force is among the targets.
LEMMA InForceIsTargets == HaltTypeOK => InForce \subseteq Targets
BY DEF HaltTypeOK, InForce

\* The steps of a process between its start and its record move only what it
\* holds itself.
LEMMA ProcessTypesStep ==
    ASSUME HaltTypeOK, RowTypes, ProcessTypes, NEW w \in Processes,
           ProcessStep(w) \/ Die(w)
    PROVE  ProcessTypes'
<1> USE DEF ProcessTypes
<1>1. ASSUME StartPass(w) PROVE ProcessTypes'
  <2>1. \A s \in Owed(now) : s \subseteq Automations
      BY DEF Owed
  <2> QED
      BY <1>1, <2>1 DEF StartPass, RowTypes, HaltTypeOK
<1>2. ASSUME NEW a \in Automations, TurnTo(w, a) PROVE ProcessTypes'
    BY <1>2, InForceIsTargets DEF TurnTo
<1>3. ASSUME ReadHalts(w) PROVE ProcessTypes'
    BY <1>3, InForceIsTargets DEF ReadHalts
<1>4. ASSUME Skip(w) \/ Hold(w) PROVE ProcessTypes'
    BY <1>4 DEF Skip, Hold, PutDown
<1>5. ASSUME Claim(w) PROVE ProcessTypes'
    BY <1>5 DEF Claim, RowTypes
<1>6. ASSUME NEW outcome \in {"succeeded", "failed", "refused"}, Record(w, outcome) PROVE ProcessTypes'
    BY <1>6 DEF Record, PutDown
<1>7. ASSUME EndPass(w) PROVE ProcessTypes'
    BY <1>7 DEF EndPass
<1>8. ASSUME Die(w) PROVE ProcessTypes'
    BY <1>8 DEF Die, PutDown
<1> QED
    BY <1>1, <1>2, <1>3, <1>4, <1>5, <1>6, <1>7, <1>8 DEF ProcessStep

\* Only the record of a run touches a row, and only Die and ReadHalts the count
\* of faults.
LEMMA RowTypesOfProcesses ==
    ASSUME RowTypes, ProcessTypes, NEW w \in Processes, ProcessStep(w) \/ Die(w)
    PROVE  RowTypes'
<1> USE DEF RowTypes, rowVars, runVars, ghostVars
<1>1. ASSUME NEW outcome \in {"succeeded", "failed", "refused"}, Record(w, outcome) PROVE RowTypes'
  <2>1. hand[w] \in Automations
      BY <1>1 DEF Record, ProcessTypes
  <2>2. NextAfter(w, outcome) \in Nat
      BY <2>1, NextRunIsLater, AutomationsAssumption DEF NextAfter, ProcessTypes
  <2> QED
      BY <1>1, <2>1, <2>2 DEF Record, ProcessTypes
<1>2. ASSUME StartPass(w) \/ Skip(w) \/ Hold(w) \/ Claim(w) \/ EndPass(w) PROVE RowTypes'
    BY <1>2 DEF StartPass, Skip, Hold, Claim, EndPass
<1>3. ASSUME NEW a \in Automations, TurnTo(w, a) PROVE RowTypes'
    BY <1>3 DEF TurnTo
<1>4. ASSUME ReadHalts(w) \/ Die(w) PROVE RowTypes'
    BY <1>4 DEF ReadHalts, Die
<1> QED
    BY <1>1, <1>2, <1>3, <1>4 DEF ProcessStep

\* The processes make a request older, and touch nothing else of it.
LEMMA AskTypesOfProcesses ==
    ASSUME AskTypes, NEW w \in Processes, ProcessStep(w) \/ Die(w)
    PROVE  AskTypes'
<1> USE DEF AskTypes, askVars, ghostVars
<1>1. ASSUME StartPass(w) \/ ReadHalts(w) \/ Skip(w) \/ Hold(w) \/ Claim(w) \/ EndPass(w) \/ Die(w) PROVE AskTypes'
    BY <1>1 DEF StartPass, ReadHalts, Skip, Hold, Claim, EndPass, Die
<1>2. ASSUME NEW a \in Automations, TurnTo(w, a) PROVE AskTypes'
    BY <1>2 DEF TurnTo
<1>3. ASSUME NEW outcome \in {"succeeded", "failed", "refused"}, Record(w, outcome) PROVE AskTypes'
    BY <1>3 DEF Record
<1> QED
    BY <1>1, <1>2, <1>3 DEF ProcessStep

\* A request carries what was on the screen, and the next run it reckoned.
LEMMA TypesOfPersons ==
    ASSUME HaltTypeOK, RowTypes, AskTypes, NEW p \in People, PersonStep(p)
    PROVE  RowTypes' /\ AskTypes' /\ stamp' \in Nat
<1> USE DEF AskTypes, RowTypes
<1>1. ASSUME NEW a \in Automations, NEW kind \in Kinds, NEW c \in Cadences, Ask(p, a, kind, c)
      PROVE  RowTypes' /\ AskTypes' /\ stamp' \in Nat
  <2>1. Becomes(a, kind, c) \in Nat
      BY NextRunIsLater, AutomationsAssumption DEF Becomes
  <2>2. stamp + 1 \in Nat /\ stamp' \in Nat
      BY <1>1 DEF Ask, TakeStamp, HaltTypeOK
  <2>3. [auto |-> a, kind |-> kind, cadence |-> c, at |-> stamp + 1,
         becomes |-> Becomes(a, kind, c), shown |-> Shown(a)] \in Requests
      BY <2>1, <2>2 DEF Requests, Shown
  <2> QED
      BY <1>1, <2>2, <2>3 DEF Ask, rowVars, runVars, ghostVars
<1>2. ASSUME BeginMoving(p) PROVE RowTypes' /\ AskTypes' /\ stamp' \in Nat
    BY <1>2 DEF BeginMoving, rowVars, runVars, ghostVars, haltVars, HaltTypeOK
<1>3. ASSUME Move(p) PROVE RowTypes' /\ AskTypes' /\ stamp' \in Nat
  <2>1. req[p].auto \in Automations /\ req[p].at \in Nat /\ req[p].becomes \in Nat
      BY <1>3 DEF Move, Requests
  <2>2. overtaken' \subseteq Automations /\ raced' \subseteq Automations
      BY <1>3, <2>1 DEF Move, Started, Races
  <2> QED
      BY <1>3, <2>1, <2>2 DEF Move, Started, Later, Answered, runVars, haltVars, HaltTypeOK
<1>4. ASSUME Apply(p) PROVE RowTypes' /\ AskTypes' /\ stamp' \in Nat
  <2>1. AskTypes' /\ stamp' \in Nat
      BY <1>4 DEF Apply, Answered, haltVars, HaltTypeOK
  <2>2. req[p] \in Requests
      BY <1>4 DEF Apply
  <2>3. req[p].auto \in Automations /\ req[p].at \in Nat /\ req[p].becomes \in Nat /\ req[p].cadence \in Cadences
      BY <2>2 DEF Requests
  <2>4. /\ next' \in [Automations -> Nat] /\ owner' \in [Automations -> People] /\ ownedAt' \in [Automations -> Nat]
        /\ cadence' \in [Automations -> Cadences] /\ cadencedAt' \in [Automations -> Nat]
      BY <1>4, <2>3 DEF Apply
  <2>5. /\ startedAt' \in [Automations -> Nat] /\ removed' \subseteq Automations
        /\ overtaken' \subseteq Automations /\ raced' \subseteq Automations
      BY <1>4, <2>3 DEF Apply, Started, Later
  <2>6. UNCHANGED <<now, faults, ran, failedAt>>
      BY <1>4 DEF Apply, runVars
  <2>7. RowTypes'
      BY <2>4, <2>5, <2>6
  <2> HIDE DEF AskTypes, RowTypes
  <2> QED
      BY <2>1, <2>7
<1>5. ASSUME MoveRefused(p) \/ ApplyRefused(p) \/ GiveUp(p) PROVE RowTypes' /\ AskTypes' /\ stamp' \in Nat
  <2>1. Refuse(p)
      BY <1>5 DEF MoveRefused, ApplyRefused, GiveUp
  <2>2. RowTypes' /\ stamp' \in Nat
      BY <2>1 DEF Refuse, rowVars, runVars, haltVars, HaltTypeOK
  <2>3. AskTypes'
      BY <2>1 DEF Refuse, Answered
  <2> HIDE DEF AskTypes, RowTypes
  <2> QED
      BY <2>2, <2>3
<1> QED
    BY <1>1, <1>2, <1>3, <1>4, <1>5 DEF PersonStep

\* What a person's step leaves alone.
LEMMA PersonsTouchNoProcess ==
    ASSUME NEW p \in People, PersonStep(p)
    PROVE  UNCHANGED <<processVars, acts, pressVars, ran, failedAt, now>>
BY DEF PersonStep, Ask, BeginMoving, Move, MoveRefused, Apply, ApplyRefused, GiveUp, Refuse, haltVars, runVars

\* What a process's step leaves alone.
LEMMA ProcessesTouchNoHalt ==
    ASSUME NEW w \in Processes, ProcessStep(w) \/ Die(w)
    PROVE  UNCHANGED haltVars
BY DEF ProcessStep, Die, StartPass, TurnTo, ReadHalts, Skip, Hold, Claim, Record, EndPass

\* Every step of the runner, the persons and the administrators keeps the types.
LEMMA TypeStep == TypeOK /\ [Next]_vars => TypeOK'
<1> SUFFICES ASSUME TypeOK, [Next]_vars PROVE HaltTypeOK' /\ RowTypes' /\ ProcessTypes' /\ AskTypes'
    BY TypesByPart, PTL
<1> HaltTypeOK /\ RowTypes /\ ProcessTypes /\ AskTypes
    BY TypesByPart
<1>1. ASSUME NEW w \in Processes, ProcessStep(w) \/ Die(w) PROVE HaltTypeOK' /\ RowTypes' /\ ProcessTypes' /\ AskTypes'
  <2>1. HaltTypeOK'
      BY <1>1, ProcessesTouchNoHalt DEF haltVars, pressVars, HaltTypeOK
  <2> QED
      BY <1>1, <2>1, ProcessTypesStep, RowTypesOfProcesses, AskTypesOfProcesses
<1>2. ASSUME NEW p \in People, PersonStep(p) PROVE HaltTypeOK' /\ RowTypes' /\ ProcessTypes' /\ AskTypes'
  <2>1. RowTypes' /\ AskTypes' /\ stamp' \in Nat
      BY <1>2, TypesOfPersons
  <2>2. UNCHANGED <<processVars, acts, pressVars>>
      BY <1>2, PersonsTouchNoProcess
  <2>3. HaltTypeOK'
      BY <2>1, <2>2 DEF pressVars, HaltTypeOK
  <2>4. ProcessTypes'
      BY <2>2 DEF processVars, ProcessTypes
  <2> QED
      BY <2>1, <2>3, <2>4
<1>3. ASSUME Halting PROVE HaltTypeOK' /\ RowTypes' /\ ProcessTypes' /\ AskTypes'
  <2>1. HaltTypeOK'
      BY <1>3, HaltTypes DEF Halting
  <2>2. RowTypes' /\ AskTypes'
      BY <1>3 DEF Halting, rowVars, runVars, ghostVars, askVars, RowTypes, AskTypes
  <2>3. ProcessTypes'
      BY <1>3 DEF Halting, ProcessTypes
  <2> QED
      BY <2>1, <2>2, <2>3
<1>4. ASSUME Pass PROVE HaltTypeOK' /\ RowTypes' /\ ProcessTypes' /\ AskTypes'
  <2>1. HaltTypeOK' /\ ProcessTypes' /\ AskTypes'
      BY <1>4 DEF Pass, haltVars, pressVars, processVars, askVars, ghostVars, HaltTypeOK, ProcessTypes, AskTypes
  <2>2. RowTypes'
      BY <1>4, AutomationsAssumption DEF Pass, rowVars, runVars, ghostVars, RowTypes
  <2> QED
      BY <2>1, <2>2
<1>5. ASSUME UNCHANGED vars PROVE HaltTypeOK' /\ RowTypes' /\ ProcessTypes' /\ AskTypes'
  <2>1. HaltTypeOK' /\ RowTypes'
      BY <1>5 DEF vars, haltVars, pressVars, rowVars, runVars, ghostVars, HaltTypeOK, RowTypes
  <2>2. ProcessTypes' /\ AskTypes'
      BY <1>5 DEF vars, processVars, askVars, ghostVars, ProcessTypes, AskTypes
  <2> QED
      BY <2>1, <2>2
<1> QED
    BY <1>1, <1>2, <1>3, <1>4, <1>5 DEF Next

\* The types hold at first.
LEMMA TypeInit == Init => TypeOK
BY AutomationsAssumption DEF Init, HaltInit, TypeOK, HaltTypeOK

\* Every variable of the runner, the console and the halts keeps its type.
THEOREM TypeCorrect == Spec => []TypeOK
BY TypeInit, TypeStep, PTL DEF Spec

(***************************************************************************)
(* A run has its row.                                                      *)
(***************************************************************************)

\* While a process runs an automation it alone does, and the row is as it
\* claimed it.
ClaimInv ==
    /\ \A v, w \in Processes : at[v] = "running" /\ at[w] = "running" /\ hand[v] = hand[w] => v = w
    /\ \A w \in Processes : at[w] = "running" =>
          /\ next[hand[w]] # 0 /\ next[hand[w]] <= tick[w] /\ hand[w] \notin removed
          /\ runsAs[w] = owner[hand[w]]
    /\ \A w \in Processes : tick[w] <= now

\* A step that leaves the running processes and the rows they hold alone.
LEMMA ClaimKept ==
    ASSUME ClaimInv, UNCHANGED <<next, owner, removed, runsAs, hand>>, now' = now,
           tick' = tick, \A w \in Processes : at'[w] = "running" => at[w] = "running"
    PROVE  ClaimInv'
BY DEF ClaimInv

\* A process claims a row nobody runs, and puts down what it ran.
LEMMA ClaimInvOfProcesses ==
    ASSUME TypeOK, ClaimInv, NEW w \in Processes, ProcessStep(w) \/ Die(w)
    PROVE  ClaimInv'
<1> USE DEF rowVars, ProcessTypes
<1> ProcessTypes /\ RowTypes
    BY TypesByPart
<1>1. ASSUME StartPass(w) PROVE ClaimInv'
    BY <1>1 DEF StartPass, ClaimInv, RowTypes
<1>2. ASSUME NEW a \in Automations, TurnTo(w, a) PROVE ClaimInv'
    BY <1>2 DEF TurnTo, ClaimInv
<1>3. ASSUME ReadHalts(w) PROVE ClaimInv'
    BY <1>3 DEF ReadHalts, ClaimInv
<1>4. ASSUME Skip(w) \/ Hold(w) PROVE ClaimInv'
    BY <1>4 DEF Skip, Hold, PutDown, ClaimInv
<1>5. ASSUME Claim(w) PROVE ClaimInv'
    BY <1>5 DEF Claim, Due, Locked, ClaimInv
<1>6. ASSUME NEW outcome \in {"succeeded", "failed", "refused"}, Record(w, outcome) PROVE ClaimInv'
  <2>1. \A a \in Automations : a # hand[w] => next'[a] = next[a]
      BY <1>6 DEF Record, RowTypes
  <2>2. \A v \in Processes : v # w => at'[v] = at[v] /\ hand'[v] = hand[v] /\ runsAs'[v] = runsAs[v]
      BY <1>6 DEF Record, PutDown
  <2>3. at'[w] = "passing" /\ at[w] = "running" /\ UNCHANGED <<owner, removed, now, tick>>
      BY <1>6 DEF Record, PutDown
  <2> QED
      BY <2>1, <2>2, <2>3 DEF ClaimInv
<1>7. ASSUME EndPass(w) PROVE ClaimInv'
    BY <1>7 DEF EndPass, ClaimInv, RowTypes
<1>8. ASSUME Die(w) PROVE ClaimInv'
    BY <1>8 DEF Die, PutDown, ClaimInv, RowTypes
<1> QED
    BY <1>1, <1>2, <1>3, <1>4, <1>5, <1>6, <1>7, <1>8 DEF ProcessStep

\* A person's statement waits for the row of a run.
LEMMA PersonsWaitForRuns ==
    ASSUME TypeOK, NEW p \in People, PersonStep(p), NEW w \in Processes, at[w] = "running"
    PROVE  /\ next'[hand[w]] = next[hand[w]] /\ owner'[hand[w]] = owner[hand[w]]
           /\ hand[w] \in removed' => hand[w] \in removed
<1> USE DEF rowVars
<1>1. hand[w] \in Automations /\ Locked(hand[w])
    BY DEF TypeOK, Locked
<1>2. ASSUME NEW a \in Automations, NEW kind \in Kinds, NEW c \in Cadences, Ask(p, a, kind, c)
      PROVE  UNCHANGED rowVars
    BY <1>2 DEF Ask
<1>3. ASSUME BeginMoving(p) \/ MoveRefused(p) \/ ApplyRefused(p) \/ GiveUp(p) PROVE UNCHANGED rowVars
    BY <1>3 DEF BeginMoving, MoveRefused, ApplyRefused, GiveUp, Refuse
<1>4. ASSUME Move(p) PROVE UNCHANGED <<owner, removed>> /\ next'[hand[w]] = next[hand[w]]
    BY <1>1, <1>4 DEF Move, TypeOK
<1>5. ASSUME Apply(p)
      PROVE  /\ next'[hand[w]] = next[hand[w]] /\ owner'[hand[w]] = owner[hand[w]]
             /\ hand[w] \in removed' => hand[w] \in removed
    BY <1>1, <1>5 DEF Apply, TypeOK
<1> QED
    BY <1>2, <1>3, <1>4, <1>5 DEF PersonStep

\* Every step keeps the claims.
LEMMA ClaimStep == TypeOK /\ ClaimInv /\ [Next]_vars => ClaimInv'
<1> SUFFICES ASSUME TypeOK, ClaimInv, [Next]_vars PROVE ClaimInv'
    OBVIOUS
<1>1. ASSUME NEW w \in Processes, ProcessStep(w) \/ Die(w) PROVE ClaimInv'
    BY <1>1, ClaimInvOfProcesses
<1>2. ASSUME NEW p \in People, PersonStep(p) PROVE ClaimInv'
    BY <1>2, PersonsWaitForRuns, PersonsTouchNoProcess DEF processVars, ClaimInv
<1>3. ASSUME Halting \/ UNCHANGED vars PROVE ClaimInv'
    BY <1>3, ClaimKept DEF Halting, vars, rowVars, processVars
<1>4. ASSUME Pass PROVE ClaimInv'
    BY <1>4 DEF Pass, rowVars, processVars, ClaimInv, TypeOK
<1> QED
    BY <1>1, <1>2, <1>3, <1>4 DEF Next

LEMMA ClaimInit == Init => ClaimInv
BY DEF Init, ClaimInv

\* Only the record of a run adds a slot, and it adds the one the automation is
\* scheduled for.
LEMMA RunsLeaveByRecord ==
    ASSUME TypeOK, [Next]_vars, NEW a \in Automations, ran'[a] # ran[a]
    PROVE  \E w \in Processes, outcome \in {"succeeded", "failed", "refused"} :
               /\ Record(w, outcome) /\ hand[w] = a /\ at[w] = "running"
               /\ next[a] \notin ran[a] /\ ran'[a] = ran[a] \union {next[a]}
<1> USE DEF runVars
<1>1. PICK w \in Processes : ProcessStep(w) \/ Die(w)
    BY PersonsTouchNoProcess DEF Next, Halting, Pass, vars
<1>2. PICK outcome \in {"succeeded", "failed", "refused"} : Record(w, outcome)
    BY <1>1 DEF ProcessStep, Die, StartPass, TurnTo, ReadHalts, Skip, Hold, Claim, EndPass
<1>3. /\ hand[w] = a /\ at[w] = "running"
      /\ next[a] \notin ran[a] /\ ran'[a] = ran[a] \union {next[a]}
    BY <1>2 DEF Record, TypeOK
<1> QED
    BY <1>2, <1>3

\* A run is recorded once for its slot, of an automation scheduled for it and
\* not removed, no sooner than the slot, in the name of that moment's owner.
THEOREM RunsAreRecordedWhenOwed == Spec => RunsAreOwed
<1>1. TypeOK /\ ClaimInv /\ [Next]_vars =>
          (\A a \in Automations : ran'[a] # ran[a] =>
              /\ next[a] \notin ran[a] /\ ran'[a] = ran[a] \union {next[a]}
              /\ next[a] <= now /\ a \notin removed
              /\ \E w \in Processes : /\ at[w] = "running" /\ hand[w] = a
                                      /\ tick[w] >= next[a] /\ runsAs[w] = owner[a])
  <2> SUFFICES ASSUME TypeOK, ClaimInv, [Next]_vars, NEW a \in Automations, ran'[a] # ran[a]
               PROVE  /\ next[a] \notin ran[a] /\ ran'[a] = ran[a] \union {next[a]}
                      /\ next[a] <= now /\ a \notin removed
                      /\ \E w \in Processes : /\ at[w] = "running" /\ hand[w] = a
                                              /\ tick[w] >= next[a] /\ runsAs[w] = owner[a]
      OBVIOUS
  <2>1. PICK w \in Processes : /\ hand[w] = a /\ at[w] = "running"
                               /\ next[a] \notin ran[a] /\ ran'[a] = ran[a] \union {next[a]}
      BY RunsLeaveByRecord
  <2>2. next[a] <= tick[w] /\ tick[w] <= now /\ a \notin removed /\ runsAs[w] = owner[a]
      BY <2>1 DEF ClaimInv
  <2>3. next[a] \in Nat /\ tick[w] \in Nat /\ now \in Nat
      BY DEF TypeOK
  <2> QED
      BY <2>1, <2>2, <2>3
<1>2. ran' = ran => (\A a \in Automations : ran'[a] # ran[a] =>
              /\ next[a] \notin ran[a] /\ ran'[a] = ran[a] \union {next[a]}
              /\ next[a] <= now /\ a \notin removed
              /\ \E w \in Processes : /\ at[w] = "running" /\ hand[w] = a
                                      /\ tick[w] >= next[a] /\ runsAs[w] = owner[a])
    OBVIOUS
<1> QED
    BY <1>1, <1>2, TypeInit, TypeStep, ClaimInit, ClaimStep, PTL DEF Spec, RunsAreOwed

(***************************************************************************)
(* Halts.                                                                  *)
(***************************************************************************)

\* What is in force depends on the rows alone.
LEMMA InForceKept == acts' = acts => InForce' = InForce
BY DEF InForce, IsLatest

\* What stood since a process turned to its automation is still in force, was
\* read before the claim, and covers nothing that was claimed.
HoldInv ==
    \A w \in Processes :
        /\ standing[w] \subseteq InForce
        /\ at[w] = "claiming" => standing[w] \subseteq seen[w]
        /\ at[w] = "running" => Work(hand[w]) \intersect standing[w] = {}

\* A process reads the halts before it claims.
LEMMA HoldInvOfProcesses ==
    ASSUME TypeOK, HoldInv, NEW w \in Processes, ProcessStep(w) \/ Die(w)
    PROVE  HoldInv'
<1> USE DEF rowVars, processVars, ProcessTypes
<1> ProcessTypes
    BY TypesByPart
<1> InForce' = InForce
    BY ProcessesTouchNoHalt, InForceKept DEF haltVars
<1>1. ASSUME StartPass(w) \/ EndPass(w) PROVE HoldInv'
    BY <1>1 DEF StartPass, EndPass, HoldInv, Work
<1>2. ASSUME NEW a \in Automations, TurnTo(w, a) PROVE HoldInv'
    BY <1>2 DEF TurnTo, HoldInv, Work
<1>3. ASSUME ReadHalts(w) PROVE HoldInv'
    BY <1>3, InForceIsTargets DEF ReadHalts, HoldInv, Work, TypeOK
<1>4. ASSUME Skip(w) \/ Hold(w) PROVE HoldInv'
    BY <1>4 DEF Skip, Hold, PutDown, HoldInv, Work
<1>5. ASSUME Claim(w) PROVE HoldInv'
    BY <1>5 DEF Claim, HoldInv, Work
<1>6. ASSUME NEW outcome \in {"succeeded", "failed", "refused"}, Record(w, outcome) PROVE HoldInv'
    BY <1>6 DEF Record, PutDown, HoldInv, Work
<1>7. ASSUME Die(w) PROVE HoldInv'
    BY <1>7 DEF Die, PutDown, HoldInv, Work
<1> QED
    BY <1>1, <1>2, <1>3, <1>4, <1>5, <1>6, <1>7 DEF ProcessStep

\* No owner changes under a run, and what ends is no longer counted as standing.
LEMMA HoldStep == TypeOK /\ HoldInv /\ [Next]_vars => HoldInv'
<1> SUFFICES ASSUME TypeOK, HoldInv, [Next]_vars PROVE HoldInv'
    OBVIOUS
<1>1. ASSUME NEW w \in Processes, ProcessStep(w) \/ Die(w) PROVE HoldInv'
    BY <1>1, HoldInvOfProcesses
<1>2. ASSUME NEW p \in People, PersonStep(p) PROVE HoldInv'
  <2>1. InForce' = InForce /\ UNCHANGED processVars
      BY <1>2, PersonsTouchNoProcess, InForceKept
  <2>2. \A w \in Processes : at[w] = "running" => owner'[hand[w]] = owner[hand[w]]
      BY <1>2, PersonsWaitForRuns
  <2> QED
      BY <2>1, <2>2 DEF processVars, HoldInv, Work
<1>3. ASSUME Halting PROVE HoldInv'
    BY <1>3 DEF Halting, rowVars, HoldInv, Work
<1>4. ASSUME Pass \/ UNCHANGED vars PROVE HoldInv'
    BY <1>4, InForceKept DEF Pass, vars, haltVars, rowVars, processVars, HoldInv, Work
<1> QED
    BY <1>1, <1>2, <1>3, <1>4 DEF Next

\* A halt that stood from before a process turned to an automation until the
\* run was recorded covers nothing of that run.
THEOREM HaltsAreKept == Spec => HeldWorkIsNotRun
<1>1. Init => HoldInv
    BY DEF Init, HoldInv
<1>2. HoldInv =>
          (\A w \in Processes : at[w] = "running" /\ ran' # ran /\ at'[w] # "running" =>
              Work(hand[w]) \intersect standing[w] = {})
    BY DEF HoldInv
<1> QED
    BY <1>1, <1>2, TypeInit, TypeStep, HoldStep, PTL DEF Spec, HeldWorkIsNotRun

\* Only a restart takes a halt out of force, and one asked for after the latest
\* stop of its target.
LEMMA OnlyALaterRestartEnds ==
    ASSUME HaltTypeOK, HaltNext, NEW k \in InForce, k \notin InForce'
    PROVE  \E p \in Admins :
               /\ pressing[p] = "lifting" /\ aim[p] = k
               /\ \A r \in acts : r.act = "halt" /\ r.target = k => r.at < pressedAt[p]
<1> USE DEF HaltTypeOK
<1>1. PICK r \in acts : r.act = "halt" /\ r.target = k /\ IsLatest(r)
    BY DEF InForce
<1>2. acts' # acts
    BY InForceKept
<1>3. PICK p \in Admins : WriteStop(p) \/ Lift(p)
    BY <1>2 DEF HaltNext, PressStop, PressResume, Press, LookUp, GiveUpPressing
<1>4. ASSUME NEW act \in {"halt", "resume"}, Insert(p, act), pressing[p] # "nothing",
             act = "halt" \/ aim[p] # k \/ pressedAt[p] <= r.at
      PROVE  FALSE
  <2> SUFFICES ASSUME NEW row, row = [act |-> act, target |-> aim[p], at |-> pressedAt[p]]
               PROVE  FALSE
      OBVIOUS
  <2>1. acts' = acts \union {row} /\ row \in acts'
      BY <1>4 DEF Insert
  <2>2. \A q \in acts : q.target = k => q.at <= r.at
      BY <1>1 DEF IsLatest
  <2>3. CASE aim[p] # k \/ pressedAt[p] <= r.at
    <3>1. \A q \in acts' : q.target = k => q.at <= r.at
        BY <2>1, <2>2, <2>3
    <3> QED
        BY <1>1, <2>1, <3>1 DEF InForce, IsLatest
  <2>4. CASE act = "halt" /\ aim[p] = k /\ pressedAt[p] > r.at
    <3>1. \A q \in acts' : q.target = k => q.at <= row.at
        BY <1>1, <2>1, <2>2, <2>4
    <3> QED
        BY <2>1, <2>4, <3>1 DEF InForce, IsLatest
  <2> QED
      BY <1>1, <1>4, <2>3, <2>4
<1>5. Lift(p) /\ aim[p] = k /\ pressedAt[p] > r.at
    BY <1>1, <1>3, <1>4 DEF WriteStop, Lift
<1>6. \A q \in acts : q.act = "halt" /\ q.target = k => q.at < pressedAt[p]
    BY <1>1, <1>5 DEF IsLatest
<1> QED
    BY <1>5, <1>6 DEF Lift

\* A halt in force ends only by a restart that was asked for after every stop
\* of that target it ends.
THEOREM OldRestartsEndNothing == Spec => StopsOutlastOlderResumes
<1>1. TypeOK /\ [Next]_vars =>
          [\A k \in InForce : k \notin InForce' =>
              \E p \in Admins :
                  /\ pressing[p] = "lifting" /\ aim[p] = k
                  /\ \A r \in acts : r.act = "halt" /\ r.target = k => r.at < pressedAt[p]]_haltVars
  <2> SUFFICES ASSUME TypeOK, [Next]_vars, NEW k \in InForce, k \notin InForce'
               PROVE  \E p \in Admins :
                         /\ pressing[p] = "lifting" /\ aim[p] = k
                         /\ \A r \in acts : r.act = "halt" /\ r.target = k => r.at < pressedAt[p]
      OBVIOUS
  <2>1. acts' # acts
      BY InForceKept
  <2>2. HaltNext
      BY <2>1, PersonsTouchNoProcess, ProcessesTouchNoHalt DEF Next, Halting, Pass, vars, haltVars
  <2>3. HaltTypeOK
      BY DEF TypeOK
  <2> QED
      BY <2>2, <2>3, OnlyALaterRestartEnds
<1> QED
    BY <1>1, TypeInit, TypeStep, PTL DEF Spec, StopsOutlastOlderResumes

(***************************************************************************)
(* What is in hand at the console.                                         *)
(***************************************************************************)

\* Of the changes only a start, a resume and a new schedule leave a next run,
\* the schedule only over one, and one later than every slot run before it was
\* asked for; no slot is run before its time.
AskInv ==
    /\ \A a \in Automations : \A s \in ran[a] : s <= now
    /\ \A p \in People : asking[p] # "nothing" /\ req[p].becomes # 0 =>
          /\ req[p].kind \in Starts \/ (req[p].kind = "rescheduled" /\ req[p].shown.next # 0)
          /\ p \notin behind => \A s \in ran[req[p].auto] : s < req[p].becomes

\* A request is asked for with a next run past now, so past all that was run.
LEMMA AskInvOfPersons ==
    ASSUME TypeOK, AskInv, NEW p \in People, PersonStep(p)
    PROVE  AskInv'
<1> USE DEF TypeOK
<1> UNCHANGED <<ran, now>>
    BY PersonsTouchNoProcess
<1>1. ASSUME NEW a \in Automations, NEW kind \in Kinds, NEW c \in Cadences, Ask(p, a, kind, c)
      PROVE  AskInv'
  <2>1. Becomes(a, kind, c) # 0 =>
            /\ kind \in Starts \/ (kind = "rescheduled" /\ next[a] # 0)
            /\ Becomes(a, kind, c) > now /\ Becomes(a, kind, c) \in Nat
      BY NextRunIsLater, AutomationsAssumption DEF Becomes
  <2>2. \A s \in ran[a] : s <= now /\ s \in Nat /\ now \in Nat
      BY DEF AskInv
  <2>3. UNCHANGED behind
      BY <1>1 DEF Ask, ghostVars
  <2>4. \A q \in People : q # p => req'[q] = req[q] /\ asking'[q] = asking[q]
      BY <1>1 DEF Ask
  <2>5. /\ req'[p].auto = a /\ req'[p].kind = kind
        /\ req'[p].becomes = Becomes(a, kind, c) /\ req'[p].shown.next = next[a]
      BY <1>1 DEF Ask, Shown
  <2> QED
      BY <2>1, <2>2, <2>3, <2>4, <2>5 DEF AskInv
<1>2. ASSUME BeginMoving(p) PROVE AskInv'
    BY <1>2 DEF BeginMoving, ghostVars, AskInv
<1>3. ASSUME Answered(p) PROVE AskInv'
  <2>1. asking'[p] = "nothing" /\ behind' = behind \ {p}
      BY <1>3 DEF Answered
  <2>2. \A q \in People : q # p => asking'[q] = asking[q] /\ req'[q] = req[q]
      BY <1>3 DEF Answered
  <2>3. \A q \in People : asking'[q] # "nothing" =>
            asking'[q] = asking[q] /\ req'[q] = req[q] /\ (q \notin behind' => q \notin behind)
      BY <2>1, <2>2
  <2> QED
      BY <2>3 DEF AskInv
<1> QED
    BY <1>1, <1>2, <1>3 DEF PersonStep, Move, MoveRefused, Apply, ApplyRefused, GiveUp, Refuse

\* A record makes the requests of its automation old, and its slot is past.
LEMMA AskStep == TypeOK /\ ClaimInv /\ AskInv /\ [Next]_vars => AskInv'
<1> SUFFICES ASSUME TypeOK, ClaimInv, AskInv, [Next]_vars PROVE AskInv'
    OBVIOUS
<1>1. ASSUME NEW p \in People, PersonStep(p) PROVE AskInv'
    BY <1>1, AskInvOfPersons
<1>2. ASSUME NEW w \in Processes, NEW outcome \in {"succeeded", "failed", "refused"}, Record(w, outcome)
      PROVE  AskInv'
  <2>1. hand[w] \in Automations /\ next[hand[w]] <= now /\ next[hand[w]] \in Nat
    <3>1. at[w] = "running"
        BY <1>2 DEF Record
    <3>2. hand[w] \in Automations /\ next[hand[w]] \in Nat /\ tick[w] \in Nat /\ now \in Nat
        BY <3>1 DEF TypeOK
    <3>3. next[hand[w]] <= tick[w] /\ tick[w] <= now
        BY <3>1 DEF ClaimInv
    <3> QED
        BY <3>2, <3>3
  <2>2. \A a \in Automations : a # hand[w] => ran'[a] = ran[a]
      BY <1>2 DEF Record, runVars, TypeOK
  <2>3. ran'[hand[w]] \subseteq ran[hand[w]] \union {next[hand[w]]}
    <3>1. ran' = ran \/ ran' = [ran EXCEPT ![hand[w]] = @ \union {next[hand[w]]}]
        BY <1>2 DEF Record, runVars
    <3>2. ran \in [Automations -> SUBSET Nat]
        BY DEF TypeOK
    <3> QED
        BY <2>1, <3>1, <3>2
  <2>4. /\ UNCHANGED <<asking, req, now>> /\ behind \subseteq behind'
        /\ ran' # ran => \A p \in People : asking[p] # "nothing" /\ req[p].auto = hand[w] => p \in behind'
      BY <1>2 DEF Record, askVars, runVars
  <2>5. \A a \in Automations : \A s \in ran'[a] : s <= now
      BY <2>1, <2>2, <2>3 DEF AskInv
  <2>6. \A p \in People : asking[p] # "nothing" => req[p].auto \in Automations
      BY DEF TypeOK, Requests
  <2> QED
      BY <2>2, <2>4, <2>5, <2>6 DEF AskInv
<1>3. ASSUME UNCHANGED <<ran, now, asking, req, behind>> PROVE AskInv'
    BY <1>3 DEF AskInv
<1>4. ASSUME Pass PROVE AskInv'
  <2>1. now' = now + 1 /\ UNCHANGED <<ran, asking, req, behind>>
      BY <1>4 DEF Pass, runVars, askVars, ghostVars
  <2>2. \A a \in Automations : \A s \in ran[a] : s <= now' /\ s \in Nat
      BY <2>1 DEF AskInv, TypeOK
  <2> QED
      BY <2>1, <2>2 DEF AskInv
<1>5. ASSUME NEW w \in Processes, ProcessStep(w) \/ Die(w),
             \A outcome \in {"succeeded", "failed", "refused"} : ~Record(w, outcome)
      PROVE  UNCHANGED <<ran, now, asking, req, behind>>
    BY <1>5 DEF ProcessStep, Die, StartPass, TurnTo, ReadHalts, Skip, Hold, Claim, EndPass, runVars, askVars, ghostVars
<1>6. Halting \/ UNCHANGED vars => UNCHANGED <<ran, now, asking, req, behind>>
    BY DEF Halting, vars, runVars, askVars, ghostVars
<1> QED
    BY <1>1, <1>2, <1>3, <1>4, <1>5, <1>6 DEF Next

LEMMA AskInit == Init => AskInv
BY DEF Init, AskInv

\* No run writes a next run over a stop: what is stopped is started only by a
\* person's start or resume.
THEOREM StopsAreKept == Spec => StopsHold
<1>1. TypeOK /\ ClaimInv /\ AskInv /\ [Next]_vars =>
          (\A a \in Automations : next[a] = 0 /\ next'[a] # 0 =>
              \E p \in People : /\ asking[p] # "nothing" /\ asking'[p] = "nothing"
                                /\ req[p].auto = a /\ req[p].kind \in Starts)
  <2> SUFFICES ASSUME TypeOK, ClaimInv, AskInv, [Next]_vars, NEW a \in Automations, next[a] = 0, next'[a] # 0
               PROVE  \E p \in People : /\ asking[p] # "nothing" /\ asking'[p] = "nothing"
                                        /\ req[p].auto = a /\ req[p].kind \in Starts
      OBVIOUS
  <2> USE DEF rowVars
  <2>1. ASSUME NEW w \in Processes, ProcessStep(w) \/ Die(w) PROVE FALSE
    <3>1. PICK outcome \in {"succeeded", "failed", "refused"} : Record(w, outcome)
        BY <2>1 DEF ProcessStep, Die, StartPass, TurnTo, ReadHalts, Skip, Hold, Claim, EndPass
    <3>2. hand[w] = a /\ at[w] = "running"
        BY <3>1 DEF Record, TypeOK
    <3> QED
        BY <3>2 DEF ClaimInv
  <2>2. ASSUME NEW p \in People, PersonStep(p)
        PROVE  /\ asking[p] # "nothing" /\ asking'[p] = "nothing"
               /\ req[p].auto = a /\ req[p].kind \in Starts
    <3>1. Move(p) \/ Apply(p)
        BY <2>2 DEF PersonStep, Ask, BeginMoving, MoveRefused, ApplyRefused, GiveUp, Refuse
    <3>2. asking[p] # "nothing" /\ asking'[p] = "nothing" /\ req[p].auto = a /\ req[p].becomes # 0
        BY <3>1 DEF Move, Apply, Answered, TypeOK
    <3>3. req[p].shown.next = next[a]
        BY <3>1, <3>2 DEF Move, Apply, Shown
    <3> QED
        BY <3>2, <3>3 DEF AskInv
  <2> QED
      BY <2>1, <2>2 DEF Next, Halting, Pass, vars
<1> QED
    BY <1>1, TypeInit, TypeStep, ClaimInit, ClaimStep, AskInit, AskStep, PTL DEF Spec, StopsHold

(***************************************************************************)
(* Only late starts schedule a slot again.                                 *)
(***************************************************************************)

\* A record schedules past its own slot, the latest of all it ran.
LEMMA SlotsStep ==
    TypeOK /\ ClaimInv /\ AskInv /\ SlotsOnlyRecurByLateStarts /\ [Next]_vars => SlotsOnlyRecurByLateStarts'
<1> SUFFICES ASSUME TypeOK, ClaimInv, AskInv, SlotsOnlyRecurByLateStarts, [Next]_vars,
                    NEW a \in Automations, a \notin overtaken', next'[a] # 0
             PROVE  \A s \in ran'[a] : s < next'[a]
    BY DEF SlotsOnlyRecurByLateStarts
<1>1. ASSUME NEW w \in Processes, NEW outcome \in {"succeeded", "failed", "refused"}, Record(w, outcome), hand[w] = a
      PROVE  \A s \in ran'[a] : s < next'[a]
  <2>1. a \notin overtaken
      BY <1>1 DEF Record
  <2>2. CASE next[a] \in ran[a]
      BY <1>1, <2>1, <2>2 DEF Record, runVars, SlotsOnlyRecurByLateStarts
  <2>3. CASE next[a] \notin ran[a]
    <3>1. ran'[a] = ran[a] \union {next[a]} /\ next'[a] = NextAfter(w, outcome)
        BY <1>1, <2>3 DEF Record, TypeOK
    <3>2. next'[a] = NextRun(cadence[a], tick[w])
        BY <1>1, <3>1 DEF NextAfter
    <3>3. tick[w] \in Nat /\ cadence[a] \in Nat \ {0}
        BY AutomationsAssumption DEF TypeOK
    <3>4. next'[a] \in Nat /\ next'[a] > tick[w]
        BY <3>2, <3>3, NextRunIsLater
    <3>5. next[a] \in Nat /\ next[a] # 0 /\ next[a] <= tick[w]
        BY <1>1 DEF Record, ClaimInv, TypeOK
    <3>6. \A s \in ran[a] : s \in Nat /\ s < next[a]
        BY <2>1, <3>5 DEF SlotsOnlyRecurByLateStarts, TypeOK
    <3> QED
        BY <3>1, <3>3, <3>4, <3>5, <3>6
  <2> QED
      BY <2>2, <2>3
<1>2. ASSUME NEW p \in People, Move(p) \/ Apply(p), req[p].auto = a PROVE \A s \in ran'[a] : s < next'[a]
  <2>1. p \notin behind /\ next'[a] = req[p].becomes /\ ran' = ran /\ asking[p] # "nothing"
      BY <1>2 DEF Move, Apply, Started, runVars, TypeOK
  <2> QED
      BY <1>2, <2>1 DEF AskInv
<1>3. ASSUME ran'[a] = ran[a], next'[a] = next[a], a \notin overtaken PROVE \A s \in ran'[a] : s < next'[a]
    BY <1>3 DEF SlotsOnlyRecurByLateStarts
<1>4. ASSUME NEW w \in Processes, NEW outcome \in {"succeeded", "failed", "refused"}, Record(w, outcome), hand[w] # a
      PROVE  ran'[a] = ran[a] /\ next'[a] = next[a] /\ a \notin overtaken
    BY <1>4 DEF Record, runVars, TypeOK
<1>5. ASSUME NEW p \in People, Move(p) \/ Apply(p), req[p].auto # a
      PROVE  ran'[a] = ran[a] /\ next'[a] = next[a] /\ a \notin overtaken
    BY <1>5 DEF Move, Apply, Started, runVars, TypeOK
<1>6. ASSUME NEW w \in Processes, ProcessStep(w) \/ Die(w),
             \A outcome \in {"succeeded", "failed", "refused"} : ~Record(w, outcome)
      PROVE  UNCHANGED <<ran, next, overtaken>>
    BY <1>6 DEF ProcessStep, Die, StartPass, TurnTo, ReadHalts, Skip, Hold, Claim, EndPass, rowVars, runVars, ghostVars
<1>7. ASSUME NEW p \in People, PersonStep(p), ~Move(p), ~Apply(p) PROVE UNCHANGED <<ran, next, overtaken>>
    BY <1>7 DEF PersonStep, Ask, BeginMoving, MoveRefused, ApplyRefused, GiveUp, Refuse, rowVars, runVars, ghostVars
<1>8. Halting \/ Pass \/ UNCHANGED vars => UNCHANGED <<ran, next, overtaken>>
    BY DEF Halting, Pass, vars, rowVars, runVars, ghostVars
<1> QED
    BY <1>1, <1>2, <1>3, <1>4, <1>5, <1>6, <1>7, <1>8 DEF Next

\* An automation is scheduled for a slot past all it ran, unless a request asked
\* for before one of those runs scheduled it; a stop, or a start in time, ends
\* that exception.
THEOREM SlotsRecurLate == Spec => []SlotsOnlyRecurByLateStarts
<1>1. Init => SlotsOnlyRecurByLateStarts
    BY DEF Init, SlotsOnlyRecurByLateStarts
<1> QED
    BY <1>1, TypeInit, TypeStep, ClaimInit, ClaimStep, AskInit, AskStep, SlotsStep, PTL DEF Spec

\* A removal leaves no next run, and only a start that saw no removal writes
\* one after it.
LEMMA RemovedStep ==
    TypeOK /\ ClaimInv /\ AskInv /\ RemovedIsScheduledOnlyByARace /\ [Next]_vars => RemovedIsScheduledOnlyByARace'
<1> SUFFICES ASSUME TypeOK, ClaimInv, AskInv, RemovedIsScheduledOnlyByARace, [Next]_vars,
                    NEW a \in removed', next'[a] # 0
             PROVE  a \in raced'
    BY DEF RemovedIsScheduledOnlyByARace
<1>1. ASSUME NEW w \in Processes, NEW outcome \in {"succeeded", "failed", "refused"}, Record(w, outcome)
      PROVE  a \in raced'
    BY <1>1 DEF Record, ClaimInv, RemovedIsScheduledOnlyByARace, TypeOK
<1>2. ASSUME NEW p \in People, Move(p) PROVE a \in raced'
    BY <1>2 DEF Move, Races, RemovedIsScheduledOnlyByARace, TypeOK
<1>3. ASSUME NEW p \in People, Apply(p) PROVE a \in raced'
  <2>1. CASE a = req[p].auto
    <3>1. /\ asking[p] # "nothing" /\ a \notin removed
          /\ removed' = IF req[p].kind = "removed" THEN removed \union {req[p].auto} ELSE removed
        BY <1>3, <2>1 DEF Apply
    <3>2. req[p].kind = "removed"
        BY <3>1
    <3>3. req[p].becomes = next'[a]
        BY <1>3, <2>1, <3>1 DEF Apply, TypeOK, Requests
    <3>4. req[p].kind \in Starts \/ req[p].kind = "rescheduled"
        BY <3>1, <3>3 DEF AskInv
    <3> QED
        BY <3>2, <3>4 DEF Starts
  <2>2. CASE a # req[p].auto
      BY <1>3, <2>2 DEF Apply, RemovedIsScheduledOnlyByARace, TypeOK
  <2> QED
      BY <2>1, <2>2
<1>4. ASSUME NEW w \in Processes, ProcessStep(w) \/ Die(w),
             \A outcome \in {"succeeded", "failed", "refused"} : ~Record(w, outcome)
      PROVE  UNCHANGED <<removed, next, raced>>
    BY <1>4 DEF ProcessStep, Die, StartPass, TurnTo, ReadHalts, Skip, Hold, Claim, EndPass, rowVars, ghostVars
<1>5. ASSUME NEW p \in People, PersonStep(p), ~Move(p), ~Apply(p) PROVE UNCHANGED <<removed, next, raced>>
    BY <1>5 DEF PersonStep, Ask, BeginMoving, MoveRefused, ApplyRefused, GiveUp, Refuse, rowVars, ghostVars
<1>6. Halting \/ Pass \/ UNCHANGED vars => UNCHANGED <<removed, next, raced>>
    BY DEF Halting, Pass, vars, rowVars, ghostVars
<1> QED
    BY <1>1, <1>2, <1>3, <1>4, <1>5, <1>6 DEF Next, RemovedIsScheduledOnlyByARace

\* A removed automation is scheduled only by a start whose statement was under
\* way when the removal was committed.
THEOREM RemovedIsFinalButForARace == Spec => []RemovedIsScheduledOnlyByARace
<1>1. Init => RemovedIsScheduledOnlyByARace
    BY DEF Init, RemovedIsScheduledOnlyByARace
<1> QED
    BY <1>1, TypeInit, TypeStep, ClaimInit, ClaimStep, AskInit, AskStep, RemovedStep, PTL DEF Spec


(***************************************************************************)
(* What fails too often is paused.                                         *)
(***************************************************************************)

\* A request that is not behind a run was asked for after every failure its
\* automation has on record: a pass carries an instant from before it began.
FailInv ==
    /\ \A w \in Processes : tickAt[w] <= stamp
    /\ \A a \in Automations : IsFiniteSet(failedAt[a]) /\ \A f \in failedAt[a] : f.at <= stamp
    /\ \A p \in People : asking[p] # "nothing" /\ p \notin behind =>
          \A f \in failedAt[req[p].auto] : f.at < req[p].at

\* A step that draws no earlier instant and leaves runs and requests alone.
LEMMA FailKept ==
    ASSUME TypeOK, FailInv, UNCHANGED <<failedAt, asking, req, behind, tickAt>>,
           stamp' \in Nat, stamp' >= stamp
    PROVE  FailInv'
<1>1. \A w \in Processes : tickAt[w] \in Nat
    BY DEF TypeOK
<1>2. \A a \in Automations : \A f \in failedAt[a] : f.at \in Nat
    BY DEF TypeOK
<1>3. stamp \in Nat
    BY DEF TypeOK, HaltTypeOK
<1> QED
    BY <1>1, <1>2, <1>3 DEF FailInv

\* A record leaves of an automation's failures some of those it had, and at
\* most one more, of the instant its pass carries.
LEMMA RecordedFailures ==
    ASSUME TypeOK, NEW w \in Processes, NEW outcome \in {"succeeded", "failed", "refused"},
           Record(w, outcome), next[hand[w]] \notin ran[hand[w]]
    PROVE  LET a == hand[w]
               f == [slot |-> next[a], at |-> tickAt[w]]
           IN  /\ a \in Automations
               /\ next'[a] = NextAfter(w, outcome)
               /\ outcome = "failed" => failedAt'[a] = failedAt[a] \union {f}
               /\ outcome # "failed" => failedAt'[a] \subseteq failedAt[a]
BY DEF Record, TypeOK

\* One more element is at most one more to count.
LEMMA OneMore ==
    ASSUME NEW S, NEW x, IsFiniteSet(S)
    PROVE  IsFiniteSet(S \union {x}) /\ Cardinality(S \union {x}) <= Cardinality(S) + 1
<1>1. IsFiniteSet(S \union {x}) /\ Cardinality(S \union {x}) = IF x \in S THEN Cardinality(S) ELSE Cardinality(S) + 1
    BY FS_AddElement
<1>2. Cardinality(S) \in Nat
    BY FS_CardinalityType
<1> QED
    BY <1>1, <1>2

LEMMA FailStep == TypeOK /\ FailInv /\ [Next]_vars => FailInv'
<1> SUFFICES ASSUME TypeOK, FailInv, [Next]_vars PROVE FailInv'
    OBVIOUS
<1> stamp \in Nat
    BY DEF TypeOK, HaltTypeOK
<1>1. ASSUME NEW p \in People, NEW a \in Automations, NEW kind \in Kinds, NEW c \in Cadences, Ask(p, a, kind, c)
      PROVE  FailInv'
  <2>1. UNCHANGED <<failedAt, tickAt, behind>> /\ stamp' = stamp + 1
      BY <1>1 DEF Ask, TakeStamp, runVars, processVars, ghostVars
  <2>2. \A q \in People : q # p => req'[q] = req[q] /\ asking'[q] = asking[q]
      BY <1>1 DEF Ask
  <2>3. req'[p].auto = a /\ req'[p].at = stamp + 1
      BY <1>1 DEF Ask, TypeOK
  <2>4. \A b \in Automations : \A f \in failedAt[b] : f.at \in Nat /\ f.at < stamp + 1
      BY DEF FailInv, TypeOK
  <2>5. \A v \in Processes : tickAt[v] <= stamp + 1
      BY DEF FailInv, TypeOK
  <2>6. \A b \in Automations : IsFiniteSet(failedAt'[b]) /\ \A f \in failedAt'[b] : f.at <= stamp'
      BY <2>1, <2>4 DEF FailInv
  <2>7. \A q \in People : asking'[q] # "nothing" /\ q \notin behind' => \A f \in failedAt'[req'[q].auto] : f.at < req'[q].at
      BY <2>1, <2>2, <2>3, <2>4 DEF FailInv
  <2> QED
      BY <2>1, <2>5, <2>6, <2>7 DEF FailInv
<1>2. ASSUME NEW p \in People, BeginMoving(p) PROVE FailInv'
    BY <1>2, FailKept DEF BeginMoving, haltVars, runVars, processVars, ghostVars, askVars, TypeOK, FailInv
<1>3. ASSUME NEW p \in People, Answered(p), UNCHANGED <<failedAt, tickAt, stamp>> PROVE FailInv'
  <2>1. \A q \in People : asking'[q] # "nothing" /\ q \notin behind' =>
            q # p /\ asking'[q] = asking[q] /\ req'[q] = req[q] /\ q \notin behind
      BY <1>3 DEF Answered, TypeOK
  <2>2. \A q \in People : asking'[q] # "nothing" /\ q \notin behind' =>
            \A f \in failedAt'[req'[q].auto] : f.at < req'[q].at
      BY <1>3, <2>1 DEF FailInv
  <2> QED
      BY <1>3, <2>2 DEF FailInv
<1>4. ASSUME NEW p \in People, Move(p) \/ MoveRefused(p) \/ Apply(p) \/ ApplyRefused(p) \/ GiveUp(p)
      PROVE  Answered(p) /\ UNCHANGED <<failedAt, tickAt, stamp>>
    BY <1>4 DEF Move, MoveRefused, Apply, ApplyRefused, GiveUp, Refuse, haltVars, runVars, processVars
<1>5. ASSUME NEW w \in Processes, NEW outcome \in {"succeeded", "failed", "refused"}, Record(w, outcome)
      PROVE  FailInv'
  <2>1. UNCHANGED <<tickAt, stamp, asking, req>> /\ behind \subseteq behind'
      BY <1>5 DEF Record, haltVars, askVars
  <2>2. CASE next[hand[w]] \in ran[hand[w]]
    <3>1. UNCHANGED <<failedAt, behind>>
        BY <1>5, <2>2 DEF Record, runVars
    <3> QED
        BY <2>1, <3>1, FailKept
  <2>3. CASE next[hand[w]] \notin ran[hand[w]]
    <3>1. hand[w] \in Automations /\ tickAt[w] <= stamp
        BY <1>5, <2>3, RecordedFailures DEF FailInv
    <3>2. \A a \in Automations : a # hand[w] => failedAt'[a] = failedAt[a]
        BY <1>5 DEF Record, runVars, TypeOK
    <3>3. \A p \in People : asking[p] # "nothing" /\ req[p].auto = hand[w] => p \in behind'
        BY <1>5, <2>3 DEF Record
    <3>4. IsFiniteSet(failedAt'[hand[w]]) /\ \A f \in failedAt'[hand[w]] : f.at <= stamp
      <4> DEFINE f == [slot |-> next[hand[w]], at |-> tickAt[w]]
      <4>1. IsFiniteSet(failedAt[hand[w]]) /\ \A g \in failedAt[hand[w]] : g.at <= stamp
          BY <3>1 DEF FailInv
      <4>2. CASE outcome = "failed"
        <5>1. failedAt'[hand[w]] = failedAt[hand[w]] \union {f}
            BY <1>5, <2>3, <4>2, RecordedFailures
        <5>2. f.at <= stamp
            BY <3>1
        <5> HIDE DEF f
        <5>3. IsFiniteSet(failedAt[hand[w]] \union {f})
            BY <4>1, OneMore
        <5> QED
            BY <4>1, <5>1, <5>2, <5>3
      <4>3. CASE outcome # "failed"
        <5>1. failedAt'[hand[w]] \subseteq failedAt[hand[w]]
            BY <1>5, <2>3, <4>3, RecordedFailures
        <5> QED
            BY <4>1, <5>1, FS_Subset
      <4> QED
          BY <4>2, <4>3
    <3>5. \A p \in People : asking[p] # "nothing" => req[p].auto \in Automations
        BY DEF TypeOK, Requests
    <3>6. \A a \in Automations : IsFiniteSet(failedAt'[a]) /\ \A f \in failedAt'[a] : f.at <= stamp'
        BY <2>1, <3>2, <3>4 DEF FailInv
    <3>7. \A p \in People : asking'[p] # "nothing" /\ p \notin behind' => \A f \in failedAt'[req'[p].auto] : f.at < req'[p].at
        BY <2>1, <3>2, <3>3, <3>5 DEF FailInv
    <3> QED
        BY <2>1, <3>6, <3>7 DEF FailInv
  <2> QED
      BY <2>2, <2>3
<1>6. ASSUME NEW w \in Processes, StartPass(w) \/ EndPass(w) \/ Die(w) PROVE FailInv'
  <2>1. UNCHANGED <<stamp, failedAt, asking, req, behind>>
      BY <1>6 DEF StartPass, EndPass, Die, haltVars, runVars, askVars, ghostVars
  <2>2. \A v \in Processes : tickAt'[v] = tickAt[v] \/ tickAt'[v] = 0 \/ tickAt'[v] = stamp
      BY <1>6 DEF StartPass, EndPass, Die, TypeOK
  <2>3. \A v \in Processes : tickAt'[v] <= stamp'
      BY <2>1, <2>2 DEF FailInv
  <2> QED
      BY <2>1, <2>3 DEF FailInv
<1>7. ASSUME NEW w \in Processes, ReadHalts(w) \/ Skip(w) \/ Hold(w) \/ Claim(w) \/ \E a \in Automations : TurnTo(w, a)
      PROVE  FailInv'
    BY <1>7, FailKept DEF ReadHalts, Skip, Hold, Claim, TurnTo, haltVars, runVars, askVars, ghostVars
<1>8. ASSUME Halting PROVE FailInv'
  <2>1. stamp' = stamp \/ stamp' = stamp + 1
      BY <1>8 DEF Halting, HaltNext, PressStop, PressResume, Press, TakeStamp, WriteStop, Lift, Insert, LookUp, GiveUpPressing
  <2> QED
      BY <1>8, <2>1, FailKept DEF Halting, runVars, askVars, ghostVars
<1>9. ASSUME Pass \/ UNCHANGED vars PROVE FailInv'
    BY <1>9, FailKept DEF Pass, vars, haltVars, runVars, processVars, askVars, ghostVars
<1> QED
    BY <1>1, <1>2, <1>3, <1>4, <1>5, <1>6, <1>7, <1>8, <1>9 DEF Next, ProcessStep, PersonStep

LEMMA FailInit == Init => FailInv
BY FS_EmptySet DEF Init, HaltInit, FailInv

\* A record that schedules leaves fewer failures in a row than pause it.
LEMMA RecordCounts ==
    ASSUME TypeOK, FailInv, NEW w \in Processes, NEW outcome \in {"succeeded", "failed", "refused"},
           Record(w, outcome), NEW a \in Automations, a = hand[w],
           next[a] \notin ran[a], next'[a] # 0, FailuresInARow(a) < PauseAfter
    PROVE  FailuresInARow(a)' < PauseAfter
<1> DEFINE f == [slot |-> next[a], at |-> tickAt[w]]
           Old == {g \in failedAt[a] : g.at >= startedAt[a]}
           New == {g \in failedAt'[a] : g.at >= startedAt[a]}
<1>1. startedAt'[a] = startedAt[a] /\ PauseAfter \in Nat
    BY AutomationsAssumption DEF Record
<1>2. FailuresInARow(a) = Cardinality(Old)
    BY DEF FailuresInARow
<1>3. IsFiniteSet(failedAt[a]) /\ Old \in SUBSET failedAt[a]
    BY <1>1 DEF FailInv
<1>4. IsFiniteSet(Old)
    BY <1>3, FS_Subset
<1>5. Cardinality(Old) \in Nat
    BY <1>4, FS_CardinalityType
<1>6. Cardinality(New) < PauseAfter
  <2>1. CASE outcome = "failed"
    <3>1. failedAt'[a] = failedAt[a] \union {f} /\ next'[a] = NextAfter(w, outcome)
        BY <2>1, RecordedFailures
    <3>2. FailuresInARow(a) + 1 < PauseAfter
        BY <1>1, <1>2, <1>5, <2>1, <3>1 DEF NextAfter
    <3>3. New \in SUBSET (Old \union {f})
        BY <3>1
    <3>4. IsFiniteSet(Old \union {f}) /\ Cardinality(Old \union {f}) <= Cardinality(Old) + 1
      <4> HIDE DEF Old, f
      <4> QED
          BY <1>4, OneMore
    <3>5. IsFiniteSet(New) /\ Cardinality(New) <= Cardinality(Old \union {f})
        BY <3>3, <3>4, FS_Subset
    <3>6. Cardinality(New) \in Nat /\ Cardinality(Old \union {f}) \in Nat
        BY <3>4, <3>5, FS_CardinalityType
    <3> HIDE DEF New, Old
    <3> QED
        BY <1>1, <1>2, <1>5, <3>2, <3>4, <3>5, <3>6
  <2>2. CASE outcome # "failed"
    <3>1. failedAt'[a] \subseteq failedAt[a]
        BY <2>2, RecordedFailures
    <3>2. New \in SUBSET Old
        BY <3>1
    <3>3. IsFiniteSet(New) /\ Cardinality(New) <= Cardinality(Old)
        BY <1>4, <3>2, FS_Subset
    <3>4. Cardinality(New) \in Nat
        BY <3>3, FS_CardinalityType
    <3> HIDE DEF New, Old
    <3> QED
        BY <1>1, <1>2, <1>5, <3>3, <3>4
  <2> QED
      BY <2>1, <2>2
<1>7. FailuresInARow(a)' = Cardinality(New)
    BY <1>1 DEF FailuresInARow
<1> QED
    BY <1>6, <1>7

\* Only a record adds a failure, and only a start makes one that is written
\* count anew.
LEMMA PausedStep ==
    TypeOK /\ ClaimInv /\ AskInv /\ FailInv /\ FailingIsPaused /\ [Next]_vars => FailingIsPaused'
<1> SUFFICES ASSUME TypeOK, ClaimInv, AskInv, FailInv, FailingIsPaused, [Next]_vars,
                    NEW a \in Automations, a \notin overtaken', next'[a] # 0
             PROVE  FailuresInARow(a)' < PauseAfter
    BY DEF FailingIsPaused
<1>1. ASSUME a \notin overtaken, next[a] # 0, failedAt'[a] = failedAt[a], startedAt'[a] = startedAt[a]
      PROVE  FailuresInARow(a)' < PauseAfter
    BY <1>1 DEF FailingIsPaused, FailuresInARow
<1>2. ASSUME NEW w \in Processes, NEW outcome \in {"succeeded", "failed", "refused"}, Record(w, outcome), hand[w] = a
      PROVE  FailuresInARow(a)' < PauseAfter
  <2>1. a \notin overtaken /\ next[a] # 0
      BY <1>2 DEF Record, ClaimInv
  <2>2. CASE next[a] \in ran[a]
      BY <1>1, <1>2, <2>1, <2>2 DEF Record, runVars
  <2>3. CASE next[a] \notin ran[a]
      BY <1>2, <2>1, <2>3, RecordCounts DEF FailingIsPaused
  <2> QED
      BY <2>2, <2>3
<1>3. ASSUME NEW p \in People, Move(p) \/ Apply(p), req[p].auto = a PROVE FailuresInARow(a)' < PauseAfter
  <2>1. /\ p \notin behind /\ next'[a] = req[p].becomes /\ failedAt' = failedAt /\ asking[p] # "nothing"
        /\ (req[p].kind \notin Starts => a \notin overtaken) /\ req[p].shown.next = next[a] /\ req[p] \in Requests
      BY <1>3 DEF Move, Apply, Started, Shown, runVars, TypeOK
  <2>2. CASE req[p].kind \in Starts
    <3>1. startedAt'[a] = Later(startedAt[a], req[p].at)
        BY <1>3, <2>2 DEF Move, Apply, Started, TypeOK
    <3>2. \A f \in failedAt'[a] : f.at \in Nat /\ f.at < req[p].at
        BY <1>3, <2>1 DEF FailInv, TypeOK
    <3>3. req[p].at \in Nat /\ startedAt[a] \in Nat
        BY <2>1 DEF Requests, TypeOK
    <3>4. \A f \in failedAt'[a] : ~(f.at >= startedAt'[a])
        BY <3>1, <3>2, <3>3 DEF Later
    <3>5. FailuresInARow(a)' = Cardinality({})
      <4>1. {f \in failedAt'[a] : f.at >= startedAt'[a]} = {}
          BY <3>4
      <4> QED
          BY <4>1 DEF FailuresInARow
    <3> QED
        BY <3>5, FS_EmptySet, AutomationsAssumption
  <2>3. CASE req[p].kind \notin Starts
    <3>1. startedAt' = startedAt
        BY <1>3, <2>3 DEF Move, Apply, Started
    <3>2. next[a] # 0
        BY <2>1, <2>3 DEF AskInv
    <3> QED
        BY <1>1, <2>1, <2>3, <3>1, <3>2
  <2> QED
      BY <2>2, <2>3
<1>4. ASSUME failedAt'[a] = failedAt[a], startedAt'[a] = startedAt[a], next'[a] = next[a], a \notin overtaken
      PROVE  FailuresInARow(a)' < PauseAfter
    BY <1>1, <1>4
<1>5. ASSUME NEW w \in Processes, NEW outcome \in {"succeeded", "failed", "refused"}, Record(w, outcome), hand[w] # a
      PROVE  /\ failedAt'[a] = failedAt[a] /\ startedAt'[a] = startedAt[a]
             /\ next'[a] = next[a] /\ a \notin overtaken
    BY <1>5 DEF Record, runVars, TypeOK
<1>6. ASSUME NEW p \in People, Move(p) \/ Apply(p), req[p].auto # a
      PROVE  /\ failedAt'[a] = failedAt[a] /\ startedAt'[a] = startedAt[a]
             /\ next'[a] = next[a] /\ a \notin overtaken
    BY <1>6 DEF Move, Apply, Started, runVars, TypeOK
<1>7. ASSUME NEW w \in Processes, ProcessStep(w) \/ Die(w),
             \A outcome \in {"succeeded", "failed", "refused"} : ~Record(w, outcome)
      PROVE  UNCHANGED <<failedAt, startedAt, next, overtaken>>
    BY <1>7 DEF ProcessStep, Die, StartPass, TurnTo, ReadHalts, Skip, Hold, Claim, EndPass, rowVars, runVars, ghostVars
<1>8. ASSUME NEW p \in People, PersonStep(p), ~Move(p), ~Apply(p)
      PROVE  UNCHANGED <<failedAt, startedAt, next, overtaken>>
    BY <1>8 DEF PersonStep, Ask, BeginMoving, MoveRefused, ApplyRefused, GiveUp, Refuse, rowVars, runVars, ghostVars
<1>9. Halting \/ Pass \/ UNCHANGED vars => UNCHANGED <<failedAt, startedAt, next, overtaken>>
    BY DEF Halting, Pass, vars, rowVars, runVars, ghostVars
<1> QED
    BY <1>2, <1>3, <1>4, <1>5, <1>6, <1>7, <1>8, <1>9 DEF Next

LEMMA PausedInit == Init => FailingIsPaused
<1> SUFFICES ASSUME Init, NEW a \in Automations PROVE FailuresInARow(a) < PauseAfter
    BY DEF FailingIsPaused
<1>1. {f \in failedAt[a] : f.at >= startedAt[a]} = {}
    BY DEF Init
<1> QED
    BY <1>1, FS_EmptySet, AutomationsAssumption DEF FailuresInARow

\* An automation that failed too often in a row is not scheduled, unless by a
\* request asked for before one of its runs; a stop, or a start in time, ends
\* that exception.
THEOREM FailuresPause == Spec => []FailingIsPaused
BY TypeInit, TypeStep, ClaimInit, ClaimStep, AskInit, AskStep, FailInit, FailStep, PausedInit, PausedStep, PTL DEF Spec

=============================================================================
