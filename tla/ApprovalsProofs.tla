-------------------------- MODULE ApprovalsProofs --------------------------
(***************************************************************************)
(* What Approvals keeps for any requests, people, workers, window and      *)
(* length of a pass, and through any number of changes and faults: types,  *)
(* two others' agreement, that a run stands on what was so since its       *)
(* worker turned to it, and the promise of ApprovalPromise.                *)
(***************************************************************************)
EXTENDS Approvals, TLAPS

LEMMA InitTypes == Init => TypeOK
  BY RequestsAssumption, PeopleAssumption, BoundsAssumption, SMTT(30)
     DEF Init, TypeOK, Verdicts, Conditions

LEMMA HoldingTypes == \A r : Holding(r) \subseteq Conditions
  BY DEF Holding

(* What the world's steps add to what a worker has lived through.          *)
LEMMA LivedTypes ==
    ASSUME TypeOK, Lived
    PROVE  /\ was' \in [Workers -> SUBSET Conditions]
           /\ \A w \in Workers : was[w] \subseteq was'[w]
<1> SUFFICES \A w \in Workers : (IF hand[w] \in Requests THEN was[w] \union Holding(hand[w])' ELSE was[w])
                                   \in SUBSET Conditions
  BY DEF Lived, TypeOK
<1>1. \A r : Holding(r)' \subseteq Conditions
  BY DEF Holding, Conditions
<1> QED
  BY <1>1 DEF TypeOK

(* How a pass goes on to the next action, or is over.                      *)
LEMMA LeaveTypes ==
    ASSUME TypeOK, NEW w \in Workers, Leave(w), phase[w] \notin {"idle", "passing"}
    PROVE  /\ phase' \in [Workers -> {"idle", "passing", "reached", "judging", "claiming", "winning"}]
           /\ todo' \in [Workers -> SUBSET Requests]
           /\ hand' \in [Workers -> Requests \union {NoRequest}]
           /\ got' \in [Workers -> {0, 1}]
           /\ was' \in [Workers -> SUBSET Conditions]
           /\ \A v \in Workers :
               /\ phase'[v] = "idle" <=> todo'[v] = {}
               /\ hand'[v] = NoRequest <=> phase'[v] \in {"idle", "passing"}
<1>1. todo[w] \ {hand[w]} = {} <=> todo[w] \subseteq {hand[w]}
  OBVIOUS
<1>2. phase'[w] = "idle" <=> todo'[w] = {}
  BY <1>1 DEF Leave, TypeOK
<1>3. phase'[w] \in {"idle", "passing"} /\ hand'[w] = NoRequest
  BY DEF Leave, TypeOK
<1>4. \A v \in Workers \ {w} : phase'[v] = phase[v] /\ todo'[v] = todo[v] /\ hand'[v] = hand[v]
  BY DEF Leave, TypeOK
<1>5. \A v \in Workers :
        /\ phase'[v] = "idle" <=> todo'[v] = {}
        /\ hand'[v] = NoRequest <=> phase'[v] \in {"idle", "passing"}
  BY <1>2, <1>3, <1>4 DEF TypeOK
<1> QED
  BY <1>5 DEF Leave, TypeOK

LEMMA PersonTypes ==
    ASSUME TypeOK, PersonStep
    PROVE  TypeOK'
<1>1. ASSUME NEW r \in Requests, Raise(r)
      PROVE  TypeOK'
  <2>1. now + Window \in Nat /\ reach[AskerOf[r]] \in {0, 1}
    BY PeopleAssumption, BoundsAssumption DEF TypeOK
  <2> QED
    BY <1>1, <2>1 DEF Raise, TypeOK, worldVars, passVars, ledgerVars, countVars
<1>2. ASSUME NEW p \in People, NEW r \in Requests, NEW v \in Verdicts, NEW at \in 0..MaxTime,
             Decide(p, r, v, at)
      PROVE  TypeOK'
  BY <1>2 DEF Decide, TypeOK, worldVars, passVars, ledgerVars, countVars
<1> QED
  BY <1>1, <1>2 DEF PersonStep

LEMMA WorldTypes ==
    ASSUME TypeOK, WorldStep
    PROVE  TypeOK'
<1> DEFINE Rest ==
       /\ UNCHANGED <<rowVars, passVars, ledgerVars, lost, faults>>
       /\ Lived
<1>1. ASSUME Rest, now' \in 0..MaxTime, reach' \in [People -> {0, 1}],
             standing' \subseteq Requests, keyed' \subseteq Requests, changes' \in 0..MaxChanges
      PROVE  TypeOK'
  BY <1>1, LivedTypes DEF TypeOK, rowVars, passVars, ledgerVars
<1>2. ASSUME NEW r \in Requests, ChangeReach(AskerOf[r])
      PROVE  TypeOK'
  <2>1. reach' \in [People -> {0, 1}]
    BY <1>2, PeopleAssumption DEF ChangeReach, TypeOK
  <2> QED
    BY <1>1, <1>2, <2>1, BoundsAssumption DEF ChangeReach, Changed, TypeOK
<1>3. ASSUME NEW r \in Requests, ChangeStanding(r)
      PROVE  TypeOK'
  BY <1>1, <1>3, BoundsAssumption DEF ChangeStanding, Changed, Flip, TypeOK
<1>4. ASSUME NEW r \in Requests, ChangeKey(r)
      PROVE  TypeOK'
  BY <1>1, <1>4, BoundsAssumption DEF ChangeKey, Changed, Flip, TypeOK
<1>5. ASSUME Tick
      PROVE  TypeOK'
  BY <1>1, <1>5, BoundsAssumption DEF Tick, worldVars, countVars, TypeOK
<1> QED
  BY <1>2, <1>3, <1>4, <1>5 DEF WorldStep

LEMMA PassTypes ==
    ASSUME TypeOK, NEW w \in Workers, PassStep(w)
    PROVE  TypeOK'
<1>1. ASSUME List(w)
      PROVE  TypeOK'
  <2>1. FirstOf(Due) \in SUBSET Requests
    BY DEF FirstOf, Due
  <2> QED
    BY <1>1, <2>1 DEF List, TypeOK, rowVars, worldVars, ledgerVars, countVars
<1>2. ASSUME NEW r \in Requests, Turn(w, r)
      PROVE  TypeOK'
  <2>1. reach[AskerOf[r]] \in {0, 1} /\ r # NoRequest
    BY PeopleAssumption, RequestsAssumption DEF TypeOK
  <2>2. Holding(r) \subseteq Conditions
    BY HoldingTypes
  <2>3. todo[w] # {}
    BY <1>2 DEF Turn
  <2> QED
    BY <1>2, <2>1, <2>2, <2>3 DEF Turn, TypeOK, rowVars, worldVars, ledgerVars, countVars
<1>3. ASSUME ReadStanding(w)
      PROVE  TypeOK'
  <2>1. CASE hand[w] \in standing
    BY <1>3, <2>1 DEF ReadStanding, GoOn, TypeOK, rowVars, worldVars, ledgerVars, countVars
  <2>2. CASE hand[w] \notin standing
    <3>1. Leave(w) /\ phase[w] \notin {"idle", "passing"}
      BY <1>3, <2>2 DEF ReadStanding
    <3> QED
      BY <1>3, <3>1, LeaveTypes DEF ReadStanding, TypeOK, rowVars, worldVars, ledgerVars, countVars
  <2> QED
    BY <2>1, <2>2
<1>4. ASSUME Judge(w)
      PROVE  TypeOK'
  <2>1. CASE MayRun(w)
    BY <1>4, <2>1 DEF Judge, GoOn, TypeOK, rowVars, worldVars, ledgerVars, countVars
  <2>2. CASE ~MayRun(w)
    <3>1. Leave(w) /\ phase[w] \notin {"idle", "passing"}
      BY <1>4, <2>2 DEF Judge
    <3> QED
      BY <1>4, <3>1, LeaveTypes DEF Judge, TypeOK, rowVars, worldVars, ledgerVars, countVars
  <2> QED
    BY <2>1, <2>2
<1>5. ASSUME Claim(w)
      PROVE  TypeOK'
  BY <1>5 DEF Claim, GoOn, TypeOK, rowVars, worldVars, countVars
<1>6. ASSUME Win(w)
      PROVE  TypeOK'
  <2>1. Leave(w) /\ phase[w] \notin {"idle", "passing"}
    BY <1>6 DEF Win
  <2>2. ops' \in [Requests -> {"none", "pending", "sent"}] /\ sent' \in [Requests -> Nat] /\ lost' \subseteq Requests
    BY <1>6 DEF Win, TypeOK
  <2> QED
    BY <1>6, <2>1, <2>2, LeaveTypes DEF Win, TypeOK, rowVars, worldVars, countVars
<1> QED
  BY <1>1, <1>2, <1>3, <1>4, <1>5, <1>6 DEF PassStep

LEMMA FaultTypes ==
    ASSUME TypeOK, NEW w \in Workers, Fail(w) \/ Die(w)
    PROVE  TypeOK'
<1>1. ASSUME phase[w] = "winning"
      PROVE  hand[w] \in Requests
  BY <1>1 DEF TypeOK
<1>2. (Fail(w) \/ Die(w)) => lost' \subseteq Requests
  BY <1>1 DEF Fail, Die, TypeOK
<1>3. faults' \in 0..MaxFaults
  BY BoundsAssumption DEF Fail, Die, Faulted, TypeOK
<1>4. ASSUME Fail(w)
      PROVE  TypeOK'
  <2>1. Leave(w) /\ phase[w] \notin {"idle", "passing"}
    BY <1>4 DEF Fail
  <2> QED
    BY <1>2, <1>3, <1>4, <2>1, LeaveTypes DEF Fail, Faulted, TypeOK, rowVars, worldVars, ledgerVars
<1>5. ASSUME Die(w)
      PROVE  TypeOK'
  BY <1>2, <1>3, <1>5 DEF Die, Faulted, TypeOK, rowVars, worldVars, ledgerVars
<1> QED
  BY <1>4, <1>5

LEMMA TypesStep == TypeOK /\ [Next]_vars => TypeOK'
<1> SUFFICES ASSUME TypeOK, [Next]_vars
             PROVE  TypeOK'
  OBVIOUS
<1>1. CASE UNCHANGED vars
  BY <1>1 DEF TypeOK, vars, rowVars, worldVars, passVars, ledgerVars, countVars
<1> QED
  BY <1>1, PersonTypes, WorldTypes, PassTypes, FaultTypes DEF Next

(* Types, and which phases hold a request and a list.                      *)
THEOREM TypeCorrect == Spec => []TypeOK
  BY InitTypes, TypesStep, PTL DEF Spec

-----------------------------------------------------------------------------
(* The rows: who agreed to what.                                           *)

\* Only a two-person row is endorsed, once it is raised, and not by the one
\* it runs as; a second person decides it.
RowsInv ==
    \A r \in Requests :
        /\ state[r] = "unraised" => r \notin two
        /\ endorser[r] # Nobody => r \in two /\ endorser[r] # AskerOf[r]
        /\ state[r] \in {"unraised", "pending"} => decider[r] = Nobody
        /\ state[r] = "approved" => decider[r] \in People
        /\ r \in two /\ state[r] = "approved" =>
              endorser[r] # Nobody /\ decider[r] \notin {AskerOf[r], endorser[r]}

LEMMA RowsStep == TypeOK /\ RowsInv /\ [Next]_vars => RowsInv'
<1> SUFFICES ASSUME TypeOK, RowsInv, [Next]_vars
             PROVE  RowsInv'
  OBVIOUS
<1>1. ASSUME NEW r \in Requests, Raise(r)
      PROVE  RowsInv'
  BY <1>1 DEF Raise, RowsInv, TypeOK
<1>2. ASSUME NEW p \in People, NEW r \in Requests, NEW v \in Verdicts, NEW at \in 0..MaxTime,
             Decide(p, r, v, at)
      PROVE  RowsInv'
  <2>1. state[r] = "pending" /\ (r \in two => p \notin {AskerOf[r], endorser[r]}) /\ p # Nobody
    BY <1>2, PeopleAssumption DEF Decide, MayApprove
  <2>2. CASE FirstOfTwo(r, v)
    BY <1>2, <2>1, <2>2, PeopleAssumption DEF Decide, FirstOfTwo, RowsInv, TypeOK
  <2>3. CASE ~FirstOfTwo(r, v)
    <3>1. r \in two /\ v = "approved" => endorser[r] # Nobody
      BY <2>3 DEF FirstOfTwo
    <3> QED
      BY <1>2, <2>1, <2>3, <3>1 DEF Decide, RowsInv, TypeOK, Verdicts
  <2> QED
    BY <2>2, <2>3
<1>3. CASE UNCHANGED rowVars
  BY <1>3 DEF rowVars, RowsInv
<1>4. CASE WorldStep
  BY <1>3, <1>4 DEF WorldStep, ChangeReach, ChangeStanding, ChangeKey, Changed, Tick
<1>5. ASSUME NEW w \in Workers, PassStep(w) \/ Fail(w) \/ Die(w)
      PROVE  RowsInv'
  BY <1>3, <1>5 DEF PassStep, List, Turn, ReadStanding, Judge, Claim, Win, Fail, Die, Faulted
<1>6. CASE UNCHANGED vars
  BY <1>3, <1>6 DEF vars
<1> QED
  BY <1>1, <1>2, <1>4, <1>5, <1>6 DEF Next, PersonStep

LEMMA RowsHold == Spec => []RowsInv
<1>1. Init => RowsInv
  BY DEF Init, RowsInv
<1> QED
  BY <1>1, RowsStep, TypeCorrect, PTL DEF Spec

(* Two others agreed to an approved two-person row, in whatever order the  *)
(* presses of any number of people reach it.                               *)
THEOREM TwoOthersDid == Spec => []TwoOthersAgreed
<1>1. TypeOK /\ RowsInv => TwoOthersAgreed
  <2> SUFFICES ASSUME TypeOK, RowsInv, NEW r \in two, state[r] = "approved"
               PROVE  /\ endorser[r] \in People \ {AskerOf[r]}
                      /\ decider[r] \in People \ {AskerOf[r], endorser[r]}
    BY DEF TwoOthersAgreed
  <2>1. r \in Requests
    BY PeopleAssumption DEF TypeOK
  <2> QED
    BY <2>1 DEF TypeOK, RowsInv
<1> QED
  BY <1>1, RowsHold, TypeCorrect, PTL

-----------------------------------------------------------------------------
(* The ledger: only what is approved is claimed, and one win sends it.     *)

LedgerInv ==
    /\ \A r \in Requests :
        /\ ops[r] # "none" => state[r] = "approved"
        /\ sent[r] = IF ops[r] = "sent" THEN 1 ELSE 0
    /\ \A w \in Workers :
        /\ \A r \in todo[w] : state[r] = "approved"
        /\ hand[w] # NoRequest => state[hand[w]] = "approved"

\* What is approved stays so.
LEMMA ApprovedStays ==
    ASSUME TypeOK, [Next]_vars, NEW r \in Requests, state[r] = "approved"
    PROVE  state'[r] = "approved"
<1>1. CASE UNCHANGED state
  BY <1>1
<1>2. ASSUME NEW q \in Requests, Raise(q)
      PROVE  state'[r] = "approved"
  BY <1>2 DEF Raise, TypeOK
<1>3. ASSUME NEW p \in People, NEW q \in Requests, NEW v \in Verdicts, NEW at \in 0..MaxTime,
             Decide(p, q, v, at)
      PROVE  state'[r] = "approved"
  BY <1>3 DEF Decide, MayApprove, TypeOK
<1>4. CASE WorldStep
  BY <1>1, <1>4 DEF WorldStep, ChangeReach, ChangeStanding, ChangeKey, Changed, Tick, rowVars
<1>5. ASSUME NEW w \in Workers, PassStep(w) \/ Fail(w) \/ Die(w)
      PROVE  state'[r] = "approved"
  BY <1>1, <1>5 DEF PassStep, List, Turn, ReadStanding, Judge, Claim, Win, Fail, Die, Faulted, rowVars
<1>6. CASE UNCHANGED vars
  BY <1>1, <1>6 DEF vars, rowVars
<1> QED
  BY <1>2, <1>3, <1>4, <1>5, <1>6 DEF Next, PersonStep

LEMMA LedgerStep == TypeOK /\ LedgerInv /\ [Next]_vars => LedgerInv'
<1> SUFFICES ASSUME TypeOK, LedgerInv, [Next]_vars
             PROVE  LedgerInv'
  OBVIOUS
<1>1. \A r \in Requests : state[r] = "approved" => state'[r] = "approved"
  BY ApprovedStays
<1>2. ASSUME UNCHANGED <<todo, hand, ops, sent>>
      PROVE  LedgerInv'
  BY <1>1, <1>2 DEF LedgerInv, TypeOK
<1>3. CASE PersonStep \/ WorldStep \/ UNCHANGED vars
  BY <1>2, <1>3 DEF PersonStep, Raise, Decide, WorldStep, ChangeReach, ChangeStanding, ChangeKey,
                    Changed, Tick, vars, passVars, ledgerVars
<1>4. ASSUME NEW w \in Workers, List(w)
      PROVE  LedgerInv'
  <2>1. \A r \in FirstOf(Due) : state[r] = "approved"
    BY DEF FirstOf, Due
  <2> QED
    BY <1>1, <1>4, <2>1 DEF List, LedgerInv, TypeOK, ledgerVars, rowVars
<1>5. ASSUME NEW w \in Workers, NEW r \in Requests, Turn(w, r)
      PROVE  LedgerInv'
  BY <1>5 DEF Turn, LedgerInv, TypeOK, ledgerVars, rowVars
<1>6. ASSUME NEW w \in Workers, Leave(w) \/ UNCHANGED <<todo, hand>>, UNCHANGED rowVars,
             \A r \in Requests :
                /\ ops'[r] # "none" => state[r] = "approved"
                /\ sent'[r] = IF ops'[r] = "sent" THEN 1 ELSE 0
      PROVE  LedgerInv'
  BY <1>6 DEF Leave, LedgerInv, TypeOK, rowVars
<1>7. ASSUME NEW w \in Workers, ReadStanding(w) \/ Judge(w)
      PROVE  LedgerInv'
  BY <1>6, <1>7 DEF ReadStanding, Judge, GoOn, LedgerInv, ledgerVars
<1>8. ASSUME NEW w \in Workers, Claim(w)
      PROVE  LedgerInv'
  <2>1. hand[w] # NoRequest /\ hand[w] \in Requests
    BY <1>8 DEF Claim, TypeOK
  <2>2. state[hand[w]] = "approved"
    BY <2>1 DEF LedgerInv
  <2> QED
    BY <1>6, <1>8, <2>1, <2>2 DEF Claim, GoOn, LedgerInv, TypeOK
<1>9. ASSUME NEW w \in Workers, Win(w)
      PROVE  LedgerInv'
  <2>1. hand[w] # NoRequest /\ hand[w] \in Requests
    BY <1>9 DEF Win, TypeOK
  <2>2. state[hand[w]] = "approved"
    BY <2>1 DEF LedgerInv
  <2>3. \A r \in Requests :
           /\ ops'[r] # "none" => state[r] = "approved"
           /\ sent'[r] = IF ops'[r] = "sent" THEN 1 ELSE 0
    BY <1>9, <2>1, <2>2 DEF Win, LedgerInv, TypeOK
  <2> QED
    BY <1>6, <1>9, <2>3 DEF Win
<1>10. ASSUME NEW w \in Workers, Fail(w)
       PROVE  LedgerInv'
  BY <1>6, <1>10 DEF Fail, Faulted, LedgerInv, ledgerVars
<1>11. ASSUME NEW w \in Workers, Die(w)
       PROVE  LedgerInv'
  BY <1>11 DEF Die, Faulted, LedgerInv, TypeOK, ledgerVars, rowVars
<1> QED
  BY <1>3, <1>4, <1>5, <1>7, <1>8, <1>9, <1>10, <1>11 DEF Next, PassStep

LEMMA LedgerHolds == Spec => []LedgerInv
<1>1. Init => LedgerInv
  BY DEF Init, LedgerInv
<1> QED
  BY <1>1, LedgerStep, TypeCorrect, PTL DEF Spec

-----------------------------------------------------------------------------
(* The runs: what a worker's phase says was so since it turned to it.      *)

\* What of the request in its hand a worker has found out to be so.
Found(w) ==
    CASE phase[w] = "reached" -> {c \in {"reach"} : got[w] = stamp[hand[w]]}
      [] phase[w] = "judging" -> {"standing"} \union {c \in {"reach"} : got[w] = stamp[hand[w]]}
      [] phase[w] \in {"claiming", "winning"} -> Conditions
      [] OTHER -> {}

\* And what is so of it now has been so since.
RunsInv ==
    \A w \in Workers :
        /\ Found(w) \subseteq was[w]
        /\ hand[w] # NoRequest => Holding(hand[w]) \subseteq was[w]

\* The row of a request that is in a worker's hand is not written again.
LEMMA RowsInHandStay ==
    ASSUME TypeOK, LedgerInv, PersonStep, NEW w \in Workers, hand[w] # NoRequest
    PROVE  stamp'[hand[w]] = stamp[hand[w]] /\ expires'[hand[w]] = expires[hand[w]]
<1>1. hand[w] \in Requests /\ state[hand[w]] = "approved"
  BY DEF TypeOK, LedgerInv
<1> QED
  BY <1>1 DEF PersonStep, Raise, Decide, TypeOK

LEMMA LivedStep ==
    ASSUME TypeOK, LedgerInv, RunsInv, [Next]_vars, NEW v \in Workers, hand'[v] # NoRequest
    PROVE  Holding(hand[v])' \subseteq was'[v]
<1>1. ASSUME hand'[v] = hand[v], was'[v] = was[v], UNCHANGED <<now, worldVars>>,
             stamp'[hand[v]] = stamp[hand[v]], expires'[hand[v]] = expires[hand[v]]
      PROVE  Holding(hand[v])' \subseteq was'[v]
  BY <1>1 DEF RunsInv, Holding, worldVars
<1>2. CASE PersonStep
  <2>1. UNCHANGED <<hand, was, now, worldVars>>
    BY <1>2 DEF PersonStep, Raise, Decide, passVars
  <2> QED
    BY <1>1, <1>2, <2>1, RowsInHandStay
<1>3. CASE WorldStep
  <2>1. Lived /\ hand' = hand
    BY <1>3 DEF WorldStep, ChangeReach, ChangeStanding, ChangeKey, Changed, Tick, passVars
  <2>2. hand[v] \in Requests
    BY <2>1 DEF TypeOK
  <2>3. was'[v] = was[v] \union Holding(hand[v])'
    BY <2>1, <2>2 DEF Lived
  <2> QED
    BY <2>3
<1>4. ASSUME NEW w \in Workers, PassStep(w) \/ Fail(w) \/ Die(w)
      PROVE  Holding(hand[v])' \subseteq was'[v]
  <2>1. UNCHANGED <<now, worldVars, stamp, expires>>
    BY <1>4 DEF PassStep, List, Turn, ReadStanding, Judge, Claim, Win, Fail, Die, Faulted, rowVars
  <2>2. CASE hand'[v] = hand[v] /\ was'[v] = was[v]
    BY <1>1, <2>1, <2>2
  <2>3. ASSUME NEW r \in Requests, Turn(v, r)
        PROVE  Holding(hand[v])' \subseteq was'[v]
    <3>1. hand'[v] = r /\ was'[v] = Holding(r)
      BY <2>3 DEF Turn, TypeOK
    <3>2. Holding(r)' = Holding(r)
      BY <2>1 DEF Holding, worldVars
    <3>3. \A q : hand'[v] = q => Holding(hand[v])' = Holding(q)'
      BY DEF Holding
    <3> QED
      BY <3>1, <3>2, <3>3
  <2>4. (\E r \in Requests : Turn(v, r)) \/ (hand'[v] = hand[v] /\ was'[v] = was[v])
    BY <1>4 DEF PassStep, List, Turn, ReadStanding, Judge, Claim, Win, Fail, Die, GoOn, Leave, TypeOK
  <2> QED
    BY <2>2, <2>3, <2>4
<1>5. CASE UNCHANGED vars
  BY <1>1, <1>5 DEF vars, rowVars, passVars
<1> QED
  BY <1>2, <1>3, <1>4, <1>5 DEF Next

LEMMA FoundStep ==
    ASSUME TypeOK, LedgerInv, RunsInv, [Next]_vars, NEW v \in Workers
    PROVE  Found(v)' \subseteq was'[v]
<1>1. Found(v) \subseteq was[v]
  BY DEF RunsInv
<1>2. ASSUME phase'[v] = phase[v], hand'[v] = hand[v], got'[v] = got[v], was[v] \subseteq was'[v],
             hand[v] # NoRequest => stamp'[hand[v]] = stamp[hand[v]]
      PROVE  Found(v)' \subseteq was'[v]
  <2>1. CASE hand[v] = NoRequest
    <3>1. phase[v] \in {"idle", "passing"}
      BY <2>1 DEF TypeOK
    <3> QED
      BY <1>2, <3>1 DEF Found
  <2>2. CASE hand[v] # NoRequest
    BY <1>1, <1>2, <2>2 DEF Found
  <2> QED
    BY <2>1, <2>2
<1>3. CASE PersonStep
  BY <1>2, <1>3, RowsInHandStay DEF PersonStep, Raise, Decide, passVars
<1>4. CASE WorldStep
  <2>1. Lived /\ UNCHANGED <<phase, hand, got, stamp>>
    BY <1>4 DEF WorldStep, ChangeReach, ChangeStanding, ChangeKey, Changed, Tick, passVars, rowVars
  <2> QED
    BY <1>2, <2>1, LivedTypes
<1>5. ASSUME NEW w \in Workers, PassStep(w) \/ Fail(w) \/ Die(w), w # v
      PROVE  Found(v)' \subseteq was'[v]
  <2>1. phase'[v] = phase[v] /\ hand'[v] = hand[v] /\ got'[v] = got[v] /\ was'[v] = was[v] /\ stamp' = stamp
    BY <1>5 DEF PassStep, List, Turn, ReadStanding, Judge, Claim, Win, Fail, Die, Faulted,
                GoOn, Leave, TypeOK, rowVars
  <2> QED
    BY <1>2, <2>1
<1>6. ASSUME phase'[v] \in {"idle", "passing"}
      PROVE  Found(v)' \subseteq was'[v]
  BY <1>6 DEF Found
<1>7. ASSUME Leave(v)
      PROVE  Found(v)' \subseteq was'[v]
  BY <1>6, <1>7 DEF Leave, TypeOK
<1>8. CASE List(v)
  BY <1>6, <1>8 DEF List, TypeOK
<1>9. ASSUME NEW r \in Requests, Turn(v, r)
      PROVE  Found(v)' \subseteq was'[v]
  <2>1. phase'[v] = "reached" /\ hand'[v] = r /\ got'[v] = reach[AskerOf[r]] /\ was'[v] = Holding(r)
        /\ stamp' = stamp
    BY <1>9 DEF Turn, TypeOK, rowVars
  <2> QED
    BY <2>1 DEF Found, Holding, Conditions
<1>10. CASE ReadStanding(v)
  <2>1. CASE hand[v] \in standing
    <3>1. phase[v] = "reached" /\ phase'[v] = "judging" /\ hand'[v] = hand[v] /\ got'[v] = got[v]
          /\ was'[v] = was[v] /\ stamp' = stamp
      BY <1>10, <2>1 DEF ReadStanding, GoOn, TypeOK, rowVars
    <3>2. "standing" \in Holding(hand[v]) /\ hand[v] # NoRequest
      BY <2>1, <3>1 DEF Holding, Conditions, TypeOK
    <3>3. "standing" \in was[v]
      BY <3>2 DEF RunsInv
    <3> QED
      BY <1>1, <3>1, <3>3 DEF Found
  <2> QED
    BY <1>7, <1>10, <2>1 DEF ReadStanding
<1>11. CASE Judge(v)
  <2>1. CASE MayRun(v)
    <3>1. phase[v] = "judging" /\ phase'[v] = "claiming" /\ was'[v] = was[v] /\ hand[v] # NoRequest
      BY <1>11, <2>1 DEF Judge, GoOn, TypeOK
    <3>2. "key" \in Holding(hand[v]) /\ "time" \in Holding(hand[v])
      BY <2>1 DEF MayRun, Holding, Conditions
    <3>3. "reach" \in was[v] /\ "standing" \in was[v]
      BY <1>1, <2>1, <3>1 DEF MayRun, Found
    <3>4. Conditions \subseteq was[v]
      BY <3>1, <3>2, <3>3 DEF RunsInv, Conditions
    <3> QED
      BY <3>1, <3>4 DEF Found
  <2> QED
    BY <1>7, <1>11, <2>1 DEF Judge
<1>12. CASE Claim(v)
  BY <1>1, <1>12 DEF Claim, GoOn, Found, TypeOK
<1>13. CASE Win(v) \/ Fail(v)
  BY <1>7, <1>13 DEF Win, Fail
<1>14. CASE Die(v)
  BY <1>6, <1>14 DEF Die, TypeOK
<1>15. CASE UNCHANGED vars
  BY <1>2, <1>15 DEF vars, passVars, rowVars
<1> QED
  BY <1>3, <1>4, <1>5, <1>8, <1>9, <1>10, <1>11, <1>12, <1>13, <1>14, <1>15 DEF Next, PassStep

LEMMA RunsHold == Spec => []RunsInv
<1>1. Init => RunsInv
  BY DEF Init, RunsInv, Found
<1>2. TypeOK /\ LedgerInv /\ RunsInv /\ [Next]_vars => RunsInv'
  BY FoundStep, LivedStep DEF RunsInv
<1> QED
  BY <1>1, <1>2, TypeCorrect, LedgerHolds, PTL DEF Spec

(* What is sent was approved, and everything it needs was so at some       *)
(* instant since its worker turned to it.                                  *)
THEOREM RunsStandOnWhatIsSo == Spec => RunsOnlyAsApproved
<1>1. ASSUME TypeOK, LedgerInv, RunsInv, [Next]_vars, NEW w \in Workers, NEW r \in Requests,
             hand[w] = r, hand'[w] # r, sent'[r] # sent[r]
      PROVE  state[r] = "approved" /\ was[w] = Conditions
  <2>1. \E v \in Workers : Win(v)
    BY <1>1 DEF Next, PersonStep, Raise, Decide, WorldStep, ChangeReach, ChangeStanding, ChangeKey,
                Changed, Tick, PassStep, List, Turn, ReadStanding, Judge, Claim, Fail, Die,
                Faulted, vars, ledgerVars
  <2>2. Win(w)
    <3>1. PICK v \in Workers : Win(v)
      BY <2>1
    <3>2. hand' = [hand EXCEPT ![v] = NoRequest]
      BY <3>1 DEF Win, Leave
    <3>3. v = w
      BY <1>1, <3>2 DEF TypeOK
    <3> QED
      BY <3>1, <3>3
  <2>3. Conditions \subseteq was[w]
    <3>1. phase[w] = "winning"
      BY <2>2 DEF Win
    <3>2. Found(w) = Conditions
      BY <3>1 DEF Found
    <3> QED
      BY <1>1, <3>2 DEF RunsInv
  <2>4. was[w] \subseteq Conditions
    BY <1>1 DEF TypeOK
  <2>5. hand[w] # NoRequest
    BY <1>1, RequestsAssumption
  <2> QED
    BY <1>1, <2>3, <2>4, <2>5 DEF LedgerInv
<1>2. TypeOK /\ LedgerInv /\ RunsInv /\ [Next]_vars =>
         [\A w \in Workers, r \in Requests :
            hand[w] = r /\ hand'[w] # r /\ sent'[r] # sent[r] =>
                state[r] = "approved" /\ was[w] = Conditions]_vars
  BY <1>1
<1> QED
  BY <1>2, TypeCorrect, LedgerHolds, RunsHold, PTL DEF Spec, RunsOnlyAsApproved

-----------------------------------------------------------------------------
(* The promise.                                                            *)

\* Who agreed to a request changes with its own row only.
LEMMA AgreedElsewhere ==
    ASSUME NEW r \in Requests,
           \A q \in Requests \ {r} :
              state'[q] = state[q] /\ endorser'[q] = endorser[q] /\ decider'[q] = decider[q]
    PROVE  Agreed' = [Agreed EXCEPT ![r] = Agreed'[r]]
<1>1. \A q \in Requests \ {r} : Agreed'[q] = Agreed[q]
  BY DEF Agreed
<1>2. Agreed = [q \in Requests |-> Agreed[q]] /\ Agreed' = [q \in Requests |-> Agreed'[q]]
  BY DEF Agreed
<1> QED
  BY <1>1, <1>2

LEMMA AgreedSame ==
    ASSUME NEW r \in Requests, Agreed' = [Agreed EXCEPT ![r] = Agreed'[r]], Agreed'[r] = Agreed[r]
    PROVE  Agreed' = Agreed
<1>1. Agreed = [q \in Requests |-> Agreed[q]]
  BY DEF Agreed
<1> QED
  BY <1>1

LEMMA PromiseStep ==
    ASSUME TypeOK, RowsInv, LedgerInv, [Next]_vars
    PROVE  [Promise!PNext]_(Promise!pvars)
<1> USE DEF Promise!PNext, Promise!pvars, Carried
<1>1. ASSUME UNCHANGED <<state, two, endorser, decider, sent>>
      PROVE  UNCHANGED Promise!pvars
  BY <1>1 DEF Agreed
<1>2. ASSUME NEW r \in Requests, Raise(r)
      PROVE  Promise!Put(r)
  <2>1. Agreed'[r] = Agreed[r] /\ Agreed' = [Agreed EXCEPT ![r] = Agreed'[r]]
    <3>1. state[r] # "approved" /\ state'[r] # "approved" /\ endorser' = endorser
      BY <1>2 DEF Raise, TypeOK
    <3>2. Agreed'[r] = Agreed[r]
      BY <3>1 DEF Agreed
    <3>3. \A q \in Requests \ {r} :
             state'[q] = state[q] /\ endorser'[q] = endorser[q] /\ decider'[q] = decider[q]
      BY <1>2 DEF Raise, TypeOK
    <3> QED
      BY <3>2, <3>3, AgreedElsewhere
  <2>2. Agreed' = Agreed
    BY <2>1, AgreedSame
  <2>3. two' \in {two, two \union {r}}
    BY <1>2 DEF Raise
  <2> QED
    BY <1>2, <2>2, <2>3 DEF Promise!Put, Raise, ledgerVars
<1>3. ASSUME NEW p \in People, NEW r \in Requests, NEW v \in Verdicts, NEW at \in 0..MaxTime,
             Decide(p, r, v, at)
      PROVE  Promise!Agree(r, p) \/ Promise!Grant(r, p) \/ Promise!TurnDown(r)
  <2>1. /\ state[r] = "pending" /\ p # Nobody
        /\ r \in two => p \notin {AskerOf[r], endorser[r]}
        /\ UNCHANGED <<two, sent>>
    BY <1>3, PeopleAssumption DEF Decide, MayApprove, ledgerVars
  <2>2. Agreed' = [Agreed EXCEPT ![r] = Agreed'[r]]
    <3>1. \A q \in Requests \ {r} :
             state'[q] = state[q] /\ endorser'[q] = endorser[q] /\ decider'[q] = decider[q]
      BY <1>3 DEF Decide, TypeOK
    <3> QED
      BY <3>1, AgreedElsewhere
  <2>3. CASE FirstOfTwo(r, v)
    <3>1. Agreed[r] = {}
      BY <2>1, <2>3 DEF Agreed, FirstOfTwo
    <3>2. Agreed' = [Agreed EXCEPT ![r] = {p}]
      <4>1. state'[r] # "approved" /\ endorser'[r] = p
        BY <1>3, <2>1, <2>3 DEF Decide, TypeOK
      <4>2. Agreed'[r] = {p}
        BY <2>1, <4>1 DEF Agreed
      <4> QED
        BY <2>2, <4>2
    <3>3. r \in two /\ state' = state
      BY <1>3, <2>3 DEF FirstOfTwo, Decide
    <3> QED
      BY <2>1, <3>1, <3>2, <3>3 DEF Promise!Agree
  <2>4. CASE ~FirstOfTwo(r, v) /\ v = "approved"
    <3>1. state' = [state EXCEPT ![r] = "approved"] /\ endorser' = endorser
          /\ decider' = [decider EXCEPT ![r] = p]
      BY <1>3, <2>4 DEF Decide
    <3>2. Agreed[r] = {endorser[r]} \ {Nobody}
      BY <2>1 DEF Agreed
    <3>3. Agreed' = [Agreed EXCEPT ![r] = @ \union {p}]
      <4>1. state'[r] = "approved" /\ decider'[r] = p /\ endorser'[r] = endorser[r]
        BY <3>1 DEF TypeOK
      <4>2. Agreed'[r] = Agreed[r] \union {p}
        BY <2>1, <3>2, <4>1 DEF Agreed
      <4> QED
        BY <2>2, <4>2
    <3>4. r \in two => p # AskerOf[r] /\ \E q \in Agreed[r] : q # p
      BY <2>1, <2>4, <3>2 DEF FirstOfTwo
    <3> QED
      BY <2>1, <3>1, <3>3, <3>4 DEF Promise!Grant
  <2>5. CASE ~FirstOfTwo(r, v) /\ v = "rejected"
    <3>1. state' = [state EXCEPT ![r] = "rejected"] /\ endorser' = endorser
          /\ decider' = [decider EXCEPT ![r] = p]
      BY <1>3, <2>5 DEF Decide
    <3>2. Agreed' = Agreed
      <4>1. state[r] # "approved" /\ state'[r] # "approved" /\ endorser'[r] = endorser[r]
        BY <2>1, <3>1 DEF TypeOK
      <4>2. Agreed'[r] = Agreed[r]
        BY <4>1 DEF Agreed
      <4> QED
        BY <2>2, <4>2, AgreedSame
    <3> QED
      BY <2>1, <3>1, <3>2 DEF Promise!TurnDown
  <2> QED
    BY <2>3, <2>4, <2>5 DEF Verdicts
<1>4. ASSUME NEW w \in Workers, Win(w)
      PROVE  UNCHANGED Promise!pvars \/ \E r \in Requests : Promise!CarryOut(r)
  <2>1. UNCHANGED <<state, two, endorser, decider>>
    BY <1>4 DEF Win, rowVars
  <2>2. hand[w] \in Requests /\ hand[w] # NoRequest
    BY <1>4 DEF Win, TypeOK
  <2>3. CASE ops[hand[w]] # "pending"
    BY <1>1, <1>4, <2>1, <2>3 DEF Win
  <2>4. CASE ops[hand[w]] = "pending"
    <3>1. state[hand[w]] = "approved" /\ sent[hand[w]] = 0
      BY <2>2, <2>4 DEF LedgerInv
    <3>2. sent' = [sent EXCEPT ![hand[w]] = 1]
      BY <1>4, <2>2, <2>4, <3>1 DEF Win, TypeOK
    <3>3. Agreed' = Agreed
      BY <2>1 DEF Agreed
    <3>4. Promise!CarryOut(hand[w])
      BY <2>1, <3>1, <3>2, <3>3 DEF Promise!CarryOut
    <3> QED
      BY <2>2, <3>4
  <2> QED
    BY <2>3, <2>4
<1>5. CASE WorldStep \/ UNCHANGED vars
  BY <1>1, <1>5 DEF WorldStep, ChangeReach, ChangeStanding, ChangeKey, Changed, Tick, vars,
                    rowVars, ledgerVars
<1>6. ASSUME NEW w \in Workers, PassStep(w) \/ Fail(w) \/ Die(w), ~Win(w)
      PROVE  UNCHANGED Promise!pvars
  <2>1. UNCHANGED <<rowVars, sent>>
    BY <1>6 DEF PassStep, List, Turn, ReadStanding, Judge, Claim, Fail, Die, Faulted, ledgerVars
  <2> QED
    BY <1>1, <2>1 DEF rowVars
<1> QED
  BY <1>2, <1>3, <1>4, <1>5, <1>6 DEF Next, PersonStep

(* Approvals implements ApprovalPromise: with any number of presses,       *)
(* passes and faults, a request is granted once as its row demands, and    *)
(* only then carried out, once.                                            *)
THEOREM PromiseKept == Spec => KeepsThePromise
<1>1. Init => Promise!PInit
  BY DEF Init, Promise!PInit, Agreed, Carried
<1>2. TypeOK /\ RowsInv /\ LedgerInv /\ [Next]_vars => [Promise!PNext]_(Promise!pvars)
  BY PromiseStep
<1> QED
  BY <1>1, <1>2, TypeCorrect, RowsHold, LedgerHolds, PTL DEF Spec, KeepsThePromise, Promise!PSpec

=============================================================================
