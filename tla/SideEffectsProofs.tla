------------------------- MODULE SideEffectsProofs -------------------------
(***************************************************************************)
(* Proofs about SideEffects for any set of keys, callers and sweeps.       *)
(*                                                                         *)
(* AtMostOneRequest is not inductive: it needs to be known who may still   *)
(* send.  IssueInv says a caller between winning a key and settling it is  *)
(* the only one, and that before it sends nothing has left.  TruthInv adds *)
(* what the ledger's verdicts rest on; its second half is what a grace     *)
(* that outlasts a call buys: a record the sweep has looked at is quiet,   *)
(* for good.                                                               *)
(***************************************************************************)
EXTENDS SideEffects, TLAPS

InCall == {"won", "calling", "answered", "raising"}

Holding(w, k) == key[w] = k /\ pc[w] \in InCall

HeldInv ==
    /\ \A w \in Workers : pc[w] # "idle" => key[w] \in Keys /\ ledger[key[w]] # "none"
    /\ \A w \in Workers : pc[w] = "claimed" => stored[w] # "none"
    /\ \A s \in Sweepers : spc[s] \notin {"idle", "next"} => row[s] \in Keys
    /\ \A s \in Sweepers : spc[s] = "asked" => learnt[s] # "none"
    /\ \A w \in Workers : pc[w] \in {"answered", "raising"} => landed[w] # "none"

FreshIsUnissued ==
    \A k \in Keys : ledger[k] \in {"none", "pending"} =>
        requests[k] = 0 /\ \A w \in Workers : ~Holding(w, k)

OneHolder ==
    \A v, w \in Workers : \A k \in Keys : Holding(v, k) /\ Holding(w, k) => v = w

WinnerHasNotSent == \A w \in Workers : pc[w] = "won" => requests[key[w]] = 0

IssueInv == FreshIsUnissued /\ OneHolder /\ WinnerHasNotSent /\ AtMostOneRequest

\* Nothing is in the air for k and nothing ever will be again.
Quiet(k) ==
    /\ ledger[k] \notin {"none", "pending"}
    /\ fate[k] # "travelling"
    /\ \A w \in Workers : ~Holding(w, k)

RequestsAreCounted == \A k \in Keys : requests[k] = 0 <=> fate[k] = "unsent"

AnswersAreTrue ==
    \A w \in Workers :
        /\ pc[w] = "answered" /\ landed[w] = "succeeded" => fate[key[w]] = "applied"
        /\ pc[w] = "answered" /\ landed[w] = "failed" => fate[key[w]] = "lost"
        /\ pc[w] = "raising" => landed[w] = "unknown"
        /\ pc[w] = "calling" => fate[key[w]] # "unsent"

SuccessIsTrue ==
    /\ \A s \in Sweepers : spc[s] = "asked" /\ learnt[s] = "succeeded" => fate[row[s]] = "applied"
    /\ \A k \in Keys : ledger[k] = "succeeded" => fate[k] = "applied"

TruthInv == RequestsAreCounted /\ AnswersAreTrue /\ SuccessIsTrue

HolderIsSent == \A w \in Workers : \A k \in Keys : Holding(w, k) => ledger[k] = "sent"

LookedAt(k) ==
    \/ k \in old
    \/ \E s \in Sweepers : seen[s][k] # "none" \/ (spc[s] \notin {"idle", "next"} /\ row[s] = k)

LookedAtIsQuiet == \A k \in Keys : LookedAt(k) => Quiet(k)

FailureIsTrue ==
    /\ \A s \in Sweepers : spc[s] = "asked" /\ learnt[s] = "failed" => fate[row[s]] # "applied"
    /\ \A k \in Keys : ledger[k] = "failed" => Quiet(k) /\ fate[k] # "applied"

GraceInv == GraceHolds => HolderIsSent /\ LookedAtIsQuiet /\ FailureIsTrue

IInv == TypeOK /\ HeldInv /\ IssueInv /\ TruthInv /\ GraceInv


USE DEF OperationState, Terminal, Unsettled

\* What each move of the machine leads to.
LEMMA MachineType ==
    /\ \A frm \in OperationState : AllowedTransitions[frm] \subseteq OperationState
    /\ \A o \in DOMAIN StateAfterCall : StateAfterCall[o] \in {"succeeded", "failed", "unknown"}
    /\ \A st \in OperationState : ResumePlan[st] \in {"issue", "verify", "done", "stop"}
BY DEF AllowedTransitions, StateAfterCall, ResumePlan

\* An empty snapshot is a snapshot.
LEMMA NoRowsType == NoRows \in [Keys -> Unsettled \union {"none"}]
BY DEF NoRows

\* Every variable keeps its type, and what a process holds between two of its
\* statements is there to be used (issue_once, resume_side_effects).
LEMMA TypeInit == Init => TypeOK /\ HeldInv
BY AbsenceAssumption DEF Init, TypeOK, HeldInv, NoRows

\* Each step of a caller or a sweep keeps the types and what is in hand
\* (issue_once, resume_side_effects).
LEMMA TypeStep == TypeOK /\ HeldInv /\ [Next]_vars => TypeOK' /\ HeldInv'
<1> SUFFICES ASSUME TypeOK, HeldInv, [Next]_vars PROVE TypeOK' /\ HeldInv'
    OBVIOUS
<1> USE DEF TypeOK, HeldInv, ledgerVars, sourceVars, workerVars, sweepVars
<1>1. ASSUME NEW w \in Workers, NEW k \in Keys, NEW i \in Intents, ClaimNew(w, k, i)
      PROVE  TypeOK' /\ HeldInv'
    <2>1. TypeOK'
        BY <1>1 DEF ClaimNew
    <2>2. HeldInv'
        BY <1>1 DEF ClaimNew
    <2> QED
        BY <2>1, <2>2
<1>2. ASSUME NEW w \in Workers, NEW k \in Keys, NEW i \in Intents, ClaimHeld(w, k, i)
      PROVE  TypeOK' /\ HeldInv'
    <2>1. TypeOK'
        BY <1>2 DEF ClaimHeld
    <2>2. HeldInv'
        BY <1>2 DEF ClaimHeld
    <2> QED
        BY <2>1, <2>2
<1>3. ASSUME NEW w \in Workers, NEW k \in Keys, NEW i \in Intents, ClaimRefused(w, k, i)
      PROVE  TypeOK' /\ HeldInv'
    <2>1. TypeOK'
        BY <1>3 DEF ClaimRefused, Return
    <2>2. HeldInv'
        BY <1>3 DEF ClaimRefused, Return
    <2> QED
        BY <2>1, <2>2
<1>4. ASSUME NEW w \in Workers, Win(w)
      PROVE  TypeOK' /\ HeldInv'
    <2>1. TypeOK'
        BY <1>4 DEF Win, Move
    <2>2. HeldInv'
        BY <1>4 DEF Win, Move
    <2> QED
        BY <2>1, <2>2
<1>5. ASSUME NEW w \in Workers, Lose(w)
      PROVE  TypeOK' /\ HeldInv'
    <2>1. ResumePlan[stored[w]] \in {"issue", "verify", "done", "stop"}
        BY <1>5, MachineType DEF Lose
    <2>2. TypeOK'
        BY <1>5, <2>1 DEF Lose, Return
    <2>3. HeldInv'
        BY <1>5, <2>1 DEF Lose, Return
    <2> QED
        BY <2>2, <2>3
<1>6. ASSUME NEW w \in Workers, LoseTheRace(w)
      PROVE  TypeOK' /\ HeldInv'
    <2>1. TypeOK'
        BY <1>6 DEF LoseTheRace
    <2>2. HeldInv'
        BY <1>6 DEF LoseTheRace
    <2> QED
        BY <2>1, <2>2
<1>7. ASSUME NEW w \in Workers, Reclaim(w)
      PROVE  TypeOK' /\ HeldInv'
    <2>1. ResumePlan[ledger[key[w]]] \in {"issue", "verify", "done", "stop"}
        BY <1>7, MachineType DEF Reclaim
    <2>2. TypeOK'
        BY <1>7, <2>1 DEF Reclaim, Return
    <2>3. HeldInv'
        BY <1>7, <2>1 DEF Reclaim, Return
    <2> QED
        BY <2>2, <2>3
<1>8. ASSUME NEW w \in Workers, Send(w)
      PROVE  TypeOK' /\ HeldInv'
    <2>1. TypeOK'
        BY <1>8 DEF Send
    <2>2. HeldInv'
        BY <1>8 DEF Send
    <2> QED
        BY <2>1, <2>2
<1>9. ASSUME NEW w \in Workers, NEW o \in DOMAIN StateAfterCall, Answer(w, o)
      PROVE  TypeOK' /\ HeldInv'
    <2>1. StateAfterCall[o] \in {"succeeded", "failed", "unknown"}
        BY MachineType
    <2>2. TypeOK'
        BY <1>9, <2>1 DEF Answer
    <2>3. HeldInv'
        <3> HIDE DEF TypeOK
        <3>1. landed' = [landed EXCEPT ![w] = StateAfterCall[o]] /\ pc' = [pc EXCEPT ![w] = "answered"]
            BY <1>9 DEF Answer
        <3>2. landed'[w] # "none" /\ \A v \in Workers \ {w} : landed'[v] = landed[v]
            BY <2>1, <3>1 DEF TypeOK
        <3>3. UNCHANGED <<key, stored, ledger, spc, row, learnt>>
            BY <1>9 DEF Answer
        <3> QED
            BY <1>9, <3>1, <3>2, <3>3 DEF Answer, TypeOK
    <2> QED
        BY <2>2, <2>3
<1>10. ASSUME NEW w \in Workers, Raise(w)
      PROVE  TypeOK' /\ HeldInv'
    <2>1. TypeOK'
        BY <1>10 DEF Raise
    <2>2. HeldInv'
        BY <1>10 DEF Raise
    <2> QED
        BY <2>1, <2>2
<1>11. ASSUME NEW w \in Workers, Settle(w)
      PROVE  TypeOK' /\ HeldInv'
    <2>1. TypeOK'
        BY <1>11 DEF Settle, Return, CanSettle, Move
    <2>2. HeldInv'
        BY <1>11 DEF Settle, Return, CanSettle, Move
    <2> QED
        BY <2>1, <2>2
<1>12. ASSUME NEW w \in Workers, Overtaken(w)
      PROVE  TypeOK' /\ HeldInv'
    <2>1. TypeOK'
        BY <1>12 DEF Overtaken, Return
    <2>2. HeldInv'
        BY <1>12 DEF Overtaken, Return
    <2> QED
        BY <2>1, <2>2
<1>13. ASSUME NEW w \in Workers, CrashWorker(w)
      PROVE  TypeOK' /\ HeldInv'
    <2>1. TypeOK'
        BY <1>13 DEF CrashWorker, Return
    <2>2. HeldInv'
        BY <1>13 DEF CrashWorker, Return
    <2> QED
        BY <2>1, <2>2
<1>14. ASSUME NEW k \in Keys, Age(k) \/ SourceStep(k)
      PROVE  TypeOK' /\ HeldInv'
    <2>1. TypeOK'
        BY <1>14 DEF Age, SourceStep, Apply, Drop
    <2>2. HeldInv'
        BY <1>14 DEF Age, SourceStep, Apply, Drop
    <2> QED
        BY <2>1, <2>2
<1>15. ASSUME NEW s \in Sweepers, StartSweep(s)
      PROVE  TypeOK' /\ HeldInv'
    <2>1. Snapshot \in [Keys -> Unsettled \union {"none"}]
        BY DEF Snapshot, Sweepable
    <2>2. TypeOK'
        BY <1>15, <2>1 DEF StartSweep
    <2>3. HeldInv'
        BY <1>15, <2>1 DEF StartSweep
    <2> QED
        BY <2>2, <2>3
<1>16. ASSUME NEW s \in Sweepers, NEW k \in Keys, TakeRow(s, k)
      PROVE  TypeOK' /\ HeldInv'
    <2>1. TypeOK'
        BY <1>16 DEF TakeRow
    <2>2. HeldInv'
        BY <1>16 DEF TakeRow
    <2> QED
        BY <2>1, <2>2
<1>17. ASSUME NEW s \in Sweepers, Recognise(s)
      PROVE  TypeOK' /\ HeldInv'
    <2>1. TypeOK'
        BY <1>17 DEF Recognise, SweepMoves, CanSettle, Move, Goto
    <2>2. HeldInv'
        BY <1>17 DEF Recognise, SweepMoves, CanSettle, Move, Goto
    <2> QED
        BY <2>1, <2>2
<1>18. ASSUME NEW s \in Sweepers, LeaveForAPerson(s)
      PROVE  TypeOK' /\ HeldInv'
    <2>1. TypeOK'
        BY <1>18 DEF LeaveForAPerson, RowDone
    <2>2. HeldInv'
        BY <1>18 DEF LeaveForAPerson, RowDone
    <2> QED
        BY <2>1, <2>2
<1>19. ASSUME NEW s \in Sweepers, BeginVerifying(s)
      PROVE  TypeOK' /\ HeldInv'
    <2>1. TypeOK'
        BY <1>19 DEF BeginVerifying, SweepMoves, CanSettle, Move, Goto
    <2>2. HeldInv'
        BY <1>19 DEF BeginVerifying, SweepMoves, CanSettle, Move, Goto
    <2> QED
        BY <2>1, <2>2
<1>20. ASSUME NEW s \in Sweepers, ReadBackAnswers(s)
      PROVE  TypeOK' /\ HeldInv'
    <2>1. TypeOK'
        BY <1>20 DEF ReadBackAnswers
    <2>2. HeldInv'
        BY <1>20 DEF ReadBackAnswers
    <2> QED
        BY <2>1, <2>2
<1>21. ASSUME NEW s \in Sweepers, ReadBackCannotSay(s)
      PROVE  TypeOK' /\ HeldInv'
    <2>1. TypeOK'
        BY <1>21 DEF ReadBackCannotSay
    <2>2. HeldInv'
        BY <1>21 DEF ReadBackCannotSay
    <2> QED
        BY <2>1, <2>2
<1>22. ASSUME NEW s \in Sweepers, RecordAnswer(s)
      PROVE  TypeOK' /\ HeldInv'
    <2>1. TypeOK'
        BY <1>22 DEF RecordAnswer, SweepMoves, CanSettle, Move, RowDone
    <2>2. HeldInv'
        BY <1>22 DEF RecordAnswer, SweepMoves, CanSettle, Move, RowDone
    <2> QED
        BY <2>1, <2>2
<1>23. ASSUME NEW s \in Sweepers, MoveRefused(s)
      PROVE  TypeOK' /\ HeldInv'
    <2>1. TypeOK'
        BY <1>23, NoRowsType DEF MoveRefused, SweepEnds
    <2>2. HeldInv'
        BY <1>23, NoRowsType DEF MoveRefused, SweepEnds
    <2> QED
        BY <2>1, <2>2
<1>24. ASSUME NEW s \in Sweepers, CrashSweeper(s)
      PROVE  TypeOK' /\ HeldInv'
    <2>1. TypeOK'
        BY <1>24, NoRowsType DEF CrashSweeper, SweepEnds
    <2>2. HeldInv'
        BY <1>24, NoRowsType DEF CrashSweeper, SweepEnds
    <2> QED
        BY <2>1, <2>2
<1>25. CASE UNCHANGED vars
    BY <1>25 DEF vars
<1> QED
    BY <1>1, <1>2, <1>3, <1>4, <1>5, <1>6, <1>7, <1>8, <1>9, <1>10, <1>11, <1>12, <1>13, <1>14, <1>15, <1>16, <1>17, <1>18, <1>19, <1>20, <1>21, <1>22, <1>23, <1>24, <1>25
       DEF Next, WorkerStep, Caller, SweepStep

\* Spec keeps every variable in its type.
THEOREM TypeCorrect == Spec => [](TypeOK /\ HeldInv)
<1>1. Init => TypeOK /\ HeldInv
    BY TypeInit
<1>2. TypeOK /\ HeldInv /\ [Next]_vars => (TypeOK /\ HeldInv)'
    BY TypeStep
<1> QED
    BY <1>1, <1>2, PTL DEF Spec


\* A sweep never touches what callers hold, and leaves unissued records alone.
LEMMA SweepFrame ==
    ASSUME TypeOK, HeldInv, NEW s \in Sweepers, SweepStep(s) \/ CrashSweeper(s)
    PROVE  /\ UNCHANGED <<sourceVars, workerVars>>
           /\ \A k \in Keys : ledger'[k] # ledger[k] =>
                  /\ k = row[s]
                  /\ ledger[k] \in Unsettled
                  /\ ledger'[k] \in {"unknown", "verifying", "succeeded", "failed"}
<1> USE DEF TypeOK, HeldInv, ledgerVars
<1>1. CASE Recognise(s)
    BY <1>1 DEF Recognise, SweepMoves, CanSettle, Move
<1>2. CASE BeginVerifying(s)
    BY <1>2 DEF BeginVerifying, SweepMoves, CanSettle, Move
<1>3. CASE RecordAnswer(s)
    BY <1>3 DEF RecordAnswer, SweepMoves, CanSettle, Move
<1>4. CASE UNCHANGED <<ledgerVars, sourceVars, workerVars>>
    BY <1>4
<1>5. QED
    BY <1>1, <1>2, <1>3, <1>4
       DEF SweepStep, StartSweep, TakeRow, LeaveForAPerson, ReadBackAnswers, ReadBackCannotSay,
           MoveRefused, CrashSweeper

\* No request has left and no record exists.
LEMMA IssueInit == Init => IssueInv
BY DEF Init, IssueInv, FreshIsUnissued, OneHolder, WinnerHasNotSent, AtMostOneRequest,
       Holding, InCall

\* Winning makes a caller the only holder of its key, and only a holder sends
\* (issue_once over PostgresOperationLedger).
LEMMA IssueStep == TypeOK /\ HeldInv /\ IssueInv /\ [Next]_vars => IssueInv'
<1> SUFFICES ASSUME TypeOK, HeldInv, IssueInv, [Next]_vars PROVE IssueInv'
    OBVIOUS
<1> USE DEF TypeOK, HeldInv, ledgerVars, sourceVars, workerVars, IssueInv,
            FreshIsUnissued, OneHolder, WinnerHasNotSent, AtMostOneRequest, Holding, InCall
<1>1. ASSUME NEW w \in Workers, NEW k \in Keys, NEW i \in Intents, ClaimNew(w, k, i)
      PROVE  IssueInv'
    <2>1. FreshIsUnissued'
        BY <1>1 DEF ClaimNew
    <2>2. OneHolder'
        BY <1>1 DEF ClaimNew
    <2>3. WinnerHasNotSent'
        BY <1>1 DEF ClaimNew
    <2>4. AtMostOneRequest'
        BY <1>1 DEF ClaimNew
    <2> QED
        BY <2>1, <2>2, <2>3, <2>4
<1>2. ASSUME NEW w \in Workers, NEW k \in Keys, NEW i \in Intents, ClaimHeld(w, k, i)
      PROVE  IssueInv'
    <2>1. FreshIsUnissued'
        BY <1>2 DEF ClaimHeld
    <2>2. OneHolder'
        BY <1>2 DEF ClaimHeld
    <2>3. WinnerHasNotSent'
        BY <1>2 DEF ClaimHeld
    <2>4. AtMostOneRequest'
        BY <1>2 DEF ClaimHeld
    <2> QED
        BY <2>1, <2>2, <2>3, <2>4
<1>3. ASSUME NEW w \in Workers, NEW k \in Keys, NEW i \in Intents, ClaimRefused(w, k, i)
      PROVE  IssueInv'
    <2>1. FreshIsUnissued'
        BY <1>3 DEF ClaimRefused, Return
    <2>2. OneHolder'
        BY <1>3 DEF ClaimRefused, Return
    <2>3. WinnerHasNotSent'
        BY <1>3 DEF ClaimRefused, Return
    <2>4. AtMostOneRequest'
        BY <1>3 DEF ClaimRefused, Return
    <2> QED
        BY <2>1, <2>2, <2>3, <2>4
<1>4. ASSUME NEW w \in Workers, Win(w)
      PROVE  IssueInv'
    <2>1. FreshIsUnissued'
        BY <1>4 DEF Win, Move
    <2>2. OneHolder'
        BY <1>4 DEF Win, Move
    <2>3. WinnerHasNotSent'
        BY <1>4 DEF Win, Move
    <2>4. AtMostOneRequest'
        BY <1>4 DEF Win, Move
    <2> QED
        BY <2>1, <2>2, <2>3, <2>4
<1>5. ASSUME NEW w \in Workers, Lose(w) \/ LoseTheRace(w) \/ Reclaim(w)
      PROVE  IssueInv'
    <2>1. FreshIsUnissued'
        BY <1>5 DEF Lose, LoseTheRace, Reclaim, Return
    <2>2. OneHolder'
        BY <1>5 DEF Lose, LoseTheRace, Reclaim, Return
    <2>3. WinnerHasNotSent'
        BY <1>5 DEF Lose, LoseTheRace, Reclaim, Return
    <2>4. AtMostOneRequest'
        BY <1>5 DEF Lose, LoseTheRace, Reclaim, Return
    <2> QED
        BY <2>1, <2>2, <2>3, <2>4
<1>6. ASSUME NEW w \in Workers, Send(w)
      PROVE  IssueInv'
    <2>1. FreshIsUnissued'
        BY <1>6 DEF Send
    <2>2. OneHolder'
        BY <1>6 DEF Send
    <2>3. WinnerHasNotSent'
        BY <1>6 DEF Send
    <2>4. AtMostOneRequest'
        BY <1>6 DEF Send
    <2> QED
        BY <2>1, <2>2, <2>3, <2>4
<1>7. ASSUME NEW w \in Workers, NEW o \in DOMAIN StateAfterCall, Answer(w, o)
      PROVE  IssueInv'
    <2>1. FreshIsUnissued'
        BY <1>7 DEF Answer
    <2>2. OneHolder'
        BY <1>7 DEF Answer
    <2>3. WinnerHasNotSent'
        BY <1>7 DEF Answer
    <2>4. AtMostOneRequest'
        BY <1>7 DEF Answer
    <2> QED
        BY <2>1, <2>2, <2>3, <2>4
<1>8. ASSUME NEW w \in Workers, Raise(w)
      PROVE  IssueInv'
    <2>1. FreshIsUnissued'
        BY <1>8 DEF Raise
    <2>2. OneHolder'
        BY <1>8 DEF Raise
    <2>3. WinnerHasNotSent'
        BY <1>8 DEF Raise
    <2>4. AtMostOneRequest'
        BY <1>8 DEF Raise
    <2> QED
        BY <2>1, <2>2, <2>3, <2>4
<1>9. ASSUME NEW w \in Workers, Settle(w)
      PROVE  IssueInv'
    <2>1. FreshIsUnissued'
        BY <1>9, SMTT(30) DEF Settle, Return, CanSettle, Move
    <2>2. OneHolder'
        BY <1>9, SMTT(30) DEF Settle, Return, CanSettle, Move
    <2>3. WinnerHasNotSent'
        BY <1>9, SMTT(30) DEF Settle, Return, CanSettle, Move
    <2>4. AtMostOneRequest'
        BY <1>9, SMTT(30) DEF Settle, Return, CanSettle, Move
    <2> QED
        BY <2>1, <2>2, <2>3, <2>4
<1>10. ASSUME NEW w \in Workers, Overtaken(w) \/ CrashWorker(w)
      PROVE  IssueInv'
    <2>1. FreshIsUnissued'
        BY <1>10 DEF Overtaken, CrashWorker, Return
    <2>2. OneHolder'
        BY <1>10 DEF Overtaken, CrashWorker, Return
    <2>3. WinnerHasNotSent'
        BY <1>10 DEF Overtaken, CrashWorker, Return
    <2>4. AtMostOneRequest'
        BY <1>10 DEF Overtaken, CrashWorker, Return
    <2> QED
        BY <2>1, <2>2, <2>3, <2>4
<1>11. ASSUME NEW k \in Keys, Age(k) \/ SourceStep(k)
      PROVE  IssueInv'
    BY <1>11 DEF Age, SourceStep, Apply, Drop
<1>12. ASSUME NEW s \in Sweepers, SweepStep(s) \/ CrashSweeper(s)
       PROVE  IssueInv'
    BY <1>12, SweepFrame, SMTT(30)
<1>13. CASE UNCHANGED vars
    BY <1>13 DEF vars
<1> QED
    BY <1>1, <1>2, <1>3, <1>4, <1>5, <1>6, <1>7, <1>8, <1>9, <1>10, <1>11, <1>12, <1>13
       DEF Next, WorkerStep, Caller

\* At most one request leaves under any key, whatever crashes and however many
\* callers and sweeps there are; and its record has one caller at a time.
THEOREM AtMostOnce == Spec => [](AtMostOneRequest /\ OneCallerPerSentRecord)
<1>1. Init => TypeOK /\ HeldInv /\ IssueInv
    BY TypeInit, IssueInit
<1>2. TypeOK /\ HeldInv /\ IssueInv /\ [Next]_vars => (TypeOK /\ HeldInv /\ IssueInv)'
    BY TypeStep, IssueStep
<1>3. TypeOK /\ HeldInv /\ IssueInv => AtMostOneRequest /\ OneCallerPerSentRecord
    BY DEF IssueInv, HeldInv, OneHolder, Holding, InCall, OneCallerPerSentRecord
<1> QED
    BY <1>1, <1>2, <1>3, PTL DEF Spec


\* A sweep that ends early moves nothing but itself.
LEMMA SweepEndsFrame ==
    ASSUME NEW s \in Sweepers, MoveRefused(s) \/ CrashSweeper(s)
    PROVE  SweepEnds(s) /\ UNCHANGED <<ledgerVars, sourceVars, workerVars>>
BY DEF MoveRefused, CrashSweeper

\* No record is settled.
LEMMA TruthInit == Init => TruthInv
BY DEF Init, TruthInv, RequestsAreCounted, AnswersAreTrue, SuccessIsTrue

\* What a caller is told, a sweep learns and a record says of success is so.
LEMMA TruthStep == TypeOK /\ HeldInv /\ IssueInv /\ TruthInv /\ [Next]_vars => TruthInv'
<1> SUFFICES ASSUME TypeOK, HeldInv, IssueInv, TruthInv, [Next]_vars PROVE TruthInv'
    OBVIOUS
<1> USE DEF TypeOK, HeldInv, ledgerVars, sourceVars, workerVars, sweepVars, IssueInv, OneHolder,
            WinnerHasNotSent, Holding, InCall, TruthInv, RequestsAreCounted, AnswersAreTrue,
            SuccessIsTrue
<1>1. ASSUME NEW w \in Workers, NEW k \in Keys, NEW i \in Intents, ClaimNew(w, k, i)
      PROVE  TruthInv'
    <2>1. RequestsAreCounted'
        BY <1>1 DEF ClaimNew
    <2>2. AnswersAreTrue'
        BY <1>1 DEF ClaimNew
    <2>3. SuccessIsTrue'
        BY <1>1 DEF ClaimNew
    <2> QED
        BY <2>1, <2>2, <2>3
<1>2. ASSUME NEW w \in Workers, NEW k \in Keys, NEW i \in Intents, ClaimHeld(w, k, i)
      PROVE  TruthInv'
    <2>1. RequestsAreCounted'
        BY <1>2 DEF ClaimHeld
    <2>2. AnswersAreTrue'
        BY <1>2 DEF ClaimHeld
    <2>3. SuccessIsTrue'
        BY <1>2 DEF ClaimHeld
    <2> QED
        BY <2>1, <2>2, <2>3
<1>3. ASSUME NEW w \in Workers, NEW k \in Keys, NEW i \in Intents, ClaimRefused(w, k, i)
      PROVE  TruthInv'
    <2>1. RequestsAreCounted'
        BY <1>3 DEF ClaimRefused, Return
    <2>2. AnswersAreTrue'
        BY <1>3 DEF ClaimRefused, Return
    <2>3. SuccessIsTrue'
        BY <1>3 DEF ClaimRefused, Return
    <2> QED
        BY <2>1, <2>2, <2>3
<1>4. ASSUME NEW w \in Workers, Win(w)
      PROVE  TruthInv'
    <2>1. RequestsAreCounted'
        BY <1>4 DEF Win, Move
    <2>2. AnswersAreTrue'
        BY <1>4 DEF Win, Move
    <2>3. SuccessIsTrue'
        BY <1>4 DEF Win, Move
    <2> QED
        BY <2>1, <2>2, <2>3
<1>5. ASSUME NEW w \in Workers, Lose(w) \/ LoseTheRace(w) \/ Reclaim(w)
      PROVE  TruthInv'
    <2>1. RequestsAreCounted'
        BY <1>5 DEF Lose, LoseTheRace, Reclaim, Return
    <2>2. AnswersAreTrue'
        BY <1>5 DEF Lose, LoseTheRace, Reclaim, Return
    <2>3. SuccessIsTrue'
        BY <1>5 DEF Lose, LoseTheRace, Reclaim, Return
    <2> QED
        BY <2>1, <2>2, <2>3
<1>6. ASSUME NEW w \in Workers, Send(w)
      PROVE  TruthInv'
    <2>1. RequestsAreCounted'
        BY <1>6 DEF Send
    <2>2. AnswersAreTrue'
        BY <1>6 DEF Send
    <2>3. SuccessIsTrue'
        BY <1>6 DEF Send
    <2> QED
        BY <2>1, <2>2, <2>3
<1>7. ASSUME NEW w \in Workers, NEW o \in DOMAIN StateAfterCall, Answer(w, o)
      PROVE  TruthInv'
    <2>1. RequestsAreCounted'
        BY <1>7 DEF Answer, StateAfterCall
    <2>2. AnswersAreTrue'
        BY <1>7 DEF Answer, StateAfterCall
    <2>3. SuccessIsTrue'
        BY <1>7 DEF Answer, StateAfterCall
    <2> QED
        BY <2>1, <2>2, <2>3
<1>8. ASSUME NEW w \in Workers, Raise(w)
      PROVE  TruthInv'
    <2>1. RequestsAreCounted'
        BY <1>8 DEF Raise
    <2>2. AnswersAreTrue'
        BY <1>8 DEF Raise
    <2>3. SuccessIsTrue'
        BY <1>8 DEF Raise
    <2> QED
        BY <2>1, <2>2, <2>3
<1>9. ASSUME NEW w \in Workers, Settle(w)
      PROVE  TruthInv'
    <2>1. RequestsAreCounted'
        BY <1>9 DEF Settle, Return, CanSettle, Move
    <2>2. AnswersAreTrue'
        BY <1>9 DEF Settle, Return, CanSettle, Move
    <2>3. SuccessIsTrue'
        BY <1>9 DEF Settle, Return, CanSettle, Move
    <2> QED
        BY <2>1, <2>2, <2>3
<1>10. ASSUME NEW w \in Workers, Overtaken(w) \/ CrashWorker(w)
      PROVE  TruthInv'
    <2>1. RequestsAreCounted'
        BY <1>10 DEF Overtaken, CrashWorker, Return
    <2>2. AnswersAreTrue'
        BY <1>10 DEF Overtaken, CrashWorker, Return
    <2>3. SuccessIsTrue'
        BY <1>10 DEF Overtaken, CrashWorker, Return
    <2> QED
        BY <2>1, <2>2, <2>3
<1>11. ASSUME NEW k \in Keys, Age(k)
      PROVE  TruthInv'
    <2>1. RequestsAreCounted'
        BY <1>11 DEF Age
    <2>2. AnswersAreTrue'
        BY <1>11 DEF Age
    <2>3. SuccessIsTrue'
        BY <1>11 DEF Age
    <2> QED
        BY <2>1, <2>2, <2>3
<1>12. ASSUME NEW k \in Keys, SourceStep(k)
      PROVE  TruthInv'
    <2>1. RequestsAreCounted'
        BY <1>12 DEF SourceStep, Apply, Drop
    <2>2. AnswersAreTrue'
        BY <1>12 DEF SourceStep, Apply, Drop
    <2>3. SuccessIsTrue'
        BY <1>12, SMTT(30) DEF SourceStep, Apply, Drop
    <2> QED
        BY <2>1, <2>2, <2>3
<1>13. ASSUME NEW s \in Sweepers, StartSweep(s)
      PROVE  TruthInv'
    <2>1. RequestsAreCounted'
        BY <1>13 DEF StartSweep
    <2>2. AnswersAreTrue'
        BY <1>13 DEF StartSweep
    <2>3. SuccessIsTrue'
        BY <1>13 DEF StartSweep
    <2> QED
        BY <2>1, <2>2, <2>3
<1>14. ASSUME NEW s \in Sweepers, NEW k \in Keys, TakeRow(s, k)
      PROVE  TruthInv'
    <2>1. RequestsAreCounted'
        BY <1>14 DEF TakeRow
    <2>2. AnswersAreTrue'
        BY <1>14 DEF TakeRow
    <2>3. SuccessIsTrue'
        BY <1>14, SMTT(30) DEF TakeRow
    <2> QED
        BY <2>1, <2>2, <2>3
<1>15. ASSUME NEW s \in Sweepers, Recognise(s) \/ BeginVerifying(s)
      PROVE  TruthInv'
    <2>1. RequestsAreCounted'
        BY <1>15 DEF Recognise, BeginVerifying, SweepMoves, CanSettle, Move, Goto
    <2>2. AnswersAreTrue'
        BY <1>15 DEF Recognise, BeginVerifying, SweepMoves, CanSettle, Move, Goto
    <2>3. SuccessIsTrue'
        BY <1>15 DEF Recognise, BeginVerifying, SweepMoves, CanSettle, Move, Goto
    <2> QED
        BY <2>1, <2>2, <2>3
<1>16. ASSUME NEW s \in Sweepers, LeaveForAPerson(s)
      PROVE  TruthInv'
    <2>1. RequestsAreCounted'
        BY <1>16 DEF LeaveForAPerson, RowDone
    <2>2. AnswersAreTrue'
        BY <1>16 DEF LeaveForAPerson, RowDone
    <2>3. SuccessIsTrue'
        BY <1>16 DEF LeaveForAPerson, RowDone
    <2> QED
        BY <2>1, <2>2, <2>3
<1>17. ASSUME NEW s \in Sweepers, ReadBackAnswers(s)
      PROVE  TruthInv'
    <2>1. RequestsAreCounted'
        BY <1>17 DEF ReadBackAnswers
    <2>2. AnswersAreTrue'
        BY <1>17 DEF ReadBackAnswers
    <2>3. SuccessIsTrue'
        BY <1>17 DEF ReadBackAnswers
    <2> QED
        BY <2>1, <2>2, <2>3
<1>18. ASSUME NEW s \in Sweepers, ReadBackCannotSay(s)
      PROVE  TruthInv'
    <2>1. RequestsAreCounted'
        BY <1>18 DEF ReadBackCannotSay
    <2>2. AnswersAreTrue'
        BY <1>18 DEF ReadBackCannotSay
    <2>3. SuccessIsTrue'
        BY <1>18 DEF ReadBackCannotSay
    <2> QED
        BY <2>1, <2>2, <2>3
<1>19. ASSUME NEW s \in Sweepers, RecordAnswer(s)
      PROVE  TruthInv'
    <2>1. RequestsAreCounted'
        BY <1>19 DEF RecordAnswer, SweepMoves, CanSettle, Move, RowDone
    <2>2. AnswersAreTrue'
        BY <1>19 DEF RecordAnswer, SweepMoves, CanSettle, Move, RowDone
    <2>3. SuccessIsTrue'
        BY <1>19 DEF RecordAnswer, SweepMoves, CanSettle, Move, RowDone
    <2> QED
        BY <2>1, <2>2, <2>3
<1>20. ASSUME NEW s \in Sweepers, MoveRefused(s) \/ CrashSweeper(s)
      PROVE  TruthInv'
    <2>1. RequestsAreCounted'
        BY <1>20, SweepEndsFrame DEF SweepEnds
    <2>2. AnswersAreTrue'
        BY <1>20, SweepEndsFrame DEF SweepEnds
    <2>3. SuccessIsTrue'
        BY <1>20, SweepEndsFrame DEF SweepEnds
    <2> QED
        BY <2>1, <2>2, <2>3
<1>21. CASE UNCHANGED vars
    BY <1>21 DEF vars
<1> QED
    BY <1>1, <1>2, <1>3, <1>4, <1>5, <1>6, <1>7, <1>8, <1>9, <1>10, <1>11, <1>12, <1>13, <1>14, <1>15, <1>16, <1>17, <1>18, <1>19, <1>20, <1>21
       DEF Next, WorkerStep, Caller, SweepStep

\* A quiet key stays quiet: nobody can win it again, so nothing can be sent.
LEMMA QuietStays ==
    ASSUME TypeOK, HeldInv, NEW j \in Keys, Quiet(j), [Next]_vars
    PROVE  Quiet(j)' /\ fate'[j] = fate[j]
<1> USE DEF TypeOK, HeldInv, ledgerVars, sourceVars, workerVars, sweepVars, Quiet, Holding, InCall
<1>1. ASSUME NEW w \in Workers, NEW k \in Keys, NEW i \in Intents, ClaimNew(w, k, i)
      PROVE  Quiet(j)' /\ fate'[j] = fate[j]
    BY <1>1 DEF ClaimNew
<1>2. ASSUME NEW w \in Workers, NEW k \in Keys, NEW i \in Intents, ClaimHeld(w, k, i)
      PROVE  Quiet(j)' /\ fate'[j] = fate[j]
    BY <1>2 DEF ClaimHeld
<1>3. ASSUME NEW w \in Workers, NEW k \in Keys, NEW i \in Intents, ClaimRefused(w, k, i)
      PROVE  Quiet(j)' /\ fate'[j] = fate[j]
    BY <1>3 DEF ClaimRefused, Return
<1>4. ASSUME NEW w \in Workers, Win(w)
      PROVE  Quiet(j)' /\ fate'[j] = fate[j]
    BY <1>4 DEF Win, Move
<1>5. ASSUME NEW w \in Workers, Lose(w) \/ LoseTheRace(w) \/ Reclaim(w)
      PROVE  Quiet(j)' /\ fate'[j] = fate[j]
    BY <1>5 DEF Lose, LoseTheRace, Reclaim, Return
<1>6. ASSUME NEW w \in Workers, Send(w)
      PROVE  Quiet(j)' /\ fate'[j] = fate[j]
    BY <1>6 DEF Send
<1>7. ASSUME NEW w \in Workers, NEW o \in DOMAIN StateAfterCall, Answer(w, o)
      PROVE  Quiet(j)' /\ fate'[j] = fate[j]
    BY <1>7 DEF Answer, StateAfterCall
<1>8. ASSUME NEW w \in Workers, Raise(w)
      PROVE  Quiet(j)' /\ fate'[j] = fate[j]
    BY <1>8 DEF Raise
<1>9. ASSUME NEW w \in Workers, Settle(w)
      PROVE  Quiet(j)' /\ fate'[j] = fate[j]
    BY <1>9 DEF Settle, Return, CanSettle, Move
<1>10. ASSUME NEW w \in Workers, Overtaken(w) \/ CrashWorker(w)
      PROVE  Quiet(j)' /\ fate'[j] = fate[j]
    BY <1>10 DEF Overtaken, CrashWorker, Return
<1>11. ASSUME NEW k \in Keys, Age(k)
      PROVE  Quiet(j)' /\ fate'[j] = fate[j]
    BY <1>11 DEF Age
<1>12. ASSUME NEW k \in Keys, SourceStep(k)
      PROVE  Quiet(j)' /\ fate'[j] = fate[j]
    BY <1>12 DEF SourceStep, Apply, Drop
<1>13. ASSUME NEW s \in Sweepers, SweepStep(s) \/ CrashSweeper(s)
      PROVE  Quiet(j)' /\ fate'[j] = fate[j]
    BY <1>13, SweepFrame
<1>14. CASE UNCHANGED vars
    BY <1>14 DEF vars
<1> QED
    BY <1>1, <1>2, <1>3, <1>4, <1>5, <1>6, <1>7, <1>8, <1>9, <1>10, <1>11, <1>12, <1>13, <1>14
       DEF Next, WorkerStep, Caller

\* No record is old, and no sweep has read one.
LEMMA GraceInit == Init => GraceInv
BY DEF Init, GraceInv, HolderIsSent, LookedAtIsQuiet, LookedAt, FailureIsTrue, Holding, InCall, NoRows

\* With a grace that outlasts a call, a record is looked at only when its key
\* is quiet, so a holder's record is still sent and an absence is for good.
LEMMA GraceStep ==
    TypeOK /\ HeldInv /\ IssueInv /\ TruthInv /\ GraceInv /\ [Next]_vars => GraceInv'
<1> SUFFICES ASSUME TypeOK, HeldInv, IssueInv, TruthInv, [Next]_vars, GraceHolds,
                    HolderIsSent, LookedAtIsQuiet, FailureIsTrue
             PROVE  HolderIsSent' /\ LookedAtIsQuiet' /\ FailureIsTrue'
    BY DEF GraceInv
<1>a. \A j \in Keys : Quiet(j) => Quiet(j)' /\ fate'[j] = fate[j]
    BY QuietStays
<1> USE <1>a DEF TypeOK, HeldInv, ledgerVars, sourceVars, workerVars, sweepVars,
            HolderIsSent, LookedAtIsQuiet, FailureIsTrue
<1>1. ASSUME NEW w \in Workers, NEW k \in Keys, NEW i \in Intents, ClaimNew(w, k, i)
      PROVE  HolderIsSent' /\ LookedAtIsQuiet' /\ FailureIsTrue'
    <2>1. HolderIsSent'
        BY <1>1 DEF ClaimNew, IssueInv, FreshIsUnissued, OneHolder, Holding, InCall
    <2>2. \A j \in Keys : LookedAt(j)' => LookedAt(j) \/ Quiet(j)
        BY <1>1 DEF ClaimNew, LookedAt
    <2>3. LookedAtIsQuiet'
        BY <2>2, <1>a DEF LookedAtIsQuiet
    <2>4. FailureIsTrue'
        BY <1>1 DEF ClaimNew, LookedAt, LookedAtIsQuiet, FailureIsTrue
    <2> QED
        BY <2>1, <2>3, <2>4
<1>2. ASSUME NEW w \in Workers, NEW k \in Keys, NEW i \in Intents, ClaimHeld(w, k, i)
      PROVE  HolderIsSent' /\ LookedAtIsQuiet' /\ FailureIsTrue'
    <2>1. HolderIsSent'
        BY <1>2 DEF ClaimHeld, IssueInv, FreshIsUnissued, OneHolder, Holding, InCall
    <2>2. \A j \in Keys : LookedAt(j)' => LookedAt(j) \/ Quiet(j)
        BY <1>2 DEF ClaimHeld, LookedAt
    <2>3. LookedAtIsQuiet'
        BY <2>2, <1>a DEF LookedAtIsQuiet
    <2>4. FailureIsTrue'
        BY <1>2 DEF ClaimHeld, LookedAt, LookedAtIsQuiet, FailureIsTrue
    <2> QED
        BY <2>1, <2>3, <2>4
<1>3. ASSUME NEW w \in Workers, NEW k \in Keys, NEW i \in Intents, ClaimRefused(w, k, i)
      PROVE  HolderIsSent' /\ LookedAtIsQuiet' /\ FailureIsTrue'
    <2>1. HolderIsSent'
        BY <1>3 DEF ClaimRefused, Return, IssueInv, FreshIsUnissued, OneHolder, Holding, InCall
    <2>2. \A j \in Keys : LookedAt(j)' => LookedAt(j) \/ Quiet(j)
        BY <1>3 DEF ClaimRefused, Return, LookedAt
    <2>3. LookedAtIsQuiet'
        BY <2>2, <1>a DEF LookedAtIsQuiet
    <2>4. FailureIsTrue'
        BY <1>3 DEF ClaimRefused, Return, LookedAt, LookedAtIsQuiet, FailureIsTrue
    <2> QED
        BY <2>1, <2>3, <2>4
<1>4. ASSUME NEW w \in Workers, Win(w)
      PROVE  HolderIsSent' /\ LookedAtIsQuiet' /\ FailureIsTrue'
    <2>1. HolderIsSent'
        BY <1>4 DEF Win, Move, IssueInv, FreshIsUnissued, OneHolder, Holding, InCall
    <2>2. \A j \in Keys : LookedAt(j)' => LookedAt(j) \/ Quiet(j)
        BY <1>4 DEF Win, Move, LookedAt
    <2>3. LookedAtIsQuiet'
        BY <2>2, <1>a DEF LookedAtIsQuiet
    <2>4. FailureIsTrue'
        BY <1>4 DEF Win, Move, LookedAt, LookedAtIsQuiet, FailureIsTrue
    <2> QED
        BY <2>1, <2>3, <2>4
<1>5. ASSUME NEW w \in Workers, Lose(w) \/ LoseTheRace(w) \/ Reclaim(w)
      PROVE  HolderIsSent' /\ LookedAtIsQuiet' /\ FailureIsTrue'
    <2>1. HolderIsSent'
        BY <1>5 DEF Lose, LoseTheRace, Reclaim, Return, IssueInv, FreshIsUnissued, OneHolder, Holding, InCall
    <2>2. \A j \in Keys : LookedAt(j)' => LookedAt(j) \/ Quiet(j)
        BY <1>5 DEF Lose, LoseTheRace, Reclaim, Return, LookedAt
    <2>3. LookedAtIsQuiet'
        BY <2>2, <1>a DEF LookedAtIsQuiet
    <2>4. FailureIsTrue'
        BY <1>5 DEF Lose, LoseTheRace, Reclaim, Return, LookedAt, LookedAtIsQuiet, FailureIsTrue
    <2> QED
        BY <2>1, <2>3, <2>4
<1>6. ASSUME NEW w \in Workers, Send(w)
      PROVE  HolderIsSent' /\ LookedAtIsQuiet' /\ FailureIsTrue'
    <2>1. HolderIsSent'
        BY <1>6 DEF Send, IssueInv, FreshIsUnissued, OneHolder, Holding, InCall
    <2>2. \A j \in Keys : LookedAt(j)' => LookedAt(j) \/ Quiet(j)
        BY <1>6 DEF Send, LookedAt
    <2>3. LookedAtIsQuiet'
        BY <2>2, <1>a DEF LookedAtIsQuiet
    <2>4. FailureIsTrue'
        BY <1>6 DEF Send, LookedAt, LookedAtIsQuiet, FailureIsTrue
    <2> QED
        BY <2>1, <2>3, <2>4
<1>7. ASSUME NEW w \in Workers, NEW o \in DOMAIN StateAfterCall, Answer(w, o)
      PROVE  HolderIsSent' /\ LookedAtIsQuiet' /\ FailureIsTrue'
    <2>1. HolderIsSent'
        BY <1>7 DEF Answer, StateAfterCall, IssueInv, FreshIsUnissued, OneHolder, Holding, InCall
    <2>2. \A j \in Keys : LookedAt(j)' => LookedAt(j) \/ Quiet(j)
        BY <1>7 DEF Answer, StateAfterCall, LookedAt
    <2>3. LookedAtIsQuiet'
        BY <2>2, <1>a DEF LookedAtIsQuiet
    <2>4. FailureIsTrue'
        BY <1>7 DEF Answer, StateAfterCall, LookedAt, LookedAtIsQuiet, FailureIsTrue
    <2> QED
        BY <2>1, <2>3, <2>4
<1>8. ASSUME NEW w \in Workers, Raise(w)
      PROVE  HolderIsSent' /\ LookedAtIsQuiet' /\ FailureIsTrue'
    <2>1. HolderIsSent'
        BY <1>8 DEF Raise, IssueInv, FreshIsUnissued, OneHolder, Holding, InCall
    <2>2. \A j \in Keys : LookedAt(j)' => LookedAt(j) \/ Quiet(j)
        BY <1>8 DEF Raise, LookedAt
    <2>3. LookedAtIsQuiet'
        BY <2>2, <1>a DEF LookedAtIsQuiet
    <2>4. FailureIsTrue'
        BY <1>8 DEF Raise, LookedAt, LookedAtIsQuiet, FailureIsTrue
    <2> QED
        BY <2>1, <2>3, <2>4
<1>9. ASSUME NEW w \in Workers, Settle(w)
      PROVE  HolderIsSent' /\ LookedAtIsQuiet' /\ FailureIsTrue'
    <2>1. HolderIsSent'
        BY <1>9 DEF Settle, Return, CanSettle, Move, IssueInv, FreshIsUnissued, OneHolder, Holding, InCall
    <2>2. \A j \in Keys : LookedAt(j)' => LookedAt(j) \/ Quiet(j)
        BY <1>9 DEF Settle, Return, CanSettle, Move, LookedAt
    <2>3. LookedAtIsQuiet'
        BY <2>2, <1>a DEF LookedAtIsQuiet
    <2>4. FailureIsTrue'
        BY <1>9 DEF Settle, Return, CanSettle, Move, IssueInv, OneHolder, TruthInv, AnswersAreTrue, Quiet, Holding, InCall, LookedAt, LookedAtIsQuiet, FailureIsTrue
    <2> QED
        BY <2>1, <2>3, <2>4
<1>10. ASSUME NEW w \in Workers, Overtaken(w) \/ CrashWorker(w)
      PROVE  HolderIsSent' /\ LookedAtIsQuiet' /\ FailureIsTrue'
    <2>1. HolderIsSent'
        <3>1. ledger' = ledger /\ pc' = [pc EXCEPT ![w] = "idle"]
            BY <1>10 DEF Overtaken, CrashWorker, Return
        <3>2. \A v \in Workers \ {w} : key'[v] = key[v]
            BY <1>10 DEF Overtaken, CrashWorker
        <3> QED
            BY <3>1, <3>2 DEF Holding, InCall
    <2>2. \A j \in Keys : LookedAt(j)' => LookedAt(j) \/ Quiet(j)
        BY <1>10 DEF Overtaken, CrashWorker, Return, LookedAt
    <2>3. LookedAtIsQuiet'
        BY <2>2, <1>a DEF LookedAtIsQuiet
    <2>4. FailureIsTrue'
        BY <1>10 DEF Overtaken, CrashWorker, Return, LookedAt, LookedAtIsQuiet, FailureIsTrue
    <2> QED
        BY <2>1, <2>3, <2>4
<1>11. ASSUME NEW k \in Keys, Age(k)
      PROVE  HolderIsSent' /\ LookedAtIsQuiet' /\ FailureIsTrue'
    <2>1. HolderIsSent'
        BY <1>11 DEF Age, Holding, InCall
    <2>2. \A j \in Keys : LookedAt(j)' => LookedAt(j) \/ Quiet(j)
        BY <1>11 DEF Age, LookedAt, InTheAir, Quiet, Holding, InCall
    <2>3. LookedAtIsQuiet'
        BY <2>2, <1>a DEF LookedAtIsQuiet
    <2>4. FailureIsTrue'
        BY <1>11 DEF Age, LookedAt, LookedAtIsQuiet, FailureIsTrue
    <2> QED
        BY <2>1, <2>3, <2>4
<1>12. ASSUME NEW k \in Keys, SourceStep(k)
      PROVE  HolderIsSent' /\ LookedAtIsQuiet' /\ FailureIsTrue'
    <2>1. HolderIsSent'
        BY <1>12 DEF SourceStep, Apply, Drop, Holding, InCall
    <2>2. \A j \in Keys : LookedAt(j)' => LookedAt(j) \/ Quiet(j)
        BY <1>12 DEF SourceStep, Apply, Drop, LookedAt
    <2>3. LookedAtIsQuiet'
        BY <2>2, <1>a DEF LookedAtIsQuiet
    <2>4. FailureIsTrue'
        <3>1. \A s \in Sweepers : spc[s] = "asked" => row[s] \in Keys /\ Quiet(row[s])
            BY DEF LookedAt, LookedAtIsQuiet
        <3>2. UNCHANGED <<ledger, spc, row, learnt>>
            BY <1>12 DEF SourceStep, Apply, Drop
        <3> QED
            BY <3>1, <3>2, <1>a DEF FailureIsTrue
    <2> QED
        BY <2>1, <2>3, <2>4
<1>13. ASSUME NEW s \in Sweepers, StartSweep(s)
      PROVE  HolderIsSent' /\ LookedAtIsQuiet' /\ FailureIsTrue'
    <2>1. HolderIsSent'
        BY <1>13 DEF StartSweep, Holding, InCall
    <2>2. \A j \in Keys : LookedAt(j)' => LookedAt(j) \/ Quiet(j)
        BY <1>13 DEF StartSweep, Snapshot, Sweepable, LookedAt
    <2>3. LookedAtIsQuiet'
        BY <2>2, <1>a DEF LookedAtIsQuiet
    <2>4. FailureIsTrue'
        BY <1>13 DEF StartSweep, LookedAt, LookedAtIsQuiet, FailureIsTrue
    <2> QED
        BY <2>1, <2>3, <2>4
<1>14. ASSUME NEW s \in Sweepers, NEW k \in Keys, TakeRow(s, k)
      PROVE  HolderIsSent' /\ LookedAtIsQuiet' /\ FailureIsTrue'
    <2>1. HolderIsSent'
        BY <1>14 DEF TakeRow, Holding, InCall
    <2>2. \A j \in Keys : LookedAt(j)' => LookedAt(j) \/ Quiet(j)
        BY <1>14 DEF TakeRow, LookedAt
    <2>3. LookedAtIsQuiet'
        BY <2>2, <1>a DEF LookedAtIsQuiet
    <2>4. FailureIsTrue'
        <3>0. seen[s][k] \in Unsettled
            BY <1>14 DEF TakeRow
        <3>1. UNCHANGED <<ledger, fate, learnt>> /\ spc'[s] # "asked"
            BY <1>14, <3>0 DEF TakeRow
        <3>2. \A t \in Sweepers \ {s} : spc'[t] = spc[t] /\ row'[t] = row[t]
            BY <1>14 DEF TakeRow
        <3> QED
            BY <3>1, <3>2, <1>a DEF FailureIsTrue
    <2> QED
        BY <2>1, <2>3, <2>4
<1>15. ASSUME NEW s \in Sweepers, Recognise(s) \/ BeginVerifying(s)
      PROVE  HolderIsSent' /\ LookedAtIsQuiet' /\ FailureIsTrue'
    <2>1. HolderIsSent'
        <3>1. row[s] \in Keys /\ Quiet(row[s])
            BY <1>15 DEF Recognise, BeginVerifying, RecordAnswer, LookedAt
        <3>2. UNCHANGED workerVars /\ \A k \in Keys : ledger'[k] # ledger[k] => k = row[s]
            BY <1>15, SweepFrame DEF SweepStep
        <3> QED
            BY <3>1, <3>2 DEF Quiet, Holding, InCall
    <2>2. \A j \in Keys : LookedAt(j)' => LookedAt(j) \/ Quiet(j)
        BY <1>15 DEF Recognise, BeginVerifying, SweepMoves, CanSettle, Move, Goto, LookedAt
    <2>3. LookedAtIsQuiet'
        BY <2>2, <1>a DEF LookedAtIsQuiet
    <2>4. FailureIsTrue'
        BY <1>15 DEF Recognise, BeginVerifying, SweepMoves, CanSettle, Move, Goto, LookedAt, LookedAtIsQuiet, FailureIsTrue
    <2> QED
        BY <2>1, <2>3, <2>4
<1>16. ASSUME NEW s \in Sweepers, LeaveForAPerson(s)
      PROVE  HolderIsSent' /\ LookedAtIsQuiet' /\ FailureIsTrue'
    <2>1. HolderIsSent'
        BY <1>16 DEF LeaveForAPerson, RowDone, Holding, InCall
    <2>2. \A j \in Keys : LookedAt(j)' => LookedAt(j) \/ Quiet(j)
        BY <1>16 DEF LeaveForAPerson, RowDone, LookedAt
    <2>3. LookedAtIsQuiet'
        BY <2>2, <1>a DEF LookedAtIsQuiet
    <2>4. FailureIsTrue'
        BY <1>16 DEF LeaveForAPerson, RowDone, LookedAt, LookedAtIsQuiet, FailureIsTrue
    <2> QED
        BY <2>1, <2>3, <2>4
<1>17. ASSUME NEW s \in Sweepers, ReadBackAnswers(s)
      PROVE  HolderIsSent' /\ LookedAtIsQuiet' /\ FailureIsTrue'
    <2>1. HolderIsSent'
        BY <1>17 DEF ReadBackAnswers, Holding, InCall
    <2>2. \A j \in Keys : LookedAt(j)' => LookedAt(j) \/ Quiet(j)
        BY <1>17 DEF ReadBackAnswers, LookedAt
    <2>3. LookedAtIsQuiet'
        BY <2>2, <1>a DEF LookedAtIsQuiet
    <2>4. FailureIsTrue'
        BY <1>17 DEF ReadBackAnswers, LookedAt, Quiet, LookedAt, LookedAtIsQuiet, FailureIsTrue
    <2> QED
        BY <2>1, <2>3, <2>4
<1>18. ASSUME NEW s \in Sweepers, ReadBackCannotSay(s)
      PROVE  HolderIsSent' /\ LookedAtIsQuiet' /\ FailureIsTrue'
    <2>1. HolderIsSent'
        BY <1>18 DEF ReadBackCannotSay, Holding, InCall
    <2>2. \A j \in Keys : LookedAt(j)' => LookedAt(j) \/ Quiet(j)
        BY <1>18 DEF ReadBackCannotSay, LookedAt
    <2>3. LookedAtIsQuiet'
        BY <2>2, <1>a DEF LookedAtIsQuiet
    <2>4. FailureIsTrue'
        BY <1>18 DEF ReadBackCannotSay, LookedAt, Quiet, LookedAt, LookedAtIsQuiet, FailureIsTrue
    <2> QED
        BY <2>1, <2>3, <2>4
<1>19. ASSUME NEW s \in Sweepers, RecordAnswer(s)
      PROVE  HolderIsSent' /\ LookedAtIsQuiet' /\ FailureIsTrue'
    <2>1. HolderIsSent'
        <3>1. row[s] \in Keys /\ Quiet(row[s])
            BY <1>19 DEF Recognise, BeginVerifying, RecordAnswer, LookedAt
        <3>2. UNCHANGED workerVars /\ \A k \in Keys : ledger'[k] # ledger[k] => k = row[s]
            BY <1>19, SweepFrame DEF SweepStep
        <3> QED
            BY <3>1, <3>2 DEF Quiet, Holding, InCall
    <2>2. \A j \in Keys : LookedAt(j)' => LookedAt(j) \/ Quiet(j)
        BY <1>19 DEF RecordAnswer, SweepMoves, CanSettle, Move, RowDone, LookedAt
    <2>3. LookedAtIsQuiet'
        BY <2>2, <1>a DEF LookedAtIsQuiet
    <2>4. FailureIsTrue'
        <3>1. \A j \in Keys : ledger'[j] = "failed" =>
                  ledger[j] = "failed" \/ (j = row[s] /\ learnt[s] = "failed" /\ spc[s] = "asked")
            BY <1>19 DEF RecordAnswer, SweepMoves, Move
        <3>2. row[s] \in Keys /\ Quiet(row[s])
            BY <1>19 DEF RecordAnswer, LookedAt, LookedAtIsQuiet
        <3>3. UNCHANGED fate /\ spc'[s] # "asked"
            BY <1>19 DEF RecordAnswer, SweepMoves, RowDone
        <3>4. \A t \in Sweepers \ {s} :
                  spc'[t] = spc[t] /\ row'[t] = row[t] /\ learnt'[t] = learnt[t]
            BY <1>19 DEF RecordAnswer, RowDone
        <3> QED
            BY <3>1, <3>2, <3>3, <3>4, <1>a DEF FailureIsTrue
    <2> QED
        BY <2>1, <2>3, <2>4
<1>20. ASSUME NEW s \in Sweepers, MoveRefused(s) \/ CrashSweeper(s)
      PROVE  HolderIsSent' /\ LookedAtIsQuiet' /\ FailureIsTrue'
    <2>1. HolderIsSent'
        BY <1>20, SweepEndsFrame DEF SweepEnds, Holding, InCall
    <2>2. \A j \in Keys : LookedAt(j)' => LookedAt(j) \/ Quiet(j)
        BY <1>20, SweepEndsFrame DEF SweepEnds, NoRows, LookedAt
    <2>3. LookedAtIsQuiet'
        BY <2>2, <1>a DEF LookedAtIsQuiet
    <2>4. FailureIsTrue'
        BY <1>20, SweepEndsFrame DEF SweepEnds, LookedAt, LookedAtIsQuiet, FailureIsTrue
    <2> QED
        BY <2>1, <2>3, <2>4
<1>21. CASE UNCHANGED vars
    BY <1>21 DEF vars, LookedAtIsQuiet, FailureIsTrue, LookedAt, Quiet, Holding, InCall
<1> QED
    BY <1>1, <1>2, <1>3, <1>4, <1>5, <1>6, <1>7, <1>8, <1>9, <1>10, <1>11, <1>12, <1>13, <1>14, <1>15, <1>16, <1>17, <1>18, <1>19, <1>20, <1>21
       DEF Next, WorkerStep, Caller, SweepStep


\* The initial ledger satisfies the whole invariant.
LEMMA InvInit == Init => IInv
BY TypeInit, IssueInit, TruthInit, GraceInit DEF IInv

\* The whole invariant is inductive: the four step lemmas together.
LEMMA InvStep == IInv /\ [Next]_vars => IInv'
BY TypeStep, IssueStep, TruthStep, GraceStep DEF IInv

\* A record that says succeeded or failed is right, for any number of callers
\* and sweeps (failed: when the grace outlasts a call).
THEOREM RecordsAreTrue == Spec => []SettledRecordIsTrue
<1>1. IInv => SettledRecordIsTrue
    BY DEF IInv, TypeOK, TruthInv, SuccessIsTrue, GraceInv, FailureIsTrue, Quiet,
           SettledRecordIsTrue
<1> QED
    BY <1>1, InvInit, InvStep, PTL DEF Spec

\* The request behind a record leaves while the record says sent, so a record
\* recovery has begun on is never followed by one (when the grace holds).
THEOREM SendsFromSent == Spec => RequestsLeaveFromSent
<1>1. IInv /\ [Next]_vars =>
        [\A k \in Keys : GraceHolds /\ requests'[k] # requests[k] => ledger[k] = "sent"]_vars
    <2> SUFFICES ASSUME IInv, Next, NEW k \in Keys, GraceHolds, requests'[k] # requests[k]
                 PROVE  ledger[k] = "sent"
        BY DEF vars
    <2>1. PICK w \in Workers : Send(w)
        <3>1. ASSUME NEW s \in Sweepers, SweepStep(s) \/ CrashSweeper(s) PROVE FALSE
            BY <3>1, SweepFrame DEF IInv, sourceVars
        <3> QED
            BY <3>1 DEF Next, WorkerStep, Caller, ClaimNew, ClaimHeld, ClaimRefused, Win, Lose,
                        LoseTheRace, Reclaim, Answer, Raise, Settle, Overtaken, CrashWorker,
                        Age, SourceStep, Apply, Drop, sourceVars
    <2>2. key[w] = k
        BY <2>1 DEF Send, IInv, TypeOK
    <2> QED
        BY <2>1, <2>2 DEF Send, IInv, GraceInv, HolderIsSent, Holding, InCall
<1> QED
    BY <1>1, InvInit, InvStep, PTL DEF Spec, RequestsLeaveFromSent


\* The verdict of a record, as OncePromise sees it.
Verdict == [k \in Keys |-> IF ledger[k] \in Terminal THEN ledger[k] ELSE "open"]

\* A move between states that are not settled shows nothing.
LEMMA OpenMove ==
    ASSUME TypeOK, NEW k \in Keys, NEW st \in OperationState,
           ledger' = [ledger EXCEPT ![k] = st], ledger[k] \notin Terminal
    PROVE  /\ st \notin Terminal => Verdict' = Verdict
           /\ st \in Terminal => Verdict' = [Verdict EXCEPT ![k] = st]
           /\ Verdict[k] = "open"
<1>1. ledger \in [Keys -> OperationState \union {"none"}]
    BY DEF TypeOK
<1>2. \A j \in Keys : ledger'[j] = IF j = k THEN st ELSE ledger[j]
    BY <1>1
<1>3. Verdict[k] = "open"
    BY DEF Verdict
<1>4. ASSUME st \notin Terminal
      PROVE  Verdict' = Verdict
    BY <1>2, <1>4 DEF Verdict
<1>5. ASSUME st \in Terminal
      PROVE  Verdict' = [Verdict EXCEPT ![k] = st]
    BY <1>2, <1>5 DEF Verdict
<1> QED
    BY <1>3, <1>4, <1>5

\* A ledger with no record promises nothing yet.
LEMMA PromiseInit == Init => Promise!PInit
BY DEF Init, Promise!PInit

\* Every step is a step of OncePromise, or shows nothing of one.
LEMMA PromiseStep == GraceHolds /\ IInv /\ [Next]_vars => [Promise!PNext]_(Promise!pvars)
<1> SUFFICES ASSUME GraceHolds, IInv, [Next]_vars
             PROVE  Promise!PNext \/ UNCHANGED <<fate, Verdict>>
    BY DEF Promise!pvars, Verdict
<1> USE DEF IInv, Verdict, ledgerVars, sourceVars
<1>a. ASSUME NEW k \in Keys, Promise!Issue(k) \/ Promise!Act(k) \/ Promise!Vanish(k) \/ Promise!Conclude(k)
      PROVE  Promise!PNext
    BY <1>a DEF Promise!PNext
<1>1. ASSUME NEW w \in Workers, NEW k \in Keys, NEW i \in Intents, ClaimNew(w, k, i)
      PROVE  UNCHANGED <<fate, Verdict>>
    BY <1>1, OpenMove DEF ClaimNew
<1>2. ASSUME NEW w \in Workers, Win(w)
      PROVE  UNCHANGED <<fate, Verdict>>
    <2>1. key[w] \in Keys
        BY <1>2 DEF Win, HeldInv
    <2> QED
        BY <1>2, <2>1, OpenMove DEF Win, Move
<1>3. ASSUME NEW w \in Workers, Send(w)
      PROVE  Promise!PNext
    <2>1. key[w] \in Keys /\ ledger[key[w]] = "sent" /\ fate[key[w]] = "unsent"
        BY <1>3 DEF Send, HeldInv, GraceInv, HolderIsSent, Holding, InCall, IssueInv,
                    WinnerHasNotSent, TruthInv, RequestsAreCounted
    <2>2. Promise!Issue(key[w])
        BY <1>3, <2>1 DEF Send, Promise!Issue
    <2> QED
        BY <2>1, <2>2, <1>a
<1>4. ASSUME NEW w \in Workers, NEW o \in DOMAIN StateAfterCall, Answer(w, o)
      PROVE  Promise!PNext \/ UNCHANGED <<fate, Verdict>>
    <2>1. key[w] \in Keys /\ fate[key[w]] # "unsent"
        BY <1>4 DEF Answer, HeldInv, TruthInv, AnswersAreTrue
    <2>2. CASE o \in {"rejected", "quota"} /\ fate[key[w]] = "travelling"
        <3>1. Promise!Vanish(key[w])
            BY <1>4, <2>2 DEF Answer, Promise!Vanish
        <3> QED
            BY <2>1, <3>1, <1>a
    <2>3. CASE ~(o \in {"rejected", "quota"} /\ fate[key[w]] = "travelling")
        BY <1>4, <2>1, <2>3 DEF Answer, TypeOK
    <2> QED
        BY <2>2, <2>3
<1>5. ASSUME NEW k \in Keys, SourceStep(k)
      PROVE  Promise!PNext
    <2>1. Promise!Act(k) \/ Promise!Vanish(k)
        BY <1>5 DEF SourceStep, Apply, Drop, Promise!Act, Promise!Vanish
    <2> QED
        BY <2>1, <1>a
<1>6. ASSUME NEW w \in Workers, Settle(w)
      PROVE  Promise!PNext \/ UNCHANGED <<fate, Verdict>>
    <2>1. /\ key[w] \in Keys
          /\ landed[w] \in {"succeeded", "failed", "unknown"}
          /\ ledger[key[w]] \notin Terminal
          /\ ledger' = [ledger EXCEPT ![key[w]] = landed[w]]
          /\ UNCHANGED fate
        BY <1>6 DEF Settle, HeldInv, TypeOK, CanSettle, Move
    <2>2. /\ landed[w] = "succeeded" => fate[key[w]] = "applied"
          /\ landed[w] = "failed" => fate[key[w]] = "lost"
        BY <1>6 DEF Settle, TruthInv, AnswersAreTrue
    <2>3. CASE landed[w] = "unknown"
        BY <2>1, <2>3, OpenMove
    <2>4. CASE landed[w] \in Terminal
        <3>1. Verdict' = [Verdict EXCEPT ![key[w]] = landed[w]] /\ Verdict[key[w]] = "open"
            BY <2>1, <2>4, OpenMove
        <3>2. PICK k \in Keys : k = key[w]
            BY <2>1
        <3>3. Promise!Conclude(k)
            BY <2>1, <2>2, <2>4, <3>1, <3>2 DEF Promise!Conclude
        <3> QED
            BY <3>3, <1>a
    <2> QED
        BY <2>1, <2>3, <2>4
<1>7. ASSUME NEW s \in Sweepers, Recognise(s) \/ BeginVerifying(s)
      PROVE  UNCHANGED <<fate, Verdict>>
    <2>1. row[s] \in Keys
        BY <1>7 DEF Recognise, BeginVerifying, HeldInv
    <2>2. CASE Recognise(s)
        BY <2>1, <2>2, OpenMove DEF Recognise, SweepMoves, CanSettle, Move
    <2>3. CASE BeginVerifying(s)
        BY <2>1, <2>3, OpenMove DEF BeginVerifying, SweepMoves, CanSettle, Move
    <2> QED
        BY <1>7, <2>2, <2>3
<1>8. ASSUME NEW s \in Sweepers, RecordAnswer(s)
      PROVE  Promise!PNext \/ UNCHANGED <<fate, Verdict>>
    <2>1. /\ row[s] \in Keys
          /\ learnt[s] \in {"succeeded", "failed", "unknown"}
          /\ ledger[row[s]] \notin Terminal
          /\ ledger' = [ledger EXCEPT ![row[s]] = learnt[s]]
          /\ UNCHANGED fate
        BY <1>8 DEF RecordAnswer, SweepMoves, HeldInv, TypeOK, CanSettle, Move
    <2>2. /\ learnt[s] = "succeeded" => fate[row[s]] = "applied"
          /\ learnt[s] = "failed" => fate[row[s]] \in {"unsent", "lost"}
        BY <1>8, <2>1 DEF RecordAnswer, TypeOK, TruthInv, SuccessIsTrue, GraceInv, FailureIsTrue,
                          LookedAtIsQuiet, LookedAt, Quiet
    <2>3. CASE learnt[s] = "unknown"
        BY <2>1, <2>3, OpenMove
    <2>4. CASE learnt[s] \in Terminal
        <3>1. Verdict' = [Verdict EXCEPT ![row[s]] = learnt[s]] /\ Verdict[row[s]] = "open"
            BY <2>1, <2>4, OpenMove
        <3>2. PICK k \in Keys : k = row[s]
            BY <2>1
        <3>3. Promise!Conclude(k)
            BY <2>1, <2>2, <2>4, <3>1, <3>2 DEF Promise!Conclude
        <3> QED
            BY <3>3, <1>a
    <2> QED
        BY <2>1, <2>3, <2>4
<1>9. CASE UNCHANGED <<ledger, fate>>
    BY <1>9
<1> QED
    BY <1>1, <1>2, <1>3, <1>4, <1>5, <1>6, <1>7, <1>8, <1>9
       DEF Next, vars, WorkerStep, Caller, SweepStep, ClaimHeld, ClaimRefused, Lose, LoseTheRace,
           Reclaim, Raise, Overtaken, CrashWorker, Age, StartSweep, TakeRow, LeaveForAPerson,
           ReadBackAnswers, ReadBackCannotSay, MoveRefused, CrashSweeper

\* The ledger, its callers and the sweep implement the promise made of one
\* intent, where the grace outlasts a call.
THEOREM ImplementsThePromise == GraceHolds => (Spec => KeepsThePromise)
<1> SUFFICES ASSUME GraceHolds PROVE Spec => KeepsThePromise
    OBVIOUS
<1>1. IInv /\ [Next]_vars => [Promise!PNext]_(Promise!pvars)
    BY PromiseStep
<1> QED
    BY <1>1, InvInit, InvStep, PromiseInit, PTL DEF Spec, KeepsThePromise, Promise!PSpec

-----------------------------------------------------------------------------
(* What callers are told.                                                  *)

\* What has been met by the connected system stays so, a request that has left
\* is the only one, and a record never returns to pending.
Stays(k) ==
    /\ fate[k] = "applied" => fate'[k] = "applied"
    /\ requests[k] = 1 => requests'[k] = 1
    /\ ledger[k] \notin {"none", "pending"} => ledger'[k] \notin {"none", "pending"}

LEMMA SourceStays ==
    ASSUME TypeOK, HeldInv, IssueInv, TruthInv, [Next]_vars, NEW k \in Keys
    PROVE  Stays(k)
<1> USE DEF TypeOK, HeldInv, Stays, ledgerVars, sourceVars
<1>1. ASSUME NEW w \in Workers, NEW q \in Keys, NEW i \in Intents,
             ClaimNew(w, q, i) \/ ClaimHeld(w, q, i) \/ ClaimRefused(w, q, i)
      PROVE  Stays(k)
    BY <1>1 DEF ClaimNew, ClaimHeld, ClaimRefused
<1>2. ASSUME NEW w \in Workers, Win(w) \/ Settle(w)
      PROVE  Stays(k)
    BY <1>2 DEF Win, Settle, Move, CanSettle
<1>3. ASSUME NEW w \in Workers,
             Lose(w) \/ LoseTheRace(w) \/ Reclaim(w) \/ Raise(w) \/ Overtaken(w) \/ CrashWorker(w)
      PROVE  Stays(k)
    BY <1>3 DEF Lose, LoseTheRace, Reclaim, Raise, Overtaken, CrashWorker
<1>4. ASSUME NEW w \in Workers, Send(w)
      PROVE  Stays(k)
    BY <1>4 DEF Send, IssueInv, WinnerHasNotSent, TruthInv, RequestsAreCounted
<1>5. ASSUME NEW w \in Workers, NEW o \in DOMAIN StateAfterCall, Answer(w, o)
      PROVE  Stays(k)
    BY <1>5 DEF Answer
<1>6. ASSUME NEW q \in Keys, Age(q) \/ SourceStep(q)
      PROVE  Stays(k)
    BY <1>6 DEF Age, SourceStep, Apply, Drop
<1>7. ASSUME NEW s \in Sweepers, SweepStep(s) \/ CrashSweeper(s)
      PROVE  Stays(k)
    BY <1>7, SweepFrame
<1>8. CASE UNCHANGED vars
    BY <1>8 DEF vars
<1> QED
    BY <1>1, <1>2, <1>3, <1>4, <1>5, <1>6, <1>7, <1>8 DEF Next, WorkerStep, Caller

\* What a caller was told is so, and so is what it will be told by what it read.
Told(w) ==
    /\ result[w] \in {"done", "issued"} => key[w] \in Keys
    /\ result[w] = "done" => fate[key[w]] = "applied"
    /\ result[w] = "issued" => requests[key[w]] = 1
    /\ result[w] # "issue"
    /\ pc[w] = "claimed" /\ stored[w] = "succeeded" => fate[key[w]] = "applied"
    /\ pc[w] = "lost" => ledger[key[w]] # "pending"
    /\ pc[w] = "answered" => requests[key[w]] = 1

ToldInv == \A w \in Workers : Told(w)

\* A caller that does nothing finds what it holds and was told still so.
LEMMA ToldApart ==
    ASSUME TypeOK, HeldInv, NEW w \in Workers, Told(w), \A k \in Keys : Stays(k),
           UNCHANGED <<pc[w], key[w], stored[w], result[w]>>
    PROVE  Told(w)'
BY DEF TypeOK, HeldInv, Told, Stays

LEMMA ToldStep ==
    TypeOK /\ HeldInv /\ IssueInv /\ TruthInv /\ ToldInv /\ [Next]_vars => ToldInv'
<1> SUFFICES ASSUME TypeOK, HeldInv, IssueInv, TruthInv, ToldInv, [Next]_vars PROVE ToldInv'
    OBVIOUS
<1>1. \A k \in Keys : Stays(k)
    BY SourceStays
<1>2. ASSUME NEW w \in Workers, Told(w)',
             \A v \in Workers \ {w} : UNCHANGED <<pc[v], key[v], stored[v], result[v]>>
      PROVE  ToldInv'
    BY <1>1, <1>2, ToldApart DEF ToldInv
<1>3. CASE UNCHANGED workerVars
    BY <1>1, <1>3, ToldApart DEF ToldInv, workerVars
<1>4. ASSUME NEW w \in Workers, NEW k \in Keys, NEW i \in Intents,
             ClaimNew(w, k, i) \/ ClaimHeld(w, k, i) \/ ClaimRefused(w, k, i)
      PROVE  ToldInv'
    <2>1. Told(w)'
        BY <1>4 DEF ClaimNew, ClaimHeld, ClaimRefused, Return, Told, TypeOK, TruthInv,
                    SuccessIsTrue, sourceVars
    <2>2. \A v \in Workers \ {w} : UNCHANGED <<pc[v], key[v], stored[v], result[v]>>
        BY <1>4 DEF ClaimNew, ClaimHeld, ClaimRefused, Return, TypeOK
    <2> QED BY <1>2, <2>1, <2>2
<1>5. ASSUME NEW w \in Workers, Win(w) \/ LoseTheRace(w)
      PROVE  ToldInv'
    <2>1. Told(w)'
        BY <1>5 DEF Win, LoseTheRace, Told, ToldInv, TypeOK, ledgerVars, sourceVars
    <2>2. \A v \in Workers \ {w} : UNCHANGED <<pc[v], key[v], stored[v], result[v]>>
        BY <1>5 DEF Win, LoseTheRace, TypeOK
    <2> QED BY <1>2, <2>1, <2>2
<1>6. ASSUME NEW w \in Workers, Lose(w) \/ Reclaim(w)
      PROVE  ToldInv'
    <2>1. Told(w)'
        <3>1. CASE Lose(w)
            BY <3>1 DEF Lose, Return, ResumePlan, Told, ToldInv, TypeOK, HeldInv, OperationState,
                        sourceVars
        <3>2. CASE Reclaim(w)
            BY <3>2 DEF Reclaim, Return, ResumePlan, Told, ToldInv, TypeOK, HeldInv,
                        OperationState, TruthInv, SuccessIsTrue, sourceVars
        <3> QED BY <1>6, <3>1, <3>2
    <2>2. \A v \in Workers \ {w} : UNCHANGED <<pc[v], key[v], stored[v], result[v]>>
        BY <1>6 DEF Lose, Reclaim, Return, TypeOK
    <2> QED BY <1>2, <2>1, <2>2
<1>7. ASSUME NEW w \in Workers, Send(w) \/ Raise(w)
      PROVE  ToldInv'
    <2>1. Told(w)'
        BY <1>1, <1>7 DEF Send, Raise, Told, ToldInv, Stays, TypeOK, HeldInv, ledgerVars, sourceVars
    <2>2. \A v \in Workers \ {w} : UNCHANGED <<pc[v], key[v], stored[v], result[v]>>
        BY <1>7 DEF Send, Raise, TypeOK
    <2> QED BY <1>2, <2>1, <2>2
<1>8. ASSUME NEW w \in Workers, NEW o \in DOMAIN StateAfterCall, Answer(w, o)
      PROVE  ToldInv'
    <2>1. requests[key[w]] = 1 /\ key[w] \in Keys
        <3>1. pc[w] = "calling" /\ key[w] \in Keys
            BY <1>8 DEF Answer, HeldInv
        <3>2. requests[key[w]] # 0 /\ requests[key[w]] \in Nat
            BY <3>1 DEF TruthInv, AnswersAreTrue, RequestsAreCounted, TypeOK
        <3>3. requests[key[w]] <= 1
            BY <3>1 DEF IssueInv, AtMostOneRequest
        <3> QED BY <3>1, <3>2, <3>3
    <2>2. Told(w)'
        BY <1>1, <1>8, <2>1 DEF Answer, Told, ToldInv, Stays, TypeOK
    <2>3. \A v \in Workers \ {w} : UNCHANGED <<pc[v], key[v], stored[v], result[v]>>
        BY <1>8 DEF Answer, TypeOK
    <2> QED BY <1>2, <2>2, <2>3
<1>9. ASSUME NEW w \in Workers, Settle(w) \/ Overtaken(w) \/ CrashWorker(w)
      PROVE  ToldInv'
    <2>1. Told(w)'
        BY <1>9 DEF Settle, Overtaken, CrashWorker, Return, Told, ToldInv, TypeOK, HeldInv, sourceVars
    <2>2. \A v \in Workers \ {w} : UNCHANGED <<pc[v], key[v], stored[v], result[v]>>
        BY <1>9 DEF Settle, Overtaken, CrashWorker, Return, TypeOK
    <2> QED BY <1>2, <2>1, <2>2
<1>10. ASSUME NEW k \in Keys, Age(k) \/ SourceStep(k)
       PROVE  ToldInv'
    BY <1>3, <1>10 DEF Age, SourceStep, Apply, Drop
<1>11. ASSUME NEW s \in Sweepers, SweepStep(s) \/ CrashSweeper(s)
       PROVE  ToldInv'
    BY <1>3, <1>11, SweepFrame
<1>12. CASE UNCHANGED vars
    BY <1>3, <1>12 DEF vars
<1> QED
    BY <1>4, <1>5, <1>6, <1>7, <1>8, <1>9, <1>10, <1>11, <1>12 DEF Next, WorkerStep, Caller

\* What a caller is told is so and stays so, for any number of callers, sweeps and
\* crashes, and whether or not the grace outlasts a call (issue_once).
THEOREM CallersAreToldTheTruth == Spec => []AnswersAreBacked
<1>1. Init => ToldInv
    BY DEF Init, ToldInv, Told
<1>2. IInv /\ ToldInv /\ [Next]_vars => ToldInv'
    BY ToldStep DEF IInv
<1>3. ToldInv => AnswersAreBacked
    BY DEF ToldInv, Told, AnswersAreBacked
<1> QED
    BY <1>1, <1>2, <1>3, InvInit, InvStep, PTL DEF Spec

\* What a call that was answered, or raised, has come to is a state its record
\* may be settled in from sent.
LEMMA LandingIsAllowed ==
    ASSUME TypeOK, HeldInv, NEW w \in Workers, pc[w] \in {"answered", "raising"}
    PROVE  landed[w] \in AllowedTransitions["sent"]
BY DEF TypeOK, HeldInv, AllowedTransitions

\* Only being overtaken tells a caller so.
LEMMA OnlyOvertakenSaysSo ==
    ASSUME TypeOK, HeldInv, [Next]_vars, NEW w \in Workers, result[w] # "overtaken",
           ~Overtaken(w)
    PROVE  result'[w] # "overtaken"
<1> USE DEF TypeOK, HeldInv
<1>1. ASSUME NEW v \in Workers, NEW q \in Keys, NEW i \in Intents,
             ClaimNew(v, q, i) \/ ClaimHeld(v, q, i) \/ ClaimRefused(v, q, i)
      PROVE  result'[w] # "overtaken"
    BY <1>1 DEF ClaimNew, ClaimHeld, ClaimRefused, Return
<1>2. ASSUME NEW v \in Workers, Lose(v) \/ Reclaim(v)
      PROVE  result'[w] # "overtaken"
    <2>1. CASE Lose(v)
        <3>1. ResumePlan[stored[v]] \in {"issue", "verify", "done", "stop"}
            BY <2>1, MachineType DEF Lose
        <3>2. result' = [result EXCEPT ![v] = ResumePlan[stored[v]]]
            BY <2>1 DEF Lose, Return
        <3> QED
            BY <3>1, <3>2
    <2>2. CASE Reclaim(v)
        <3>1. ResumePlan[ledger[key[v]]] \in {"issue", "verify", "done", "stop"}
            <4>1. ledger[key[v]] \in OperationState
                BY <2>2 DEF Reclaim
            <4> QED
                BY <4>1, MachineType
        <3>2. result' = [result EXCEPT ![v] = ResumePlan[ledger[key[v]]]]
            BY <2>2 DEF Reclaim, Return
        <3> QED
            BY <3>1, <3>2
    <2> QED
        BY <1>2, <2>1, <2>2
<1>3. ASSUME NEW v \in Workers, Settle(v) \/ Overtaken(v) \/ CrashWorker(v)
      PROVE  result'[w] # "overtaken"
    BY <1>3 DEF Settle, Overtaken, CrashWorker, Return
<1>4. CASE UNCHANGED result
    BY <1>4
<1>5. ASSUME NEW s \in Sweepers, SweepStep(s) \/ CrashSweeper(s)
      PROVE  UNCHANGED result
    BY <1>5, SweepFrame DEF workerVars
<1> QED
    BY <1>1, <1>2, <1>3, <1>4, <1>5
       DEF Next, WorkerStep, Caller, Win, LoseTheRace, Send, Answer, Raise, Age, SourceStep,
           Apply, Drop, vars, workerVars

\* Where the grace outlasts a call, every answer lands: a record somebody is in a
\* call on still says sent, so that the settle of issue_once finds what it expects,
\* under any number of sweeps at once.
THEOREM AnswersLand == GraceHolds => (Spec => []NoAnswerIsOvertaken)
<1> SUFFICES ASSUME GraceHolds PROVE Spec => []NoAnswerIsOvertaken
    OBVIOUS
<1>1. Init => NoAnswerIsOvertaken
    BY DEF Init, NoAnswerIsOvertaken
<1>2. IInv /\ NoAnswerIsOvertaken /\ [Next]_vars => NoAnswerIsOvertaken'
    <2> SUFFICES ASSUME IInv, NoAnswerIsOvertaken, [Next]_vars, NEW w \in Workers
                 PROVE  result'[w] # "overtaken"
        BY DEF NoAnswerIsOvertaken
    <2>1. ASSUME pc[w] \in {"answered", "raising"} PROVE CanSettle(key[w], "sent", landed[w])
        <3>1. key[w] \in Keys /\ Holding(w, key[w])
            BY <2>1 DEF IInv, HeldInv, Holding, InCall
        <3>2. ledger[key[w]] = "sent"
            BY <3>1 DEF IInv, GraceInv, HolderIsSent
        <3> QED
            BY <2>1, <3>2, LandingIsAllowed DEF IInv, CanSettle
    <2>2. ~Overtaken(w)
        BY <2>1 DEF Overtaken
    <2> QED
        BY <2>2, OnlyOvertakenSaysSo DEF IInv, NoAnswerIsOvertaken
<1> QED
    BY <1>1, <1>2, InvInit, InvStep, PTL DEF Spec

=============================================================================
