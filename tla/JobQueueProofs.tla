--------------------------- MODULE JobQueueProofs ---------------------------
(***************************************************************************)
(* For any jobs, workers, cap and number of faults: the types, that a job  *)
(* not safe to run twice is begun again only for a person, and, for a job  *)
(* no sweep took for left behind while its worker lived, that one worker   *)
(* at most is in it and that the sweep does not put it back too often.     *)
(***************************************************************************)
EXTENDS JobQueue, TLAPS

(***************************************************************************)
(* Type correctness.                                                       *)
(***************************************************************************)

\* Every step of the queue, its workers, the sweep and the persons keeps each
\* variable in its type; a mark on an ask is only ever at a job.
THEOREM TypeCorrect == Spec => []TypeOK
<1> USE DEF driverVars, workerVars, askVars, sweepVars, ghostVars, faultVars
<1>1. Init => TypeOK
    BY BoundsAssumption DEF Init, TypeOK, Undecided
<1>2. TypeOK /\ [Next]_vars => TypeOK'
    <2> SUFFICES ASSUME TypeOK, [Next]_vars PROVE TypeOK'
        OBVIOUS
    <2> USE DEF TypeOK
    <2>1. ASSUME NEW w \in Workers, NEW j \in Jobs, Fetch(w, j) PROVE TypeOK'
        BY <2>1 DEF Fetch
    <2>2. ASSUME NEW w \in Workers, NEW verdict \in {"succeeded", "failed"}, Finish(w, verdict) PROVE TypeOK'
        BY <2>2 DEF Finish
    <2>3. ASSUME NEW w \in Workers, Die(w) PROVE TypeOK'
        BY <2>3 DEF Die
    <2>4. ASSUME NEW w \in Workers, Pause(w) \/ Resume(w) PROVE TypeOK'
        BY <2>4 DEF Pause, Resume
    <2>5. ASSUME NEW j \in Jobs, FallQuiet(j) \/ Prune(j) \/ Ask(j) PROVE TypeOK'
        BY <2>5 DEF FallQuiet, Prune, Ask
    <2>6. ASSUME StartSweep PROVE TypeOK'
      <3>1. \A j \in Jobs : Verdict(j) \in {"running", "dead_letter", "redrive", "quarantine"}
          BY DEF Verdict
      <3> QED
          BY <2>6, <3>1 DEF StartSweep
    <2>7. ASSUME ReadFailed \/ ReadAsks \/ Answer \/ EndSweep \/ SweepDies PROVE TypeOK'
        BY <2>7, SafeAssumption DEF ReadFailed, ReadAsks, Answer, EndSweep, SweepDies, Forget, Redrivable, Undecided
    <2>8. ASSUME NEW j \in Jobs, MoveRunning(j) PROVE TypeOK'
        BY <2>8 DEF MoveRunning, RunAgain, SetAside, DeadLetterReason, Reasons
    <2>9. ASSUME NEW j \in Jobs, MoveFailed(j) \/ LookAt(j) PROVE TypeOK'
        BY <2>9 DEF MoveFailed, LookAt, RunAgain
    <2>10. ASSUME NEW j \in Jobs, KeepAside(j) PROVE TypeOK'
        BY <2>10 DEF KeepAside
    <2>11. ASSUME KeepFailed PROVE TypeOK'
        BY <2>11 DEF KeepFailed, Reasons
    <2>12. ASSUME PutBack PROVE TypeOK'
        BY <2>12 DEF PutBack, RunAgain
    <2>13. ASSUME UNCHANGED vars PROVE TypeOK'
        BY <2>13 DEF vars
    <2> QED
        BY <2>1, <2>2, <2>3, <2>4, <2>5, <2>6, <2>7, <2>8, <2>9, <2>10, <2>11, <2>12, <2>13
        DEF Next, WorkerStep, Body, WorkerFault, SweepStep
<1> QED
    BY <1>1, <1>2, PTL DEF Spec

(***************************************************************************)
(* The jobs the sweep has decided about.                                   *)
(***************************************************************************)

\* The sweep's lists hold the jobs it may move, and nothing once it is past them.
ListsInv ==
    /\ \A j \in Jobs : plan[j] = "redrive" => j \in Safe
    /\ retry \subseteq Safe
    /\ pc # "moving" => retry = {}

\* Every step keeps the lists to jobs safe to run twice; the verdict asks for
\* safety last, and the second read names the safe tasks.
LEMMA ListsStep == TypeOK /\ ListsInv /\ [Next]_vars => ListsInv'
<1> SUFFICES ASSUME TypeOK, ListsInv, [Next]_vars PROVE ListsInv'
    OBVIOUS
<1> USE DEF ListsInv, sweepVars
<1>1. ASSUME UNCHANGED sweepVars PROVE ListsInv'
    BY <1>1
<1>2. ASSUME StartSweep PROVE ListsInv'
    BY <1>2 DEF StartSweep, Verdict, TypeOK
<1>3. ASSUME ReadFailed PROVE ListsInv'
    BY <1>3 DEF ReadFailed, Redrivable
<1>4. ASSUME NEW j \in Jobs, MoveRunning(j) \/ MoveFailed(j) PROVE ListsInv'
    BY <1>4 DEF MoveRunning, MoveFailed, TypeOK
<1>5. ASSUME NEW j \in Jobs, KeepAside(j) \/ LookAt(j) PROVE ListsInv'
    BY <1>5 DEF KeepAside, LookAt
<1>6. ASSUME KeepFailed \/ ReadAsks \/ PutBack \/ Answer PROVE ListsInv'
    BY <1>6 DEF KeepFailed, ReadAsks, PutBack, Answer
<1>7. ASSUME EndSweep \/ SweepDies PROVE ListsInv'
    BY <1>7 DEF EndSweep, SweepDies, Forget, Undecided
<1>8. ASSUME NEW w \in Workers, WorkerStep(w) \/ Body(w) \/ Resume(w) \/ WorkerFault(w) PROVE UNCHANGED sweepVars
    BY <1>8 DEF WorkerStep, Fetch, Body, Finish, Resume, WorkerFault, Die, Pause
<1>9. ASSUME NEW j \in Jobs, FallQuiet(j) \/ Prune(j) \/ Ask(j) PROVE UNCHANGED sweepVars
    BY <1>9 DEF FallQuiet, Prune, Ask
<1> QED
    BY <1>1, <1>2, <1>3, <1>4, <1>5, <1>6, <1>7, <1>8, <1>9 DEF Next, SweepStep, vars

(***************************************************************************)
(* No job that may not be run twice is.                                    *)
(***************************************************************************)

\* A job that waits has a beginning still to come, and that one is counted too.
BegunInv ==
    \A j \in Jobs \ Safe : runs[j] + (IF status[j] = "todo" THEN 1 ELSE 0) <= 1 + puts[j]

\* A step that makes no unsafe job wait and begins none leaves the count alone.
LEMMA BegunKept ==
    ASSUME TypeOK, BegunInv, UNCHANGED <<runs, puts>>,
           \A j \in Jobs \ Safe : status'[j] = "todo" => status[j] = "todo"
    PROVE  BegunInv'
BY DEF BegunInv, TypeOK

\* A job put back for a person may be begun once more, and only the fetch of a
\* waiting job begins one; every other step to waiting is of a safe job.
LEMMA BegunStep == TypeOK /\ ListsInv /\ BegunInv /\ [Next]_vars => BegunInv'
<1> SUFFICES ASSUME TypeOK, ListsInv, BegunInv, [Next]_vars PROVE BegunInv'
    OBVIOUS
<1> USE DEF driverVars, ghostVars, TypeOK
<1>1. ASSUME NEW w \in Workers, NEW j \in Jobs, Fetch(w, j) PROVE BegunInv'
    BY <1>1 DEF Fetch, BegunInv
<1>2. ASSUME NEW w \in Workers, NEW verdict \in {"succeeded", "failed"}, Finish(w, verdict) PROVE BegunInv'
    BY <1>2, BegunKept DEF Finish
<1>3. ASSUME NEW w \in Workers, Die(w) \/ Pause(w) \/ Resume(w) PROVE BegunInv'
    BY <1>3, BegunKept DEF Die, Pause, Resume
<1>4. ASSUME NEW j \in Jobs, FallQuiet(j) \/ Prune(j) \/ Ask(j) PROVE BegunInv'
    BY <1>4, BegunKept DEF FallQuiet, Prune, Ask
<1>5. ASSUME NEW j \in Jobs, MoveRunning(j) PROVE BegunInv'
    BY <1>5, BegunKept DEF MoveRunning, RunAgain, SetAside, ListsInv
<1>6. ASSUME NEW j \in Jobs, MoveFailed(j) PROVE BegunInv'
    BY <1>6, BegunKept DEF MoveFailed, RunAgain, ListsInv
<1>7. ASSUME PutBack PROVE BegunInv'
    BY <1>7 DEF PutBack, RunAgain, Retriable, BegunInv
<1>8. ASSUME StartSweep \/ ReadFailed \/ KeepFailed \/ ReadAsks \/ Answer \/ EndSweep \/ SweepDies PROVE BegunInv'
    BY <1>8, BegunKept DEF StartSweep, ReadFailed, KeepFailed, ReadAsks, Answer, EndSweep, SweepDies
<1>9. ASSUME NEW j \in Jobs, KeepAside(j) \/ LookAt(j) PROVE BegunInv'
    BY <1>9, BegunKept DEF KeepAside, LookAt
<1>10. ASSUME UNCHANGED vars PROVE BegunInv'
    BY <1>10, BegunKept DEF vars
<1> QED
    BY <1>1, <1>2, <1>3, <1>4, <1>5, <1>6, <1>7, <1>8, <1>9, <1>10
    DEF Next, WorkerStep, Body, WorkerFault, SweepStep

\* A job not declared safe to run twice is begun a second time only because a
\* person asked, whatever dies, is held up, or moves between a read of the
\* sweep and the move it led to.
THEOREM UnsafeJobsWait == Spec => []UnsafeRunsAreAsked
<1>1. Init => ListsInv /\ BegunInv
    BY DEF Init, ListsInv, BegunInv, Undecided
<1>2. TypeOK /\ BegunInv => UnsafeRunsAreAsked
    BY DEF TypeOK, BegunInv, UnsafeRunsAreAsked
<1> QED
    BY <1>1, <1>2, TypeCorrect, ListsStep, BegunStep, PTL DEF Spec

(***************************************************************************)
(* A job the sweep never took from under a worker.                         *)
(***************************************************************************)

\* Nobody is in the body of j.
Empty(j) == \A w \in Workers : at[w] # j

\* What the sweep decided about j, failed reads and asks included, still holds
\* when it comes to move it, and a worker is in j only while it runs.
Settled(j) ==
    /\ status[j] # "doing" => Empty(j)
    /\ plan[j] # "none" => status[j] = "doing" /\ Empty(j)
    /\ j \in retry => status[j] = "failed"
    /\ pc = "putting" /\ hand = j => status[j] = "failed"
    /\ \A v, w \in Workers : at[v] = j /\ at[w] = j => v = w

\* The count reaches the cap and stops; a job on a list is still under it.
Counted(j) ==
    /\ redrives[j] <= MaxRedrives + puts[j]
    /\ plan[j] = "redrive" \/ j \in retry => redrives[j] < MaxRedrives + puts[j]

HandInv == \A j \in Jobs \ lapsed : Settled(j) /\ Counted(j)

\* What of a job the two conjuncts read is as it was.
Untouched(j) ==
    /\ status'[j] = status[j] /\ redrives'[j] = redrives[j] /\ puts'[j] = puts[j]
    /\ plan'[j] # "none" => plan'[j] = plan[j]
    /\ j \in retry' => j \in retry
    /\ \A w \in Workers : at'[w] = j => at[w] = j

\* A step that leaves a job alone, or only takes it off a list or a worker out
\* of it, keeps what is known about it.
LEMMA UntouchedKeeps ==
    ASSUME NEW j \in Jobs, Settled(j), Counted(j), Untouched(j),
           pc' = "putting" /\ hand' = j => status[j] = "failed"
    PROVE  Settled(j)' /\ Counted(j)'
BY DEF Settled, Counted, Untouched, Empty

\* The driver's retry of a job that is failed, or running with nobody in it,
\* makes it wait: it must be off both lists, and its count one under the bound.
LEMMA RunAgainKeeps ==
    ASSUME TypeOK, NEW j \in Jobs, Settled(j), RunAgain(j), Empty(j), UNCHANGED at,
           plan'[j] = "none", j \notin retry', pc' # "putting", puts'[j] \in Nat,
           redrives[j] + 1 <= MaxRedrives + puts'[j]
    PROVE  Settled(j)' /\ Counted(j)'
<1>1. redrives'[j] \in {redrives[j], redrives[j] + 1} /\ redrives[j] \in Nat
    BY DEF RunAgain, TypeOK, driverVars
<1>2. redrives'[j] <= MaxRedrives + puts'[j]
    BY <1>1, BoundsAssumption
<1> QED
    BY <1>2 DEF Settled, Counted, Empty

\* The bodies' side of it: a worker enters only a waiting job, which nobody is
\* in and nothing is decided about, and leaves it by a word that it is done.
LEMMA WorkersKeep ==
    ASSUME TypeOK, HandInv, NEW j \in Jobs \ lapsed, NEW w \in Workers,
           WorkerStep(w) \/ Body(w) \/ Resume(w) \/ WorkerFault(w)
    PROVE  Settled(j)' /\ Counted(j)'
<1> USE DEF TypeOK, driverVars, workerVars, askVars, sweepVars, ghostVars, faultVars
<1>0. Settled(j) /\ Counted(j)
    BY DEF HandInv
<1>1. UNCHANGED <<redrives, puts, plan, retry, pc, hand>>
    BY DEF WorkerStep, Body, Resume, WorkerFault, Fetch, Finish, Die, Pause
<1>2. ASSUME NEW i \in Jobs, Fetch(w, i) PROVE Settled(j)' /\ Counted(j)'
    <2>1. CASE i = j
        BY <1>0, <1>1, <1>2, <2>1 DEF Fetch, Settled, Counted, Empty
    <2>2. CASE i # j
        BY <1>0, <1>1, <1>2, <2>2, UntouchedKeeps DEF Fetch, Untouched, Settled
    <2> QED
        BY <2>1, <2>2
<1>3. ASSUME NEW verdict \in {"succeeded", "failed"}, Finish(w, verdict) PROVE Settled(j)' /\ Counted(j)'
    <2>1. CASE at[w] = j
      <3>1. status[j] = "doing" /\ plan[j] = "none" /\ j \notin retry /\ ~(pc = "putting" /\ hand = j)
          BY <1>0, <2>1 DEF Settled, Empty
      <3>2. \A v \in Workers : at'[v] # j
          BY <1>0, <1>3, <2>1, NamesAssumption DEF Finish, Settled
      <3> QED
          BY <1>0, <1>1, <3>1, <3>2 DEF Settled, Counted, Empty
    <2>2. CASE at[w] # j
        BY <1>0, <1>1, <1>3, <2>2, NamesAssumption, UntouchedKeeps DEF Finish, Untouched, Settled
    <2> QED
        BY <2>1, <2>2
<1>4. ASSUME Die(w) \/ Pause(w) \/ Resume(w) PROVE Settled(j)' /\ Counted(j)'
    BY <1>0, <1>1, <1>4, NamesAssumption, UntouchedKeeps DEF Die, Pause, Resume, Untouched, Settled
<1> QED
    BY <1>2, <1>3, <1>4 DEF WorkerStep, Body, WorkerFault

\* The sweep's reads: a job it finds left behind with a worker in it has
\* lapsed, and one at the cap is on neither list.
LEMMA ReadsKeep ==
    ASSUME TypeOK, HandInv, NEW j \in Jobs \ lapsed', StartSweep \/ ReadFailed
    PROVE  Settled(j)' /\ Counted(j)'
<1> USE DEF TypeOK, driverVars, workerVars, askVars, sweepVars, ghostVars, faultVars
<1>1. j \in Jobs \ lapsed /\ Settled(j) /\ Counted(j)
    BY DEF HandInv, StartSweep, ReadFailed
<1>2. CASE StartSweep
  <2>1. /\ UNCHANGED <<status, redrives, puts, retry, at>> /\ pc' = "read"
        /\ plan'[j] # "none" => status[j] = "doing" /\ Empty(j) /\ plan'[j] = Verdict(j)
      BY <1>1, <1>2 DEF StartSweep, Empty
  <2>2. Verdict(j) = "redrive" => redrives[j] < MaxRedrives
      BY <1>1, BoundsAssumption DEF Verdict, Capped
  <2>3. plan'[j] = "redrive" => redrives[j] < MaxRedrives + puts[j]
      BY <1>1, <2>1, <2>2, BoundsAssumption
  <2> QED
      BY <1>1, <2>1, <2>3 DEF Settled, Counted, Empty
<1>3. CASE ReadFailed
  <2>1. j \in Redrivable => status[j] = "failed" /\ redrives[j] < MaxRedrives + puts[j]
      BY <1>1, BoundsAssumption DEF Redrivable, Capped
  <2> QED
      BY <1>1, <1>3, <2>1 DEF ReadFailed, Settled, Counted, Empty
<1> QED
    BY <1>2, <1>3

\* The sweep's moves: each takes the job off its list, and what the list said
\* of it still holds when it moves it.
LEMMA MovesKeep ==
    ASSUME TypeOK, ListsInv, HandInv, NEW j \in Jobs \ lapsed, NEW i \in Jobs, MoveRunning(i) \/ MoveFailed(i)
    PROVE  Settled(j)' /\ Counted(j)'
<1> USE DEF TypeOK, driverVars, workerVars, askVars, sweepVars, ghostVars, faultVars
<1>1. Settled(j) /\ Counted(j)
    BY DEF HandInv
<1>2. UNCHANGED <<at, puts, hand, pc>> /\ pc = "moving"
    BY DEF MoveRunning, MoveFailed
<1>3. CASE i # j
    BY <1>1, <1>2, <1>3, UntouchedKeeps DEF MoveRunning, MoveFailed, RunAgain, SetAside, Untouched
<1>4. CASE i = j /\ MoveRunning(j)
  <2>1. plan[j] # "none" /\ plan'[j] = "none" /\ status[j] = "doing" /\ Empty(j) /\ j \notin retry'
      BY <1>1, <1>4 DEF MoveRunning, Settled
  <2>2. CASE plan[j] = "redrive"
    <3>1. RunAgain(j) /\ redrives[j] + 1 <= MaxRedrives + puts'[j]
        BY <1>1, <1>2, <1>4, <2>2, BoundsAssumption DEF MoveRunning, Counted
    <3> QED
        BY <1>1, <1>2, <2>1, <3>1, RunAgainKeeps
  <2>3. CASE plan[j] # "redrive"
      BY <1>1, <1>2, <1>4, <2>1, <2>3 DEF MoveRunning, SetAside, Settled, Counted, Empty
  <2> QED
      BY <2>2, <2>3
<1>5. CASE i = j /\ MoveFailed(j)
  <2>1. j \in retry /\ j \notin retry' /\ status[j] = "failed" /\ Empty(j) /\ plan'[j] = "none" /\ RunAgain(j)
      BY <1>1, <1>5 DEF MoveFailed, Settled
  <2>2. redrives[j] + 1 <= MaxRedrives + puts'[j]
      BY <1>1, <1>2, <2>1, BoundsAssumption DEF Counted
  <2> QED
      BY <1>1, <1>2, <2>1, <2>2, RunAgainKeeps
<1> QED
    BY <1>3, <1>4, <1>5

\* A person's ask: the look at the job still holds when the driver is asked,
\* and the count may go one further for it.
LEMMA AsksKeep ==
    ASSUME TypeOK, ListsInv, HandInv, NEW j \in Jobs \ lapsed,
           PutBack \/ Answer \/ \E i \in Jobs : LookAt(i)
    PROVE  Settled(j)' /\ Counted(j)'
<1> USE DEF TypeOK, driverVars, workerVars, askVars, sweepVars, ghostVars, faultVars
<1>1. Settled(j) /\ Counted(j)
    BY DEF HandInv
<1>2. CASE PutBack /\ hand = j
  <2>1. status[j] = "failed" /\ Empty(j) /\ plan[j] = "none" /\ retry = {}
      BY <1>1, <1>2 DEF PutBack, Settled, ListsInv
  <2>2. puts'[j] = puts[j] + 1 /\ UNCHANGED <<at, plan, retry>> /\ pc' = "answering" /\ RunAgain(j)
      BY <1>2, <2>1 DEF PutBack, Retriable
  <2>3. redrives[j] + 1 <= MaxRedrives + puts'[j]
      BY <1>1, <2>2, BoundsAssumption DEF Counted
  <2> QED
      BY <1>1, <2>1, <2>2, <2>3, RunAgainKeeps
<1>3. CASE PutBack /\ hand # j
    BY <1>1, <1>3, UntouchedKeeps DEF PutBack, RunAgain, Untouched
<1>4. CASE Answer \/ \E i \in Jobs : LookAt(i)
    BY <1>1, <1>4, UntouchedKeeps DEF Answer, LookAt, Untouched
<1> QED
    BY <1>2, <1>3, <1>4

\* Every step keeps what is known about the jobs that have not lapsed.
LEMMA HandStep == TypeOK /\ ListsInv /\ HandInv /\ [Next]_vars => HandInv'
<1> SUFFICES ASSUME TypeOK, ListsInv, HandInv, [Next]_vars PROVE HandInv'
    OBVIOUS
<1> USE DEF driverVars, workerVars, askVars, sweepVars, ghostVars, faultVars
<1>1. SUFFICES ASSUME NEW j \in Jobs \ lapsed' PROVE Settled(j)' /\ Counted(j)'
    BY DEF HandInv
<1>2. CASE StartSweep \/ ReadFailed
    BY <1>2, ReadsKeep
<1>3. CASE ~StartSweep /\ ~ReadFailed
  <2>1. lapsed' = lapsed
      BY <1>3 DEF Next, WorkerStep, Body, WorkerFault, SweepStep, Fetch, Finish, Die, Pause, Resume, FallQuiet,
                  Prune, Ask, MoveRunning, MoveFailed, KeepAside, KeepFailed, ReadAsks, LookAt, PutBack,
                  Answer, EndSweep, SweepDies, vars
  <2>2. j \in Jobs \ lapsed /\ Settled(j) /\ Counted(j)
      BY <2>1 DEF HandInv
  <2>3. ASSUME NEW w \in Workers, WorkerStep(w) \/ Body(w) \/ Resume(w) \/ WorkerFault(w)
        PROVE  Settled(j)' /\ Counted(j)'
      BY <2>2, <2>3, WorkersKeep
  <2>4. ASSUME NEW i \in Jobs, MoveRunning(i) \/ MoveFailed(i) PROVE Settled(j)' /\ Counted(j)'
      BY <2>2, <2>4, MovesKeep
  <2>5. CASE PutBack \/ Answer \/ \E i \in Jobs : LookAt(i)
      BY <2>2, <2>5, AsksKeep
  <2>6. CASE EndSweep \/ SweepDies
      BY <2>2, <2>6, UntouchedKeeps DEF EndSweep, SweepDies, Forget, Undecided, Untouched
  <2>7. CASE KeepFailed \/ ReadAsks \/ UNCHANGED vars \/ \E i \in Jobs : KeepAside(i) \/ FallQuiet(i) \/ Prune(i) \/ Ask(i)
      BY <2>2, <2>7, UntouchedKeeps
      DEF KeepFailed, ReadAsks, KeepAside, FallQuiet, Prune, Ask, vars, Untouched, Settled
  <2> QED
      BY <1>3, <2>3, <2>4, <2>5, <2>6, <2>7 DEF Next, SweepStep
<1> QED
    BY <1>2, <1>3

\* What is known about the jobs that have not lapsed is known from the start.
LEMMA HandHolds == Spec => [](TypeOK /\ ListsInv /\ HandInv)
<1>1. Init => ListsInv /\ HandInv
    BY BoundsAssumption, NamesAssumption
    DEF Init, ListsInv, HandInv, Settled, Counted, Empty, Undecided
<1> QED
    BY <1>1, TypeCorrect, ListsStep, HandStep, PTL DEF Spec

\* Two workers are in one job at once only after a sweep took the job for left
\* behind while its worker lived: deaths, late finishes, a sweep that dies and
\* moves on stale reads are never enough.
THEOREM AliveMeansAlone == Spec => []AloneUnlessTakenForDead
<1>1. HandInv => AloneUnlessTakenForDead
    BY DEF HandInv, Settled, AloneUnlessTakenForDead
<1> QED
    BY <1>1, HandHolds, PTL

\* MAX_REDRIVES bounds what the sweep puts back, for every such job: the cap is
\* read at the decision and still holds at the move.
THEOREM TheCapHolds == Spec => []RedrivesAreCapped
<1>1. HandInv => RedrivesAreCapped
    BY DEF HandInv, Counted, RedrivesAreCapped
<1> QED
    BY <1>1, HandHolds, PTL

(***************************************************************************)
(* What a person's asks are good for: each is worth one retry, which it    *)
(* still has while it waits, was read, or is in hand and not put back.     *)
(***************************************************************************)

\* The ask the sweep read, and the one that it has not.
Read(j) == IF j \in owed \/ (pc = "putting" /\ hand = j) THEN 1 ELSE 0
Waiting(j) ==
    IF j \in live /\ (j \in recent \/ ~(j \in owed \/ hand = j)) THEN 1 ELSE 0

InHandInv ==
    /\ recent \subseteq live
    /\ pc \in {"putting", "answering"} => hand \notin owed
    /\ pc \notin {"putting", "answering"} => hand = NoJob
    /\ pc \notin {"asking", "putting", "answering"} => owed = {}
    /\ \A j \in Jobs : puts[j] + Read(j) + Waiting(j) <= asks[j] + deaths

\* Every step keeps the count: an answer takes back no ask made since the sweep
\* began, and only a death brings back one that was put back already.
LEMMA InHandStep == TypeOK /\ InHandInv /\ [Next]_vars => InHandInv'
<1> SUFFICES ASSUME TypeOK, InHandInv, [Next]_vars PROVE InHandInv'
    OBVIOUS
<1> USE NamesAssumption DEF sweepVars
<1>0. \A j \in Jobs : puts[j] \in Nat /\ asks[j] \in Nat /\ deaths \in Nat
    BY DEF TypeOK
<1>1. ASSUME UNCHANGED <<pc, owed, hand, live, recent, asks, puts>>, deaths' \in {deaths, deaths + 1}
      PROVE  InHandInv'
    BY <1>0, <1>1 DEF InHandInv, Read, Waiting
<1>2. ASSUME UNCHANGED <<owed, hand, live, recent, asks, puts, deaths>>,
             pc \notin {"asking", "putting", "answering"}, pc' \notin {"putting", "answering"}
      PROVE  InHandInv'
    BY <1>0, <1>2 DEF InHandInv, Read, Waiting
<1>3. CASE StartSweep
  <2>1. /\ pc = "idle" /\ pc' = "read" /\ recent' = {}
        /\ UNCHANGED <<owed, hand, live, asks, puts, deaths>>
      BY <1>3 DEF StartSweep, faultVars
  <2>2. owed = {} /\ hand = NoJob
      BY <2>1 DEF InHandInv
  <2> QED
      BY <1>0, <2>1, <2>2 DEF InHandInv, Read, Waiting
<1>4. CASE ReadAsks
    BY <1>0, <1>4 DEF ReadAsks, askVars, ghostVars, faultVars, InHandInv, Read, Waiting
<1>5. ASSUME NEW j \in Jobs, LookAt(j) PROVE InHandInv'
    BY <1>0, <1>5 DEF LookAt, askVars, ghostVars, faultVars, InHandInv, Read, Waiting
<1>6. CASE PutBack
  <2>1. hand \in Jobs /\ hand \notin owed
      BY <1>6 DEF PutBack, TypeOK, InHandInv
  <2>2. \A j \in Jobs : puts'[j] \in Nat /\ puts'[j] <= puts[j] + (IF j = hand THEN 1 ELSE 0)
      BY <1>0, <1>6, <2>1 DEF PutBack, TypeOK
  <2> QED
      BY <1>0, <1>6, <2>1, <2>2 DEF PutBack, askVars, faultVars, InHandInv, Read, Waiting
<1>7. CASE Answer
  <2>1. hand \in Jobs /\ hand \notin owed /\ pc = "answering" /\ recent \subseteq live
      BY <1>7 DEF Answer, TypeOK, InHandInv
  <2>2. /\ pc' = "asking" /\ hand' = NoJob
        /\ live' = (live \ {hand}) \union ({hand} \intersect recent)
        /\ UNCHANGED <<owed, recent, asks, puts, deaths>>
      BY <1>7 DEF Answer, ghostVars, faultVars
  <2>3. ASSUME NEW j \in Jobs PROVE Read(j)' = Read(j) /\ Waiting(j)' = Waiting(j)
      BY <2>1, <2>2 DEF Read, Waiting
  <2>4. \A j \in Jobs : (puts[j] + Read(j) + Waiting(j) <= asks[j] + deaths)'
      BY <2>2, <2>3 DEF InHandInv
  <2> QED
      BY <2>1, <2>2, <2>4 DEF InHandInv
<1>8. CASE EndSweep
    BY <1>0, <1>8 DEF EndSweep, Forget, askVars, ghostVars, faultVars, InHandInv, Read, Waiting
<1>9. CASE SweepDies
    BY <1>0, <1>9 DEF SweepDies, Forget, askVars, ghostVars, faultVars, InHandInv, Read, Waiting
<1>10. ASSUME NEW j \in Jobs, Ask(j) PROVE InHandInv'
  <2>1. \A i \in Jobs : i # j => asks'[i] = asks[i]
      BY <1>10 DEF Ask, TypeOK
  <2>2. asks'[j] = asks[j] + 1
      BY <1>10 DEF Ask, TypeOK
  <2> QED
      BY <1>0, <1>10, <2>1, <2>2 DEF Ask, ghostVars, faultVars, InHandInv, Read, Waiting
<1>11. ASSUME NEW w \in Workers, WorkerStep(w) \/ Body(w) \/ Resume(w) \/ WorkerFault(w) PROVE InHandInv'
  <2>1. UNCHANGED sweepVars /\ UNCHANGED <<askVars, puts>> /\ deaths' \in {deaths, deaths + 1}
      BY <1>11 DEF WorkerStep, Fetch, Body, Finish, Resume, WorkerFault, Die, Pause, ghostVars, faultVars
  <2> QED
      BY <1>1, <2>1 DEF askVars
<1>12. ASSUME NEW j \in Jobs, FallQuiet(j) \/ Prune(j) PROVE InHandInv'
    BY <1>1, <1>12 DEF FallQuiet, Prune, askVars, ghostVars, faultVars
<1>13. ASSUME NEW j \in Jobs, MoveRunning(j) \/ MoveFailed(j) \/ KeepAside(j) PROVE InHandInv'
    BY <1>1, <1>13 DEF MoveRunning, MoveFailed, KeepAside, askVars, ghostVars, faultVars
<1>14. CASE ReadFailed \/ KeepFailed
    BY <1>2, <1>14 DEF ReadFailed, KeepFailed, askVars, ghostVars, faultVars
<1>15. CASE UNCHANGED vars
    BY <1>1, <1>15 DEF vars, askVars, ghostVars, faultVars
<1> QED
    BY <1>3, <1>4, <1>5, <1>6, <1>7, <1>8, <1>9, <1>10, <1>11, <1>12, <1>13, <1>14, <1>15
    DEF Next, SweepStep

\* For any jobs, workers, pauses and asks, a person's ask puts a job back once, and
\* once more only for a sweep that died between the retry and the answer.
THEOREM AsksAreSpent == Spec => []AsksPutBackOnce
<1>1. Init => InHandInv
    BY NamesAssumption DEF Init, InHandInv, Read, Waiting
<1>2. TypeOK /\ InHandInv => AsksPutBackOnce
    BY DEF TypeOK, InHandInv, Read, Waiting, AsksPutBackOnce
<1> QED
    BY <1>1, <1>2, TypeCorrect, InHandStep, PTL DEF Spec

(***************************************************************************)
(* The promise of a job.                                                   *)
(***************************************************************************)

\* Only what a person was shown is asked for, and a job the sweep set aside or
\* looked at stays stopped until the sweep itself moves it.
SeenInv ==
    /\ live \subseteq Shown /\ owed \subseteq Shown
    /\ pc \in {"putting", "answering"} => hand \in Shown
    /\ pc = "putting" => status[hand] = "failed"
    /\ pc \notin {"read", "moving"} => plan = Undecided
    /\ \A j \in Jobs :
          /\ plan[j] # "none" => status[j] # "todo"
          /\ j \in retry /\ plan[j] # "none" => status[j] = "failed"
          /\ reasons[j] # "none" =>
                pc = "moving" /\ status[j] = "failed" /\ plan[j] = "none" /\ j \notin retry

\* A step of the workers moves no stopped job and makes none wait.
LEMMA SeenByWorkers ==
    ASSUME TypeOK, SeenInv, NEW w \in Workers,
           WorkerStep(w) \/ Body(w) \/ Resume(w) \/ WorkerFault(w)
    PROVE  SeenInv'
<1>1. UNCHANGED sweepVars /\ UNCHANGED <<kept, live>>
    BY DEF WorkerStep, Fetch, Body, Finish, Resume, WorkerFault, Die, Pause, askVars
<1>2. \A j \in Jobs : (status[j] = "failed" => status'[j] = "failed") /\ (status'[j] = "todo" => status[j] = "todo")
    BY DEF WorkerStep, Fetch, Body, Finish, Resume, WorkerFault, Die, Pause, driverVars, TypeOK
<1>3. pc = "putting" => hand \in Jobs
    BY DEF TypeOK
<1> QED
    BY <1>1, <1>2, <1>3 DEF SeenInv, Shown, sweepVars, Undecided

\* A move takes its job off the list that named it, and only one that the
\* driver moved to failed just then gets a reason.
LEMMA SeenByMoves ==
    ASSUME TypeOK, SeenInv, NEW j \in Jobs, MoveRunning(j) \/ MoveFailed(j)
    PROVE  SeenInv'
<1>1. /\ pc = "moving" /\ UNCHANGED <<kept, live, pc, owed, hand>>
      /\ \A i \in Jobs \ {j} : /\ status'[i] = status[i] /\ plan'[i] = plan[i] /\ reasons'[i] = reasons[i]
                               /\ i \in retry' <=> i \in retry
      /\ plan'[j] = "none" /\ (j \in retry' => j \in retry)
    BY DEF MoveRunning, MoveFailed, RunAgain, SetAside, askVars, driverVars, TypeOK, Undecided
<1>2. reasons'[j] # "none" => status'[j] = "failed" /\ j \notin retry'
  <2>1. CASE MoveRunning(j)
    <3>1. plan[j] # "none" /\ reasons[j] = "none" /\ retry' = retry
        BY <2>1 DEF MoveRunning, SeenInv
    <3>2. CASE reasons' = reasons
        BY <3>1, <3>2
    <3>3. CASE reasons' # reasons
      <4>1. Finishable(j) /\ status' = [status EXCEPT ![j] = "failed"]
          BY <2>1, <3>3 DEF MoveRunning, SetAside
      <4>2. status[j] # "failed" /\ status'[j] = "failed"
          BY <4>1 DEF Finishable, TypeOK
      <4> QED
          BY <3>1, <4>2 DEF SeenInv
    <3> QED
        BY <3>2, <3>3
  <2>2. CASE MoveFailed(j)
      BY <2>2 DEF MoveFailed, SeenInv
  <2> QED
      BY <2>1, <2>2
<1> QED
    BY <1>1, <1>2 DEF SeenInv, Shown

\* Every step keeps what was seen of a job.
LEMMA SeenStep == TypeOK /\ ListsInv /\ InHandInv /\ SeenInv /\ [Next]_vars => SeenInv'
<1> SUFFICES ASSUME TypeOK, ListsInv, InHandInv, SeenInv, [Next]_vars PROVE SeenInv'
    OBVIOUS
<1> USE DEF driverVars, askVars, ghostVars, faultVars
<1>1. ASSUME UNCHANGED <<status, kept, live>>, UNCHANGED sweepVars PROVE SeenInv'
    BY <1>1 DEF SeenInv, Shown, sweepVars
<1>2. ASSUME NEW w \in Workers, WorkerStep(w) \/ Body(w) \/ Resume(w) \/ WorkerFault(w) PROVE SeenInv'
    BY <1>2, SeenByWorkers
<1>3. ASSUME NEW j \in Jobs, FallQuiet(j) \/ Prune(j) PROVE SeenInv'
    BY <1>1, <1>3 DEF FallQuiet, Prune
<1>4. ASSUME NEW j \in Jobs, Ask(j) PROVE SeenInv'
  <2>1. j \in Shown /\ live' = live \union {j} /\ UNCHANGED <<status, kept>> /\ UNCHANGED sweepVars
      BY <1>4 DEF Ask, Shown
  <2> QED
      BY <2>1 DEF SeenInv, Shown, sweepVars
<1>5. CASE StartSweep
  <2>1. /\ pc = "idle" /\ pc' = "read" /\ UNCHANGED <<status, kept, live, retry, reasons, owed, hand>>
        /\ \A j \in Jobs : plan'[j] # "none" => status[j] = "doing"
      BY <1>5 DEF StartSweep
  <2>2. retry = {}
      BY <2>1 DEF ListsInv
  <2> QED
      BY <2>1, <2>2 DEF SeenInv, Shown
<1>6. CASE ReadFailed
  <2>1. /\ pc = "read" /\ pc' = "moving" /\ UNCHANGED <<status, kept, live, plan, reasons, owed, hand>>
        /\ \A j \in Jobs : j \in retry' => status[j] = "failed"
      BY <1>6 DEF ReadFailed, Redrivable
  <2> QED
      BY <2>1 DEF SeenInv, Shown
<1>7. ASSUME NEW j \in Jobs, MoveRunning(j) \/ MoveFailed(j) PROVE SeenInv'
    BY <1>7, SeenByMoves
<1>8. ASSUME NEW j \in Jobs, KeepAside(j) PROVE SeenInv'
  <2>1. /\ pc = "moving" /\ UNCHANGED <<status, live, pc, plan, retry, owed, hand>>
        /\ \A i \in Jobs : (kept'[i] = "none" => kept[i] = "none") /\ (reasons'[i] # "none" => reasons[i] # "none")
      BY <1>8 DEF KeepAside, TypeOK
  <2> QED
      BY <2>1 DEF SeenInv, Shown
<1>9. CASE KeepFailed
  <2>1. /\ pc' = "keeping" /\ plan = Undecided /\ reasons = Undecided
        /\ UNCHANGED <<status, live, plan, retry, reasons, owed, hand>>
        /\ \A i \in Jobs : kept'[i] = "none" => kept[i] = "none"
      BY <1>9 DEF KeepFailed, TypeOK
  <2> QED
      BY <2>1 DEF SeenInv, Shown, Undecided
<1>10. CASE ReadAsks
  <2>1. /\ pc = "keeping" /\ pc' = "asking" /\ owed' \subseteq live
        /\ UNCHANGED <<status, kept, live, plan, retry, reasons, hand>>
      BY <1>10 DEF ReadAsks
  <2> QED
      BY <2>1 DEF SeenInv, Shown
<1>11. ASSUME NEW j \in Jobs, LookAt(j) PROVE SeenInv'
  <2>1. /\ pc = "asking" /\ pc' \in {"putting", "answering"} /\ hand' = j /\ j \in owed /\ owed' \subseteq owed
        /\ pc' = "putting" => status[j] = "failed"
        /\ UNCHANGED <<status, kept, live, plan, retry, reasons>>
      BY <1>11 DEF LookAt
  <2> QED
      BY <2>1 DEF SeenInv, Shown
<1>12. CASE PutBack
  <2>1. /\ pc = "putting" /\ pc' = "answering" /\ UNCHANGED <<kept, live, plan, retry, reasons, owed, hand>>
      BY <1>12 DEF PutBack
  <2>2. plan = Undecided /\ \A j \in Jobs : plan[j] = "none" /\ reasons[j] = "none"
      BY <2>1 DEF SeenInv, Undecided
  <2> QED
      BY <2>1, <2>2 DEF SeenInv, Shown
<1>13. CASE Answer
  <2>1. /\ pc = "answering" /\ pc' = "asking" /\ live' \subseteq live
        /\ UNCHANGED <<status, kept, plan, retry, reasons, owed>>
      BY <1>13 DEF Answer, InHandInv
  <2> QED
      BY <2>1 DEF SeenInv, Shown
<1>14. CASE EndSweep \/ SweepDies
  <2>1. /\ pc' = "idle" /\ plan' = Undecided /\ reasons' = Undecided /\ owed' = {}
        /\ UNCHANGED <<status, kept, live>>
      BY <1>14 DEF EndSweep, SweepDies, Forget
  <2> QED
      BY <2>1 DEF SeenInv, Shown, Undecided
<1>15. CASE UNCHANGED vars
    BY <1>1, <1>15 DEF vars
<1> QED
    BY <1>2, <1>3, <1>4, <1>5, <1>6, <1>7, <1>8, <1>9, <1>10, <1>11, <1>12, <1>13, <1>14, <1>15
    DEF Next, SweepStep

\* A worker that leaves a job leaves it empty, unless the job had lapsed.
LEMMA LeavingShows ==
    ASSUME TypeOK, HandInv, NEW w \in Workers, at[w] # NoJob, at' = [at EXCEPT ![w] = NoJob]
    PROVE  /\ at[w] \in Jobs /\ at[w] \in Inside
           /\ Inside' = Inside \ {at[w]} \/ (at[w] \in lapsed /\ Inside' = Inside)
<1>1. at[w] \in Jobs /\ at[w] \in Inside
    BY DEF TypeOK, Inside
<1>2. \A v \in Workers : at'[v] = IF v = w THEN NoJob ELSE at[v]
    BY DEF TypeOK
<1>3. \A i \in Jobs : i # at[w] => (i \in Inside' <=> i \in Inside)
    BY <1>2, NamesAssumption DEF Inside
<1>4. at[w] \in lapsed \/ at[w] \notin Inside'
    <2>1. at[w] \notin lapsed => \A v \in Workers : at[v] = at[w] => v = w
        BY <1>1 DEF HandInv, Settled
    <2> QED
        BY <1>1, <1>2, <2>1, NamesAssumption DEF Inside
<1>5. Inside \subseteq Jobs /\ Inside' \subseteq Jobs
    BY DEF Inside
<1> QED
    BY <1>1, <1>3, <1>4, <1>5

\* A fetch begins a job nobody is in, as far as that can be known.
LEMMA FetchBegins ==
    ASSUME TypeOK, HandInv, NEW w \in Workers, NEW j \in Jobs, Fetch(w, j)
    PROVE  Promise!Begin(j)
<1>1. /\ status[j] = "todo" /\ status' = [status EXCEPT ![j] = "doing"]
      /\ runs' = [runs EXCEPT ![j] = @ + 1]
      /\ at[w] = NoJob /\ at' = [at EXCEPT ![w] = j]
      /\ UNCHANGED <<redrives, puts, kept, lapsed>>
    BY DEF Fetch
<1>2. j \in Inside => j \in lapsed
    BY <1>1 DEF HandInv, Settled, Empty, Inside
<1>3. \A v \in Workers : at'[v] = IF v = w THEN j ELSE at[v]
    BY <1>1 DEF TypeOK
<1>4. Inside' = Inside \union {j}
    BY <1>1, <1>3, NamesAssumption DEF Inside
<1> QED
    BY <1>1, <1>2, <1>4 DEF Promise!Begin, Promise!LeftBehind, Shown

\* A worker's word about the job it was in, or its death, ends that body.
LEMMA BodyEnds ==
    ASSUME TypeOK, HandInv, NEW w \in Workers, Body(w) \/ Die(w)
    PROVE  \E j \in Jobs : Promise!End(j)
<1> DEFINE j == at[w]
<1>1. /\ at[w] # NoJob /\ at' = [at EXCEPT ![w] = NoJob]
      /\ UNCHANGED <<runs, redrives, puts, kept, lapsed>>
    BY DEF Body, Finish, Die, driverVars, ghostVars
<1>2. /\ j \in Jobs /\ j \in Inside
      /\ Inside' = Inside \ {j} \/ (j \in lapsed /\ Inside' = Inside)
    BY <1>1, LeavingShows
<1>3. \/ status' = status
      \/ /\ status[j] \in {"todo", "doing"}
         /\ \E end \in {"succeeded", "failed"} : status' = [status EXCEPT ![j] = end]
    <2>1. CASE Die(w)
        BY <2>1 DEF Die
    <2>2. ASSUME NEW end \in {"succeeded", "failed"}, Finish(w, end)
               PROVE  \/ status' = status
                      \/ /\ status[j] \in {"todo", "doing"}
                         /\ \E e \in {"succeeded", "failed"} : status' = [status EXCEPT ![j] = e]
        <3>1. status' = [status EXCEPT ![j] = IF @ \in {"todo", "doing"} THEN end ELSE @]
            BY <2>2 DEF Finish
        <3> QED
            BY <3>1, <1>2 DEF TypeOK
    <2> QED
        BY <2>1, <2>2 DEF Body
<1>4. status[j] = "todo" => j \in lapsed
    BY <1>1, <1>2 DEF HandInv, Settled, Empty
<1>5. Promise!End(j)
    BY <1>1, <1>2, <1>3, <1>4 DEF Promise!End, Shown
<1> QED
    BY <1>2, <1>5

\* What the sweep misjudges is what it plans to move with a worker in it.
LEMMA SweepMistakes ==
    ASSUME StartSweep
    PROVE  \E J \in SUBSET Jobs : Promise!Mistake(J)
<1> DEFINE J == {j \in Jobs : plan'[j] # "none" /\ \E w \in Workers : at[w] = j}
<1>1. lapsed' = lapsed \union J /\ UNCHANGED <<status, at, runs, redrives, puts, kept>>
    BY DEF StartSweep, driverVars, workerVars
<1>2. \A j \in J : status[j] = "doing" /\ j \in Inside
    BY DEF StartSweep, Inside
<1>3. Promise!Mistake(J)
    BY <1>1, <1>2 DEF Promise!Mistake, Inside, Shown
<1> QED
    BY <1>3

\* The driver's retry of a safe job the sweep may put back is a return.
LEMMA AgainReturns ==
    ASSUME TypeOK, HandInv, NEW j \in Safe, RunAgain(j), UNCHANGED <<at, runs, puts, kept, lapsed>>,
           j \in lapsed \/ (Empty(j) /\ redrives[j] < MaxRedrives + puts[j])
    PROVE  Promise!Return(j) \/ UNCHANGED Promise!jvars
<1>1. CASE ~Retriable(j)
    BY <1>1 DEF RunAgain, driverVars, Promise!jvars, Inside, Shown
<1>2. CASE Retriable(j)
  <2>1. /\ status[j] \in {"doing", "failed"} /\ status' = [status EXCEPT ![j] = "todo"]
        /\ redrives' = [redrives EXCEPT ![j] = @ + 1]
      BY <1>2 DEF RunAgain, Retriable
  <2>2. j \in Inside => j \in lapsed
      BY DEF Empty, Inside
  <2> QED
      BY <2>1, <2>2 DEF Promise!Return, Promise!Again, Promise!LeftBehind, Inside, Shown
<1> QED
    BY <1>1, <1>2

\* The sweep's moves return safe jobs and stop the others where they were left.
LEMMA MovesReturn ==
    ASSUME TypeOK, ListsInv, HandInv, SeenInv, NEW j \in Jobs, MoveRunning(j) \/ MoveFailed(j)
    PROVE  Promise!Return(j) \/ Promise!StopBehind(j) \/ UNCHANGED Promise!jvars
<1>1. UNCHANGED <<at, runs, puts, kept, lapsed>>
    BY DEF MoveRunning, MoveFailed, ghostVars
<1>2. CASE MoveRunning(j) /\ plan[j] = "redrive"
  <2>1. j \in Safe /\ RunAgain(j)
      BY <1>2 DEF MoveRunning, ListsInv
  <2>2. j \in lapsed \/ (Empty(j) /\ redrives[j] < MaxRedrives + puts[j])
      BY <1>2 DEF HandInv, Settled, Counted
  <2> QED
      BY <1>1, <2>1, <2>2, AgainReturns
<1>3. CASE MoveRunning(j) /\ plan[j] # "redrive"
  <2>1. plan[j] # "none" /\ SetAside(j, DeadLetterReason(plan[j])) /\ UNCHANGED <<owner, redrives>>
      BY <1>3 DEF MoveRunning
  <2>2. CASE ~Finishable(j)
      BY <1>1, <2>1, <2>2 DEF SetAside, Promise!jvars, Inside, Shown
  <2>3. CASE Finishable(j)
    <3>1. status[j] = "doing" /\ status' = [status EXCEPT ![j] = "failed"]
        BY <2>1, <2>3 DEF SetAside, Finishable, SeenInv
    <3>2. j \in Inside => j \in lapsed
        BY <2>1 DEF HandInv, Settled, Empty, Inside
    <3> QED
        BY <1>1, <2>1, <3>1, <3>2 DEF Promise!StopBehind, Promise!LeftBehind, Inside, Shown
  <2> QED
      BY <2>2, <2>3
<1>4. CASE MoveFailed(j)
  <2>1. j \in retry /\ j \in Safe /\ RunAgain(j)
      BY <1>4 DEF MoveFailed, ListsInv
  <2>2. j \in lapsed \/ (Empty(j) /\ redrives[j] < MaxRedrives + puts[j])
      BY <2>1 DEF HandInv, Settled, Counted
  <2> QED
      BY <1>1, <2>1, <2>2, AgainReturns
<1> QED
    BY <1>2, <1>3, <1>4

\* What is kept aside is shown: the job is stopped at that moment.
LEMMA KeepingShows ==
    ASSUME TypeOK, SeenInv, KeepFailed \/ \E j \in Jobs : KeepAside(j)
    PROVE  \E J \in SUBSET Jobs : Promise!Show(J)
<1>1. UNCHANGED <<status, at, runs, redrives, puts, lapsed>>
    BY DEF KeepFailed, KeepAside, driverVars, workerVars, ghostVars
<1>2. ASSUME NEW j \in Jobs, KeepAside(j) PROVE Promise!Show({j})
  <2>1. status[j] = "failed"
      BY <1>2 DEF KeepAside, SeenInv
  <2>2. \A i \in Jobs : kept'[i] # "none" <=> i = j \/ kept[i] # "none"
      BY <1>2 DEF KeepAside, TypeOK
  <2>3. Shown' = Shown \union {j}
      BY <2>2 DEF Shown
  <2> QED
      BY <1>1, <2>1, <2>3 DEF Promise!Show, Inside
<1>3. ASSUME KeepFailed PROVE \E J \in SUBSET Jobs : Promise!Show(J)
  <2> DEFINE J == {j \in Jobs : NobodyRuns(j)}
  <2>1. \A i \in Jobs : kept'[i] # "none" <=> NobodyRuns(i) \/ kept[i] # "none"
      BY <1>3 DEF KeepFailed, TypeOK
  <2>2. Shown' = Shown \union J
      BY <2>1 DEF Shown
  <2>3. \A j \in J : status[j] = "failed"
      BY DEF NobodyRuns
  <2>4. Promise!Show(J)
      BY <1>1, <2>2, <2>3 DEF Promise!Show, Inside
  <2> QED
      BY <2>4
<1> QED
    BY <1>2, <1>3

\* Every step of the queue is a step of the promise, or shows nothing of one.
LEMMA PromiseStep ==
    TypeOK /\ ListsInv /\ HandInv /\ SeenInv /\ [Next]_vars => [Promise!JNext]_(Promise!jvars)
<1> SUFFICES ASSUME TypeOK, ListsInv, HandInv, SeenInv, [Next]_vars
             PROVE  Promise!JNext \/ UNCHANGED Promise!jvars
    OBVIOUS
<1>1. ASSUME UNCHANGED <<status, at, runs, redrives, puts, kept, lapsed>>
      PROVE  UNCHANGED Promise!jvars
    BY <1>1 DEF Promise!jvars, Inside, Shown
<1>2. ASSUME NEW w \in Workers, WorkerStep(w) PROVE Promise!JNext
    BY <1>2, FetchBegins DEF WorkerStep, Promise!JNext
<1>3. ASSUME NEW w \in Workers, Body(w) \/ Die(w) PROVE Promise!JNext
    BY <1>3, BodyEnds DEF Promise!JNext
<1>4. CASE StartSweep
    BY <1>4, SweepMistakes DEF Promise!JNext
<1>5. ASSUME NEW j \in Jobs, MoveRunning(j) \/ MoveFailed(j) PROVE Promise!JNext \/ UNCHANGED Promise!jvars
    BY <1>5, MovesReturn DEF Promise!JNext
<1>6. CASE KeepFailed \/ \E j \in Jobs : KeepAside(j)
    BY <1>6, KeepingShows DEF Promise!JNext
<1>7. CASE PutBack
  <2> DEFINE j == hand
  <2>1. j \in Jobs /\ j \in Shown /\ status[j] = "failed" /\ RunAgain(j) /\ UNCHANGED <<at, runs, kept, lapsed>>
      BY <1>7 DEF PutBack, TypeOK, SeenInv
  <2>2. /\ status' = [status EXCEPT ![j] = "todo"] /\ redrives' = [redrives EXCEPT ![j] = @ + 1]
        /\ puts' = [puts EXCEPT ![j] = @ + 1]
      BY <1>7, <2>1 DEF PutBack, RunAgain, Retriable
  <2>3. j \in Inside => j \in lapsed
      BY <2>1 DEF HandInv, Settled, Empty, Inside
  <2>4. Promise!Wish(j)
      BY <2>1, <2>2, <2>3 DEF Promise!Wish, Promise!Again, Promise!LeftBehind, Inside, Shown
  <2> QED
      BY <2>1, <2>4 DEF Promise!JNext
<1>8. ASSUME NEW w \in Workers, Pause(w) \/ Resume(w) PROVE UNCHANGED Promise!jvars
    BY <1>1, <1>8 DEF Pause, Resume, driverVars, ghostVars
<1>9. ASSUME NEW j \in Jobs, FallQuiet(j) \/ Prune(j) \/ Ask(j) \/ LookAt(j) PROVE UNCHANGED Promise!jvars
    BY <1>1, <1>9 DEF FallQuiet, Prune, Ask, LookAt, driverVars, workerVars, ghostVars
<1>10. CASE ReadFailed \/ ReadAsks \/ Answer \/ EndSweep \/ SweepDies
    BY <1>1, <1>10 DEF ReadFailed, ReadAsks, Answer, EndSweep, SweepDies, driverVars, workerVars, ghostVars
<1>11. CASE UNCHANGED vars
    BY <1>1, <1>11 DEF vars, driverVars, workerVars, ghostVars
<1> QED
    BY <1>2, <1>3, <1>4, <1>5, <1>6, <1>7, <1>8, <1>9, <1>10, <1>11 DEF Next, SweepStep, WorkerFault

\* For any jobs, workers, deaths, pauses and asks, the queue, its sweep and the
\* asks implement JobPromise.
THEOREM ImplementsThePromise == Spec => KeepsThePromise
<1>1. Init => Promise!JInit /\ SeenInv /\ InHandInv
    BY NamesAssumption DEF Init, Promise!JInit, SeenInv, InHandInv, Read, Waiting, Inside, Shown, Undecided
<1> QED
    BY <1>1, HandHolds, InHandStep, SeenStep, PromiseStep, PTL DEF Spec, KeepsThePromise, Promise!JSpec

=============================================================================
