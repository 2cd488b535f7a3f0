------------------------------ MODULE JobQueue ------------------------------
(***************************************************************************)
(* The job queue of `brain.ops.queue` and the sweep of                     *)
(* `brain.ops.recovery_run` that puts back what a dead worker left, sets   *)
(* aside what may not be run twice, keeps it where a person sees it, and   *)
(* carries out what persons ask for (`brain.ops.redrive_control`).         *)
(*                                                                         *)
(* The queue's tables and its workers are the driver's: they are modelled  *)
(* from how the sweep reads and moves them.  Each statement of the sweep   *)
(* commits by itself, so each is a step.  One sweep runs at a time, which  *)
(* is the lock of the control schedule.                                    *)
(***************************************************************************)
EXTENDS Naturals, FiniteSets

CONSTANTS
    Jobs, NoJob,
    Safe,           \* jobs whose task is declared safe to run twice
    Workers,        \* places a worker runs one job in
    NoWorker,       \* the worker of a job whose worker row is gone
    MaxRedrives,    \* how often the sweep may put one job back
    MaxDeaths, MaxPauses, MaxAsks   \* bounds on what may happen in a behaviour

ASSUME SafeAssumption == Safe \subseteq Jobs
ASSUME NamesAssumption == NoJob \notin Jobs /\ NoWorker \notin Workers
ASSUME BoundsAssumption ==
    MaxRedrives \in Nat /\ MaxDeaths \in Nat /\ MaxPauses \in Nat /\ MaxAsks \in Nat

VARIABLES
    status,     \* the driver's word for each job
    owner,      \* the worker id on its row
    redrives,   \* its 'deferred_for_retry' and 'retried' events
    at,         \* the job each worker is in the body of
    paused,     \* workers that live and do not beat
    quiet,      \* running jobs whose worker's heartbeat is not fresh
    kept,       \* the reason in ops.dead_letter, "none" without a row
    live,       \* jobs whose ask is later than its answer
    recent,     \* of those, asked for since the sweep took the time
    pc,         \* where the sweep is
    plan,       \* what it decided for each running job it read
    retry,      \* the failed jobs it read
    reasons,    \* why it set aside each job it did
    owed,       \* the asks it read
    hand,       \* the job of the ask it is at
    runs,       \* how often each job was begun
    asks, puts, \* how often persons asked for it, and it was put back for that
    lapsed,     \* jobs the sweep took for left behind while a worker was in them
    deaths, pauses

driverVars == <<status, owner, redrives>>
workerVars == <<at, paused, quiet>>
askVars    == <<live, recent, asks>>
sweepVars  == <<pc, plan, retry, reasons, owed, hand>>
ghostVars  == <<runs, puts, lapsed>>
faultVars  == <<deaths, pauses>>
vars == <<driverVars, workerVars, kept, askVars, sweepVars, ghostVars, faultVars>>

Undecided == [j \in Jobs |-> "none"]

Init ==
    /\ status = [j \in Jobs |-> "todo"]
    /\ owner = [j \in Jobs |-> NoWorker]
    /\ redrives = [j \in Jobs |-> 0]
    /\ at = [w \in Workers |-> NoJob]
    /\ paused = {} /\ quiet = {}
    /\ kept = [j \in Jobs |-> "none"]
    /\ live = {} /\ recent = {}
    /\ pc = "idle"
    /\ plan = Undecided /\ reasons = Undecided
    /\ retry = {} /\ owed = {} /\ hand = NoJob
    /\ runs = [j \in Jobs |-> 0]
    /\ asks = [j \in Jobs |-> 0] /\ puts = [j \in Jobs |-> 0]
    /\ lapsed = {}
    /\ deaths = 0 /\ pauses = 0

-----------------------------------------------------------------------------
(* The driver's workers.                                                   *)

Fetch(w, j) ==
    /\ at[w] = NoJob /\ w \notin paused
    /\ status[j] = "todo"
    /\ status' = [status EXCEPT ![j] = "doing"]
    /\ owner' = [owner EXCEPT ![j] = w]
    /\ at' = [at EXCEPT ![w] = j]
    /\ runs' = [runs EXCEPT ![j] = @ + 1]
    /\ UNCHANGED <<redrives, paused, quiet, kept, askVars, sweepVars, puts, lapsed, faultVars>>

\* The body returns, raises or overruns its deadline.  The driver takes the
\* word of a worker for a running or waiting job, whoever's the job is by now.
Finish(w, verdict) ==
    /\ at[w] # NoJob /\ w \notin paused
    /\ at' = [at EXCEPT ![w] = NoJob]
    /\ status' = [status EXCEPT ![at[w]] = IF @ \in {"todo", "doing"} THEN verdict ELSE @]
    /\ quiet' = quiet \ {at[w]}
    /\ UNCHANGED <<owner, redrives, paused, kept, askVars, sweepVars, ghostVars, faultVars>>

\* The process is killed; the one started in its place has an id of its own.
Die(w) ==
    /\ at[w] # NoJob
    /\ deaths < MaxDeaths
    /\ deaths' = deaths + 1
    /\ at' = [at EXCEPT ![w] = NoJob]
    /\ paused' = paused \ {w}
    /\ owner' = [j \in Jobs |-> IF owner[j] = w THEN NoWorker ELSE owner[j]]
    /\ UNCHANGED <<status, redrives, quiet, kept, askVars, sweepVars, ghostVars, pauses>>

\* A loop that is held up, by memory pressure say, neither beats nor goes on.
Pause(w) ==
    /\ at[w] # NoJob /\ w \notin paused
    /\ pauses < MaxPauses
    /\ pauses' = pauses + 1
    /\ paused' = paused \union {w}
    /\ UNCHANGED <<driverVars, at, quiet, kept, askVars, sweepVars, ghostVars, deaths>>

Resume(w) ==
    /\ w \in paused
    /\ paused' = paused \ {w}
    /\ quiet' = {j \in quiet : owner[j] # w}
    /\ UNCHANGED <<driverVars, at, kept, askVars, sweepVars, ghostVars, faultVars>>

\* stale_after passes without a heartbeat of the worker on the job's row.
FallQuiet(j) ==
    /\ status[j] = "doing" /\ j \notin quiet
    /\ owner[j] \notin Workers \ paused
    /\ quiet' = quiet \union {j}
    /\ UNCHANGED <<driverVars, at, paused, kept, askVars, sweepVars, ghostVars, faultVars>>

\* Another worker prunes the row of one that does not beat, and its jobs lose
\* their worker: they stay quiet if it goes on.
Prune(j) ==
    /\ j \in quiet /\ owner[j] \in paused
    /\ owner' = [owner EXCEPT ![j] = NoWorker]
    /\ UNCHANGED <<status, redrives, workerVars, kept, askVars, sweepVars, ghostVars, faultVars>>

-----------------------------------------------------------------------------
(* The two moves the driver makes for the sweep.                           *)

\* retry_job_by_id: of a running or failed job, and refused of any other.
Retriable(j) == status[j] \in {"doing", "failed"}
RunAgain(j) ==
    IF Retriable(j)
    THEN /\ status' = [status EXCEPT ![j] = "todo"]
         /\ owner' = [owner EXCEPT ![j] = NoWorker]
         /\ redrives' = [redrives EXCEPT ![j] = @ + 1]
         /\ quiet' = quiet \ {j}
    ELSE UNCHANGED <<driverVars, quiet>>

\* finish_job_by_id: of a running or waiting job, and refused of any other.
Finishable(j) == status[j] \in {"todo", "doing"}
SetAside(j, why) ==
    IF Finishable(j)
    THEN /\ status' = [status EXCEPT ![j] = "failed"]
         /\ quiet' = quiet \ {j}
         /\ reasons' = [reasons EXCEPT ![j] = why]
    ELSE UNCHANGED <<status, quiet, reasons>>

-----------------------------------------------------------------------------
(* run_queue_redrive_now.                                                  *)

Capped(j) == redrives[j] >= MaxRedrives

\* Mutant: whether a task may run twice is asked of failed jobs alone.
VerdictForgetsSafety(j) ==
    CASE j \notin quiet -> "running"
      [] j \in quiet /\ Capped(j) -> "dead_letter"
      [] OTHER -> "redrive"

\* verdict_for: freshness first, then the cap, then what the task declares.
Verdict(j) ==
    CASE j \notin quiet -> "running"
      [] j \in quiet /\ Capped(j) -> "dead_letter"
      [] j \in quiet /\ ~Capped(j) /\ j \in Safe -> "redrive"
      [] OTHER -> "quarantine"

DeadLetterReason(verdict) ==
    IF verdict = "dead_letter" THEN "re_driven_too_often" ELSE "quarantined_after_a_stop"

\* The first read, of running jobs, and the decision about each.
StartSweep ==
    /\ pc = "idle"
    /\ pc' = "read"
    /\ recent' = {}
    /\ plan' = [j \in Jobs |-> IF status[j] = "doing" /\ Verdict(j) # "running"
                               THEN Verdict(j) ELSE "none"]
    /\ lapsed' = lapsed \union {j \in Jobs : plan'[j] # "none" /\ \E w \in Workers : at[w] = j}
    /\ UNCHANGED <<driverVars, workerVars, kept, live, asks, retry, reasons, owed, hand, runs, puts, faultVars>>

\* The second read, of failed jobs of safe tasks under the cap.
Redrivable == {j \in Safe : status[j] = "failed" /\ ~Capped(j)}

ReadFailed ==
    /\ pc = "read"
    /\ pc' = "moving"
    /\ retry' = Redrivable
    /\ UNCHANGED <<driverVars, workerVars, kept, askVars, plan, reasons, owed, hand, ghostVars, faultVars>>

\* One move per running job decided about, whatever became of it since.
MoveRunning(j) ==
    /\ pc = "moving" /\ plan[j] # "none"
    /\ plan' = [plan EXCEPT ![j] = "none"]
    /\ \/ plan[j] = "redrive" /\ RunAgain(j) /\ UNCHANGED reasons
       \/ plan[j] # "redrive" /\ SetAside(j, DeadLetterReason(plan[j])) /\ UNCHANGED <<owner, redrives>>
    /\ UNCHANGED <<at, paused, kept, askVars, pc, retry, owed, hand, ghostVars, faultVars>>

MoveFailed(j) ==
    /\ pc = "moving" /\ plan = Undecided /\ j \in retry
    /\ retry' = retry \ {j}
    /\ RunAgain(j)
    /\ UNCHANGED <<at, paused, kept, askVars, pc, plan, reasons, owed, hand, ghostVars, faultVars>>

\* keep_aside: written once, over nothing.
KeepAside(j) ==
    /\ pc = "moving" /\ plan = Undecided /\ retry = {} /\ reasons[j] # "none"
    /\ kept' = [kept EXCEPT ![j] = IF @ = "none" THEN reasons[j] ELSE @]
    /\ reasons' = [reasons EXCEPT ![j] = "none"]
    /\ UNCHANGED <<driverVars, workerVars, askVars, pc, plan, retry, owed, hand, ghostVars, faultVars>>

\* Mutant: a safe job the sweep gave up on is not one it set aside.
NobodyRunsUnsafe(j) == status[j] = "failed" /\ j \notin Safe

NobodyRuns(j) == status[j] = "failed" /\ ~(j \in Safe /\ ~Capped(j))

\* keep_failed: every failed job nobody will run again and nobody kept.
KeepFailed ==
    /\ pc = "moving" /\ plan = Undecided /\ retry = {} /\ reasons = Undecided
    /\ pc' = "keeping"
    /\ kept' = [j \in Jobs |->
                  CASE NobodyRuns(j) /\ kept[j] = "none" /\ j \in Safe -> "re_driven_too_often"
                    [] NobodyRuns(j) /\ kept[j] = "none" /\ j \notin Safe -> "attempts_exhausted"
                    [] OTHER -> kept[j]]
    /\ UNCHANGED <<driverVars, workerVars, askVars, plan, retry, reasons, owed, hand, ghostVars, faultVars>>

\* carry_out_asks: the asks later than their answer and not later than now.
ReadAsks ==
    /\ pc = "keeping"
    /\ pc' = "asking"
    /\ owed' = live \ recent
    /\ UNCHANGED <<driverVars, workerVars, kept, askVars, plan, retry, reasons, hand, ghostVars, faultVars>>

\* Mutant: the driver is asked without a look at the job first.
LookAtAnything(j) ==
    /\ pc = "asking" /\ j \in owed
    /\ owed' = owed \ {j}
    /\ hand' = j
    /\ pc' = "putting"
    /\ UNCHANGED <<driverVars, workerVars, kept, askVars, plan, retry, reasons, ghostVars, faultVars>>

\* Mutant: an ask about a job that is not failed is passed over.
LookAtFailedOnly(j) ==
    /\ pc = "asking" /\ j \in owed
    /\ owed' = owed \ {j}
    /\ IF status[j] = "failed" THEN hand' = j /\ pc' = "putting" ELSE UNCHANGED <<hand, pc>>
    /\ UNCHANGED <<driverVars, workerVars, kept, askVars, plan, retry, reasons, ghostVars, faultVars>>

\* put_back reads the job's status, and moves it where that said failed.
LookAt(j) ==
    /\ pc = "asking" /\ j \in owed
    /\ owed' = owed \ {j}
    /\ hand' = j
    /\ pc' = IF status[j] = "failed" THEN "putting" ELSE "answering"
    /\ UNCHANGED <<driverVars, workerVars, kept, askVars, plan, retry, reasons, ghostVars, faultVars>>

PutBack ==
    /\ pc = "putting"
    /\ pc' = "answering"
    /\ puts' = [puts EXCEPT ![hand] = IF Retriable(hand) THEN @ + 1 ELSE @]
    /\ RunAgain(hand)
    /\ UNCHANGED <<at, paused, kept, askVars, plan, retry, reasons, owed, hand, runs, lapsed, faultVars>>

\* Mutant: the answer is dated before the ask.
AnswerTooEarly ==
    /\ pc = "answering"
    /\ pc' = "asking"
    /\ hand' = NoJob
    /\ UNCHANGED <<driverVars, workerVars, kept, askVars, plan, retry, reasons, owed, ghostVars, faultVars>>

\* The answer carries the sweep's own now, so an ask made since stays live.
Answer ==
    /\ pc = "answering"
    /\ pc' = "asking"
    /\ live' = (live \ {hand}) \union ({hand} \intersect recent)
    /\ hand' = NoJob
    /\ UNCHANGED <<driverVars, workerVars, kept, recent, asks, plan, retry, reasons, owed, ghostVars, faultVars>>

Forget ==
    /\ pc' = "idle"
    /\ plan' = Undecided /\ reasons' = Undecided
    /\ retry' = {} /\ owed' = {} /\ hand' = NoJob

EndSweep ==
    /\ pc = "asking" /\ owed = {}
    /\ Forget
    /\ UNCHANGED <<driverVars, workerVars, kept, askVars, ghostVars, faultVars>>

\* The process dies, or a statement of the sweep raises, which nothing catches.
SweepDies ==
    /\ pc # "idle"
    /\ deaths < MaxDeaths
    /\ deaths' = deaths + 1
    /\ Forget
    /\ UNCHANGED <<driverVars, workerVars, kept, askVars, ghostVars, pauses>>

\* redrive_dead_letter: a person presses for a job the screen shows.
Ask(j) ==
    /\ kept[j] # "none" /\ asks[j] < MaxAsks
    /\ asks' = [asks EXCEPT ![j] = @ + 1]
    /\ live' = live \union {j}
    /\ recent' = recent \union {j}
    /\ UNCHANGED <<driverVars, workerVars, kept, sweepVars, ghostVars, faultVars>>

-----------------------------------------------------------------------------

WorkerStep(w) == \E j \in Jobs : Fetch(w, j)
Body(w) == \E verdict \in {"succeeded", "failed"} : Finish(w, verdict)
WorkerFault(w) == Die(w) \/ Pause(w)

SweepStep ==
    \/ StartSweep \/ ReadFailed \/ KeepFailed \/ ReadAsks \/ PutBack \/ Answer \/ EndSweep
    \/ \E j \in Jobs : MoveRunning(j) \/ MoveFailed(j) \/ KeepAside(j) \/ LookAt(j)

Next ==
    \/ \E w \in Workers : WorkerStep(w) \/ Body(w) \/ Resume(w) \/ WorkerFault(w)
    \/ \E j \in Jobs : FallQuiet(j) \/ Prune(j) \/ Ask(j)
    \/ SweepStep
    \/ SweepDies

Spec == Init /\ [][Next]_vars

\* Workers fetch, a body ends within its deadline, a paused loop goes on, time
\* passes over a silent worker, and the schedule keeps running the sweep.
Fairness ==
    /\ \A w \in Workers : WF_vars(WorkerStep(w)) /\ WF_vars(Body(w)) /\ WF_vars(Resume(w))
    /\ \A j \in Jobs : WF_vars(FallQuiet(j))
    /\ WF_vars(SweepStep)

FairSpec == Spec /\ Fairness

-----------------------------------------------------------------------------
(* Properties.                                                             *)

Reasons == {"attempts_exhausted", "re_driven_too_often", "quarantined_after_a_stop"}

TypeOK ==
    /\ status \in [Jobs -> {"todo", "doing", "failed", "succeeded"}]
    /\ owner \in [Jobs -> Workers \union {NoWorker}]
    /\ redrives \in [Jobs -> Nat]
    /\ at \in [Workers -> Jobs \union {NoJob}]
    /\ paused \subseteq Workers /\ quiet \subseteq Jobs
    /\ kept \in [Jobs -> Reasons \union {"none"}]
    /\ live \subseteq Jobs /\ recent \subseteq Jobs
    /\ pc \in {"idle", "read", "moving", "keeping", "asking", "putting", "answering"}
    /\ plan \in [Jobs -> {"none", "redrive", "dead_letter", "quarantine"}]
    /\ retry \subseteq Jobs
    /\ reasons \in [Jobs -> Reasons \union {"none"}]
    /\ owed \subseteq Jobs
    /\ hand \in Jobs \union {NoJob}
    /\ pc \in {"putting", "answering"} => hand \in Jobs
    /\ runs \in [Jobs -> Nat] /\ asks \in [Jobs -> Nat] /\ puts \in [Jobs -> Nat]
    /\ lapsed \subseteq Jobs
    /\ deaths \in Nat /\ pauses \in Nat

\* A job not declared safe to run twice is begun a second time only because a
\* person asked, through any deaths, pauses and sweeps on stale reads.
UnsafeRunsAreAsked == \A j \in Jobs \ Safe : runs[j] <= 1 + puts[j]

\* Two workers are in one job at once only after a sweep took it for left
\* behind while its worker lived.
AloneUnlessTakenForDead ==
    \A v, w \in Workers : at[v] = at[w] /\ at[v] \in Jobs \ lapsed => v = w

\* The sweep puts a job back MAX_REDRIVES times and no more; only a job it
\* took for left behind while its worker lived can be on both of its lists.
RedrivesAreCapped == \A j \in Jobs \ lapsed : redrives[j] <= MaxRedrives + puts[j]

\* An ask puts a job back once, and once more only for a sweep that died between the
\* retry and its answer: an answer is of the asks the sweep read and of no later one.
AsksPutBackOnce == \A j \in Jobs : puts[j] <= asks[j] + deaths

\* The jobs some worker is in, and those the dead letters hold.
Inside == {j \in Jobs : \E w \in Workers : at[w] = j}
Shown == {j \in Jobs : kept[j] # "none"}

Promise == INSTANCE JobPromise WITH
    place <- status, inside <- Inside, begun <- runs, returned <- redrives,
    wished <- puts, shown <- Shown, mistaken <- lapsed

\* With the workers, the lists of the sweep and the asks out of sight this is
\* JobPromise: a job that succeeded is left alone, a body is begun where no
\* other is, a job not safe to run twice comes back only for a person who was
\* shown it, and the others no more often than the cap allows.
KeepsThePromise == Promise!JSpec

\* Every job comes to have succeeded, or to be failed where a person sees it.
StoppedJobsAreSettled ==
    \A j \in Jobs :
        status[j] # "succeeded" ~> (status[j] = "succeeded" \/ (status[j] = "failed" /\ kept[j] # "none"))

\* Every ask is answered.
AsksAreAnswered == \A j \in Jobs : j \in live ~> j \notin live

=============================================================================
