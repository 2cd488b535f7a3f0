------------------------------ MODULE Schedule ------------------------------
(***************************************************************************)
(* The control schedule of `brain.ops.worker`: several processes tick, each *)
(* decides from the run records which controls are owed, and start_owed    *)
(* runs one under a transaction-scoped advisory lock.                      *)
(*                                                                         *)
(* Taking the lock, recording the start, running the body in a thread and  *)
(* recording the finish are ONE transaction, so what another process sees  *)
(* of a run appears when it commits, with the run already finished.        *)
(*                                                                         *)
(* Time is relative: the instants the code compares are ages, which all    *)
(* grow together and stop at Longest, past which nothing is decided.       *)
(***************************************************************************)
EXTENDS Naturals, FiniteSets

CONSTANTS
    Controls,       \* the schedulable controls that have a runner
    NoControl,
    Every,          \* the registry's interval of each control, in time steps
    Longest,        \* the age past which every control is owed
    Destructive,    \* controls that report until a person releases them
    Askable,        \* controls a person pauses, resumes or asks for here
    Hung,           \* controls whose body never returns
    Replicas,       \* processes running run_schedule
    Jobs,           \* workers running run_control_job from the queue
    NoProcess,
    MaxCrashes, MaxStops, MaxCuts    \* bounds on the failures of a behaviour

Processes == Replicas \union Jobs

ASSUME EveryAssumption == Longest \in Nat /\ Every \in [Controls -> 1 .. Longest]
ASSUME SubsetAssumption == Destructive \subseteq Controls /\ Askable \subseteq Controls /\ Hung \subseteq Controls
ASSUME NamesAssumption == NoControl \notin Controls /\ NoProcess \notin Processes /\ Replicas \intersect Jobs = {}
ASSUME BoundsAssumption == MaxCrashes \in Nat /\ MaxStops \in Nat /\ MaxCuts \in Nat

VARIABLES
    tried,      \* age of the newest committed started_at of each control
    worked,     \* age of the newest committed finish of each that was ok
    paused, released, wanted,        \* what persons have asked; wanted: since the newest started_at
    lock,       \* the process whose transaction holds each control's lock
    phase,      \* sleeping, ticking, running, ended, stopping or down
    todo,       \* what a tick has chosen and not come to
    asked,      \* of those it read, the ones a person asked for
    reporting,  \* controls it runs in report-only mode
    began,      \* age of the instant it set out at, which is a run's started_at
    current,    \* the control its open transaction is about
    inside,     \* the control its thread is in the body of
    outcome,    \* how that body ended
    fresh,      \* controls asked for since the process set out
    overtaken,  \* controls another process recorded a run of since then
    adrift,     \* processes whose transaction was ended under the run they are in
    crashes, stops, cuts

records == <<tried, worked>>
people  == <<paused, released, wanted>>
tick    == <<todo, asked, reporting, began>>
run     == <<phase, current, inside, outcome>>
since   == <<fresh, overtaken>>
failures == <<adrift, crashes, stops, cuts>>
vars == <<records, people, lock, tick, run, since, failures>>

-----------------------------------------------------------------------------

Older(age) == IF age < Longest THEN age + 1 ELSE age
Newer(a, b) == IF a < b THEN a ELSE b

\* Every control has never been tried, so each is owed, and nothing is paused.
Init ==
    /\ tried = [c \in Controls |-> Longest]
    /\ worked = [c \in Controls |-> Longest]
    /\ paused = {} /\ released = {} /\ wanted = {}
    /\ lock = [c \in Controls |-> NoProcess]
    /\ phase = [p \in Processes |-> "sleeping"]
    /\ todo = [p \in Processes |-> {}]
    /\ asked = [p \in Processes |-> {}]
    /\ reporting = [p \in Processes |-> {}]
    /\ began = [p \in Processes |-> Longest]
    /\ current = [p \in Processes |-> NoControl]
    /\ inside = [p \in Processes |-> NoControl]
    /\ outcome = [p \in Processes |-> "none"]
    /\ fresh = [p \in Processes |-> {}]
    /\ overtaken = [p \in Processes |-> {}]
    /\ adrift = {} /\ crashes = 0 /\ stops = 0 /\ cuts = 0

TimePasses ==
    /\ tried' = [c \in Controls |-> Older(tried[c])]
    /\ worked' = [c \in Controls |-> Older(worked[c])]
    /\ began' = [p \in Processes |-> Older(began[p])]
    /\ UNCHANGED <<people, lock, todo, asked, reporting, run, since, failures>>

-----------------------------------------------------------------------------
(* What a person does: schedule_control and the retention release.         *)

\* The process is in a tick or a job, and holds what it read for it.
Awake(p) == phase[p] \in {"ticking", "running", "ended"}

Pause(c) ==
    /\ paused' = IF c \in paused THEN paused \ {c} ELSE paused \union {c}
    /\ UNCHANGED <<records, released, wanted, lock, tick, run, since, failures>>

RequestRun(c) ==
    /\ wanted' = wanted \union {c}
    /\ fresh' = [p \in Processes |-> IF Awake(p) THEN fresh[p] \union {c} ELSE fresh[p]]
    /\ UNCHANGED <<records, paused, released, lock, tick, run, overtaken, failures>>

ReleaseOrWithdraw(c) ==
    /\ released' = IF c \in released THEN released \ {c} ELSE released \union {c}
    /\ UNCHANGED <<records, paused, wanted, lock, tick, run, since, failures>>

-----------------------------------------------------------------------------
(* tick_controls and run_control_job: what a process sets out to run.       *)

\* Mutant: dueness measured from the last success.
DueByLastSuccess(c) == worked[c] >= Every[c]

\* due_now decides from the last attempt: the last success decides how late
\* a control is called, and nothing about when it runs.
Due(c) == tried[c] >= Every[c]

Chosen == {c \in Controls : c \in wanted \/ (Due(c) /\ c \notin paused)}

SetOut(p, names, by) ==
    /\ phase' = [phase EXCEPT ![p] = "ticking"]
    /\ todo' = [todo EXCEPT ![p] = names]
    /\ asked' = [asked EXCEPT ![p] = by]
    /\ reporting' = [reporting EXCEPT ![p] = Destructive \ released]
    /\ began' = [began EXCEPT ![p] = 0]
    /\ fresh' = [fresh EXCEPT ![p] = {}]
    /\ overtaken' = [overtaken EXCEPT ![p] = {}]
    /\ UNCHANGED <<records, people, lock, current, inside, outcome, failures>>

\* One read of the clocks, the pauses, the requests and the releases.  The
\* loop sleeps to an instant after the one it last ticked at.
ReadClocks(p) ==
    /\ phase[p] = "sleeping"
    /\ began[p] > 0
    /\ SetOut(p, Chosen, wanted)

\* A job that names one control is not asked whether it is owed.
TakeJob(p, c) ==
    /\ phase[p] = "sleeping"
    /\ SetOut(p, {c}, {c})

\* Its open transaction ends, and the lock with it.
LetGo(p) == lock' = [c \in Controls |-> IF lock[c] = p THEN NoProcess ELSE lock[c]]

\* It is done with this tick or job, and forgets what it read for it.
Leave(p, next) ==
    /\ phase' = [phase EXCEPT ![p] = next]
    /\ todo' = [todo EXCEPT ![p] = {}]
    /\ asked' = [asked EXCEPT ![p] = {}]
    /\ reporting' = [reporting EXCEPT ![p] = {}]
    /\ fresh' = [fresh EXCEPT ![p] = {}]
    /\ overtaken' = [overtaken EXCEPT ![p] = {}]
    /\ current' = [current EXCEPT ![p] = NoControl]
    /\ outcome' = [outcome EXCEPT ![p] = "none"]
    /\ UNCHANGED began

TickEnds(p) ==
    /\ phase[p] = "ticking"
    /\ todo[p] = {}
    /\ Leave(p, "sleeping")
    /\ UNCHANGED <<records, people, lock, inside, failures>>

-----------------------------------------------------------------------------
(* start_owed: one control, one transaction.                               *)

\* Mutant: the transaction that took the lock ends before the body starts.
StartWithoutHolding(p, c) ==
    /\ phase[p] = "ticking" /\ c \in todo[p]
    /\ lock[c] = NoProcess
    /\ phase' = [phase EXCEPT ![p] = "running"]
    /\ current' = [current EXCEPT ![p] = c]
    /\ inside' = [inside EXCEPT ![p] = c]
    /\ UNCHANGED <<records, people, lock, tick, outcome, since, failures>>

\* The lock is taken, the start written, and the body entered in a thread.
\* The order of the registry is left open: nothing may depend on it.
Start(p, c) ==
    /\ phase[p] = "ticking" /\ c \in todo[p]
    /\ lock[c] = NoProcess
    /\ lock' = [lock EXCEPT ![c] = p]
    /\ phase' = [phase EXCEPT ![p] = "running"]
    /\ current' = [current EXCEPT ![p] = c]
    /\ inside' = [inside EXCEPT ![p] = c]
    /\ UNCHANGED <<records, people, tick, outcome, since, failures>>

\* Mutant: a lock that cannot be taken is waited for.
WaitForTheLock(p, c) == FALSE

LockedElsewhere(p, c) ==
    /\ phase[p] = "ticking" /\ c \in todo[p]
    /\ lock[c] # NoProcess
    /\ todo' = [todo EXCEPT ![p] = @ \ {c}]
    /\ UNCHANGED <<records, people, lock, asked, reporting, began, run, since, failures>>

BodyEnds(p, how) ==
    /\ phase[p] = "running"
    /\ current[p] \notin Hung
    /\ inside' = [inside EXCEPT ![p] = NoControl]
    /\ outcome' = [outcome EXCEPT ![p] =
                     IF how = "ok" /\ current[p] \in reporting[p] THEN "refused" ELSE how]
    /\ phase' = [phase EXCEPT ![p] = "ended"]
    /\ UNCHANGED <<records, people, lock, tick, current, since, failures>>

\* Mutant: started_at is the instant the run is recorded at.
RecordStampedLate(p, c) ==
    /\ tried' = [tried EXCEPT ![c] = 0]
    /\ worked' = IF outcome[p] = "ok" THEN [worked EXCEPT ![c] = 0] ELSE worked
    /\ wanted' = wanted \ {c}
    /\ overtaken' = [q \in Processes |->
                       IF q # p /\ Awake(q) THEN overtaken[q] \union {c} ELSE overtaken[q]]
    /\ phase' = [phase EXCEPT ![p] = "ticking"]
    /\ todo' = [todo EXCEPT ![p] = @ \ {c}]
    /\ current' = [current EXCEPT ![p] = NoControl]
    /\ outcome' = [outcome EXCEPT ![p] = "none"]
    /\ UNCHANGED <<paused, released, asked, reporting, began, fresh>>

\* The start and the finish of the run become visible together, and the tick
\* goes on to its next control.
Record(p, c) ==
    /\ tried' = [tried EXCEPT ![c] = Newer(@, began[p])]
    /\ worked' = IF outcome[p] = "ok" THEN [worked EXCEPT ![c] = 0] ELSE worked
    /\ wanted' = IF c \in fresh[p] THEN wanted ELSE wanted \ {c}
    /\ overtaken' = [q \in Processes |->
                       IF q # p /\ Awake(q) THEN overtaken[q] \union {c} ELSE overtaken[q]]
    /\ phase' = [phase EXCEPT ![p] = "ticking"]
    /\ todo' = [todo EXCEPT ![p] = @ \ {c}]
    /\ current' = [current EXCEPT ![p] = NoControl]
    /\ outcome' = [outcome EXCEPT ![p] = "none"]
    /\ UNCHANGED <<paused, released, asked, reporting, began, fresh>>

\* record_finish, and the commit that makes the run visible.  A body that
\* raised is a run that failed, and the tick goes on to the next control.
Finish(p) ==
    LET c == current[p] IN
    /\ phase[p] = "ended" /\ lock[c] = p
    /\ LetGo(p)
    /\ Record(p, c)
    /\ UNCHANGED <<inside, failures>>

\* The transaction is gone: record_finish raises, and the tick is given up.
FinishRefused(p) ==
    /\ phase[p] = "ended" /\ lock[current[p]] # p
    /\ Leave(p, "sleeping")
    /\ adrift' = adrift \ {p}
    /\ UNCHANGED <<records, people, lock, inside, crashes, stops, cuts>>

-----------------------------------------------------------------------------
(* What goes wrong around a run.                                           *)

\* The server ends the transaction under a run: its row and its lock go.
ConnectionCut(p) ==
    /\ phase[p] \in {"running", "ended"} /\ lock[current[p]] = p
    /\ cuts < MaxCuts
    /\ cuts' = cuts + 1 /\ UNCHANGED <<crashes, stops>>
    /\ adrift' = adrift \union {p}
    /\ LetGo(p)
    /\ UNCHANGED <<records, people, tick, run, since>>

\* No connection to start the next control on: the tick is given up.
TickAborts(p) ==
    /\ phase[p] = "ticking" /\ todo[p] # {}
    /\ cuts < MaxCuts
    /\ cuts' = cuts + 1 /\ UNCHANGED <<adrift, crashes, stops>>
    /\ Leave(p, "sleeping")
    /\ UNCHANGED <<records, people, lock, inside>>

\* serve ends: the ticking task is cancelled, which rolls its transaction
\* back.  A thread that is in a body cannot be cancelled and goes on.
Stop(p) ==
    /\ phase[p] \notin {"stopping", "down"}
    /\ stops < MaxStops
    /\ stops' = stops + 1 /\ UNCHANGED <<crashes, cuts>>
    /\ adrift' = IF inside[p] = NoControl THEN adrift \ {p} ELSE adrift \union {p}
    /\ LetGo(p)
    /\ Leave(p, "stopping")
    /\ UNCHANGED <<records, people, inside>>

\* The thread of a stopping process comes to its end; nobody reads the answer.
ThreadEnds(p) ==
    /\ phase[p] = "stopping" /\ inside[p] \notin Hung \union {NoControl}
    /\ inside' = [inside EXCEPT ![p] = NoControl]
    /\ adrift' = adrift \ {p}
    /\ UNCHANGED <<records, people, lock, tick, phase, current, outcome, since, crashes, stops, cuts>>

\* The process dies, its threads and its transaction with it.
Crash(p) ==
    /\ phase[p] # "down"
    /\ crashes < MaxCrashes
    /\ crashes' = crashes + 1 /\ UNCHANGED <<stops, cuts>>
    /\ adrift' = adrift \ {p}
    /\ LetGo(p)
    /\ Leave(p, "down")
    /\ inside' = [inside EXCEPT ![p] = NoControl]
    /\ UNCHANGED <<records, people>>

\* A process that ended is started again and ticks at once.
Restart(p) ==
    /\ phase[p] \in {"stopping", "down"} /\ inside[p] = NoControl
    /\ phase' = [phase EXCEPT ![p] = "sleeping"]
    /\ began' = [began EXCEPT ![p] = Longest]
    /\ UNCHANGED <<records, people, lock, todo, asked, reporting, current, inside, outcome,
                   since, failures>>

-----------------------------------------------------------------------------

\* What a process does of itself.
Ticking(p) ==
    \/ p \in Replicas /\ ReadClocks(p)
    \/ TickEnds(p)
    \/ \E c \in Controls : Start(p, c) \/ LockedElsewhere(p, c)
    \/ \E how \in {"ok", "failed"} : BodyEnds(p, how)
    \/ Finish(p) \/ FinishRefused(p)
    \/ ThreadEnds(p) \/ Restart(p)

Failure(p) ==
    \/ ConnectionCut(p) \/ TickAborts(p)
    \/ p \in Replicas /\ Stop(p)
    \/ Crash(p)

Person ==
    \/ \E c \in Askable : Pause(c) \/ RequestRun(c)
    \/ \E c \in Destructive : ReleaseOrWithdraw(c)

Next ==
    \/ TimePasses
    \/ Person
    \/ \E p \in Processes : Ticking(p) \/ Failure(p)
    \/ \E p \in Jobs, c \in Controls : TakeJob(p, c)

Spec == Init /\ [][Next]_vars

\* Time passes and every process goes on with what it is doing.  Nothing is
\* said of which control a tick takes first, and a hung body never returns.
Fairness ==
    /\ WF_vars(TimePasses)
    /\ \A p \in Processes : WF_vars(Ticking(p))

FairSpec == Spec /\ Fairness

-----------------------------------------------------------------------------
(* Properties.                                                             *)

TypeOK ==
    /\ tried \in [Controls -> 0 .. Longest]
    /\ worked \in [Controls -> 0 .. Longest]
    /\ paused \subseteq Controls /\ released \subseteq Controls /\ wanted \subseteq Controls
    /\ lock \in [Controls -> Processes \union {NoProcess}]
    /\ phase \in [Processes -> {"sleeping", "ticking", "running", "ended", "stopping", "down"}]
    /\ todo \in [Processes -> SUBSET Controls]
    /\ asked \in [Processes -> SUBSET Controls]
    /\ reporting \in [Processes -> SUBSET Controls]
    /\ began \in [Processes -> 0 .. Longest]
    /\ current \in [Processes -> Controls \union {NoControl}]
    /\ inside \in [Processes -> Controls \union {NoControl}]
    /\ outcome \in [Processes -> {"none", "ok", "failed", "refused"}]
    /\ fresh \in [Processes -> SUBSET Controls]
    /\ overtaken \in [Processes -> SUBSET Controls]
    /\ adrift \subseteq Processes
    /\ crashes \in Nat /\ stops \in Nat /\ cuts \in Nat

\* The control a process is in a run of, up to its commit or its failure.
On == [p \in Processes |-> IF inside[p] # NoControl THEN inside[p] ELSE current[p]]

Promise == INSTANCE RunPromise WITH on <- On

\* With the locks, ticks and jobs out of sight this is RunPromise: a control has one
\* run at a time from its start to its commit, those adrift apart, and what is on
\* record of it comes only of a run that never was.
KeepsThePromise == Promise!RSpec

\* Two processes are in a run of one control only where a transaction of
\* start_owed, and so its lock, was ended under the thread of one of them, by a
\* stop of its worker or a lost connection, and that thread is still at it.
OneRunUnlessAdrift ==
    \A p, q \in Processes :
        On[p] = On[q] /\ On[p] # NoControl => p = q \/ p \in adrift \/ q \in adrift

\* A control that ran within its interval is run again unasked only by a
\* process that read the clocks before the other's run was committed: no
\* process retries what it ran itself, failed or not (due_now).
RunTwiceOnlyByAStaleRead ==
    [][\A p \in Processes, c \in Controls :
          /\ current[p] # c /\ current'[p] = c
          /\ tried[c] < Every[c] /\ c \notin asked[p]
          => c \in overtaken[p]]_vars

\* A person's request is taken for served only by a run that set out after it
\* was made (chosen_this_tick, and started_at being the tick's own instant).
RequestsOutliveOlderRuns ==
    [][\A c \in wanted \ wanted' :
          \E p \in Processes : current[p] = c /\ c \notin fresh[p]]_vars

\* A control that is owed and not paused, or asked for, is run or paused in
\* the end, however often bodies raise and whichever process is stuck: a hung
\* body costs one process and one lock.
OwedControlsAreRun ==
    \A c \in Controls \ Hung :
        Due(c) \/ c \in wanted ~> (\E p \in Processes : inside[p] = c) \/ c \in paused \ wanted

=============================================================================
