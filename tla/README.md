# Company Brain (Verz OS): models and proofs

TLA+ models of the parts of this program that run concurrently and must survive
crashes, the TLC configurations that check them, and TLAPS proofs of what
matters most about them. Paths below are relative to `src/brain/` of the
repository unless they say otherwise.

## The system

One installation serves one company. A FastAPI application answers people and
agents; one or more worker processes run what must happen later; PostgreSQL
holds everything and is the only thing the processes share. Several processes of
each kind may run, any may be killed at any step, and a rolling deployment runs
old and new ones together.

The parts that follow keep state of their own. *Modelled* names the module; the
rest is listed with what would make it correct, because later work starts there.

| Part | State | Operations | Correct when | Module |
|---|---|---|---|---|
| Side-effect ledger (`ops/idempotency.py`, `ops/operation_store.py`) and its recovery sweep (`ops/recovery_run.py`) | one row per idempotency key | `issue_once`: claim, win, call, settle; `resume_side_effects` | a request leaves once per key; what a row says is true; an interrupted operation is settled | `SideEffects`, `OncePromise` |
| Control schedule (`ops/worker.py`, `ops/schedule*.py`) | `ops.control_run`, advisory locks, settings persons write | `tick_controls`, `start_owed`, `run_control_job`, pause, ask, release | one run of a control at a time; owed ones run; a person's ask is not swallowed | `Schedule`, `RunPromise` |
| Webhook outbox (`ops/outbox*.py`, `ops/webhook_*.py`) | `ops.outbox_delivery`, subscribers | `record_event`, `claim_due`, `attempt_one`, `replay_delivery`, switch off and on | delivered means accepted; no second request after an acceptance; nothing waits for ever | `Outbox`, `DeliveryPromise` |
| Job queue and redrive (`ops/queue.py`, `ops/recovery_run.py`, `ops/redrive_control.py`) | the driver's jobs and workers, `ops.dead_letter`, asks and answers | the driver's fetch and finish; `sweep_queue`, `keep_aside`, `keep_failed`, `carry_out_asks`; the console's ask | what may not run twice does not; every stopped job comes back or is shown to somebody | `JobQueue`, `JobPromise` |
| Reach algebra (`core/entitlement.py`, `core/scope.py`) | none: values | intersect, cover, narrow, delegate | no operation widens a reach | planned |
| Leash and approvals (`gate/leash.py`, `gate/suspension_store.py`, `approval_routes.py`, `ops/approved_runs.py`) | `gate.suspension` | suspend, decide, resume | granted once, by as many others as its row demands; run once, on what is so at that moment | `Approvals`, `ApprovalPromise` |
| Audit ledger (`audit/chain_check.py`, `audit/verify.py`, the triggers, `.github/workflows/anchor.yml`) | the hash chain; the newest published head | append, walk, publish and ask about the head | appends do not fork the chain; a walk tells the truth; a lost head is noticed | `AuditLedger` |
| Automations (`ops/automation_run_store.py`, `automations_routes.py`, `automation_schedule_routes.py`) | `agent.agent_automation`, runs, changes | the runner's list, claim and record; start, stop, pause, resume, reschedule, remove, adopt | one run for a slot; a stop is a stop; what fails too often pauses | `Automations` |
| Halts (`ops/halt_store.py`, `halt_routes.py`) | acts of stopping and resuming | stop, restart, ask | nothing held is run; only a later restart ends a halt | `Halt` |
| Erasure and legal holds (`ops/erasure.py`, `ops/erasure_store.py`, `ops/retention_store.py`) | requests, holds, everything about a person | file, drain; place and lift a hold | a report says what is so; a hold wins; a spent key stays spent | `Erasure`, `ErasurePromise` |
| Elevation (`gate/elevation_store.py`) | requests and lapsing grants | file, approve, deny, lapse | no approval outlives its lapse | planned |
| Leases (`ops/leases.py`, `ops/connector_lease.py`) | the credentials a run holds | borrow, renew, return, expire | no chain of renewals passes the ceiling; a finished run holds nothing | planned |
| Admission and limits (`ops/admission.py`, `ops/limits.py`, `ops/token_bucket.py`) | counters and pools | decide, place, shed, release | a class never takes another's reserve; the queue is bounded | planned |
| Workflows and coordinator (`orchestration/workflow*.py`, `ops/checkpoints.py`) | the run's records and checkpoints | step, retry, resume, close | a step runs after what it needs; a resumed run repeats nothing settled | planned |
| Agents and leash moves (`agents/lifecycle.py`, `agents/leash_moves.py`) | records and moves | enable, disable, archive, transfer; lower, raise, trip | archived is final; a rung rises only on evidence since its last fall | planned |
| Sessions (`identity/session_store.py`) | `auth.session` | record, end | an ended session never answers again | planned |
| Knowledge pipeline, connectors and sync, models and routing, budgets, memory, entity resolution, retention and backup | rows of their own | ingest, sync, route, stop, promote, merge, sweep | see the notes in `PROJECT.json` | later |
| Chat and channels, browsing, builder, tools, console, routes, deployment, acceptance checks | mostly transport, forms and reading | | | not planned, or later |

How the modelled parts meet:

* The **schedule** starts the others. `outbox_dispatch`, `side_effect_resume`,
  `queue_redrive`, `run_automations`, the passes over approved actions and the
  erasure queue are controls: each runs on a thread of a worker, under the
  control's advisory lock. A cut transaction frees that lock under its thread, so
  the modules of the controls do not assume that they run alone.
* Every webhook request and every connector side effect, those of approved actions
  included, goes through **`issue_once`**. The outbox's rows commit per batch and
  the ledger per statement, so the ledger runs ahead of the rows, and a batch that
  is rolled back meets its own records when it is claimed again. An erasure leaves
  the ledger's rows in place, or a key would be spent twice.
* The ledger's **sweep** asks a connector what became of an operation whose
  caller never wrote an answer.
* The **queue's sweep** puts back a job whose worker died, unless its task may
  not be run twice; the job's own side effects are then caught by the ledger.
* The automations' runner asks the **halts** before each run.
* The decisions, halts, holds and changes above append to the **audit ledger** from
  the triggers of their tables, inside their transactions.

What makes them hard: a process may die between any two statements; a lock, a
transaction and the thread it protects can end at different times; what a sweep
read may be stale when it acts; a request whose answer never came may still
arrive; a person presses a button in the middle of all of it. `PROJECT.json`
lists each of these at its line ("hazards").

## The modules

| Module | What it is |
|---|---|
| `SideEffects.tla` | the ledger, its callers and its sweeps |
| `OncePromise.tla` | what the ledger promises about one intent, without the ledger; `Outbox` keeps it too, for each attempt |
| `Schedule.tla` | the ticking workers, queued control jobs, locks and run records |
| `RunPromise.tla` | what the schedule promises about the runs of a control, without locks or ticks |
| `Outbox.tla` | deliveries, dispatches, the console and the ledger's records under them |
| `DeliveryPromise.tla` | what the outbox promises about a delivery, without batches or locks: `OncePromise` for each attempt, and their order |
| `JobQueue.tla` | the driver's workers, the redrive sweep, dead letters and asks |
| `JobPromise.tla` | what queue and sweep promise about a job, without workers, lists or asks |
| `Halt.tla` | stopping and restarting work |
| `Automations.tla` | the runner and the changes of persons, over `Halt` |
| `AuditLedger.tla` | the appends, the walk and the published head |
| `Approvals.tla` | requests, decisions and the pass that carries out what was approved |
| `ApprovalPromise.tla` | what an approval promises, without locks, clocks or passes |
| `Erasure.tla` | the erasure queue, its drain, the holds, and the person meanwhile |
| `ErasurePromise.tla` | what an erasure promises, without drains, stores or holds |
| `*MC.tla` | instances for TLC |
| `*Proofs.tla` | the theorems about each |

### SideEffects

A worker is one call of `issue_once`: `Claim` inserts the row or finds one,
`Win` is the conditional update `pending -> sent`, `Send` lets the request out,
and `Settle` writes what the answer meant. Each ledger statement commits by
itself (the ledger refuses a connection that is not autocommit), so each is an
action, and between any two the process may die (`CrashWorker`), another caller
may act and the sweep may run. A caller that did not win reads the record again
and is told what to do (`ResumePlan`). A sweeper is one `resume_side_effects`:
it reads the rows older than the grace, then takes one at a time from `sent` to
`unknown`, to `verifying`, asks the connector, and settles. The connected system
is the environment: a request travels until it is applied or lost, at any time.

`Age` is the passing of the grace over one row. Whether a call can outlast the
grace is `GraceHolds`: nothing in the ledger enforces that, so the runs take it
both ways and each property says which half needs it. Keys and intents are model
values; how a key is put together from its parts is left out.

### Schedule

A process sleeps, ticks (`tick_controls`: reads the clocks of the controls and
what persons asked for, and picks what is owed), and comes to what it picked one
at a time. `start_owed` is **one** transaction around a body on a thread: take
the lock, record the start, run, record the finish. So the record appears, with
the lock gone, only when it commits. A crash ends process, transaction and
thread together. `Stop` (a worker told to stop) and `ConnectionCut` (a lost
connection) end the transaction and not the thread, which is why they are separate:
the process is `adrift` until that thread comes to its end. Instants
are ages that grow together and stop at `Longest`, past which no comparison
changes.

`RunPromise` keeps the control each process is on, who is adrift, the newest run on
record and what persons asked for. A run begins where everybody else on the control
is adrift, and what goes on record comes of a process that never was: a recorded run
had the control to itself from its start to its commit, those adrift apart.

### Outbox

A dispatch is one transaction over a batch: `ClaimDue` locks rows, each is then
attempted (`Issue`, `Send`, `Answer`, or `Found` for a key the ledger has
already), and `Commit` writes all the rows at once. `Crash`, `Raise` (one
delivery of the batch raises) and `Cut` (the server ends the transaction while
the process goes on) lose the rows and keep the ledger. `copy` is what the
transaction has written and not committed. `adrift` marks deliveries whose
transaction was cut under a live dispatch, or that were parked over an
acceptance: the cases where a later request can follow an acceptance, and the
properties say "unless adrift" rather than ruling them out.

The ledger of `SideEffects` appears here one cell per delivery and attempt, with
winning and settling one step each; `pending` is folded into `none` because it
gives its next caller the same chance. The schedule's lock keeps dispatches
apart only until a transaction is cut, so `Outbox` does not assume it: its
workers may dispatch together.

`DeliveryPromise` keeps each row's state, and a request and a verdict for each
attempt, which it shares with `OncePromise`. It says more than the properties it
took the place of: that rows go from waiting to delivered or given up in the steps
that write them and in no other, that delivered needs a known acceptance, that a
delivery is put back once, and, of a delivery that is not adrift, that attempts
follow one another and none follows a known acceptance. Of one adrift only the
promise of each attempt is left.

### JobQueue

`Fetch`, `Finish`, `Die`, `Pause`, `Resume`, `FallQuiet` and `Prune` are the
queue driver, an external library: they are modelled from what the sweep's
queries read and its calls move. The sweep is `run_queue_redrive_now`, step by
step: read the running jobs and decide (`StartSweep`, `Verdict`), read the
failed ones (`ReadFailed`), move each (`MoveRunning`, `MoveFailed`), keep what
was set aside (`KeepAside`) and what nobody will run (`KeepFailed`), read the
asks, and for each look at the job, put it back and answer (`LookAt`, `PutBack`,
`Answer`). Each statement commits by itself. Between any two, workers go on, a
person asks, or the sweep dies.

`Pause` is a worker that lives and does not beat; after `stale_after` its job
reads as left behind although somebody is in it. `lapsed` remembers those jobs:
the queue cannot keep two workers apart there, and does not claim to. One sweep
runs at a time, which is the schedule's lock. By `RunPromise` a second can begin only
beside one that is adrift; that case is left out here, and the properties of the queue
do not speak of it.

`JobPromise` keeps where each job is, whether a body of it runs, how often it was
begun and returned, and for whom. A job that succeeded is left alone; one is begun
only where it waits and nobody is in it; an unsafe one comes back only for a person
who was shown it stopped; a safe one comes back no more often than the cap and the
asks allow. Each rule is stated with what a *mistaken* job, one that lapsed, may do
instead.

### Halt and Automations

`Halt` is `ops.halt`: rows that are never changed, each with the instant its
request arrived (`stamp`; no two are equal). A press takes its instant first and
writes later; a restart looks up the halt it lifts in one statement (`LookUp`) and
is written in another (`Lift`), so presses overtake each other. `InForce` is what
the latest act of each target says.

`Automations` extends it. A pass of the runner (`run_automations`) lists what is due
(`StartPass`), turns to one at a time, reads the halts (`ReadHalts`), claims the row
under its lock (`Claim`), runs, and records the run with what comes next (`Record`).
`Die` loses the lock and everything that was not committed. A change is asked from
a screen with what it showed (`Ask`). Starting and stopping is one `UPDATE` that
waits for the row's lock: `BeginMoving` is its snapshot and `Move` its write, after
whatever held the row; the other changes insert a row of their own (`Apply`). What is
due is a slot of a coarse clock; failures in a row are counted from the newest start
by the instant it was *asked* for, as the code does. `behind` are the requests older
than a run of their automation; `overtaken` an automation such a request has
scheduled, until it is stopped or a request in time starts it, and `raced` one
scheduled over its removal, until it is stopped. `Ask` is one step for the instant
a request is admitted at and its reading of the row a moment later: a run
committed between the two makes a request older than a run, as one after `Ask` does.

### AuditLedger

A writer is a transaction that changes an audited row: its trigger takes the
advisory lock and draws the end of the chain (`Draw`), the entry becomes visible at
`Commit`, and the lock lasts until then. A digest stands for all it is computed
from. The walk (`check_ledger`) reads a chunk per transaction and carries the last
digest and the published head it was handed. The anchor job is outside the install:
it reads the head in one step, asks whether the head it published last is still
there (`Check`), and commits the new one (`Publish`); a question that is not answered
is no finding (`CheckUnanswered`), and a run that fails before its push leaves nothing,
no finding either (`FailRun`). Restores and edits are the environment's
(`Disturb`), at any step of all this. `lost` are the published heads whose entry a
restore or an edit took: each stays in it until its entry is back or a run reports
that very head, so that what a run reported once excuses nothing later;
`unanswered` are those another head was published over without an answer, each until
it is published again.

### Approvals

`Raise` is a suspension, with the hash of the reach it was raised at. `Decide` is one
transaction under the row's lock, at the instant of the person's admission, which
may be any time before; for a two-person action the first yes is an endorsement.
A pass of the worker lists the oldest of what was approved (`List`), turns to one at
a time, reads the asker's reach, the agent's standing and the connector's key each
by itself (`Turn`, `ReadStanding`, `Judge`), claims the operation's record (`Claim`) and
wins it (`Win`), which is when it is sent. `was` is what held at some instant since
the worker turned to the request: the four readings need never have held together,
and the property says no more than the code can. Of `SideEffects` only the claim and
the win are here, because a death between the two is what matters.

### Erasure

A drain takes the oldest open request under its lock, judges the holds as of the
instant the *drain* began, finds the person's conversations, erases store by store
in savepoints, removes the session keys and refresh tokens, which are outside the
database and leave at once, and records the outcome with the commit (`Finish`). An
error of one store is put back to its savepoint and reported; any other exception,
a death (`Fail`) or a cut transaction (`Cut`, met at the next statement) leaves the
request open. Meanwhile the person goes on writing (`Use`) and their agents sending
(`Issue`), a hold is placed or lifted, time passes. What a person has is one piece
for each store, and the two outside.

`ErasurePromise` keeps the outcome of each request and what each person has. One
request about a person is open at a time and its end is final; what is in the
database leaves in the step that ends a request, all at once, and none of it where
the answer is that it was held; what is beside the database leaves while a request
is open, or where a drain whose transaction was cut has not met that yet (`Astray`);
and the record of what was sent never leaves.

## The runs

Twelve, each with a mutant of a mapped definition for each property, under which TLC
finds that property violated.

| Run | Instance | Question |
|---|---|---|
| `side_effects_live` | two callers, one intent, two keys (one readable), one sweep, one crash, `GraceHolds` | Is there one request per key, does every answer land, and does the whole implement `OncePromise`? Does a readable operation settle? |
| `side_effects_slow` | two callers with different intents, two sweeps, one key, two crashes, calls that outlast the grace | What still holds when the timing assumption does not: is a settled record true, and what a caller is told? |
| `schedule_faults` | a ticking process and a queued job, one destructive control that persons pause, release, ask for; a crash, a stop, a cut | Does the whole implement `RunPromise`? Is no ask swallowed? |
| `schedule_live` | two processes, one control that hangs, one that does not, a crash | Does the second go on being run, and never twice unasked but by a stale read? |
| `outbox_long` | one delivery, three attempts, two workers, two faults, one switch, a refused address, a replay | Does the whole implement `DeliveryPromise`? Is the ledger never more than an attempt ahead? |
| `outbox_live` | one worker, a batch of two, one fault | Is every delivery settled, and every known acceptance recorded, with nothing sent after it? |
| `queue_live` | a safe and an unsafe job, two workers, a death, a pause, an ask for each | Does the whole implement `JobPromise`, are two workers in a job only where it lapsed, is an ask spent once, and does every job and every ask end? |
| `automations_console` | one automation, two processes, an owner and two persons with authority, two changes at any moment, two schedules, a death | Is each slot run once and in the right name; do stops, removals and pauses for failing hold? |
| `automations_halts` | one automation and its owner, two administrators, three presses of three targets, a death | Is nothing run under a halt, is a halt ended only by a later restart, and what is due dealt with? |
| `audit` | two writers, chunks of two, three rows, two restores or edits, runs that fail, an unanswered question | Do appends make one chain, is a walk's word true, is each lost head reported, after an earlier loss too? |
| `approvals` | two requests, one of them for two people, three people, two passes of one each, a change and a fault | Is a request granted and run as it must be (`ApprovalPromise`), on what is so, and not left waiting? |
| `erasure` | two requests about one person, a hold, three stores with an executor, one of which keeps its rows, a write, two faults | Does the whole implement `ErasurePromise`, does a report say what is so, does a hold keep, is every request finished? |

**Bounds.** The bounds on faults are constants in the guards of the fault
actions (`MaxCrashes`, `MaxStops`, `MaxCuts`, `MaxFaults`, `MaxSwitches`,
`MaxDeaths`, `MaxPauses`, `MaxAsks`). One fault at any step already reaches every
place a process can leave half done; a second, where the run has two, strikes
the one that cleans up. Two callers, workers or sweeps show every race in the
code, which is always between one that read and one that wrote since; one key or
control is enough where nothing relates two, and the runs have two where
something does (a batch whose rows commit together, a hung control beside a
healthy one, a safe job beside an unsafe one, a two-person request beside a plain
one in passes that take one). Three attempts have a first, a
middle and a last. `MAX_REDRIVES` is 1 where the code has 3, and the interval 2
steps: the code compares a count with the cap and an age with the interval and
does nothing else with either. `schedule_live` allows no stop and no cut: each
frees the lock of a hung control, and a second process then hangs in it too;
with two processes none would be left.

Some instances are smaller than the code deserves. The automations runs hold one
automation, so the order of a batch is not exercised there; two do not finish in
the time a run may take. The erasure run has one process, so that two drains at one
request after a cut are seen by the proofs and not by TLC. In `audit` a chunk has
two rows of at most three, which has a full last chunk, a part-filled one, and an
append between chunks; of its two restores or edits a walk begins after or meets
one (`MaxFaultsWalked`), and the second, with no walk under way, is there for the anchor
job: a loss after one that was reported. The stores of the erasure run all have an
executor, and a store is refused there by a fault; a person nothing was sent for is
`erased`, one with a record of a send `incomplete`. A store without an executor is the
other case of `RefuseStore`, which makes every erasure incomplete; it is in the proofs.

**Fairness.** Liveness is claimed under weak fairness of what the code keeps
doing: time passes; a process in the middle of a call goes on, because every call
has a timeout (`webhook_delivery.py`, `queue.py:_bounded`); a worker fetches; the
schedule starts its controls again every tick, the runner of the automations, the
passes over approved actions and the drain among them; a held up loop goes on. Strong
fairness is used once, for a connector that is asked again by every sweep and
answers in the end: it may fail to say any number of times. Nothing has to
crash, nobody has to press anything, and the body of a hung control never
returns.

**Deadlock** is checked in the side-effect, schedule and queue runs. In the others a
behaviour may come to rest with every delivery, request or press dealt with and every
bound used.

**Type invariants.** Each module has one (`TypeOK`); none is in a run, because the
theorem `TypeCorrect` of each proofs module shows it for every instance.

## What is proved

For any numbers of processes, keys, controls, deliveries, jobs, attempts, automations,
administrators, writers, rows, requests, people, holds and stores and any bounds on
faults, TLAPS checks:

| Module | Theorem | States |
|---|---|---|
| `SideEffectsProofs` | `AtMostOnce` | at most one request leaves under a key, and one caller at a time owns a `sent` record |
| | `RecordsAreTrue` | succeeded is true, and failed is true where the grace outlasts a call |
| | `SendsFromSent` | a request leaves only while its record says `sent` (under the grace) |
| | `ImplementsThePromise` | `GraceHolds => (Spec => OncePromise)`, by refinement |
| | `AnswersLand` | no answer finds its record settled by a sweep (under the grace), with any number of sweeps |
| | `CallersAreToldTheTruth` | what a caller is told is so and stays so |
| `ScheduleProofs` | `OneRun` | one run of a control at a time, but for threads adrift |
| | `ImplementsThePromise` | `Spec => RunPromise`, by refinement |
| | `SecondRunsAreStale` | a second run inside the interval, unasked, is of a process that read before the first was recorded |
| | `RequestsAreKept` | a request is served only by a run that set out after it |
| `OutboxProofs` | `OneHand` | two hands on a delivery only after a cut |
| | `DeliveredIsTrue` | delivered means accepted |
| | `ImplementsThePromise` | `Spec => DeliveryPromise`, by refinement |
| | `EachAttemptOnce` | so each attempt is an intent of `OncePromise`, whether or not the grace outlasts a call |
| | `OneKeyAhead` | the ledger is at most one attempt ahead of the row |
| | `AcceptanceIsFinal` | nothing is issued after an acceptance, unless adrift |
| `JobQueueProofs` | `ImplementsThePromise` | `Spec => JobPromise`, by refinement |
| | `UnsafeJobsWait` | an unsafe job begins again only for a person's ask |
| | `AliveMeansAlone` | two workers in one job only after it was taken for left behind with its worker alive |
| | `TheCapHolds` | the sweep puts a job back at most `MaxRedrives` times |
| | `AsksAreSpent` | an ask puts a job back once, and once more only for a death before its answer |
| `AutomationsProofs` | `RunsAreRecordedWhenOwed` | a run is recorded once, for a slot owed as its row was claimed, in the name of that moment's owner |
| | `HaltsAreKept` | nothing is run under a halt from before the process turned to it |
| | `OldRestartsEndNothing` | a halt is ended only by a restart asked for after it |
| | `StopsAreKept` | only a person schedules what was stopped |
| | `SlotsRecurLate` | a slot recurs only by a start older than its run |
| | `RemovedIsFinalButForARace` | a removed automation is scheduled only where the removal was committed under a start's statement |
| | `FailuresPause` | what failed too often in a row is scheduled only by a start older than one of those failures |
| `AuditLedgerProofs` | `AppendsChain` | without a fault the ledger is one chain, and a drawn place is free |
| | `NoAlarmIsFalse` | a walk of an untouched ledger reports it whole and anchored |
| | `WalksAreWhole` | a walk nothing was done under misses no entry and owns up to a head it did not find |
| | `AnchorsVouch` | a head that was found vouches for the chain it was published of, through any faults |
| | `LossesAreFound` | each lost head, the first or a later one, is reported before another is published over it, unless the last question about that head went unanswered |
| `ApprovalsProofs` | `TwoOthersDid` | an action that needs two is approved by two, neither of whom it runs as |
| | `RunsStandOnWhatIsSo` | an action is sent only on what held since its worker turned to it |
| | `PromiseKept` | `Spec => ApprovalPromise`, by refinement |
| `ErasureProofs` | `ImplementsThePromise` | `Spec => ErasurePromise`, by refinement |
| | `KeysSpent` | what was sent for a person is sent once |
| | `HoldsKeep` | nothing is lost under a hold that stood as the request was taken, one placed after the drain began apart |
| | `ReportsAreSo` | what a finished request says of a store is so |
| all eight | `TypeCorrect` | the types |

They assume the named `ASSUME`s of each module and nothing more: the names of
absent things are not names of things, bounds are naturals, intervals are
positive. TLC evaluates the same assumptions in every run.

The arguments, each an inductive invariant split by concern:

* *SideEffects*: `HeldInv` says what a process holds between two statements,
  `IssueInv` that a key nobody won has had no request and a won one has one
  holder, `TruthInv` that an answer in hand is what happened, `GraceInv` that
  under the grace nobody is in a call on a record the sweep looks at. The last
  is why `RequestsLeaveFromSent`, the refinement and `AnswersLand` need `GraceHolds`:
  whoever holds an answer holds it of a record that still says `sent`
  (`HolderIsSent`), which no number of sweeps changes. What a caller
  read or was told cannot become untrue (`ToldInv`), with or without it.
* *Schedule*: a process in a run holds the control's lock unless it is adrift
  (`HoldInv`), and one adrift holds none until its thread ends (`DriftInv`). The first
  is why a run begins alone, the second why its commit says that it was. A
  control a process still intends to run was owed when read, and only another's commit
  makes it not (`OwedInv`).
* *Outbox*: `HoldInv` ties a live dispatch's copy to the committed row; `DoneInv`
  says what the uncommitted copy of an attempted row may be, given the ledger;
  `LedgerInv` relates committed row and ledger, and is what a rollback returns
  to. None of the three is inductive without the other two. The refinement adds that
  a record nobody won has sent nothing and that a caller has sent exactly when it is in
  the call (`SentInv`), which gives `OncePromise` its one request; that an attempt is
  never behind an earlier one follows from how far ledger and row can be apart.
* *JobQueue*: what the sweep decided about a job still holds when it moves it,
  for every job that has not lapsed (`HandInv`): nothing but the sweep takes a
  failed job, or a running one with nobody in it, anywhere else. For unsafe jobs
  a job that waits counts as begun once more (`BegunInv`), which makes the
  property inductive without any condition on timing. An ask in a sweep's hand has
  been spent or not, and only a death between forgets which (`InHandInv`). The
  refinement adds that whatever is asked for, in hand or being put back has been shown
  (`SeenInv`), and that a job the sweep set aside stays stopped until the sweep moves it.
* *Automations*: what a process holds of a claimed row is the row, because every
  write to it waits for the lock (`Locked`); a slot that was run is behind the next
  one, unless a request was `behind` that run and then written. For the halts:
  an act asked for before another is never the latest after it. Failures are counted
  from the newest start, and a request that is not `behind` a run is newer than every
  failure on record (`FailInv`), so that it begins a new count.
* *AuditLedger*: a place that was drawn is the end of the chain until its transaction
  ends. The walk's invariants say that the digest it carries is that of the newest
  entry behind it and that nothing is left behind it; that a chain behind an equal
  digest is the same chain is shown without induction over data, by taking the least
  number at which two would differ. That each loss is found needs only that a lost head
is not there (`LostInv`): the run that asks about it then calls it gone, or has no
answer, and no other run publishes.
* *Approvals*: a decided row is never decided again, so that what a worker has listed
  stays approved (`LedgerInv`); a record is won only from pending, so that it is sent
  once; what a worker found out was so when it read it, and what is so of the
  request in its hand now has been so since it turned to it (`RunsInv`).
* *Erasure*: a drain whose transaction lives is the only one with its request
  (`HandInv`), its holds are those of its instant (`HoldInv`), what was there as it began
  and has not been written since is still there or was removed by it (`OldInv`), and
  session keys are found because a retired conversation is still read (`SessionInv`).
  The refinement needs the first two and that a cut is of a drain that still has a
  request (`CutInv`): what it does after it, it does astray.

**Abstract specifications.** Six of the eight components have one, and TLC checks the
refinement on the instances above before the proof shows it for all (`SideEffects`
under `GraceHolds`; the others without a condition). Each says what the component
promises in the words of the tables it writes, and where it promises less: `loose`,
`mistaken`, `adrift` and `astray` mark what a cut transaction or a silent worker takes
out of its hands, per delivery, job, process or request, and not for the whole system
from then on. What these specifications say is safety only; where a promise is that
something happens, it is a property of a run. The automations and the audit ledger
have none: what matters of them relates steps of several actors to one another and
not states that could be kept by themselves, and is stated as properties.

**Checked by TLC only.** The liveness properties (`ReadableOperationsSettle`,
`OwedControlsAreRun`, `PendingIsSettled`, `AcceptedIsRecorded`,
`StoppedJobsAreSettled`, `AsksAreAnswered`, `DueIsSettled`, `RunnableIsSentOrLost`,
`FiledIsFinished`): liveness is out of the prover's reach. Every safety property of
every run is a theorem.

**Proved and not in a run.** `TypeOK` of each module, `RequestsLeaveFromSent`,
`OneCallerPerSentRecord`, `OneHandUntilACut`, `DeliveredMeansAccepted`,
`OneRunUnlessAdrift`, `UnsafeRunsAreAsked`, `RedrivesAreCapped`, `KeysStaySpent` and
`TwoOthersAgreed`. Most of these follow from a promise that a run checks.

## Observations

Places where the code does something its own text does not say, or which a reader of
the code might not expect. The models follow the code, and the properties above are
stated so that they hold of it: each "unless" in them is one of these. Such a case is
therefore not caught by the property that excepts it, which shows that nothing *else*
goes wrong in its place: so with a call that outlasts the grace (`GraceHolds`), a
replay onto a spent key, a switch-off over an acceptance that was lost, an unanswered
question about a head, a claim without a win, and work starved by a full list.

* *Schedule.* A process that dies in a control's body leaves no trace: the start is in
  the transaction that is rolled back, so the row `stalled_runs` would read does not
  exist (`ops/schedule_store.py:22`, `:107`; `ops/worker.py:1308`). A worker told to
  stop gives up a control's lock while its thread is still in the body
  (`ops/worker.py:1629`), against "the lock is held for the whole run".
* *Outbox.* A delivery that used every attempt is replayed at the key of its last
  attempt, which the ledger has, so nothing is sent (`ops/outbox_store.py:744`,
  against `:125`). A delivery accepted in a transaction that was lost, whose
  subscriber is then switched off, is parked as never sent (`ops/outbox_store.py:546`).
* *Queue.* A job put back for a person by a sweep that died before it answered, and
  failed again by the next minute, is put back again for the same ask
  (`ops/redrive_control.py:340`, against `:17` and `:328`): the deaths in
  `AsksPutBackOnce`. `KEEP_FAILED_SQL` gives `re_driven_too_often` to a safe job that
  failed by itself each time; a sweep that dies between setting a job aside and
  keeping it makes the next one write `attempts_exhausted` for one that was
  quarantined; a job that lapsed can be put back once more than the cap.
* *Automations.* A slot is run again where a start was asked for before a run and
  written after it (`ops/automation_run_store.py:423`, `:97`). A removal that commits
  under a start's statement is not in its snapshot, so the removed automation is
  scheduled (`:697`). Automations held by a halt stay due at the head of the list and
  may fill the batch of 20, so that others wait until it is lifted (`:139`). A stop
  asked for before a restart and written after it is answered, though nothing is in
  force; a restart can lift a later halt of the same target than the one it was shown.
* *Audit.* After a question that was not answered the new head is committed over the
  old (`.github/workflows/anchor.yml:170`, `:225`), and what was lost before is then
  never asked about; a finding commits the new head as well. A head published of an
  empty ledger is never checked.
* *Approvals.* A worker that dies between the claim and the win leaves a pending
  record, which no pass lists and no sweep reads (`ops/recovery_run.py:142`): the
  approved action is dropped (`lost` in `RunnableIsSentOrLost`). Refused actions stay on
  the list until they lapse, and enough of them keep later ones off it
  (`0201_approved_runs.py:84`). Reach, standing, key and clock are read at four
  instants. The pass does not ask the halts. A person may approve their own request
  where one person is enough. Taking over or amending a request ends it as a rejection
  does.
* *Erasure.* Holds are judged as of the instant the drain began, so a hold placed
  before the request is taken and after that instant does not stop it; and "held,
  nothing touched" may follow an attempt that removed session keys and tokens before
  it was cut short. An exception that recurs on the oldest request keeps every later
  one waiting. The cache, index and object stores have no executor, so that every
  erasure ends as incomplete today.

## What is not modelled

Inside the modelled parts: key construction and canonical form, signing, address
rules, the size of delays and jitter (due or not due is all the model has), wording
of reports, times of day in the schedule (`AtTime`), per-class routing to
databases, the probes and the staff trial in the same loop, queue shards and
traffic classes, enqueueing, the page limits of the dead letters (500) and of the
asks, cancelling, registering subscribers and rotating their secrets; what an
automation does in its run, its budget, trials, installing and events; what each
audit trigger records, redaction, reading, and the second chain of elevations; the
stages of the leash, the blocking wait in a chat and knowledge promotions; the tables
within a store, report-only erasures, workers without a cache or a vault (which leave
session keys or tokens where they are), and the retention sweep.

The rest of the system is listed in the table above and in `PROJECT.json` with its
reason. The mapped lines are a small share of the repository, and would stay so: most
of its 640,000 lines are adapters to vendors, request handlers that validate, render
or forward, the console, acceptance checks, migrations and tests. Such code has no
state of its own between two statements: what it does is parsing, formatting and one
call to a store. The models cover the code where processes meet.

## Plan

Done: the side-effect ledger, the schedule, the outbox, the queue, the audit ledger,
halts and automations, approvals, erasure, each with its proofs, and every safety
property of every run among them. Left, most important
first:

1. `Reach`: scopes and entitlements as sets, intersection with a ceiling and
   delegation against a reference definition. Theorem: no operation widens.
2. `Elevation`: approval against lapse, and its own audit chain.
3. `Admission`: reserves and shedding. Theorem: a reserve is never lent.
4. `Leases`: renewals against the derived ceiling.
5. `WorkflowRun`: order, retries, checkpoints, resume.
6. Retention and backup: the sweep under a hold and a release; a restore and what has
   to be erased again after it.
7. An abstract specification of the automations' slots, if one is found that says
   more than the properties do.
8. The queue's sweep beside an adrift one: what each has read is then moved by the
   other, so that `JobPromise` will need `mistaken` for those jobs as well.
9. Larger instances: two automations of two agents under one halt, two drains.
