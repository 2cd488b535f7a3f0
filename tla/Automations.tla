---------------------------- MODULE Automations -----------------------------
(***************************************************************************)
(* The automations of an install: the runner of                            *)
(* `brain.ops.automation_run_store`, which runs what is due a batch at a   *)
(* time, and the changes persons make meanwhile, from an agent's page      *)
(* (start and stop) and from the automations screen (pause, resume, change *)
(* the schedule, remove, adopt).  The halts of module Halt refuse runs.    *)
(*                                                                         *)
(* Due times are slots of a coarse clock; the instants requests and ticks  *)
(* carry, which order a person's changes and count failures, come from     *)
(* `stamp`.  A run's transaction and a change's are split where another    *)
(* process may come between.                                               *)
(***************************************************************************)
EXTENDS Halt, FiniteSets

CONSTANTS
    Automations,    \* numbered in the order of their ids
    AgentOf,        \* the agent each is installed on
    People,         \* owners, and the persons at the console
    Holders,        \* of them, those with authority over the automations
    FirstOwner,     \* the person each automation was installed for
    Everything,     \* the target that stops all work
    Cadences,       \* periods of schedules, in slots
    FirstCadence,   \* the one automations come with
    Processes,      \* that run the control: one, unless a transaction was cut
    Batch,          \* RUN_BATCH
    PauseAfter,     \* PAUSE_AFTER
    NoRequest, NoOne, NoWork,
    MaxTime, MaxFaults  \* bounds on a behaviour

ASSUME AutomationsAssumption ==
    /\ Automations \subseteq Nat /\ IsFiniteSet(Automations)
    /\ FirstOwner \in [Automations -> People]
    /\ Holders \subseteq People /\ NoOne \notin People /\ NoWork \notin Automations
    /\ Cadences \subseteq Nat \ {0} /\ FirstCadence \in Cadences
    /\ Batch \in Nat \ {0} /\ PauseAfter \in Nat \ {0}
    /\ MaxTime \in Nat /\ MaxFaults \in Nat

VARIABLES
    now,        \* the current slot
    next,       \* next_run_at, 0 where it is null
    owner, ownedAt,         \* the newest adoption, and when it was asked for
    cadence, cadencedAt,    \* the newest schedule, and when
    removed,    \* automations with a removal
    startedAt,  \* the newest start or resume, by when it was asked for
    ran,        \* slots with a row in agent.automation_run
    failedAt,   \* its failures since the newest other outcome, by slot and instant
    at,         \* where each process of the runner is
    tick, tickAt,           \* the slot its pass began in, the newest request by then
    todo,       \* what it listed and has not turned to
    hand,       \* the automation it turned to
    seen,       \* the targets it read as halted
    runsAs,     \* the owner it claimed the row for
    admitted,   \* whether that owner and the agent were fit
    asking,     \* where the request of each person is
    req,        \* what it asks for, and what was on the screen
    sawRemoved, \* whether the statement that starts or stops it saw a removal
    faults,
    standing,   \* halts in force since each process turned to its automation
    behind,     \* requests older than a run of their automation
    overtaken,  \* automations scheduled by one, until they are stopped or started in time
    raced       \* automations removed under a start's statement, until stopped again

rowVars     == <<next, owner, ownedAt, cadence, cadencedAt, removed, startedAt>>
runVars     == <<ran, failedAt>>
processVars == <<at, tick, tickAt, todo, hand, seen, runsAs, admitted, standing>>
askVars     == <<asking, req, sawRemoved>>
ghostVars   == <<behind, overtaken, raced>>
vars == <<haltVars, rowVars, runVars, now, processVars, askVars, ghostVars, faults>>

\* Each automation has been started: an installed one waits for a first start.
Init ==
    /\ HaltInit
    /\ now = 0
    /\ next = [a \in Automations |-> FirstCadence]
    /\ owner = FirstOwner /\ ownedAt = [a \in Automations |-> 0]
    /\ cadence = [a \in Automations |-> FirstCadence]
    /\ cadencedAt = [a \in Automations |-> 0]
    /\ removed = {}
    /\ startedAt = [a \in Automations |-> 0]
    /\ ran = [a \in Automations |-> {}] /\ failedAt = [a \in Automations |-> {}]
    /\ at = [w \in Processes |-> "idle"]
    /\ tick = [w \in Processes |-> 0] /\ tickAt = [w \in Processes |-> 0]
    /\ todo = [w \in Processes |-> {}]
    /\ hand = [w \in Processes |-> NoWork]
    /\ seen = [w \in Processes |-> {}] /\ standing = [w \in Processes |-> {}]
    /\ runsAs = [w \in Processes |-> NoOne]
    /\ admitted = [w \in Processes |-> FALSE]
    /\ asking = [p \in People |-> "nothing"]
    /\ req = [p \in People |-> NoRequest]
    /\ sawRemoved = [p \in People |-> FALSE]
    /\ faults = 0
    /\ behind = {} /\ overtaken = {} /\ raced = {}

-----------------------------------------------------------------------------
(* The rules both sides share.                                             *)

\* Mutant: an instant on a slot is its own next run.
NextRunOrNow(c, t) == ((t + c - 1) \div c) * c

\* next_run_after: the first slot of the schedule after an instant.
NextRun(c, t) == (t \div c + 1) * c

Due(a, t) == next[a] # 0 /\ next[a] <= t /\ a \notin removed

Before(a, b) == next[a] < next[b] \/ (next[a] = next[b] /\ a < b)

\* The targets whose halt covers a run of an automation.
Work(a) == {Everything, AgentOf[a], owner[a]}

\* The row is locked from a run's claim to its commit.
Locked(a) == \E w \in Processes : at[w] = "running" /\ hand[w] = a

\* failures_in_a_row, of the runs since the automation was last started.
\* A pass carries the instant of the newest request before it, hence the >=.
FailuresInARow(a) == Cardinality({f \in failedAt[a] : f.at >= startedAt[a]})

-----------------------------------------------------------------------------
(* run_automations and run_one.                                            *)

\* Mutant: the list is of those with an earlier run, as by an inner join.
OwedAgain(t) ==
    LET due == {a \in Automations : Due(a, t) /\ ran[a] # {}}
    IN {s \in SUBSET due : Cardinality(s) = IF Cardinality(due) < Batch THEN Cardinality(due) ELSE Batch}

\* owed_ids: the oldest due, and no more than a batch of them.
Owed(t) ==
    LET due == {a \in Automations : Due(a, t)}
    IN {s \in SUBSET due : /\ Cardinality(s) = IF Cardinality(due) < Batch THEN Cardinality(due) ELSE Batch
                           /\ \A a \in s, b \in due \ s : Before(a, b)}

StartPass(w) ==
    /\ at[w] = "idle"
    /\ at' = [at EXCEPT ![w] = "passing"]
    /\ tick' = [tick EXCEPT ![w] = now]
    /\ tickAt' = [tickAt EXCEPT ![w] = stamp]
    /\ \E s \in Owed(now) : s # {} /\ todo' = [todo EXCEPT ![w] = s]
    /\ UNCHANGED <<haltVars, rowVars, runVars, now, hand, seen, runsAs, admitted, standing, askVars, ghostVars, faults>>

\* The pass takes its list in order; any order is allowed here.
TurnTo(w, a) ==
    /\ at[w] = "passing" /\ a \in todo[w]
    /\ at' = [at EXCEPT ![w] = "asking"]
    /\ todo' = [todo EXCEPT ![w] = @ \ {a}]
    /\ hand' = [hand EXCEPT ![w] = a]
    /\ standing' = [standing EXCEPT ![w] = InForce]
    /\ UNCHANGED <<haltVars, rowVars, runVars, now, tick, tickAt, seen, runsAs, admitted, askVars, ghostVars, faults>>

\* read_state, in a session of its own: what cannot be read is all halted.
ReadHalts(w) ==
    /\ at[w] = "asking"
    /\ at' = [at EXCEPT ![w] = "claiming"]
    /\ \/ seen' = [seen EXCEPT ![w] = InForce] /\ UNCHANGED faults
       \/ /\ faults < MaxFaults /\ faults' = faults + 1
          /\ seen' = [seen EXCEPT ![w] = Targets]
    /\ UNCHANGED <<haltVars, rowVars, runVars, now, tick, tickAt, todo, hand, runsAs, admitted, standing, askVars, ghostVars>>

\* The process is done with what it has in hand, and is where it goes next.
PutDown(w, place) ==
    /\ at' = [at EXCEPT ![w] = place]
    /\ hand' = [hand EXCEPT ![w] = NoWork]
    /\ seen' = [seen EXCEPT ![w] = {}] /\ standing' = [standing EXCEPT ![w] = {}]
    /\ runsAs' = [runsAs EXCEPT ![w] = NoOne] /\ admitted' = [admitted EXCEPT ![w] = FALSE]

\* The claim finds no row: it is no longer due, or another process has it.
Skip(w) ==
    /\ at[w] = "claiming"
    /\ ~Due(hand[w], tick[w]) \/ Locked(hand[w])
    /\ PutDown(w, "passing")
    /\ UNCHANGED <<haltVars, rowVars, runVars, now, tick, tickAt, todo, askVars, ghostVars, faults>>

\* A halt covers it: it stays due, and nothing is written.
Hold(w) ==
    /\ at[w] = "claiming"
    /\ Due(hand[w], tick[w]) /\ ~Locked(hand[w])
    /\ Work(hand[w]) \intersect seen[w] # {}
    /\ PutDown(w, "passing")
    /\ UNCHANGED <<haltVars, rowVars, runVars, now, tick, tickAt, todo, askVars, ghostVars, faults>>

\* Mutant: the claim takes what was listed as due for due.
ClaimWhatWasListed(w) ==
    /\ at[w] = "claiming"
    /\ ~Locked(hand[w]) /\ next[hand[w]] # 0
    /\ Work(hand[w]) \intersect seen[w] = {}
    /\ at' = [at EXCEPT ![w] = "running"]
    /\ runsAs' = [runsAs EXCEPT ![w] = owner[hand[w]]]
    /\ \E fit \in BOOLEAN : admitted' = [admitted EXCEPT ![w] = fit]
    /\ UNCHANGED <<haltVars, rowVars, runVars, now, tick, tickAt, todo, hand, seen, standing, askVars, ghostVars, faults>>

\* Mutant: halts of the agent and the person are not asked about.
ClaimUnderABroadHaltOnly(w) ==
    /\ at[w] = "claiming"
    /\ Due(hand[w], tick[w]) /\ ~Locked(hand[w])
    /\ Everything \notin seen[w]
    /\ at' = [at EXCEPT ![w] = "running"]
    /\ runsAs' = [runsAs EXCEPT ![w] = owner[hand[w]]]
    /\ \E fit \in BOOLEAN : admitted' = [admitted EXCEPT ![w] = fit]
    /\ UNCHANGED <<haltVars, rowVars, runVars, now, tick, tickAt, todo, hand, seen, standing, askVars, ghostVars, faults>>

\* claim, the owner of that moment, and admitted_run.  Whether that owner is
\* live, the agent there and the task in reach may change at any time, so each
\* reading of them may come out either way.
Claim(w) ==
    /\ at[w] = "claiming"
    /\ Due(hand[w], tick[w]) /\ ~Locked(hand[w])
    /\ Work(hand[w]) \intersect seen[w] = {}
    /\ at' = [at EXCEPT ![w] = "running"]
    /\ runsAs' = [runsAs EXCEPT ![w] = owner[hand[w]]]
    /\ \E fit \in BOOLEAN : admitted' = [admitted EXCEPT ![w] = fit]
    /\ UNCHANGED <<haltVars, rowVars, runVars, now, tick, tickAt, todo, hand, seen, standing, askVars, ghostVars, faults>>

\* Mutant: the failure that is one too many is not counted itself.
NextAfterUncounted(w, outcome) ==
    LET a == hand[w] IN
    IF outcome = "refused" \/ (outcome = "failed" /\ FailuresInARow(a) >= PauseAfter)
    THEN 0 ELSE NextRun(cadence[a], tick[w])

\* afterwards: no next run after a refusal or the failure that is one too many.
NextAfter(w, outcome) ==
    LET a == hand[w] IN
    IF outcome = "refused" \/ (outcome = "failed" /\ FailuresInARow(a) + 1 >= PauseAfter)
    THEN 0 ELSE NextRun(cadence[a], tick[w])

Outcomes(w) == IF admitted[w] THEN {"succeeded", "failed"} ELSE {"refused"}

\* The run's row, the reschedule and the commit; a slot already recorded
\* writes nothing and leaves the automation as it was.
Record(w, outcome) ==
    LET a == hand[w] IN
    /\ at[w] = "running" /\ outcome \in Outcomes(w)
    /\ PutDown(w, "passing")
    /\ IF next[a] \in ran[a]
       THEN UNCHANGED <<next, runVars, behind>>
       ELSE /\ ran' = [ran EXCEPT ![a] = @ \union {next[a]}]
            /\ failedAt' = [failedAt EXCEPT ![a] =
                  IF outcome = "failed" THEN @ \union {[slot |-> next[a], at |-> tickAt[w]]}
                                          ELSE {f \in @ : f.at > tickAt[w]}]
            /\ next' = [next EXCEPT ![a] = NextAfter(w, outcome)]
            /\ behind' = behind \union {p \in People : asking[p] # "nothing" /\ req[p].auto = a}
    /\ UNCHANGED <<haltVars, owner, ownedAt, cadence, cadencedAt, removed, startedAt, now, tick, tickAt, todo, askVars, overtaken, raced, faults>>

EndPass(w) ==
    /\ at[w] = "passing" /\ todo[w] = {}
    /\ at' = [at EXCEPT ![w] = "idle"]
    /\ tick' = [tick EXCEPT ![w] = 0] /\ tickAt' = [tickAt EXCEPT ![w] = 0]
    /\ UNCHANGED <<haltVars, rowVars, runVars, now, todo, hand, seen, runsAs, admitted, standing, askVars, ghostVars, faults>>

\* The process dies, or a statement raises: the lock goes, nothing is written.
Die(w) ==
    /\ at[w] # "idle"
    /\ faults < MaxFaults /\ faults' = faults + 1
    /\ PutDown(w, "idle")
    /\ tick' = [tick EXCEPT ![w] = 0] /\ tickAt' = [tickAt EXCEPT ![w] = 0]
    /\ todo' = [todo EXCEPT ![w] = {}]
    /\ UNCHANGED <<haltVars, rowVars, runVars, now, askVars, ghostVars>>

-----------------------------------------------------------------------------
(* What persons change.                                                    *)

Starts == {"start", "resumed"}
FromThePage == {"start", "stop"}
Kinds == {"start", "stop", "paused", "resumed", "rescheduled", "removed", "adopted"}

\* may_start, may_stop, may_pause, may_resume, may_reschedule, may_remove,
\* may_adopt, of an automation that is on the screen.  The owner may be found
\* live or not, as in Claim.
May(p, a, kind) ==
    /\ a \notin removed
    /\ CASE kind \in Starts -> next[a] = 0 /\ p \in Holders /\ p # owner[a]
         [] kind \in {"stop", "paused"} -> next[a] # 0 /\ (p \in Holders \/ p = owner[a])
         [] kind \in {"rescheduled", "adopted"} -> p \in Holders /\ p # owner[a]
         [] kind = "removed" -> p \in Holders \/ p = owner[a]

\* The next run a change leaves, reckoned when it is asked for.
Becomes(a, kind, c) ==
    CASE kind \in Starts -> NextRun(cadence[a], now)
      [] kind = "rescheduled" /\ next[a] # 0 -> NextRun(c, now)
      [] OTHER -> 0

Shown(a) == [owner |-> owner[a], cadence |-> cadence[a], next |-> next[a]]

Ask(p, a, kind, c) ==
    /\ asking[p] = "nothing"
    /\ May(p, a, kind)
    /\ kind # "rescheduled" => c = cadence[a]
    /\ TakeStamp
    /\ asking' = [asking EXCEPT ![p] = "asked"]
    /\ req' = [req EXCEPT ![p] = [auto |-> a, kind |-> kind, cadence |-> c, at |-> stamp + 1,
                                  becomes |-> Becomes(a, kind, c), shown |-> Shown(a)]]
    /\ UNCHANGED <<acts, pressVars, rowVars, runVars, now, processVars, sawRemoved, ghostVars, faults>>

Answered(p) ==
    /\ asking' = [asking EXCEPT ![p] = "nothing"]
    /\ req' = [req EXCEPT ![p] = NoRequest]
    /\ sawRemoved' = [sawRemoved EXCEPT ![p] = FALSE]
    /\ behind' = behind \ {p}

Refuse(p) ==
    /\ Answered(p)
    /\ UNCHANGED <<haltVars, rowVars, runVars, now, processVars, overtaken, raced, faults>>

\* A request from an agent's page begins its statement, whose look at the
\* removals is of that moment.
BeginMoving(p) ==
    /\ asking[p] = "asked" /\ req[p].kind \in FromThePage
    /\ asking' = [asking EXCEPT ![p] = "moving"]
    /\ sawRemoved' = [sawRemoved EXCEPT ![p] = req[p].auto \in removed]
    /\ UNCHANGED <<haltVars, rowVars, runVars, now, processVars, req, ghostVars, faults>>

Later(x, y) == IF x > y THEN x ELSE y

\* What a start and a resume leave, whichever way they came.
Started(p) ==
    LET r == req[p] IN
    /\ startedAt' = IF r.kind \in Starts
                    THEN [startedAt EXCEPT ![r.auto] = Later(@, r.at)] ELSE startedAt
    /\ overtaken' = IF p \in behind /\ r.becomes # 0 THEN overtaken \union {r.auto}
                    ELSE IF r.kind \in Starts \/ r.becomes = 0 THEN overtaken \ {r.auto}
                    ELSE overtaken

\* What a statement that saw no removal leaves of one that was committed under it.
Races(p) ==
    LET r == req[p] IN
    raced' = IF r.auto \in removed /\ r.becomes # 0 THEN raced \union {r.auto} ELSE raced \ {r.auto}

\* Mutant: the statement does not ask about removals.
MoveWhatWasRemoved(p) ==
    /\ asking[p] = "moving" /\ ~Locked(req[p].auto)
    /\ next[req[p].auto] = req[p].shown.next
    /\ next' = [next EXCEPT ![req[p].auto] = req[p].becomes]
    /\ Started(p)
    /\ IF sawRemoved[p] THEN UNCHANGED raced ELSE Races(p)
    /\ Answered(p)
    /\ UNCHANGED <<haltVars, owner, ownedAt, cadence, cadencedAt, removed, runVars, now, processVars, faults>>

\* Mutant: the statement does not wait for a run to end.
MoveUnderARun(p) ==
    /\ asking[p] = "moving"
    /\ next[req[p].auto] = req[p].shown.next /\ ~sawRemoved[p]
    /\ next' = [next EXCEPT ![req[p].auto] = req[p].becomes]
    /\ Started(p)
    /\ Races(p)
    /\ Answered(p)
    /\ UNCHANGED <<haltVars, owner, ownedAt, cadence, cadencedAt, removed, runVars, now, processVars, faults>>

\* moving: the next run is still the one shown, and no removal was seen.
Move(p) ==
    /\ asking[p] = "moving" /\ ~Locked(req[p].auto)
    /\ next[req[p].auto] = req[p].shown.next /\ ~sawRemoved[p]
    /\ next' = [next EXCEPT ![req[p].auto] = req[p].becomes]
    /\ Started(p)
    /\ Races(p)
    /\ Answered(p)
    /\ UNCHANGED <<haltVars, owner, ownedAt, cadence, cadencedAt, removed, runVars, now, processVars, faults>>

MoveRefused(p) ==
    /\ asking[p] = "moving" /\ ~Locked(req[p].auto)
    /\ next[req[p].auto] # req[p].shown.next \/ sawRemoved[p]
    /\ Refuse(p)

\* apply: the row is locked, and all that was shown is still so.  The newest
\* adoption and the newest schedule are the newest by when they were asked for.
Apply(p) ==
    LET r == req[p] IN
    /\ asking[p] = "asked" /\ r.kind \notin FromThePage /\ ~Locked(r.auto)
    /\ Shown(r.auto) = r.shown /\ r.auto \notin removed
    /\ next' = [next EXCEPT ![r.auto] = r.becomes]
    /\ Started(p)
    /\ IF r.kind = "adopted" /\ r.at > ownedAt[r.auto]
       THEN owner' = [owner EXCEPT ![r.auto] = p] /\ ownedAt' = [ownedAt EXCEPT ![r.auto] = r.at]
       ELSE UNCHANGED <<owner, ownedAt>>
    /\ IF r.kind = "rescheduled" /\ r.at > cadencedAt[r.auto]
       THEN cadence' = [cadence EXCEPT ![r.auto] = r.cadence] /\ cadencedAt' = [cadencedAt EXCEPT ![r.auto] = r.at]
       ELSE UNCHANGED <<cadence, cadencedAt>>
    /\ removed' = IF r.kind = "removed" THEN removed \union {r.auto} ELSE removed
    /\ Answered(p)
    /\ UNCHANGED <<haltVars, runVars, now, processVars, raced, faults>>

ApplyRefused(p) ==
    /\ asking[p] = "asked" /\ req[p].kind \notin FromThePage /\ ~Locked(req[p].auto)
    /\ Shown(req[p].auto) # req[p].shown \/ req[p].auto \in removed
    /\ Refuse(p)

\* The request's process dies before its transaction commits.
GiveUp(p) == asking[p] # "nothing" /\ Refuse(p)

-----------------------------------------------------------------------------

Pass ==
    /\ now < MaxTime /\ now' = now + 1
    /\ UNCHANGED <<haltVars, rowVars, runVars, processVars, askVars, ghostVars, faults>>

\* An administrator's step, and what it leaves standing.
Halting ==
    /\ HaltNext
    /\ standing' = [w \in Processes |-> standing[w] \intersect InForce']
    /\ UNCHANGED <<rowVars, runVars, now, at, tick, tickAt, todo, hand, seen, runsAs, admitted, askVars, ghostVars, faults>>

ProcessStep(w) ==
    \/ StartPass(w) \/ ReadHalts(w) \/ Skip(w) \/ Hold(w) \/ Claim(w) \/ EndPass(w)
    \/ \E a \in Automations : TurnTo(w, a)
    \/ \E outcome \in {"succeeded", "failed", "refused"} : Record(w, outcome)

PersonStep(p) ==
    \/ \E a \in Automations, kind \in Kinds, c \in Cadences : Ask(p, a, kind, c)
    \/ BeginMoving(p) \/ Move(p) \/ MoveRefused(p) \/ Apply(p) \/ ApplyRefused(p) \/ GiveUp(p)

Next ==
    \/ \E w \in Processes : ProcessStep(w) \/ Die(w)
    \/ \E p \in People : PersonStep(p)
    \/ Pass
    \/ Halting

Spec == Init /\ [][Next]_vars

\* The schedule starts the control every minute, and a pass goes on.
FairSpec == Spec /\ \A w \in Processes : WF_vars(ProcessStep(w))

-----------------------------------------------------------------------------
(* Properties.                                                             *)

Requests ==
    [auto : Automations, kind : Kinds, cadence : Cadences, at : Nat, becomes : Nat,
     shown : [owner : People, cadence : Cadences, next : Nat]]

TypeOK ==
    /\ HaltTypeOK
    /\ now \in Nat /\ faults \in Nat
    /\ next \in [Automations -> Nat]
    /\ owner \in [Automations -> People] /\ ownedAt \in [Automations -> Nat]
    /\ cadence \in [Automations -> Cadences] /\ cadencedAt \in [Automations -> Nat]
    /\ startedAt \in [Automations -> Nat]
    /\ removed \subseteq Automations
    /\ ran \in [Automations -> SUBSET Nat]
    /\ failedAt \in [Automations -> SUBSET [slot : Nat, at : Nat]]
    /\ at \in [Processes -> {"idle", "passing", "asking", "claiming", "running"}]
    /\ tick \in [Processes -> Nat] /\ tickAt \in [Processes -> Nat]
    /\ todo \in [Processes -> SUBSET Automations]
    /\ hand \in [Processes -> Automations \union {NoWork}]
    /\ \A w \in Processes : at[w] \notin {"idle", "passing"} => hand[w] \in Automations
    /\ seen \in [Processes -> SUBSET Targets] /\ standing \in [Processes -> SUBSET Targets]
    /\ runsAs \in [Processes -> People \union {NoOne}] /\ admitted \in [Processes -> BOOLEAN]
    /\ asking \in [People -> {"nothing", "asked", "moving"}]
    /\ req \in [People -> Requests \union {NoRequest}]
    /\ \A p \in People : asking[p] # "nothing" => req[p] \in Requests
    /\ sawRemoved \in [People -> BOOLEAN]
    /\ behind \subseteq People
    /\ overtaken \subseteq Automations /\ raced \subseteq Automations

\* A run is recorded once for its slot, of an automation scheduled for it then
\* and not removed, no sooner than the slot, and in the name of whoever owns it
\* at that moment, whatever was listed, changed or adopted during the pass.
RunsAreOwed ==
    [][\A a \in Automations : ran'[a] # ran[a] =>
          /\ next[a] \notin ran[a] /\ ran'[a] = ran[a] \union {next[a]}
          /\ next[a] <= now /\ a \notin removed
          /\ \E w \in Processes : /\ at[w] = "running" /\ hand[w] = a
                                  /\ tick[w] >= next[a] /\ runsAs[w] = owner[a]]_vars

\* What was stopped stays so until a person's start or resume: no run under way
\* writes a next run over a stop.
StopsHold ==
    [][\A a \in Automations : next[a] = 0 /\ next'[a] # 0 =>
          \E p \in People : /\ asking[p] # "nothing" /\ asking'[p] = "nothing"
                            /\ req[p].auto = a /\ req[p].kind \in Starts]_vars

\* A halt that stood from before a process turned to an automation until it
\* recorded the run covers nothing of that run.
HeldWorkIsNotRun ==
    [][\A w \in Processes : at[w] = "running" /\ ran' # ran /\ at'[w] # "running" =>
          Work(hand[w]) \intersect standing[w] = {}]_vars

\* An automation is scheduled for a slot later than all it ran, unless it was
\* scheduled by a request asked for before one of those runs, and neither stopped
\* nor started in time since.
SlotsOnlyRecurByLateStarts ==
    \A a \in Automations \ overtaken : next[a] # 0 => \A s \in ran[a] : s < next[a]

\* A removed automation is scheduled only by a start whose statement was under
\* way when the removal was committed.
RemovedIsScheduledOnlyByARace ==
    \A a \in removed : next[a] # 0 => a \in raced

\* An automation that failed too often in a row is not scheduled, unless by a
\* request asked for before one of its runs, and neither stopped nor started in
\* time since.
FailingIsPaused ==
    \A a \in Automations \ overtaken : next[a] # 0 => FailuresInARow(a) < PauseAfter

\* An automation that is due is run, put off or stopped, or a halt covers it.
DueIsSettled ==
    \A a \in Automations :
        Due(a, now) ~> (~Due(a, now) \/ Work(a) \intersect InForce # {} \/ a \in overtaken)

=============================================================================
