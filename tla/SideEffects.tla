---------------------------- MODULE SideEffects ----------------------------
(***************************************************************************)
(* The operation ledger of `brain.ops.idempotency`: how one side effect is *)
(* issued at most once by workers that crash, and how the recovery sweep   *)
(* of `brain.ops.recovery_run` finds out what became of an operation whose *)
(* worker never wrote the answer down.                                     *)
(*                                                                         *)
(* A worker is one call of issue_once; a sweeper is one process running    *)
(* resume_side_effects.  Every ledger statement commits by itself (the     *)
(* ledger refuses a connection that is not autocommit), so each is a step. *)
(* The connected system is the environment: it may act on a request at any *)
(* time after it left, or never, and it does not lie about having acted.   *)
(***************************************************************************)
EXTENDS Naturals, FiniteSets

CONSTANTS
    Keys,           \* idempotency keys
    NoKey,          \* what a worker or a sweeper with no key in hand holds
    Intents,        \* (connector, tool, principal, intent_ref): what a key is claimed for
    NoIntent,       \* the intent of a key no record holds
    Workers,        \* callers of issue_once
    Sweepers,       \* processes that may run resume_side_effects
    ReadableKeys,   \* keys whose connector declares a read-back
    GraceHolds,     \* TRUE: a record older than the grace has no call still in the air
    MaxCrashes      \* bound on the crashes of a behaviour

ASSUME GraceAssumption == GraceHolds \in BOOLEAN
ASSUME CrashAssumption == MaxCrashes \in Nat
ASSUME ReadableAssumption == ReadableKeys \subseteq Keys
ASSUME AbsenceAssumption == NoIntent \notin Intents /\ NoKey \notin Keys

OperationState == {"pending", "sent", "unknown", "verifying", "succeeded", "failed"}
Terminal == {"succeeded", "failed"}

AllowedTransitions ==
    [pending   |-> {"sent", "failed"},
     sent      |-> {"succeeded", "failed", "unknown"},
     unknown   |-> {"verifying"},
     verifying |-> {"succeeded", "failed", "unknown"},
     succeeded |-> {},
     failed    |-> {}]

\* What a call that returned means.  A truncated answer raises instead.
StateAfterCall ==
    [ok |-> "succeeded", rejected |-> "failed", quota |-> "failed", unavailable |-> "unknown"]

\* Mutant: an operation being asked about is reported as done.
ResumePlanOptimistic ==
    [pending |-> "issue", sent |-> "verify", unknown |-> "verify", verifying |-> "done",
     succeeded |-> "done", failed |-> "stop"]

\* What a caller that was not the one to issue is told.
ResumePlan ==
    [pending |-> "issue", sent |-> "verify", unknown |-> "verify", verifying |-> "verify",
     succeeded |-> "done", failed |-> "stop"]

\* Mutant: a sweep that died while asking leaves a row no sweep reads.
UnsettledWithoutVerifying == {"sent", "unknown"}

Unsettled == {"sent", "unknown", "verifying"}

VARIABLES
    ledger,     \* the state under each key, "none" where no record exists
    intent,     \* the intent each record was claimed for
    old,        \* records whose updated_at is before now - grace
    requests,   \* how many requests have left for the connected system, per key
    fate,       \* what became of the request
    pc, key, stored, landed, result,          \* one issue_once call per worker
    spc, seen, row, learnt,                   \* one resume sweep per sweeper
    crashes

ledgerVars == <<ledger, intent, old>>
sourceVars == <<requests, fate>>
workerVars == <<pc, key, stored, landed, result>>
sweepVars  == <<spc, seen, row, learnt>>
vars == <<ledgerVars, sourceVars, workerVars, sweepVars, crashes>>

-----------------------------------------------------------------------------

NoRows == [k \in Keys |-> "none"]

Init ==
    /\ ledger = [k \in Keys |-> "none"]
    /\ intent = [k \in Keys |-> NoIntent]
    /\ old = {}
    /\ requests = [k \in Keys |-> 0]
    /\ fate = [k \in Keys |-> "unsent"]
    /\ pc = [w \in Workers |-> "idle"]
    /\ key = [w \in Workers |-> NoKey]
    /\ stored = [w \in Workers |-> "none"]
    /\ landed = [w \in Workers |-> "none"]
    /\ result = [w \in Workers |-> "none"]
    /\ spc = [s \in Sweepers |-> "idle"]
    /\ seen = [s \in Sweepers |-> NoRows]
    /\ row = [s \in Sweepers |-> NoKey]
    /\ learnt = [s \in Sweepers |-> "none"]
    /\ crashes = 0

\* The conditional update every move of a record is: from exactly frm, along
\* the machine, with updated_at reset.
CanSettle(k, frm, to) == to \in AllowedTransitions[frm] /\ ledger[k] = frm
Move(k, to) ==
    /\ ledger' = [ledger EXCEPT ![k] = to]
    /\ old' = old \ {k}

\* A record's updated_at falls behind now - grace.  Under GraceHolds the
\* call has been answered and its request has met its fate by then.
InTheAir(k) ==
    \/ fate[k] = "travelling"
    \/ \E w \in Workers : key[w] = k /\ pc[w] \in {"won", "calling", "answered", "raising"}

Age(k) ==
    /\ ledger[k] \in Unsettled
    /\ k \notin old
    /\ GraceHolds => ~InTheAir(k)
    /\ old' = old \union {k}
    /\ UNCHANGED <<ledger, intent, sourceVars, workerVars, sweepVars, crashes>>

-----------------------------------------------------------------------------
(* issue_once, by worker w.                                                *)

\* The call returns r to its caller, or raises it.
Return(w, r) ==
    /\ pc' = [pc EXCEPT ![w] = "idle"]
    /\ stored' = [stored EXCEPT ![w] = "none"]
    /\ landed' = [landed EXCEPT ![w] = "none"]
    /\ result' = [result EXCEPT ![w] = r]

\* ledger.claim: insert the record if its key is new, answer what it holds.
ClaimNew(w, k, i) ==
    /\ pc[w] = "idle"
    /\ ledger[k] = "none"
    /\ ledger' = [ledger EXCEPT ![k] = "pending"]
    /\ intent' = [intent EXCEPT ![k] = i]
    /\ pc' = [pc EXCEPT ![w] = "claimed"]
    /\ key' = [key EXCEPT ![w] = k]
    /\ stored' = [stored EXCEPT ![w] = "pending"]
    /\ result' = [result EXCEPT ![w] = "none"]
    /\ UNCHANGED <<old, sourceVars, landed, sweepVars, crashes>>

ClaimHeld(w, k, i) ==
    /\ pc[w] = "idle"
    /\ ledger[k] # "none"
    /\ intent[k] = i
    /\ pc' = [pc EXCEPT ![w] = "claimed"]
    /\ key' = [key EXCEPT ![w] = k]
    /\ stored' = [stored EXCEPT ![w] = ledger[k]]
    /\ result' = [result EXCEPT ![w] = "none"]
    /\ UNCHANGED <<ledgerVars, sourceVars, landed, sweepVars, crashes>>

\* A key that holds another intent is refused and nothing is issued under it.
ClaimRefused(w, k, i) ==
    /\ pc[w] = "idle"
    /\ ledger[k] # "none"
    /\ intent[k] # i
    /\ key' = [key EXCEPT ![w] = k]
    /\ Return(w, "refused")
    /\ UNCHANGED <<ledgerVars, sourceVars, sweepVars, crashes>>

\* Mutant: the update that wins is not conditional on pending.
WinAnyway(w) ==
    /\ pc[w] = "claimed"
    /\ Move(key[w], "sent")
    /\ pc' = [pc EXCEPT ![w] = "won"]
    /\ UNCHANGED <<intent, sourceVars, key, stored, landed, result, sweepVars, crashes>>

\* ledger.win: pending to sent for exactly one caller.
Win(w) ==
    /\ pc[w] = "claimed"
    /\ ledger[key[w]] = "pending"
    /\ Move(key[w], "sent")
    /\ pc' = [pc EXCEPT ![w] = "won"]
    /\ UNCHANGED <<intent, sourceVars, key, stored, landed, result, sweepVars, crashes>>

\* The record had already moved when this caller first read it.
Lose(w) ==
    /\ pc[w] = "claimed"
    /\ ledger[key[w]] # "pending"
    /\ stored[w] # "pending"
    /\ Return(w, ResumePlan[stored[w]])
    /\ UNCHANGED <<ledgerVars, sourceVars, key, sweepVars, crashes>>

\* It moved since: what was read is stale, so it is claimed again and the
\* caller reports what the record holds now.
LoseTheRace(w) ==
    /\ pc[w] = "claimed"
    /\ ledger[key[w]] # "pending"
    /\ stored[w] = "pending"
    /\ pc' = [pc EXCEPT ![w] = "lost"]
    /\ UNCHANGED <<ledgerVars, sourceVars, key, stored, landed, result, sweepVars, crashes>>

Reclaim(w) ==
    /\ pc[w] = "lost"
    /\ Return(w, ResumePlan[ledger[key[w]]])
    /\ UNCHANGED <<ledgerVars, sourceVars, key, sweepVars, crashes>>

\* The effect sends its request, or raises before it does.
Send(w) ==
    /\ pc[w] = "won"
    /\ requests' = [requests EXCEPT ![key[w]] = @ + 1]
    /\ fate' = [fate EXCEPT ![key[w]] = "travelling"]
    /\ pc' = [pc EXCEPT ![w] = "calling"]
    /\ UNCHANGED <<ledgerVars, key, stored, landed, result, sweepVars, crashes>>

\* The effect returns.  An ok was acted on and a refusal was not; no answer
\* says nothing about either.
Answer(w, outcome) ==
    /\ pc[w] = "calling"
    /\ outcome = "ok" => fate[key[w]] = "applied"
    /\ outcome \in {"rejected", "quota"} => fate[key[w]] # "applied"
    /\ fate' = IF outcome \in {"rejected", "quota"}
               THEN [fate EXCEPT ![key[w]] = "lost"] ELSE fate
    /\ landed' = [landed EXCEPT ![w] = StateAfterCall[outcome]]
    /\ pc' = [pc EXCEPT ![w] = "answered"]
    /\ UNCHANGED <<ledgerVars, requests, key, stored, result, sweepVars, crashes>>

\* The effect raises, or its answer was cut short and state_after_call does.
Raise(w) ==
    /\ pc[w] \in {"won", "calling"}
    /\ landed' = [landed EXCEPT ![w] = "unknown"]
    /\ pc' = [pc EXCEPT ![w] = "raising"]
    /\ UNCHANGED <<ledgerVars, sourceVars, key, stored, result, sweepVars, crashes>>

\* ledger.settle from sent.
Settle(w) ==
    /\ pc[w] \in {"answered", "raising"}
    /\ CanSettle(key[w], "sent", landed[w])
    /\ Move(key[w], landed[w])
    /\ Return(w, IF pc[w] = "answered" THEN "issued" ELSE "raised")
    /\ UNCHANGED <<intent, sourceVars, key, sweepVars, crashes>>

\* Something else moved the record first: that is raised to the caller, which
\* is told nothing about what its call did.
Overtaken(w) ==
    /\ pc[w] \in {"answered", "raising"}
    /\ ~CanSettle(key[w], "sent", landed[w])
    /\ Return(w, "overtaken")
    /\ UNCHANGED <<ledgerVars, sourceVars, key, sweepVars, crashes>>

\* The process dies: what it held in memory is gone, what it wrote stays.
CrashWorker(w) ==
    /\ pc[w] # "idle"
    /\ crashes < MaxCrashes
    /\ crashes' = crashes + 1
    /\ key' = [key EXCEPT ![w] = NoKey]
    /\ Return(w, "none")
    /\ UNCHANGED <<ledgerVars, sourceVars, sweepVars>>

-----------------------------------------------------------------------------
(* The connected system.                                                   *)

Apply(k) ==
    /\ fate[k] = "travelling"
    /\ fate' = [fate EXCEPT ![k] = "applied"]
    /\ UNCHANGED <<ledgerVars, requests, workerVars, sweepVars, crashes>>

Drop(k) ==
    /\ fate[k] = "travelling"
    /\ fate' = [fate EXCEPT ![k] = "lost"]
    /\ UNCHANGED <<ledgerVars, requests, workerVars, sweepVars, crashes>>

-----------------------------------------------------------------------------
(* resume_side_effects, by sweeper s.                                      *)

\* Mutant: the sweep reads rows a live worker may still be holding.
SweepableAtOnce == {k \in Keys : ledger[k] \in Unsettled}

\* records.unsettled(now - grace): one read, whose rows the sweep then walks.
Sweepable == {k \in old : ledger[k] \in Unsettled}
Snapshot == [k \in Keys |-> IF k \in Sweepable THEN ledger[k] ELSE "none"]

StartSweep(s) ==
    /\ spc[s] = "idle"
    /\ Sweepable # {}
    /\ spc' = [spc EXCEPT ![s] = "next"]
    /\ seen' = [seen EXCEPT ![s] = Snapshot]
    /\ UNCHANGED <<ledgerVars, sourceVars, workerVars, row, learnt, crashes>>

\* The next row, in the state the sweep's read found it in.
TakeRow(s, k) ==
    /\ spc[s] = "next"
    /\ seen[s][k] # "none"
    /\ row' = [row EXCEPT ![s] = k]
    /\ spc' = [spc EXCEPT ![s] = seen[s][k]]
    /\ seen' = [seen EXCEPT ![s][k] = "none"]
    /\ UNCHANGED <<ledgerVars, sourceVars, workerVars, learnt, crashes>>

RowDone(s) ==
    /\ row' = [row EXCEPT ![s] = NoKey]
    /\ learnt' = [learnt EXCEPT ![s] = "none"]
    /\ spc' = [spc EXCEPT ![s] = IF seen[s] = NoRows THEN "idle" ELSE "next"]
    /\ UNCHANGED seen

\* The sweep stops where it is, the rows it has not come to forgotten.
SweepEnds(s) ==
    /\ row' = [row EXCEPT ![s] = NoKey]
    /\ learnt' = [learnt EXCEPT ![s] = "none"]
    /\ spc' = [spc EXCEPT ![s] = "idle"]
    /\ seen' = [seen EXCEPT ![s] = NoRows]

\* records.settle on the row in hand, in its own transaction.
SweepMoves(s, frm, to) ==
    /\ CanSettle(row[s], frm, to)
    /\ Move(row[s], to)
    /\ UNCHANGED <<intent, sourceVars, workerVars, crashes>>

Goto(s, p) == spc' = [spc EXCEPT ![s] = p] /\ UNCHANGED <<seen, row, learnt>>

\* resume: a record found sent is an unknown nobody has recognised yet.
Recognise(s) ==
    /\ spc[s] = "sent"
    /\ SweepMoves(s, "sent", "unknown")
    /\ Goto(s, "unknown")

\* The connector cannot be asked, so the row waits for a person.
LeaveForAPerson(s) ==
    /\ spc[s] \in {"unknown", "verifying"}
    /\ row[s] \notin ReadableKeys
    /\ RowDone(s)
    /\ UNCHANGED <<ledgerVars, sourceVars, workerVars, crashes>>

BeginVerifying(s) ==
    /\ spc[s] = "unknown"
    /\ row[s] \in ReadableKeys
    /\ SweepMoves(s, "unknown", "verifying")
    /\ Goto(s, "verifying")

\* Mutant: a request still on its way is taken to have arrived.
ReadBackTooEarly(s) ==
    /\ spc[s] = "verifying"
    /\ row[s] \in ReadableKeys
    /\ learnt' = [learnt EXCEPT ![s] =
                    IF fate[row[s]] \in {"travelling", "applied"} THEN "succeeded" ELSE "failed"]
    /\ spc' = [spc EXCEPT ![s] = "asked"]
    /\ UNCHANGED <<ledgerVars, sourceVars, workerVars, seen, row, crashes>>

\* Mutant: a connector that could not say is read as one that said no.
ReadBackSilenceIsAbsence(s) ==
    /\ spc[s] = "verifying"
    /\ row[s] \in ReadableKeys
    /\ learnt' = [learnt EXCEPT ![s] = "failed"]
    /\ spc' = [spc EXCEPT ![s] = "asked"]
    /\ UNCHANGED <<ledgerVars, sourceVars, workerVars, seen, row, crashes>>

\* verify_once: what the connected system says it has, when it can say.  An
\* inconclusive answer and a read-back that raises both leave the row unknown.
ReadBackAnswers(s) ==
    /\ spc[s] = "verifying"
    /\ row[s] \in ReadableKeys
    /\ learnt' = [learnt EXCEPT ![s] = IF fate[row[s]] = "applied" THEN "succeeded" ELSE "failed"]
    /\ spc' = [spc EXCEPT ![s] = "asked"]
    /\ UNCHANGED <<ledgerVars, sourceVars, workerVars, seen, row, crashes>>

ReadBackCannotSay(s) ==
    /\ spc[s] = "verifying"
    /\ row[s] \in ReadableKeys
    /\ learnt' = [learnt EXCEPT ![s] = "unknown"]
    /\ spc' = [spc EXCEPT ![s] = "asked"]
    /\ UNCHANGED <<ledgerVars, sourceVars, workerVars, seen, row, crashes>>

RecordAnswer(s) ==
    /\ spc[s] = "asked"
    /\ SweepMoves(s, "verifying", learnt[s])
    /\ RowDone(s)

\* records.settle raises where something else moved the row first: nothing
\* catches it, so the rows after this one are not looked at in this sweep.
MoveRefused(s) ==
    /\ \/ spc[s] = "sent" /\ ~CanSettle(row[s], "sent", "unknown")
       \/ spc[s] = "unknown" /\ row[s] \in ReadableKeys
                             /\ ~CanSettle(row[s], "unknown", "verifying")
       \/ spc[s] = "asked" /\ ~CanSettle(row[s], "verifying", learnt[s])
    /\ SweepEnds(s)
    /\ UNCHANGED <<ledgerVars, sourceVars, workerVars, crashes>>

CrashSweeper(s) ==
    /\ spc[s] # "idle"
    /\ crashes < MaxCrashes
    /\ crashes' = crashes + 1
    /\ SweepEnds(s)
    /\ UNCHANGED <<ledgerVars, sourceVars, workerVars>>

-----------------------------------------------------------------------------

Caller(w) ==
    \/ Win(w) \/ Lose(w) \/ LoseTheRace(w) \/ Reclaim(w)
    \/ Send(w) \/ Raise(w) \/ Settle(w) \/ Overtaken(w)
    \/ \E outcome \in DOMAIN StateAfterCall : Answer(w, outcome)

WorkerStep(w) ==
    \/ \E k \in Keys, i \in Intents : ClaimNew(w, k, i) \/ ClaimHeld(w, k, i) \/ ClaimRefused(w, k, i)
    \/ Caller(w)
    \/ CrashWorker(w)

SweepStep(s) ==
    \/ StartSweep(s)
    \/ \E k \in Keys : TakeRow(s, k)
    \/ Recognise(s) \/ LeaveForAPerson(s) \/ BeginVerifying(s)
    \/ ReadBackAnswers(s) \/ ReadBackCannotSay(s) \/ RecordAnswer(s) \/ MoveRefused(s)

SourceStep(k) == Apply(k) \/ Drop(k)

Next ==
    \/ \E w \in Workers : WorkerStep(w)
    \/ \E s \in Sweepers : SweepStep(s) \/ CrashSweeper(s)
    \/ \E k \in Keys : Age(k) \/ SourceStep(k)

Spec == Init /\ [][Next]_vars

\* Time passes, a request meets its fate, a live call goes on, the scheduled
\* sweep keeps being run, and a connector asked again and again answers in the
\* end.  Nobody is obliged to make a call, and nothing is obliged to crash.
Fairness ==
    /\ \A k \in Keys : WF_vars(Age(k)) /\ WF_vars(SourceStep(k))
    /\ \A w \in Workers : WF_vars(Caller(w))
    /\ \A s \in Sweepers : WF_vars(SweepStep(s)) /\ SF_vars(ReadBackAnswers(s))

FairSpec == Spec /\ Fairness

-----------------------------------------------------------------------------
(* Properties.                                                             *)

TypeOK ==
    /\ ledger \in [Keys -> OperationState \union {"none"}]
    /\ intent \in [Keys -> Intents \union {NoIntent}]
    /\ old \subseteq Keys
    /\ requests \in [Keys -> Nat]
    /\ fate \in [Keys -> {"unsent", "travelling", "applied", "lost"}]
    /\ pc \in [Workers -> {"idle", "claimed", "lost", "won", "calling", "answered", "raising"}]
    /\ key \in [Workers -> Keys \union {NoKey}]
    /\ stored \in [Workers -> OperationState \union {"none"}]
    /\ landed \in [Workers -> {"none", "succeeded", "failed", "unknown"}]
    /\ result \in [Workers -> {"none", "refused", "issued", "raised", "overtaken",
                               "issue", "verify", "done", "stop"}]
    /\ spc \in [Sweepers -> {"idle", "next", "sent", "unknown", "verifying", "asked"}]
    /\ seen \in [Sweepers -> [Keys -> Unsettled \union {"none"}]]
    /\ row \in [Sweepers -> Keys \union {NoKey}]
    /\ learnt \in [Sweepers -> {"none", "succeeded", "failed", "unknown"}]
    /\ crashes \in Nat

\* No interleaving of callers, crashes, restarts and recovery sweeps sends a
\* second request under one key (issue_once, PostgresOperationLedger.win).
AtMostOneRequest == \A k \in Keys : requests[k] <= 1

\* A record the ledger calls settled is right: succeeded means the connected
\* system acted, failed means it did not and never will.  The second half
\* needs the grace to outlast a call, which nothing in the ledger enforces.
SettledRecordIsTrue ==
    \A k \in Keys :
        /\ ledger[k] = "succeeded" => fate[k] = "applied"
        /\ GraceHolds /\ ledger[k] = "failed" => fate[k] \in {"unsent", "lost"}

\* What a caller is told is so and stays so while sweeps move its record: "done"
\* says that the connected system acted, "issued" that one request has left, and
\* nobody who did not issue is told that it may: between losing the race and
\* reporting, issue_once reads the record again.
AnswersAreBacked ==
    \A w \in Workers :
        /\ result[w] = "done" => fate[key[w]] = "applied"
        /\ result[w] = "issued" => requests[key[w]] = 1
        /\ result[w] # "issue"

\* While a record says sent, exactly the request of the caller that won it can
\* be outstanding: nobody else is between winning and settling the same key.
OneCallerPerSentRecord ==
    \A v, w \in Workers :
        /\ {pc[v], pc[w]} \subseteq {"won", "calling", "answered", "raising"}
        /\ key[v] = key[w]
        => v = w

\* Where the grace outlasts a call, no caller's answer is overtaken by a sweep:
\* its settle lands, however many processes sweep at once (a lock cut under its
\* thread leaves two), and whatever rows their reads were taken from.
NoAnswerIsOvertaken == \A w \in Workers : result[w] # "overtaken"

\* A request leaves only while its record says sent, so nothing that recovery
\* does to an unknown, verifying or settled record can be followed by one.
RequestsLeaveFromSent ==
    [][\A k \in Keys : GraceHolds /\ requests'[k] # requests[k] => ledger[k] = "sent"]_vars

\* Seen through the request and the verdict alone this is OncePromise: one
\* request per key, and one verdict, which is the truth (GraceHolds).
Promise == INSTANCE OncePromise WITH
    request <- fate,
    verdict <- [k \in Keys |-> IF ledger[k] \in Terminal THEN ledger[k] ELSE "open"]

KeepsThePromise == Promise!PSpec

\* Every operation a connector can be asked about is settled in the end,
\* whatever its worker did, once crashes stop.
ReadableOperationsSettle ==
    \A k \in ReadableKeys : ledger[k] \in Unsettled ~> ledger[k] \in Terminal

=============================================================================
