------------------------------- MODULE Outbox -------------------------------
(***************************************************************************)
(* Webhook deliveries: `brain.ops.outbox` and `brain.ops.outbox_store`.    *)
(*                                                                         *)
(* A worker's dispatch is one transaction over a whole batch: it locks the *)
(* rows it claims, attempts each, and commits what became of all of them   *)
(* at the end.  Every request leaves through the operation ledger, on a    *)
(* connection of its own that commits every statement, under a key naming  *)
(* the delivery and the attempt.  So the ledger runs ahead of the rows,    *)
(* and a batch that is rolled back finds its own records there next time.  *)
(*                                                                         *)
(* The ledger is the one of module SideEffects: here a record is a cell    *)
(* op[d][n], winning it and settling it are one step each, and pending is  *)
(* folded into none because it gives its next caller the same chance.      *)
(***************************************************************************)
EXTENDS Naturals, FiniteSets

CONSTANTS
    Deliveries,     \* one per event and subscriber
    NoDelivery,
    Workers,        \* processes that run the control outbox_dispatch
    NoWorker,
    Refusable,      \* deliveries whose address or signing secret may be found wanting
    MaxAttempts,    \* MAX_DELIVERY_ATTEMPTS
    Batch,          \* DISPATCH_BATCH
    GraceHolds,     \* TRUE: no request is in the air when the sweep reaches its record
    MaxFaults,      \* bound on crashes, cut transactions and exceptions
    MaxSwitches     \* bound on subscribers being switched off

ASSUME AttemptsAssumption == MaxAttempts \in Nat \ {0}
ASSUME BatchAssumption == Batch \in Nat \ {0}
ASSUME GraceAssumption == GraceHolds \in BOOLEAN
ASSUME BoundAssumption == MaxFaults \in Nat /\ MaxSwitches \in Nat
ASSUME RefusableAssumption == Refusable \subseteq Deliveries
ASSUME AbsenceAssumption == NoDelivery \notin Deliveries /\ NoWorker \notin Workers

DeliveryState == {"none", "pending", "delivered", "exhausted"}
Row == [state : DeliveryState, attempts : 0..MaxAttempts]
NoRow == [state |-> "none", attempts |-> 0]
Attempts == 1..MaxAttempts

CallOutcome == {"ok", "rejected", "quota", "unavailable"}
Retryable == {"quota", "unavailable"}

\* What one attempt's outcome does to a pending row.
PlanNext(r, outcome) ==
    [state    |-> IF outcome = "ok" THEN "delivered"
                  ELSE IF outcome \in Retryable /\ r.attempts + 1 < MaxAttempts THEN "pending"
                  ELSE "exhausted",
     attempts |-> r.attempts + 1]

\* Given up before anything was sent: no attempt is counted.
Parked(r) == [r EXCEPT !.state = "exhausted"]

\* Mutant: a record somebody else wrote is read as an acceptance.
SettledHopeful(r, found) == PlanNext(r, IF found = "failed" THEN "unavailable" ELSE "ok")

\* Mutant: an attempt that was issued before is counted again, whatever it did.
SettledForgetful(r, found) == PlanNext(r, "unavailable")

\* Mutant: an attempt with no answer on record is left until it has one.
SettledWaits(r, found) == IF found = "succeeded" THEN PlanNext(r, "ok") ELSE r

\* What a worker that was not the one to issue does to the row: an operation
\* already done is a delivery made, anything else an attempt unanswered.
Settled(r, found) == PlanNext(r, IF found = "succeeded" THEN "ok" ELSE "unavailable")

\* What settles the ledger's record of a call that returned.
StateAfterCall ==
    [ok |-> "succeeded", rejected |-> "failed", quota |-> "failed", unavailable |-> "unknown"]

VARIABLES
    row,        \* ops.outbox_delivery as committed
    due,        \* rows whose due_at has passed
    active,     \* deliveries whose subscriber is switched on and takes the kind
    replayed,   \* deliveries a person put back, which the console allows once
    holder,     \* the transaction that has the row locked
    pc, todo, hand, copy, taking, cut,    \* one dispatch per worker
    op,         \* the operation ledger, by delivery and attempt
    fate,       \* what became of the request of that attempt
    adrift,     \* deliveries whose row no longer follows what the ledger holds
    faults, switches

rowVars == <<row, due, active, replayed>>
workerVars == <<pc, todo, hand, copy, taking, cut>>
ledgerVars == <<op, fate, adrift>>
vars == <<rowVars, holder, workerVars, ledgerVars, faults, switches>>

Blank == [d \in Deliveries |-> NoRow]

Init ==
    /\ row = Blank
    /\ due = {}
    /\ active = Deliveries
    /\ replayed = {}
    /\ holder = [d \in Deliveries |-> NoWorker]
    /\ pc = [w \in Workers |-> "idle"]
    /\ todo = [w \in Workers |-> {}]
    /\ hand = [w \in Workers |-> NoDelivery]
    /\ copy = [w \in Workers |-> Blank]
    /\ taking = [w \in Workers |-> {}]
    /\ cut = [w \in Workers |-> FALSE]
    /\ op = [d \in Deliveries |-> [n \in Attempts |-> "none"]]
    /\ fate = [d \in Deliveries |-> [n \in Attempts |-> "unsent"]]
    /\ adrift = {}
    /\ faults = 0
    /\ switches = 0

-----------------------------------------------------------------------------
(* The rows, from outside a dispatch.                                      *)

\* deliveries_for, in the transaction of the change the event tells of.
RecordEvent(d) ==
    /\ row[d].state = "none"
    /\ d \in active
    /\ row' = [row EXCEPT ![d] = [state |-> "pending", attempts |-> 0]]
    /\ due' = due \union {d}
    /\ UNCHANGED <<active, replayed, holder, workerVars, ledgerVars, faults, switches>>

\* The delay of a retry passes.
BecomeDue(d) ==
    /\ row[d].state = "pending"
    /\ d \notin due
    /\ due' = due \union {d}
    /\ UNCHANGED <<row, active, replayed, holder, workerVars, ledgerVars, faults, switches>>

\* Mutant: a replay starts the schedule again.
ReplayedRowFresh(r) == [state |-> "pending", attempts |-> 0]

\* One attempt left for a delivery that was sent.
ReplayedRow(r) ==
    [state |-> "pending", attempts |-> IF r.attempts > 0 THEN MaxAttempts - 1 ELSE 0]

Replay(d) ==
    /\ row[d].state = "exhausted"
    /\ d \notin replayed
    /\ row' = [row EXCEPT ![d] = ReplayedRow(row[d])]
    /\ due' = due \union {d}
    /\ replayed' = replayed \union {d}
    /\ UNCHANGED <<active, holder, workerVars, op, fate, adrift, faults, switches>>

\* deactivate_subscriber and reactivate_subscriber, as one delivery sees them.
Deactivate(d) ==
    /\ d \in active
    /\ switches < MaxSwitches
    /\ switches' = switches + 1
    /\ active' = active \ {d}
    /\ UNCHANGED <<row, due, replayed, holder, workerVars, ledgerVars, faults>>

Reactivate(d) ==
    /\ d \notin active
    /\ active' = active \union {d}
    /\ UNCHANGED <<row, due, replayed, holder, workerVars, ledgerVars, faults, switches>>

-----------------------------------------------------------------------------
(* One dispatch, by worker w.                                              *)

\* The claim skips the rows another transaction has locked.
Claimable == {d \in due : row[d].state = "pending" /\ holder[d] = NoWorker}

\* claim_due: as many due rows as the batch holds, locked, each read with its
\* subscriber as it is now.
ClaimDue(w, D) ==
    /\ pc[w] = "idle"
    /\ D # {}
    /\ D \subseteq Claimable
    /\ Cardinality(D) <= Batch
    /\ Cardinality(D) < Batch => D = Claimable
    /\ pc' = [pc EXCEPT ![w] = "next"]
    /\ todo' = [todo EXCEPT ![w] = D]
    /\ copy' = [copy EXCEPT ![w] = [d \in Deliveries |-> IF d \in D THEN row[d] ELSE NoRow]]
    /\ taking' = [taking EXCEPT ![w] = active \intersect D]
    /\ holder' = [d \in Deliveries |-> IF d \in D THEN w ELSE holder[d]]
    /\ UNCHANGED <<rowVars, hand, cut, ledgerVars, faults, switches>>

\* The transaction ends; what the process remembers of it goes.
EndBatch(w) ==
    /\ pc' = [pc EXCEPT ![w] = "idle"]
    /\ todo' = [todo EXCEPT ![w] = {}]
    /\ hand' = [hand EXCEPT ![w] = NoDelivery]
    /\ copy' = [copy EXCEPT ![w] = Blank]
    /\ taking' = [taking EXCEPT ![w] = {}]
    /\ cut' = [cut EXCEPT ![w] = FALSE]

Release(w) == holder' = [d \in Deliveries |-> IF holder[d] = w THEN NoWorker ELSE holder[d]]

\* record_attempt: the row moves in the open transaction.  Where that is gone
\* it raises, which ends the batch.
RecordAttempt(w, d, r) ==
    IF cut[w] THEN EndBatch(w) ELSE
        /\ pc' = [pc EXCEPT ![w] = "next"]
        /\ todo' = [todo EXCEPT ![w] = @ \ {d}]
        /\ hand' = [hand EXCEPT ![w] = NoDelivery]
        /\ copy' = [copy EXCEPT ![w][d] = r]
        /\ UNCHANGED <<taking, cut>>

\* The operation key of the attempt: read from the row, so that it is the same
\* after a crash of the attempt and another for the next.
Key(w, d) == copy[w][d].attempts + 1

\* The subscriber as claimed no longer takes the kind, or its address or
\* secret refuses the request.
Park(w, d) ==
    /\ pc[w] = "next"
    /\ d \in todo[w]
    /\ d \in taking[w] => d \in Refusable
    /\ RecordAttempt(w, d, Parked(copy[w][d]))
    /\ adrift' = IF op[d][Key(w, d)] = "succeeded" THEN adrift \union {d} ELSE adrift
    /\ UNCHANGED <<rowVars, holder, op, fate, faults, switches>>

\* issue_once wins the attempt's record.
Issue(w, d) ==
    /\ pc[w] = "next"
    /\ d \in todo[w] \intersect taking[w]
    /\ op[d][Key(w, d)] = "none"
    /\ op' = [op EXCEPT ![d][Key(w, d)] = "sent"]
    /\ hand' = [hand EXCEPT ![w] = d]
    /\ pc' = [pc EXCEPT ![w] = "won"]
    /\ UNCHANGED <<rowVars, holder, todo, copy, taking, cut, fate, adrift, faults, switches>>

\* It does not: the record says what became of the attempt before.
Found(w, d) ==
    /\ pc[w] = "next"
    /\ d \in todo[w] \intersect taking[w]
    /\ op[d][Key(w, d)] # "none"
    /\ RecordAttempt(w, d, Settled(copy[w][d], op[d][Key(w, d)]))
    /\ UNCHANGED <<rowVars, holder, ledgerVars, faults, switches>>

Send(w) ==
    /\ pc[w] = "won"
    /\ fate' = [fate EXCEPT ![hand[w]][Key(w, hand[w])] = "travelling"]
    /\ pc' = [pc EXCEPT ![w] = "calling"]
    /\ UNCHANGED <<rowVars, holder, todo, hand, copy, taking, cut, op, adrift, faults, switches>>

\* The subscriber answers, or the call times out: the record is settled, and
\* then the row.  A refusal says the event was not taken; no answer says nothing.
Answer(w, outcome) ==
    LET d == hand[w]  n == Key(w, hand[w]) IN
    /\ pc[w] = "calling"
    /\ op[d][n] = "sent"
    /\ outcome = "ok" => fate[d][n] = "accepted"
    /\ outcome \in {"rejected", "quota"} => fate[d][n] # "accepted"
    /\ fate' = IF outcome \in {"rejected", "quota"} THEN [fate EXCEPT ![d][n] = "lost"] ELSE fate
    /\ op' = [op EXCEPT ![d][n] = StateAfterCall[outcome]]
    /\ RecordAttempt(w, d, PlanNext(copy[w][d], outcome))
    /\ UNCHANGED <<rowVars, holder, adrift, faults, switches>>

\* The sweep moved the record first: the settle raises, and the batch with it.
Overtaken(w) ==
    /\ pc[w] = "calling"
    /\ op[hand[w]][Key(w, hand[w])] # "sent"
    /\ EndBatch(w)
    /\ Release(w)
    /\ UNCHANGED <<rowVars, ledgerVars, faults, switches>>

\* Anything else raised inside a batch (a vault that does not answer, an
\* effect that raises) rolls all of it back; issue_once leaves its record unknown.
Raise(w) ==
    /\ pc[w] # "idle"
    /\ faults < MaxFaults
    /\ faults' = faults + 1
    /\ op' = IF pc[w] # "next" /\ op[hand[w]][Key(w, hand[w])] = "sent"
             THEN [op EXCEPT ![hand[w]][Key(w, hand[w])] = "unknown"] ELSE op
    /\ EndBatch(w)
    /\ Release(w)
    /\ UNCHANGED <<rowVars, fate, adrift, switches>>

\* The batch is done: every row it held is written and let go, a retry due later.
Commit(w) ==
    /\ pc[w] = "next"
    /\ todo[w] = {}
    /\ row' = [d \in Deliveries |-> IF holder[d] = w THEN copy[w][d] ELSE row[d]]
    /\ due' = {d \in due : holder[d] # w}
    /\ EndBatch(w)
    /\ Release(w)
    /\ UNCHANGED <<active, replayed, ledgerVars, faults, switches>>

\* The server ends the transaction; the worker learns of it at its next record.
Cut(w) ==
    /\ pc[w] # "idle"
    /\ ~cut[w]
    /\ faults < MaxFaults
    /\ faults' = faults + 1
    /\ cut' = [cut EXCEPT ![w] = TRUE]
    /\ adrift' = adrift \union todo[w]
    /\ Release(w)
    /\ UNCHANGED <<rowVars, pc, todo, hand, copy, taking, op, fate, switches>>

Crash(w) ==
    /\ pc[w] # "idle"
    /\ faults < MaxFaults
    /\ faults' = faults + 1
    /\ EndBatch(w)
    /\ Release(w)
    /\ UNCHANGED <<rowVars, ledgerVars, switches>>

-----------------------------------------------------------------------------
(* The far side, and the recovery sweep.                                   *)

Arrive(d, n, end) ==
    /\ fate[d][n] = "travelling"
    /\ fate' = [fate EXCEPT ![d][n] = end]
    /\ UNCHANGED <<rowVars, holder, workerVars, op, adrift, faults, switches>>

InTheAir(d, n) ==
    \/ fate[d][n] = "travelling"
    \/ \E w \in Workers : hand[w] = d /\ Key(w, d) = n

\* resume_side_effects: a webhook has no read-back, so a record found sent
\* becomes unknown and stays so.
Sweep(d, n) ==
    /\ op[d][n] = "sent"
    /\ GraceHolds => ~InTheAir(d, n)
    /\ op' = [op EXCEPT ![d][n] = "unknown"]
    /\ UNCHANGED <<rowVars, holder, workerVars, fate, adrift, faults, switches>>

-----------------------------------------------------------------------------

Dispatch(w) ==
    \/ \E D \in SUBSET Claimable : ClaimDue(w, D)
    \/ \E d \in Deliveries : Park(w, d) \/ Issue(w, d) \/ Found(w, d)
    \/ Send(w) \/ Overtaken(w) \/ Commit(w)
    \/ \E outcome \in CallOutcome : Answer(w, outcome)

Fault(w) == Raise(w) \/ Cut(w) \/ Crash(w)

Console(d) == RecordEvent(d) \/ Replay(d) \/ Deactivate(d) \/ Reactivate(d)

World(d) ==
    \/ BecomeDue(d)
    \/ \E n \in Attempts : Sweep(d, n) \/ \E end \in {"accepted", "lost"} : Arrive(d, n, end)

Next ==
    \/ \E w \in Workers : Dispatch(w) \/ Fault(w)
    \/ \E d \in Deliveries : Console(d) \/ World(d)

Spec == Init /\ [][Next]_vars

\* Time passes, the scheduled control runs, and a dispatch that is not
\* interrupted goes on: every call in it has a timeout.
FairSpec ==
    /\ Spec
    /\ \A w \in Workers : WF_vars(Dispatch(w))
    /\ \A d \in Deliveries : WF_vars(BecomeDue(d))

-----------------------------------------------------------------------------

\* Every variable has its type, and a row that waits has an attempt left.
TypeOK ==
    /\ row \in [Deliveries -> Row]
    /\ \A d \in Deliveries : row[d].state = "pending" => row[d].attempts < MaxAttempts
    /\ due \subseteq Deliveries
    /\ active \subseteq Deliveries
    /\ replayed \subseteq Deliveries
    /\ holder \in [Deliveries -> Workers \union {NoWorker}]
    /\ pc \in [Workers -> {"idle", "next", "won", "calling"}]
    /\ todo \in [Workers -> SUBSET Deliveries]
    /\ hand \in [Workers -> Deliveries \union {NoDelivery}]
    /\ copy \in [Workers -> [Deliveries -> Row]]
    /\ taking \in [Workers -> SUBSET Deliveries]
    /\ cut \in [Workers -> BOOLEAN]
    /\ op \in [Deliveries -> [Attempts -> {"none", "sent", "unknown", "succeeded", "failed"}]]
    /\ fate \in [Deliveries -> [Attempts -> {"unsent", "travelling", "accepted", "lost"}]]
    /\ adrift \subseteq Deliveries
    /\ faults \in 0..MaxFaults
    /\ switches \in 0..MaxSwitches

\* A row says delivered only where the subscriber took the event.
DeliveredMeansAccepted ==
    \A d \in Deliveries :
        row[d].state = "delivered" => \E n \in Attempts : fate[d][n] = "accepted"

\* A delivery is in two workers' hands at once only where the transaction of
\* one of them is already gone.
OneHandUntilACut ==
    \A w, v \in Workers :
        w # v /\ todo[w] \intersect todo[v] # {} => cut[w] \/ cut[v]

\* Once the ledger holds an acceptance no later attempt is issued, through any
\* crash and rollback, unless the row was set adrift: its transaction cut, or
\* the delivery parked over an acceptance its row had not been told of.
NothingAfterAnAcceptance ==
    \A d \in Deliveries \ adrift : \A m, n \in Attempts :
        m < n /\ op[d][m] = "succeeded" => op[d][n] = "none"

\* The ledger is never more than one attempt ahead of the row, so the key an
\* interrupted attempt used is the key that finds it again.
NoKeyAheadOfTheRow ==
    \A d \in Deliveries, n \in Attempts : op[d][n] # "none" => n <= row[d].attempts + 1

\* A row's state, the request of each attempt and the verdict on it, alone.
Stages == [d \in Deliveries |-> row[d].state]
Requests ==
    [k \in Deliveries \X Attempts |->
        IF fate[k[1]][k[2]] = "accepted" THEN "applied" ELSE fate[k[1]][k[2]]]
Verdicts ==
    [k \in Deliveries \X Attempts |->
        IF op[k[1]][k[2]] \in {"succeeded", "failed"} THEN op[k[1]][k[2]] ELSE "open"]

Promise == INSTANCE DeliveryPromise WITH
    Keys <- Deliveries \X Attempts,
    request <- Requests, verdict <- Verdicts, stage <- Stages,
    reopened <- replayed, loose <- adrift

\* Seen through the rows' states, the requests and the ledger's verdicts alone
\* this is DeliveryPromise: a request of an attempt leaves once, delivered means
\* accepted and is final, one replay, and, of a delivery that is not adrift,
\* attempts in order that end with a known acceptance.
KeepsThePromise == Promise!DSpec

\* Every delivery is delivered or given up, through any bounded run of faults.
PendingIsSettled ==
    \A d \in Deliveries : row[d].state = "pending" ~> row[d].state \in {"delivered", "exhausted"}

\* What the ledger knows was accepted comes to be on the row, whoever crashed
\* in between, unless the row was set adrift.
AcceptedIsRecorded ==
    \A d \in Deliveries :
        (\E n \in Attempts : op[d][n] = "succeeded")
            ~> (row[d].state = "delivered" \/ d \in adrift)

=============================================================================
