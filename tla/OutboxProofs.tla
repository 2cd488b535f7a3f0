---------------------------- MODULE OutboxProofs ----------------------------
(***************************************************************************)
(* Proofs about Outbox for any deliveries, workers, attempts and faults.   *)
(*                                                                         *)
(* HoldInv: what a dispatch in progress has in its hands, and that it is   *)
(* what the rows say for as long as its transaction lives.                 *)
(* CallInv: the attempt a worker is making is its own on the ledger.       *)
(* DoneInv: what a dispatch has recorded in its open transaction.          *)
(* LedgerInv: how far the ledger is ahead of the rows.                     *)
(***************************************************************************)
EXTENDS Outbox, TLAPS

HoldInv ==
    /\ \A w \in Workers : pc[w] = "idle" => todo[w] = {} /\ ~cut[w]
    /\ \A w \in Workers :
          IF pc[w] \in {"won", "calling"} THEN hand[w] \in todo[w] ELSE hand[w] = NoDelivery
    /\ \A w \in Workers : \A d \in todo[w] :
          /\ copy[w][d].state = "pending"
          /\ copy[w][d].attempts < MaxAttempts
          /\ copy[w][d].attempts <= row[d].attempts /\ row[d].state # "none"
          /\ IF cut[w] THEN d \in adrift ELSE holder[d] = w /\ copy[w][d] = row[d]
    /\ \A d \in Deliveries : holder[d] \in Workers =>
          pc[holder[d]] # "idle" /\ ~cut[holder[d]] /\ row[d].state = "pending"
    /\ \A w \in Workers, d \in Deliveries : holder[d] = w =>
          /\ copy[w][d].state # "none" /\ copy[w][d].attempts >= row[d].attempts
          /\ copy[w][d].state = "pending" => copy[w][d].attempts < MaxAttempts

Calling(w, d, n) == pc[w] \in {"won", "calling"} /\ hand[w] = d /\ Key(w, d) = n

CallInv ==
    /\ \A w \in Workers, d \in Deliveries, n \in Attempts :
          Calling(w, d, n) => op[d][n] \in {"sent", "unknown"}
    /\ \A w, v \in Workers, d \in Deliveries, n \in Attempts :
          Calling(w, d, n) /\ Calling(v, d, n) => w = v
    /\ \A d \in Deliveries, n \in Attempts :
          op[d][n] = "succeeded" => fate[d][n] = "accepted"

DoneInv ==
    \A w \in Workers, d \in Deliveries : holder[d] = w /\ d \notin todo[w] =>
        LET n == row[d].attempts + 1 IN
        /\ \/ copy[w][d].attempts = n /\ op[d][n] # "none"
           \/ copy[w][d].attempts = row[d].attempts /\ copy[w][d].state = "exhausted"
        /\ copy[w][d].state # "none"
        /\ copy[w][d].state = "delivered" => op[d][n] = "succeeded" /\ copy[w][d].attempts = n
        /\ d \in adrift \/ copy[w][d].state = "delivered" \/ op[d][n] # "succeeded"

LedgerInv ==
    /\ NoKeyAheadOfTheRow
    /\ \A d \in Deliveries, n \in Attempts : row[d].state = "none" => op[d][n] = "none"
    /\ \A d \in Deliveries : row[d].state = "delivered" => \E n \in Attempts : op[d][n] = "succeeded"
    /\ \A d \in Deliveries \ adrift : \A n \in Attempts : op[d][n] = "succeeded" =>
          \/ row[d].state = "pending" /\ n = row[d].attempts + 1
          \/ row[d].state = "delivered" /\ n = row[d].attempts
    /\ \A d \in Deliveries \ adrift : \A n \in Attempts :
          row[d].state = "delivered" /\ n > row[d].attempts => op[d][n] = "none"

IInv == TypeOK /\ HoldInv /\ CallInv /\ DoneInv /\ LedgerInv

USE AttemptsAssumption, BatchAssumption, BoundAssumption, AbsenceAssumption
USE DEF Attempts, CallOutcome, rowVars, workerVars, ledgerVars

\* No row, no dispatch, nothing on the ledger.
LEMMA InvInit == Init => IInv
<1> SUFFICES ASSUME Init PROVE IInv
    OBVIOUS
<1>1. TypeOK
    BY DEF Init, TypeOK, Blank, NoRow, Row, DeliveryState
<1>2. HoldInv
    BY DEF Init, HoldInv, Blank, NoRow
<1>3. CallInv /\ DoneInv /\ LedgerInv
    BY DEF Init, CallInv, Calling, DoneInv, LedgerInv, NoKeyAheadOfTheRow, Blank, NoRow
<1> QED BY <1>1, <1>2, <1>3 DEF IInv

-----------------------------------------------------------------------------
(* What the operators an action is built from do.                          *)

\* A batch that ends leaves its worker with nothing and the others alone.
LEMMA BatchEnds ==
    ASSUME TypeOK, NEW w \in Workers, EndBatch(w)
    PROVE  /\ pc' \in [Workers -> {"idle", "next", "won", "calling"}]
           /\ todo' \in [Workers -> SUBSET Deliveries]
           /\ hand' \in [Workers -> Deliveries \union {NoDelivery}]
           /\ copy' \in [Workers -> [Deliveries -> Row]]
           /\ taking' \in [Workers -> SUBSET Deliveries]
           /\ cut' \in [Workers -> BOOLEAN]
           /\ pc'[w] = "idle" /\ todo'[w] = {} /\ hand'[w] = NoDelivery /\ ~cut'[w]
           /\ \A v \in Workers \ {w} :
                 /\ pc'[v] = pc[v] /\ todo'[v] = todo[v] /\ hand'[v] = hand[v]
                 /\ copy'[v] = copy[v] /\ cut'[v] = cut[v]
BY DEF EndBatch, TypeOK, Blank, NoRow, Row, DeliveryState

\* Releasing the locks of one transaction leaves the others' alone.
LEMMA LocksGo ==
    ASSUME TypeOK, NEW w \in Workers, Release(w)
    PROVE  /\ holder' \in [Deliveries -> Workers \union {NoWorker}]
           /\ \A d \in Deliveries : holder'[d] # w
           /\ \A d \in Deliveries : holder'[d] = holder[d] \/ holder[d] = w
           /\ \A d \in Deliveries : holder'[d] \in Workers => holder'[d] = holder[d]
BY DEF Release, TypeOK

\* A row that was pending with an attempt left goes on to a row, and one that
\* is still pending has an attempt left.
LEMMA PlanNextRow ==
    ASSUME NEW r \in Row, r.attempts < MaxAttempts, NEW outcome \in CallOutcome
    PROVE  /\ PlanNext(r, outcome) \in Row
           /\ PlanNext(r, outcome).attempts = r.attempts + 1
           /\ PlanNext(r, outcome).state \in {"pending", "delivered", "exhausted"}
           /\ PlanNext(r, outcome).state = "pending" => r.attempts + 1 < MaxAttempts
           /\ PlanNext(r, outcome).state = "delivered" <=> outcome = "ok"
BY DEF PlanNext, Retryable, Row, DeliveryState

\* Parking changes the state and keeps the count.
LEMMA ParkedRow ==
    ASSUME NEW r \in Row
    PROVE  Parked(r) \in Row /\ Parked(r).state = "exhausted" /\ Parked(r).attempts = r.attempts
BY DEF Parked, Row, DeliveryState

\* A record found counts an attempt, and delivers where it says succeeded.
LEMMA SettledRow ==
    ASSUME NEW r \in Row, r.attempts < MaxAttempts, NEW found
    PROVE  /\ Settled(r, found) \in Row
           /\ Settled(r, found).attempts = r.attempts + 1
           /\ Settled(r, found).state \in {"pending", "delivered", "exhausted"}
           /\ Settled(r, found).state = "pending" => r.attempts + 1 < MaxAttempts
           /\ Settled(r, found).state = "delivered" <=> found = "succeeded"
BY PlanNextRow DEF Settled

\* A recorded attempt is off its worker's list; where the transaction is gone
\* the batch is over instead.
LEMMA AttemptRecorded ==
    ASSUME TypeOK, NEW w \in Workers, NEW d \in Deliveries, NEW r \in Row, RecordAttempt(w, d, r)
    PROVE  /\ pc' \in [Workers -> {"idle", "next", "won", "calling"}]
           /\ todo' \in [Workers -> SUBSET Deliveries]
           /\ hand' \in [Workers -> Deliveries \union {NoDelivery}]
           /\ copy' \in [Workers -> [Deliveries -> Row]]
           /\ taking' \in [Workers -> SUBSET Deliveries]
           /\ cut' \in [Workers -> BOOLEAN]
           /\ hand'[w] = NoDelivery /\ ~cut'[w]
           /\ IF cut[w] THEN pc'[w] = "idle" /\ todo'[w] = {}
              ELSE /\ pc'[w] = "next" /\ todo'[w] = todo[w] \ {d} /\ copy'[w][d] = r
                   /\ \A e \in Deliveries \ {d} : copy'[w][e] = copy[w][e]
           /\ \A v \in Workers \ {w} :
                 /\ pc'[v] = pc[v] /\ todo'[v] = todo[v] /\ hand'[v] = hand[v]
                 /\ copy'[v] = copy[v] /\ cut'[v] = cut[v]
<1>1. CASE cut[w]
    BY <1>1, BatchEnds DEF RecordAttempt
<1>2. CASE ~cut[w]
    <2>1. /\ pc' = [pc EXCEPT ![w] = "next"]
          /\ todo' = [todo EXCEPT ![w] = @ \ {d}]
          /\ hand' = [hand EXCEPT ![w] = NoDelivery]
          /\ copy' = [copy EXCEPT ![w] = [copy[w] EXCEPT ![d] = r]]
          /\ taking' = taking /\ cut' = cut
        BY <1>2 DEF RecordAttempt
    <2>2. copy[w] \in [Deliveries -> Row] /\ [copy[w] EXCEPT ![d] = r] \in [Deliveries -> Row]
        BY DEF TypeOK
    <2>3. /\ copy' \in [Workers -> [Deliveries -> Row]]
          /\ copy'[w][d] = r
          /\ \A e \in Deliveries \ {d} : copy'[w][e] = copy[w][e]
          /\ \A v \in Workers \ {w} : copy'[v] = copy[v]
        BY <2>1, <2>2 DEF TypeOK
    <2>4. /\ pc' \in [Workers -> {"idle", "next", "won", "calling"}]
          /\ todo' \in [Workers -> SUBSET Deliveries]
          /\ pc'[w] = "next" /\ todo'[w] = todo[w] \ {d}
          /\ \A v \in Workers \ {w} : pc'[v] = pc[v] /\ todo'[v] = todo[v]
        BY <2>1 DEF TypeOK
    <2>5. /\ hand' \in [Workers -> Deliveries \union {NoDelivery}]
          /\ hand'[w] = NoDelivery
          /\ \A v \in Workers \ {w} : hand'[v] = hand[v]
          /\ taking' \in [Workers -> SUBSET Deliveries]
          /\ cut' \in [Workers -> BOOLEAN] /\ ~cut'[w]
        BY <1>2, <2>1 DEF TypeOK
    <2> QED
        BY <1>2, <2>1, <2>3, <2>4, <2>5
<1> QED BY <1>1, <1>2

\* The key of a delivery on a worker's list is one of its attempts.
LEMMA KeyIsAnAttempt ==
    ASSUME TypeOK, HoldInv, NEW w \in Workers, NEW d \in todo[w]
    PROVE  d \in Deliveries /\ copy[w][d] \in Row /\ Key(w, d) \in Attempts
BY DEF TypeOK, HoldInv, Key, Row

-----------------------------------------------------------------------------
(* Types, and what a dispatch has in its hands.                            *)

\* A worker that records an attempt keeps what it holds in line with the rows.
LEMMA RecordingHolds ==
    ASSUME TypeOK, HoldInv, NEW w \in Workers, pc[w] # "idle", NEW d \in todo[w], NEW r \in Row,
           r.state # "none", r.attempts >= copy[w][d].attempts,
           r.state = "pending" => r.attempts < MaxAttempts,
           RecordAttempt(w, d, r), UNCHANGED <<row, holder>>, adrift \subseteq adrift'
    PROVE  HoldInv'
<1>1. d \in Deliveries
    BY DEF TypeOK
<1>2. /\ cut[w] => \A e \in Deliveries : holder[e] # w
      /\ hand'[w] = NoDelivery /\ ~cut'[w]
      /\ IF cut[w] THEN pc'[w] = "idle" /\ todo'[w] = {}
         ELSE /\ pc'[w] = "next" /\ todo'[w] = todo[w] \ {d} /\ copy'[w][d] = r
              /\ \A e \in Deliveries \ {d} : copy'[w][e] = copy[w][e]
      /\ \A v \in Workers \ {w} :
            /\ pc'[v] = pc[v] /\ todo'[v] = todo[v] /\ hand'[v] = hand[v]
            /\ copy'[v] = copy[v] /\ cut'[v] = cut[v]
    BY <1>1, AttemptRecorded DEF HoldInv
<1>3. \A v \in Workers : pc'[v] = "idle" => todo'[v] = {} /\ ~cut'[v]
    BY <1>2 DEF HoldInv
<1>4. \A v \in Workers :
         IF pc'[v] \in {"won", "calling"} THEN hand'[v] \in todo'[v] ELSE hand'[v] = NoDelivery
    BY <1>2 DEF HoldInv
<1>5. ASSUME NEW v \in Workers, NEW e \in todo'[v]
      PROVE  /\ copy'[v][e].state = "pending"
             /\ copy'[v][e].attempts < MaxAttempts
             /\ copy'[v][e].attempts <= row'[e].attempts /\ row'[e].state # "none"
             /\ IF cut'[v] THEN e \in adrift' ELSE holder'[e] = v /\ copy'[v][e] = row'[e]
    <2>1. e \in todo[v] /\ e \in Deliveries /\ copy'[v][e] = copy[v][e] /\ cut'[v] = cut[v]
        <3>1. CASE v # w
            BY <1>2, <1>5, <3>1 DEF TypeOK
        <3>2. CASE v = w
            <4>1. ~cut[w] /\ e \in todo[w] \ {d}
                BY <1>2, <1>5, <3>2
            <4>2. e \in Deliveries /\ copy'[w][e] = copy[w][e]
                BY <1>2, <4>1 DEF TypeOK
            <4>3. cut'[w] = cut[w]
                BY <1>2, <4>1 DEF RecordAttempt
            <4> QED
                BY <3>2, <4>1, <4>2, <4>3
        <3> QED
            BY <3>1, <3>2
    <2>2. /\ copy[v][e].state = "pending"
          /\ copy[v][e].attempts < MaxAttempts
          /\ copy[v][e].attempts <= row[e].attempts /\ row[e].state # "none"
          /\ IF cut[v] THEN e \in adrift ELSE holder[e] = v /\ copy[v][e] = row[e]
        BY <2>1 DEF HoldInv
    <2> QED
        BY <1>2, <1>5, <2>1, <2>2
<1>6. ASSUME NEW e \in Deliveries, holder'[e] \in Workers
      PROVE  pc'[holder'[e]] # "idle" /\ ~cut'[holder'[e]] /\ row'[e].state = "pending"
    <2>1. holder'[e] = holder[e]
        OBVIOUS
    <2>2. pc[holder[e]] # "idle" /\ ~cut[holder[e]] /\ row[e].state = "pending"
        BY <1>6, <2>1 DEF HoldInv
    <2> QED
        BY <1>2, <1>6, <2>1, <2>2
<1>7. \A v \in Workers, e \in Deliveries : holder'[e] = v =>
         /\ copy'[v][e].state # "none" /\ copy'[v][e].attempts >= row'[e].attempts
         /\ copy'[v][e].state = "pending" => copy'[v][e].attempts < MaxAttempts
    BY <1>1, <1>2 DEF HoldInv
<1> QED BY <1>3, <1>4, <1>5, <1>6, <1>7 DEF HoldInv

\* A worker whose batch ends without a commit holds nothing, and the rows stand.
LEMMA DroppingHolds ==
    ASSUME TypeOK, HoldInv, NEW w \in Workers, EndBatch(w), Release(w),
           row' = row, adrift \subseteq adrift'
    PROVE  HoldInv'
<1>1. /\ pc'[w] = "idle" /\ todo'[w] = {} /\ hand'[w] = NoDelivery /\ ~cut'[w]
      /\ \A v \in Workers \ {w} :
            /\ pc'[v] = pc[v] /\ todo'[v] = todo[v] /\ hand'[v] = hand[v]
            /\ copy'[v] = copy[v] /\ cut'[v] = cut[v]
    BY BatchEnds
<1>2. /\ \A d \in Deliveries : holder'[d] # w
      /\ \A d \in Deliveries : holder'[d] = holder[d] \/ holder[d] = w
      /\ \A d \in Deliveries : holder'[d] \in Workers => holder'[d] = holder[d]
    BY LocksGo
<1>3. \A v \in Workers : pc'[v] = "idle" => todo'[v] = {} /\ ~cut'[v]
    BY <1>1 DEF HoldInv
<1>4. \A v \in Workers :
         IF pc'[v] \in {"won", "calling"} THEN hand'[v] \in todo'[v] ELSE hand'[v] = NoDelivery
    BY <1>1 DEF HoldInv
<1>5. ASSUME NEW v \in Workers, NEW e \in todo'[v]
      PROVE  /\ copy'[v][e].state = "pending"
             /\ copy'[v][e].attempts < MaxAttempts
             /\ copy'[v][e].attempts <= row'[e].attempts /\ row'[e].state # "none"
             /\ IF cut'[v] THEN e \in adrift' ELSE holder'[e] = v /\ copy'[v][e] = row'[e]
    <2>1. e \in todo[v] /\ e \in Deliveries /\ copy'[v][e] = copy[v][e] /\ cut'[v] = cut[v]
        BY <1>1, <1>2, <1>5 DEF TypeOK
    <2>2. /\ copy[v][e].state = "pending"
          /\ copy[v][e].attempts < MaxAttempts
          /\ copy[v][e].attempts <= row[e].attempts /\ row[e].state # "none"
          /\ IF cut[v] THEN e \in adrift ELSE holder[e] = v /\ copy[v][e] = row[e]
        BY <2>1 DEF HoldInv
    <2> QED
        BY <1>1, <1>2, <1>5, <2>1, <2>2
<1>6. ASSUME NEW e \in Deliveries, holder'[e] \in Workers
      PROVE  pc'[holder'[e]] # "idle" /\ ~cut'[holder'[e]] /\ row'[e].state = "pending"
    <2>1. holder'[e] = holder[e]
        BY <1>2, <1>6
    <2>2. pc[holder[e]] # "idle" /\ ~cut[holder[e]] /\ row[e].state = "pending"
        BY <1>6, <2>1 DEF HoldInv
    <2> QED
        BY <1>2, <1>6, <2>1, <2>2, <1>1
<1>7. \A v \in Workers, e \in Deliveries : holder'[e] = v =>
         /\ copy'[v][e].state # "none" /\ copy'[v][e].attempts >= row'[e].attempts
         /\ copy'[v][e].state = "pending" => copy'[v][e].attempts < MaxAttempts
    BY <1>1, <1>2 DEF HoldInv
<1> QED BY <1>3, <1>4, <1>5, <1>6, <1>7 DEF HoldInv

\* A row in nobody's hands may move, where its count does not fall below
\* what any worker still has of it.
LEMMA FreeRowMoves ==
    ASSUME TypeOK, HoldInv, NEW d \in Deliveries, holder[d] \notin Workers,
           NEW r \in Row, r.state # "none", \A w \in Workers : d \in todo[w] => copy[w][d].attempts <= r.attempts,
           row' = [row EXCEPT ![d] = r], UNCHANGED <<holder, workerVars, adrift>>
    PROVE  HoldInv'
BY DEF HoldInv, TypeOK

\* Every variable keeps its type, and what a dispatch holds is what the rows
\* say, through every step (claim_due, attempt_one, record_attempt, dispatch_on).
LEMMA HoldStep == TypeOK /\ HoldInv /\ [Next]_vars => TypeOK' /\ HoldInv'
<1> SUFFICES ASSUME TypeOK, HoldInv, [Next]_vars PROVE TypeOK' /\ HoldInv'
    OBVIOUS
<1>1. ASSUME NEW d \in Deliveries, RecordEvent(d)
      PROVE  TypeOK' /\ HoldInv'
    <2>1. [state |-> "pending", attempts |-> 0] \in Row
        BY DEF Row, DeliveryState
    <2>2. holder[d] \notin Workers /\ \A w \in Workers : d \notin todo[w]
        BY <1>1 DEF RecordEvent, HoldInv, TypeOK, Row
    <2>3. HoldInv'
        BY <1>1, <2>1, <2>2, FreeRowMoves DEF RecordEvent
    <2>4. TypeOK'
        BY <1>1, <2>1 DEF RecordEvent, TypeOK
    <2> QED
        BY <2>3, <2>4
<1>2. ASSUME NEW d \in Deliveries, BecomeDue(d)
      PROVE  TypeOK' /\ HoldInv'
    <2>1. HoldInv'
        BY <1>2 DEF BecomeDue, HoldInv
    <2>2. TypeOK'
        BY <1>2 DEF BecomeDue, TypeOK
    <2> QED
        BY <2>1, <2>2
<1>3. ASSUME NEW d \in Deliveries, Replay(d)
      PROVE  TypeOK' /\ HoldInv'
    <2>1. /\ row[d] \in Row /\ ReplayedRow(row[d]) \in Row
          /\ ReplayedRow(row[d]).state # "none" /\ ReplayedRow(row[d]).attempts < MaxAttempts
        BY DEF TypeOK, ReplayedRow, Row, DeliveryState
    <2>2. holder[d] \notin Workers
        BY <1>3 DEF Replay, HoldInv
    <2>3. \A w \in Workers : d \in todo[w] => copy[w][d].attempts <= ReplayedRow(row[d]).attempts
        BY <2>1 DEF HoldInv, ReplayedRow, TypeOK, Row
    <2>4. HoldInv'
        BY <1>3, <2>1, <2>2, <2>3, FreeRowMoves DEF Replay
    <2>5. TypeOK'
        BY <1>3, <2>1 DEF Replay, TypeOK
    <2> QED
        BY <2>4, <2>5
<1>4. ASSUME NEW d \in Deliveries, Deactivate(d) \/ Reactivate(d)
      PROVE  TypeOK' /\ HoldInv'
    <2>1. HoldInv'
        BY <1>4 DEF Deactivate, Reactivate, HoldInv
    <2>2. TypeOK'
        BY <1>4 DEF Deactivate, Reactivate, TypeOK
    <2> QED
        BY <2>1, <2>2
<1>5. ASSUME NEW w \in Workers, NEW D \in SUBSET Claimable, ClaimDue(w, D)
      PROVE  TypeOK' /\ HoldInv'
    <2>1. D \subseteq Deliveries /\ \A d \in D : row[d].state = "pending" /\ holder[d] = NoWorker
        BY DEF Claimable, TypeOK
    <2>2. [d \in Deliveries |-> IF d \in D THEN row[d] ELSE NoRow] \in [Deliveries -> Row]
        BY DEF TypeOK, NoRow, Row, DeliveryState
    <2>3. TypeOK'
        BY <1>5, <2>1, <2>2 DEF ClaimDue, TypeOK
    <2>4. HoldInv'
        BY <1>5, <2>1, <2>2 DEF ClaimDue, HoldInv, TypeOK, NoRow, Row
    <2> QED
        BY <2>3, <2>4
<1>6. ASSUME NEW w \in Workers, NEW d \in Deliveries, Park(w, d)
      PROVE  TypeOK' /\ HoldInv'
    <2>1. d \in todo[w] /\ pc[w] # "idle" /\ copy[w][d] \in Row
        BY <1>6 DEF Park, TypeOK
    <2>2. /\ Parked(copy[w][d]) \in Row /\ Parked(copy[w][d]).state = "exhausted"
          /\ Parked(copy[w][d]).attempts >= copy[w][d].attempts
        BY <2>1, ParkedRow DEF Row
    <2>3. adrift \subseteq adrift' /\ adrift' \subseteq Deliveries
        BY <1>6 DEF Park, TypeOK
    <2>4. HoldInv'
        BY <1>6, <2>1, <2>2, <2>3, RecordingHolds DEF Park
    <2>5. TypeOK'
        BY <1>6, <2>2, <2>3, AttemptRecorded DEF Park, TypeOK
    <2> QED
        BY <2>4, <2>5
<1>7. ASSUME NEW w \in Workers, NEW d \in Deliveries, Issue(w, d)
      PROVE  TypeOK' /\ HoldInv'
    <2>1. Key(w, d) \in Attempts
        BY <1>7, KeyIsAnAttempt DEF Issue
    <2>2. TypeOK'
        BY <1>7, <2>1 DEF Issue, TypeOK
    <2>3. HoldInv'
        BY <1>7 DEF Issue, HoldInv, TypeOK
    <2> QED
        BY <2>2, <2>3
<1>8. ASSUME NEW w \in Workers, NEW d \in Deliveries, Found(w, d)
      PROVE  TypeOK' /\ HoldInv'
    <2>1. d \in todo[w] /\ pc[w] # "idle" /\ copy[w][d] \in Row /\ copy[w][d].attempts < MaxAttempts
        BY <1>8 DEF Found, TypeOK, HoldInv
    <2> DEFINE r == Settled(copy[w][d], op[d][Key(w, d)])
    <2>3. /\ r \in Row /\ r.state # "none" /\ r.attempts >= copy[w][d].attempts
          /\ r.state = "pending" => r.attempts < MaxAttempts
        BY <2>1, SettledRow DEF Row
    <2>4. HoldInv'
        BY <1>8, <2>1, <2>3, RecordingHolds DEF Found
    <2>5. TypeOK'
        BY <1>8, <2>3, AttemptRecorded DEF Found, TypeOK
    <2> QED
        BY <2>4, <2>5
<1>9. ASSUME NEW w \in Workers, Send(w)
      PROVE  TypeOK' /\ HoldInv'
    <2>1. hand[w] \in Deliveries /\ Key(w, hand[w]) \in Attempts
        BY <1>9, KeyIsAnAttempt DEF Send, HoldInv
    <2>2. TypeOK'
        BY <1>9, <2>1 DEF Send, TypeOK
    <2>3. HoldInv'
        BY <1>9 DEF Send, HoldInv, TypeOK
    <2> QED
        BY <2>2, <2>3
<1>10. ASSUME NEW w \in Workers, NEW outcome \in CallOutcome, Answer(w, outcome)
      PROVE  TypeOK' /\ HoldInv'
    <2> DEFINE d == hand[w]
    <2>2. d \in todo[w] /\ pc[w] # "idle" /\ d \in Deliveries /\ copy[w][d] \in Row /\ copy[w][d].attempts < MaxAttempts /\ Key(w, d) \in Attempts
        BY <1>10, KeyIsAnAttempt DEF Answer, HoldInv
    <2> DEFINE r == PlanNext(copy[w][d], outcome)
    <2>4. /\ r \in Row /\ r.state # "none" /\ r.attempts >= copy[w][d].attempts
          /\ r.state = "pending" => r.attempts < MaxAttempts
        BY <2>2, PlanNextRow DEF Row
    <2>5. RecordAttempt(w, d, r) /\ UNCHANGED <<row, holder, adrift>>
        BY <1>10 DEF Answer
    <2>6. HoldInv'
        BY <2>2, <2>4, <2>5, RecordingHolds
    <2>7. op' \in [Deliveries -> [Attempts -> {"none", "sent", "unknown", "succeeded", "failed"}]]
        BY <1>10, <2>2 DEF Answer, TypeOK, StateAfterCall
    <2>8. fate' \in [Deliveries -> [Attempts -> {"unsent", "travelling", "accepted", "lost"}]]
        BY <1>10, <2>2 DEF Answer, TypeOK
    <2>9. TypeOK'
        BY <1>10, <2>2, <2>4, <2>5, <2>7, <2>8, AttemptRecorded DEF Answer, TypeOK
    <2> QED
        BY <2>6, <2>9
<1>11. ASSUME NEW w \in Workers, Overtaken(w)
      PROVE  TypeOK' /\ HoldInv'
    <2>1. HoldInv'
        BY <1>11, DroppingHolds DEF Overtaken
    <2>2. TypeOK'
        BY <1>11, BatchEnds, LocksGo DEF Overtaken, TypeOK
    <2> QED
        BY <2>1, <2>2
<1>12. ASSUME NEW w \in Workers, Raise(w)
      PROVE  TypeOK' /\ HoldInv'
    <2>1. HoldInv'
        BY <1>12, DroppingHolds DEF Raise
    <2>2. pc[w] # "next" => hand[w] \in Deliveries /\ Key(w, hand[w]) \in Attempts
        BY <1>12, KeyIsAnAttempt DEF Raise, HoldInv, TypeOK
    <2>3. op' \in [Deliveries -> [Attempts -> {"none", "sent", "unknown", "succeeded", "failed"}]]
        BY <1>12, <2>2 DEF Raise, TypeOK
    <2>4. TypeOK'
        BY <1>12, <2>3, BatchEnds, LocksGo DEF Raise, TypeOK
    <2> QED
        BY <2>1, <2>4
<1>13. ASSUME NEW w \in Workers, Commit(w)
      PROVE  TypeOK' /\ HoldInv'
    <2>1. /\ row' \in [Deliveries -> Row]
          /\ \A d \in Deliveries : row'[d].state = "pending" => row'[d].attempts < MaxAttempts
        BY <1>13 DEF Commit, TypeOK, HoldInv
    <2>2. TypeOK'
        BY <1>13, <2>1, BatchEnds, LocksGo DEF Commit, TypeOK
    <2>3. /\ pc'[w] = "idle" /\ todo'[w] = {} /\ hand'[w] = NoDelivery /\ ~cut'[w]
          /\ \A v \in Workers \ {w} :
                /\ pc'[v] = pc[v] /\ todo'[v] = todo[v] /\ hand'[v] = hand[v]
                /\ copy'[v] = copy[v] /\ cut'[v] = cut[v]
        BY <1>13, BatchEnds DEF Commit
    <2>4. \A d \in Deliveries : holder'[d] # w /\ (holder'[d] \in Workers => holder'[d] = holder[d])
        BY <1>13, LocksGo DEF Commit
    <2>5. /\ \A d \in Deliveries : holder[d] # w => row'[d] = row[d] /\ holder'[d] = holder[d]
          /\ \A d \in Deliveries : row'[d].attempts >= row[d].attempts
          /\ \A d \in Deliveries : row[d].state # "none" => row'[d].state # "none"
        BY <1>13 DEF Commit, Release, HoldInv, TypeOK, Row
    <2>6. ASSUME NEW v \in Workers, NEW e \in todo'[v]
          PROVE  /\ copy'[v][e].state = "pending"
                 /\ copy'[v][e].attempts < MaxAttempts
                 /\ copy'[v][e].attempts <= row'[e].attempts /\ row'[e].state # "none"
                 /\ IF cut'[v] THEN e \in adrift' ELSE holder'[e] = v /\ copy'[v][e] = row'[e]
        <3>1. v # w /\ e \in todo[v] /\ e \in Deliveries /\ copy'[v] = copy[v] /\ cut'[v] = cut[v]
            BY <2>3, <2>6 DEF TypeOK
        <3>2. /\ copy[v][e].state = "pending" /\ copy[v][e].attempts < MaxAttempts
              /\ copy[v][e].attempts <= row[e].attempts /\ row[e].state # "none"
              /\ IF cut[v] THEN e \in adrift ELSE holder[e] = v /\ copy[v][e] = row[e]
            BY <3>1 DEF HoldInv
        <3>3. copy[v][e].attempts <= row'[e].attempts
            BY <3>1, <3>2, <2>2, <2>5 DEF TypeOK, Row
        <3> QED
            BY <1>13, <3>1, <3>2, <3>3, <2>5 DEF Commit
    <2>7. \A d \in Deliveries : holder'[d] \in Workers =>
             pc'[holder'[d]] # "idle" /\ ~cut'[holder'[d]] /\ row'[d].state = "pending"
        BY <2>3, <2>4, <2>5 DEF HoldInv
    <2>8. \A v \in Workers, d \in Deliveries : holder'[d] = v =>
             /\ copy'[v][d].state # "none" /\ copy'[v][d].attempts >= row'[d].attempts
             /\ copy'[v][d].state = "pending" => copy'[v][d].attempts < MaxAttempts
        BY <2>3, <2>4, <2>5 DEF HoldInv
    <2>9. /\ \A v \in Workers : pc'[v] = "idle" => todo'[v] = {} /\ ~cut'[v]
          /\ \A v \in Workers :
                IF pc'[v] \in {"won", "calling"} THEN hand'[v] \in todo'[v] ELSE hand'[v] = NoDelivery
        BY <2>3 DEF HoldInv
    <2>10. HoldInv'
        BY <2>6, <2>7, <2>8, <2>9 DEF HoldInv
    <2> QED
        BY <2>2, <2>10
<1>14. ASSUME NEW w \in Workers, Cut(w)
      PROVE  TypeOK' /\ HoldInv'
    <2>1. TypeOK'
        BY <1>14, LocksGo DEF Cut, TypeOK
    <2>2. HoldInv'
        BY <1>14, LocksGo DEF Cut, HoldInv, TypeOK
    <2> QED
        BY <2>1, <2>2
<1>15. ASSUME NEW w \in Workers, Crash(w)
      PROVE  TypeOK' /\ HoldInv'
    <2>1. HoldInv'
        BY <1>15, DroppingHolds DEF Crash
    <2>2. TypeOK'
        BY <1>15, BatchEnds, LocksGo DEF Crash, TypeOK
    <2> QED
        BY <2>1, <2>2
<1>16. ASSUME NEW d \in Deliveries, NEW n \in Attempts, NEW end \in {"accepted", "lost"}, Arrive(d, n, end)
      PROVE  TypeOK' /\ HoldInv'
    <2>1. TypeOK'
        BY <1>16 DEF Arrive, TypeOK
    <2>2. HoldInv'
        BY <1>16 DEF Arrive, HoldInv
    <2> QED
        BY <2>1, <2>2
<1>17. ASSUME NEW d \in Deliveries, NEW n \in Attempts, Sweep(d, n)
      PROVE  TypeOK' /\ HoldInv'
    <2>1. TypeOK'
        BY <1>17 DEF Sweep, TypeOK
    <2>2. HoldInv'
        BY <1>17 DEF Sweep, HoldInv
    <2> QED
        BY <2>1, <2>2
<1>18. ASSUME UNCHANGED vars
      PROVE  TypeOK' /\ HoldInv'
    <2>1. TypeOK'
        BY <1>18 DEF vars, TypeOK
    <2>2. HoldInv'
        BY <1>18 DEF vars, HoldInv
    <2> QED
        BY <2>1, <2>2
<1> QED
    BY <1>1, <1>2, <1>3, <1>4, <1>5, <1>6, <1>7, <1>8, <1>9, <1>10, <1>11, <1>12, <1>13, <1>14, <1>15, <1>16, <1>17, <1>18 DEF Next, Dispatch, Fault, Console, World

\* The same facts of a whole behaviour: every variable has its type for ever.
THEOREM TypeCorrect == Spec => [](TypeOK /\ HoldInv)
<1>1. Init => TypeOK /\ HoldInv
    BY InvInit DEF IInv
<1> QED
    BY <1>1, HoldStep, PTL DEF Spec

\* A delivery is in the hands of two dispatches only where the transaction of
\* one is gone (claim_due's lock, held for the whole batch of dispatch_on).
THEOREM OneHand == Spec => []OneHandUntilACut
<1>1. HoldInv => OneHandUntilACut
    BY DEF HoldInv, OneHandUntilACut
<1> QED
    BY <1>1, TypeCorrect, PTL

-----------------------------------------------------------------------------
(* An attempt and its record on the ledger.                                *)

\* A step that starts no call and leaves the ledger alone keeps CallInv.
LEMMA CallKept ==
    ASSUME CallInv, UNCHANGED <<op, fate>>,
           \A v \in Workers, d \in Deliveries, n \in Attempts :
               Calling(v, d, n)' => Calling(v, d, n)
    PROVE  CallInv'
BY DEF CallInv

\* A worker whose attempt is recorded is in no call, and no other begins one.
LEMMA RecordingEndsTheCall ==
    ASSUME TypeOK, NEW w \in Workers, NEW d \in Deliveries, NEW r \in Row, RecordAttempt(w, d, r)
    PROVE  \A v \in Workers, e \in Deliveries, n \in Attempts :
               Calling(v, e, n)' => v # w /\ Calling(v, e, n) /\ pc'[v] = pc[v]
<1>1. hand'[w] = NoDelivery
    BY AttemptRecorded
<1>2. \A v \in Workers \ {w} : pc'[v] = pc[v] /\ hand'[v] = hand[v] /\ copy'[v] = copy[v]
    BY AttemptRecorded
<1> QED
    BY <1>1, <1>2 DEF Calling, Key

\* So with a batch that ends.
LEMMA EndingEndsTheCall ==
    ASSUME TypeOK, NEW w \in Workers, EndBatch(w)
    PROVE  \A v \in Workers, e \in Deliveries, n \in Attempts :
               Calling(v, e, n)' => v # w /\ Calling(v, e, n) /\ pc'[v] = pc[v]
<1>1. pc'[w] = "idle"
    BY BatchEnds
<1>2. \A v \in Workers \ {w} : pc'[v] = pc[v] /\ hand'[v] = hand[v] /\ copy'[v] = copy[v]
    BY BatchEnds
<1> QED
    BY <1>1, <1>2 DEF Calling, Key

\* Writing one cell of the ledger.
LEMMA OneCell ==
    ASSUME NEW S, NEW f \in [Deliveries -> [Attempts -> S]], NEW g, NEW x,
           NEW d \in Deliveries, NEW n \in Attempts, g = [f EXCEPT ![d][n] = x]
    PROVE  /\ g[d][n] = x
           /\ \A e \in Deliveries, m \in Attempts : e # d \/ m # n => g[e][m] = f[e][m]
OBVIOUS

\* The sweep writes unknown over one sent.
LEMMA SweepWrites ==
    ASSUME TypeOK, NEW d \in Deliveries, NEW n \in Attempts, Sweep(d, n)
    PROVE  \A e \in Deliveries, m \in Attempts :
               op'[e][m] = op[e][m] \/ (op[e][m] = "sent" /\ op'[e][m] = "unknown")
<1>1. op[d][n] = "sent" /\ op' = [op EXCEPT ![d][n] = "unknown"]
    BY DEF Sweep
<1>2. op'[d][n] = "unknown" /\ \A e \in Deliveries, m \in Attempts : e # d \/ m # n => op'[e][m] = op[e][m]
    BY <1>1, OneCell DEF TypeOK
<1> QED
    BY <1>1, <1>2

\* So does an exception, of the attempt its worker was making, if any.
LEMMA RaiseWrites ==
    ASSUME TypeOK, HoldInv, NEW w \in Workers, Raise(w)
    PROVE  \A e \in Deliveries, m \in Attempts :
               op'[e][m] = op[e][m] \/ (op[e][m] = "sent" /\ op'[e][m] = "unknown")
<1> DEFINE d == hand[w]
           k == Key(w, d)
<1>1. CASE pc[w] # "next" /\ op[d][k] = "sent"
    <2>1. d \in Deliveries /\ k \in Attempts
        BY <1>1, KeyIsAnAttempt DEF Raise, HoldInv, TypeOK
    <2>2. op' = [op EXCEPT ![d][k] = "unknown"]
        BY <1>1 DEF Raise
    <2>3. op'[d][k] = "unknown" /\ \A e \in Deliveries, m \in Attempts : e # d \/ m # k => op'[e][m] = op[e][m]
        BY <2>1, <2>2, OneCell DEF TypeOK
    <2> QED
        BY <1>1, <2>3
<1>2. CASE ~(pc[w] # "next" /\ op[d][k] = "sent")
    BY <1>2 DEF Raise
<1> QED
    BY <1>1, <1>2

\* One call at a time per record, and succeeded is only written of a request
\* the subscriber took (issue_once through send_once).
LEMMA CallStep == TypeOK /\ HoldInv /\ CallInv /\ [Next]_vars => CallInv'
<1> SUFFICES ASSUME TypeOK, HoldInv, CallInv, [Next]_vars PROVE CallInv'
    OBVIOUS
<1>1. ASSUME NEW d \in Deliveries, Console(d) \/ BecomeDue(d)
      PROVE  CallInv'
    <2>1. UNCHANGED <<op, fate, pc, hand, copy>>
        BY <1>1 DEF Console, RecordEvent, Replay, Deactivate, Reactivate, BecomeDue
    <2> QED
        BY <2>1, CallKept DEF Calling, Key
<1>2. ASSUME NEW w \in Workers, NEW D \in SUBSET Claimable, ClaimDue(w, D)
      PROVE  CallInv'
    <2>1. \A v \in Workers, d \in Deliveries, n \in Attempts : Calling(v, d, n)' => Calling(v, d, n)
        BY <1>2 DEF ClaimDue, Calling, Key, TypeOK
    <2> QED
        BY <1>2, <2>1, CallKept DEF ClaimDue
<1>3. ASSUME NEW w \in Workers, NEW d \in Deliveries, Park(w, d)
      PROVE  CallInv'
    <2>1. Parked(copy[w][d]) \in Row
        BY ParkedRow DEF TypeOK
    <2> QED
        BY <1>3, <2>1, RecordingEndsTheCall, CallKept DEF Park
<1>4. ASSUME NEW w \in Workers, NEW d \in Deliveries, Found(w, d)
      PROVE  CallInv'
    <2>1. Settled(copy[w][d], op[d][Key(w, d)]) \in Row
        BY <1>4, KeyIsAnAttempt, SettledRow DEF Found, HoldInv
    <2> QED
        BY <1>4, <2>1, RecordingEndsTheCall, CallKept DEF Found
<1>5. ASSUME NEW w \in Workers, NEW d \in Deliveries, Issue(w, d)
      PROVE  CallInv'
    <2> DEFINE k == Key(w, d)
    <2>1. k \in Attempts /\ op[d][k] = "none"
        BY <1>5, KeyIsAnAttempt DEF Issue
    <2>2. /\ op'[d][k] = "sent" /\ fate' = fate
          /\ \A e \in Deliveries, n \in Attempts : e # d \/ n # k => op'[e][n] = op[e][n]
        BY <1>5, <2>1 DEF Issue, TypeOK
    <2>3. \A v \in Workers, e \in Deliveries, n \in Attempts : Calling(v, e, n)' =>
             \/ v = w /\ e = d /\ n = k
             \/ v # w /\ Calling(v, e, n)
        BY <1>5 DEF Issue, Calling, Key, TypeOK
    <2>4. \A v \in Workers : ~Calling(v, d, k)
        BY <2>1 DEF CallInv
    <2> QED
        BY <2>1, <2>2, <2>3, <2>4 DEF CallInv
<1>6. ASSUME NEW w \in Workers, Send(w)
      PROVE  CallInv'
    <2> DEFINE d == hand[w]
               k == Key(w, d)
    <2>1. d \in Deliveries /\ k \in Attempts /\ Calling(w, d, k)
        BY <1>6, KeyIsAnAttempt DEF Send, HoldInv, Calling
    <2>2. op[d][k] # "succeeded"
        BY <2>1 DEF CallInv
    <2>3. op' = op /\ \A e \in Deliveries, n \in Attempts : e # d \/ n # k => fate'[e][n] = fate[e][n]
        BY <1>6, <2>1 DEF Send, TypeOK
    <2>4. \A v \in Workers, e \in Deliveries, n \in Attempts : Calling(v, e, n)' => Calling(v, e, n)
        BY <1>6 DEF Send, Calling, Key, TypeOK
    <2> QED
        BY <2>1, <2>2, <2>3, <2>4 DEF CallInv
<1>7. ASSUME NEW w \in Workers, NEW outcome \in CallOutcome, Answer(w, outcome)
      PROVE  CallInv'
    <2> DEFINE d == hand[w]
               k == Key(w, d)
    <2>1. d \in Deliveries /\ k \in Attempts /\ Calling(w, d, k)
          /\ PlanNext(copy[w][d], outcome) \in Row
        BY <1>7, KeyIsAnAttempt, PlanNextRow DEF Answer, HoldInv, Calling
    <2>2. RecordAttempt(w, d, PlanNext(copy[w][d], outcome))
        BY <1>7 DEF Answer
    <2>3. \A v \in Workers, e \in Deliveries, n \in Attempts :
             Calling(v, e, n)' => v # w /\ Calling(v, e, n)
        BY <2>1, <2>2, RecordingEndsTheCall
    <2>4. /\ op[d][k] = "sent" /\ op'[d][k] = StateAfterCall[outcome]
          /\ \A e \in Deliveries, n \in Attempts : e # d \/ n # k =>
                op'[e][n] = op[e][n] /\ fate'[e][n] = fate[e][n]
        BY <1>7, <2>1 DEF Answer, TypeOK
    <2>5. op'[d][k] = "succeeded" => fate'[d][k] = "accepted"
        BY <1>7, <2>1, <2>4 DEF Answer, StateAfterCall
    <2>6. \A v \in Workers : v # w => ~Calling(v, d, k)
        BY <2>1 DEF CallInv
    <2> QED
        BY <2>1, <2>3, <2>4, <2>5, <2>6 DEF CallInv
<1>8. ASSUME NEW w \in Workers, Raise(w)
      PROVE  CallInv'
    <2>1. \A v \in Workers, e \in Deliveries, n \in Attempts :
             Calling(v, e, n)' => v # w /\ Calling(v, e, n)
        BY <1>8, EndingEndsTheCall DEF Raise
    <2>2. fate' = fate
        BY <1>8 DEF Raise
    <2>3. \A e \in Deliveries, n \in Attempts :
             op'[e][n] = op[e][n] \/ (op[e][n] = "sent" /\ op'[e][n] = "unknown")
        BY <1>8, RaiseWrites
    <2> QED
        BY <2>1, <2>2, <2>3 DEF CallInv
<1>9. ASSUME NEW w \in Workers, Overtaken(w) \/ Crash(w) \/ Commit(w)
      PROVE  CallInv'
    <2>1. EndBatch(w) /\ UNCHANGED <<op, fate>>
        BY <1>9 DEF Overtaken, Crash, Commit
    <2> QED
        BY <2>1, EndingEndsTheCall, CallKept
<1>10. ASSUME NEW w \in Workers, Cut(w)
       PROVE  CallInv'
    <2>1. UNCHANGED <<op, fate, pc, hand, copy>>
        BY <1>10 DEF Cut
    <2> QED
        BY <2>1, CallKept DEF Calling, Key
<1>11. ASSUME NEW d \in Deliveries, NEW n \in Attempts, NEW end \in {"accepted", "lost"},
              Arrive(d, n, end)
       PROVE  CallInv'
    <2>1. UNCHANGED <<op, pc, hand, copy>>
        BY <1>11 DEF Arrive
    <2>2. fate[d][n] = "travelling"
          /\ \A e \in Deliveries, m \in Attempts : e # d \/ m # n => fate'[e][m] = fate[e][m]
        BY <1>11 DEF Arrive, TypeOK
    <2> QED
        BY <2>1, <2>2 DEF CallInv, Calling, Key
<1>12. ASSUME NEW d \in Deliveries, NEW n \in Attempts, Sweep(d, n)
       PROVE  CallInv'
    <2>1. UNCHANGED <<fate, pc, hand, copy>>
        BY <1>12 DEF Sweep
    <2>2. \A e \in Deliveries, m \in Attempts :
             op'[e][m] = op[e][m] \/ (op[e][m] = "sent" /\ op'[e][m] = "unknown")
        BY <1>12, SweepWrites
    <2> QED
        BY <2>1, <2>2 DEF CallInv, Calling, Key
<1>13. CASE UNCHANGED vars
    <2>1. UNCHANGED <<op, fate, pc, hand, copy>>
        BY <1>13 DEF vars
    <2> QED
        BY <2>1, CallKept DEF Calling, Key
<1> QED
    BY <1>1, <1>2, <1>3, <1>4, <1>5, <1>6, <1>7, <1>8, <1>9, <1>10, <1>11, <1>12, <1>13
       DEF Next, Dispatch, Fault, World

-----------------------------------------------------------------------------
(* The rows and the ledger.                                                *)

\* What the ledger does to a cell that is no call's: it only grows.
OpGrows ==
    \A d \in Deliveries, n \in Attempts :
        \/ op'[d][n] = op[d][n]
        \/ op[d][n] = "sent" /\ op'[d][n] # "none" /\ op'[d][n] # "succeeded"

\* A step that moves no row, takes or gives back no lock but where a batch is
\* dropped, and settles nothing as succeeded, keeps what is recorded.
LEMMA DoneKept ==
    ASSUME DoneInv, OpGrows, row' = row, adrift \subseteq adrift',
           \A v \in Workers, d \in Deliveries : holder'[d] = v /\ d \notin todo'[v] =>
               holder[d] = v /\ d \notin todo[v] /\ copy'[v][d] = copy[v][d],
           \A d \in Deliveries : holder[d] \in Workers => row[d].attempts + 1 \in Attempts
    PROVE  DoneInv'
BY DEF DoneInv, OpGrows

\* A row whose delivery a live transaction holds has an attempt left.
LEMMA HeldHasANext ==
    ASSUME TypeOK, HoldInv
    PROVE  \A d \in Deliveries : holder[d] \in Workers => row[d].attempts + 1 \in Attempts
BY DEF TypeOK, HoldInv, Row

\* The same steps keep the ledger's lead over the rows.
LEMMA LedgerKept ==
    ASSUME LedgerInv, OpGrows, row' = row, adrift \subseteq adrift'
    PROVE  LedgerInv'
BY DEF LedgerInv, OpGrows, NoKeyAheadOfTheRow

\* Recording an attempt in the open transaction: the new row is one that the
\* ledger's record of that attempt bears out.
LEMMA RecordingKeepsDone ==
    ASSUME TypeOK, HoldInv, DoneInv, NEW w \in Workers, NEW d \in todo[w], NEW r \in Row,
           RecordAttempt(w, d, r), UNCHANGED <<row, holder>>, adrift \subseteq adrift',
           r.state # "none",
           ~cut[w] =>
              LET n == row[d].attempts + 1 IN
              /\ \/ r.attempts = n /\ op'[d][n] # "none"
                 \/ r.attempts = row[d].attempts /\ r.state = "exhausted"
              /\ r.state = "delivered" => op'[d][n] = "succeeded" /\ r.attempts = n
              /\ d \in adrift' \/ r.state = "delivered" \/ op'[d][n] # "succeeded",
           \A e \in Deliveries, n \in Attempts : e # d => op'[e][n] = op[e][n],
           cut[w] => d \in adrift /\ \A n \in Attempts :
              op'[d][n] = op[d][n] \/ (op[d][n] = "sent" /\ op'[d][n] # "none")
    PROVE  DoneInv'
<1>1. d \in Deliveries
    BY DEF TypeOK
<1>2. /\ IF cut[w] THEN pc'[w] = "idle" /\ todo'[w] = {}
         ELSE /\ pc'[w] = "next" /\ todo'[w] = todo[w] \ {d} /\ copy'[w][d] = r
              /\ \A e \in Deliveries \ {d} : copy'[w][e] = copy[w][e]
      /\ \A v \in Workers \ {w} : todo'[v] = todo[v] /\ copy'[v] = copy[v]
    BY <1>1, AttemptRecorded
<1>3. \A e \in Deliveries : holder[e] \in Workers => row[e].attempts + 1 \in Attempts
    BY HeldHasANext
<1> SUFFICES ASSUME NEW v \in Workers, NEW e \in Deliveries, holder'[e] = v, e \notin todo'[v]
             PROVE  LET n == row[e].attempts + 1 IN
                    /\ \/ copy'[v][e].attempts = n /\ op'[e][n] # "none"
                       \/ copy'[v][e].attempts = row[e].attempts /\ copy'[v][e].state = "exhausted"
                    /\ copy'[v][e].state # "none"
                    /\ copy'[v][e].state = "delivered" => op'[e][n] = "succeeded" /\ copy'[v][e].attempts = n
                    /\ e \in adrift' \/ copy'[v][e].state = "delivered" \/ op'[e][n] # "succeeded"
    BY DEF DoneInv
<1>4. holder[e] = v /\ row[e].attempts + 1 \in Attempts /\ ~cut[v]
    BY <1>3 DEF HoldInv
<1>5. CASE v = w /\ e = d
    BY <1>2, <1>4, <1>5
<1>6. CASE v = w /\ e # d
    <2>1. e \notin todo[v] /\ copy'[v][e] = copy[v][e]
        BY <1>2, <1>4, <1>6
    <2> QED
        BY <1>4, <1>6, <2>1 DEF DoneInv
<1>7. CASE v # w
    <2>1. e \notin todo[v] /\ copy'[v][e] = copy[v][e]
        BY <1>2, <1>7
    <2>2. CASE e # d
        BY <1>4, <2>1, <2>2 DEF DoneInv
    <2>3. CASE e = d
        <3>1. cut[w] /\ d \in adrift
            BY <1>4, <1>7, <2>3 DEF HoldInv
        <3>2. LET n == row[e].attempts + 1 IN
              op'[e][n] = op[e][n] \/ (op[e][n] = "sent" /\ op'[e][n] # "none")
            BY <1>4, <2>3, <3>1
        <3> QED
            BY <1>4, <2>1, <2>3, <3>1, <3>2 DEF DoneInv
    <2> QED
        BY <2>2, <2>3
<1> QED
    BY <1>5, <1>6, <1>7


\* What a dispatch has recorded, and how far the ledger is ahead of the rows,
\* through every step (record_attempt, dispatch_on, replay_delivery, issue_once).
LEMMA LedgerStep == IInv /\ [Next]_vars => DoneInv' /\ LedgerInv'
<1> SUFFICES ASSUME TypeOK, HoldInv, CallInv, DoneInv, LedgerInv, [Next]_vars
             PROVE  DoneInv' /\ LedgerInv'
    BY DEF IInv
<1>0. \A d \in Deliveries : holder[d] \in Workers => row[d].attempts + 1 \in Attempts
    BY HeldHasANext
<1>1. ASSUME NEW d \in Deliveries, RecordEvent(d)
      PROVE  DoneInv' /\ LedgerInv'
    <2>1. /\ row[d].state = "none" /\ row'[d] = [state |-> "pending", attempts |-> 0]
          /\ \A e \in Deliveries \ {d} : row'[e] = row[e]
          /\ UNCHANGED <<holder, todo, copy, op, adrift>>
        BY <1>1 DEF RecordEvent, TypeOK
    <2>2. holder[d] \notin Workers
        BY <2>1 DEF HoldInv
    <2>3. DoneInv'
        BY <2>1, <2>2 DEF DoneInv
    <2>4. LedgerInv'
        BY <2>1 DEF LedgerInv, NoKeyAheadOfTheRow
    <2> QED
        BY <2>3, <2>4
<1>2. ASSUME NEW d \in Deliveries, Replay(d)
      PROVE  DoneInv' /\ LedgerInv'
    <2>1. /\ row[d].state = "exhausted" /\ row'[d] = ReplayedRow(row[d])
          /\ \A e \in Deliveries \ {d} : row'[e] = row[e]
          /\ UNCHANGED <<holder, todo, copy, op, adrift>>
        BY <1>2 DEF Replay, TypeOK
    <2>2. holder[d] \notin Workers
        BY <2>1 DEF HoldInv
    <2>3. DoneInv'
        BY <2>1, <2>2 DEF DoneInv
    <2>4. row'[d].state = "pending" /\ \A n \in Attempts : op[d][n] # "none" => n <= row'[d].attempts + 1
      <3>1. row[d].attempts \in 0..MaxAttempts
          BY DEF TypeOK, Row
      <3>2. \A n \in Attempts : n \in 1..MaxAttempts /\ (op[d][n] # "none" => n <= row[d].attempts + 1)
          BY DEF LedgerInv, NoKeyAheadOfTheRow, Attempts
      <3>3. row'[d].state = "pending"
            /\ row'[d].attempts = IF row[d].attempts > 0 THEN MaxAttempts - 1 ELSE 0
          BY <2>1 DEF ReplayedRow
      <3> QED
          BY <3>1, <3>2, <3>3, AttemptsAssumption
    <2>5. d \notin adrift => \A n \in Attempts : op[d][n] # "succeeded"
        BY <2>1 DEF LedgerInv
    <2>6. LedgerInv'
        BY <2>1, <2>4, <2>5 DEF LedgerInv, NoKeyAheadOfTheRow
    <2> QED
        BY <2>3, <2>6
<1>3. ASSUME NEW d \in Deliveries, BecomeDue(d) \/ Deactivate(d) \/ Reactivate(d)
      PROVE  DoneInv' /\ LedgerInv'
    <2>1. UNCHANGED <<row, holder, todo, copy, op, adrift>>
        BY <1>3 DEF BecomeDue, Deactivate, Reactivate
    <2> QED
        BY <2>1 DEF DoneInv, LedgerInv, NoKeyAheadOfTheRow
<1>4. ASSUME NEW w \in Workers, NEW D \in SUBSET Claimable, ClaimDue(w, D)
      PROVE  DoneInv' /\ LedgerInv'
    <2>1. UNCHANGED <<row, op, adrift>>
        BY <1>4 DEF ClaimDue
    <2>2. \A v \in Workers, d \in Deliveries : holder'[d] = v /\ d \notin todo'[v] =>
             holder[d] = v /\ d \notin todo[v] /\ copy'[v][d] = copy[v][d]
        BY <1>4 DEF ClaimDue, HoldInv, TypeOK
    <2> QED
        BY <1>0, <2>1, <2>2, DoneKept, LedgerKept DEF OpGrows
<1>5. ASSUME NEW w \in Workers, NEW d \in Deliveries, Park(w, d)
      PROVE  DoneInv' /\ LedgerInv'
    <2>1. /\ d \in todo[w] /\ RecordAttempt(w, d, Parked(copy[w][d]))
          /\ UNCHANGED <<row, holder, op>> /\ copy[w][d] \in Row
          /\ adrift' = IF op[d][Key(w, d)] = "succeeded" THEN adrift \union {d} ELSE adrift
        BY <1>5 DEF Park, TypeOK
    <2>2. /\ Parked(copy[w][d]) \in Row /\ Parked(copy[w][d]).state = "exhausted"
          /\ Parked(copy[w][d]).attempts = copy[w][d].attempts
        BY <2>1, ParkedRow
    <2>3. IF cut[w] THEN d \in adrift ELSE copy[w][d] = row[d]
        BY <2>1 DEF HoldInv
    <2>4. adrift \subseteq adrift' /\ (op[d][Key(w, d)] = "succeeded" => d \in adrift')
        BY <2>1
    <2>5. DoneInv'
        BY <2>1, <2>2, <2>3, <2>4, RecordingKeepsDone DEF Key
    <2>6. LedgerInv'
        BY <2>1, <2>4, LedgerKept DEF OpGrows
    <2> QED
        BY <2>5, <2>6
<1>6. ASSUME NEW w \in Workers, NEW d \in Deliveries, Found(w, d)
      PROVE  DoneInv' /\ LedgerInv'
    <2> DEFINE found == op[d][Key(w, d)]
               r == Settled(copy[w][d], found)
    <2>1. /\ d \in todo[w] /\ RecordAttempt(w, d, r) /\ found # "none"
          /\ UNCHANGED <<row, holder, op, adrift>>
        BY <1>6 DEF Found
    <2>2. copy[w][d] \in Row /\ copy[w][d].attempts < MaxAttempts
        BY <2>1 DEF TypeOK, HoldInv
    <2>3. /\ r \in Row /\ r.attempts = copy[w][d].attempts + 1 /\ r.state # "none"
          /\ r.state = "delivered" <=> found = "succeeded"
        BY <2>2, SettledRow
    <2>4. IF cut[w] THEN d \in adrift ELSE copy[w][d] = row[d]
        BY <2>1 DEF HoldInv
    <2>5. DoneInv'
        BY <2>1, <2>3, <2>4, RecordingKeepsDone DEF Key
    <2>6. LedgerInv'
        BY <2>1, LedgerKept DEF OpGrows
    <2> QED
        BY <2>5, <2>6
<1>7. ASSUME NEW w \in Workers, NEW d \in Deliveries, Issue(w, d)
      PROVE  DoneInv' /\ LedgerInv'
    <2> DEFINE k == Key(w, d)
    <2>1. d \in todo[w] /\ k \in Attempts /\ op[d][k] = "none" /\ UNCHANGED <<row, holder, todo, copy, adrift>>
        BY <1>7, KeyIsAnAttempt DEF Issue
    <2>2. op'[d][k] = "sent" /\ \A e \in Deliveries, m \in Attempts : e # d \/ m # k => op'[e][m] = op[e][m]
        BY <1>7, <2>1 DEF Issue, TypeOK
    <2>3. row[d].state # "none" /\ k <= row[d].attempts + 1
        BY <2>1 DEF HoldInv, Key, TypeOK, Row
    <2>4. d \notin adrift => holder[d] = w /\ row[d].state = "pending"
        BY <2>1 DEF HoldInv
    <2>5. ASSUME NEW v \in Workers, NEW e \in Deliveries, holder[e] = v, e \notin todo[v],
                 NEW n, n = row[e].attempts + 1
          PROVE  /\ n \in Attempts
                 /\ op[e][n] # "none" => op'[e][n] # "none"
                 /\ op[e][n] = "succeeded" => op'[e][n] = "succeeded"
                 /\ op[e][n] # "succeeded" => op'[e][n] # "succeeded"
        BY <1>0, <2>1, <2>2, <2>5
    <2>6. DoneInv'
        BY <2>1, <2>5 DEF DoneInv
    <2>7. LedgerInv'
        BY <2>1, <2>2, <2>3, <2>4 DEF LedgerInv, NoKeyAheadOfTheRow
    <2> QED
        BY <2>6, <2>7
<1>8. ASSUME NEW w \in Workers, NEW outcome \in CallOutcome, Answer(w, outcome)
      PROVE  DoneInv' /\ LedgerInv'
    <2> SUFFICES ASSUME NEW d, d = hand[w], NEW k, k = Key(w, d),
                        NEW r, r = PlanNext(copy[w][d], outcome)
                 PROVE  DoneInv' /\ LedgerInv'
        OBVIOUS
    <2>1. d \in todo[w] /\ d \in Deliveries /\ k \in Attempts
          /\ copy[w][d] \in Row /\ copy[w][d].attempts < MaxAttempts
        BY <1>8, KeyIsAnAttempt DEF Answer, HoldInv
    <2>2. RecordAttempt(w, d, r) /\ op[d][k] = "sent" /\ UNCHANGED <<row, holder, adrift>>
          /\ op' = [op EXCEPT ![d][k] = StateAfterCall[outcome]]
        BY <1>8 DEF Answer
    <2>3. /\ op'[d][k] = StateAfterCall[outcome]
          /\ \A e \in Deliveries, m \in Attempts : e # d \/ m # k => op'[e][m] = op[e][m]
        BY <2>1, <2>2, OneCell DEF TypeOK
    <2>4. /\ r \in Row /\ r.attempts = copy[w][d].attempts + 1 /\ r.state # "none"
          /\ r.state = "delivered" <=> outcome = "ok"
        BY <2>1, PlanNextRow
    <2>5. StateAfterCall[outcome] # "none" /\ (StateAfterCall[outcome] = "succeeded" <=> outcome = "ok")
        BY DEF StateAfterCall
    <2>6. IF cut[w] THEN d \in adrift
          ELSE copy[w][d] = row[d] /\ row[d].state = "pending" /\ k = row[d].attempts + 1
        BY <2>1 DEF HoldInv, Key
    <2>7. \A n \in Attempts : op'[d][n] = op[d][n] \/ (op[d][n] = "sent" /\ op'[d][n] # "none")
        BY <2>1, <2>2, <2>3, <2>5
    <2>8. ~cut[w] =>
             LET n == row[d].attempts + 1 IN
             /\ \/ r.attempts = n /\ op'[d][n] # "none"
                \/ r.attempts = row[d].attempts /\ r.state = "exhausted"
             /\ r.state = "delivered" => op'[d][n] = "succeeded" /\ r.attempts = n
             /\ d \in adrift' \/ r.state = "delivered" \/ op'[d][n] # "succeeded"
        BY <2>3, <2>4, <2>5, <2>6
    <2>9. /\ \A e \in Deliveries, n \in Attempts : e # d => op'[e][n] = op[e][n]
          /\ cut[w] => d \in adrift /\ \A n \in Attempts :
                op'[d][n] = op[d][n] \/ (op[d][n] = "sent" /\ op'[d][n] # "none")
        BY <2>3, <2>6, <2>7
    <2>10. DoneInv'
        BY <2>1, <2>2, <2>4, <2>8, <2>9, RecordingKeepsDone
    <2>11. LedgerInv'
        BY <2>1, <2>2, <2>3, <2>5, <2>6, <2>7 DEF LedgerInv, NoKeyAheadOfTheRow
    <2> QED
        BY <2>10, <2>11
<1>9. ASSUME NEW w \in Workers, Overtaken(w) \/ Raise(w) \/ Crash(w)
      PROVE  DoneInv' /\ LedgerInv'
    <2>1. EndBatch(w) /\ Release(w) /\ UNCHANGED <<row, adrift>>
        BY <1>9 DEF Overtaken, Raise, Crash
    <2>2. OpGrows
        BY <1>9, RaiseWrites DEF Overtaken, Crash, OpGrows
    <2>3. \A v \in Workers, d \in Deliveries : holder'[d] = v /\ d \notin todo'[v] =>
             holder[d] = v /\ d \notin todo[v] /\ copy'[v][d] = copy[v][d]
        BY <2>1, BatchEnds, LocksGo
    <2> QED
        BY <1>0, <2>1, <2>2, <2>3, DoneKept, LedgerKept
<1>10. ASSUME NEW w \in Workers, Cut(w)
       PROVE  DoneInv' /\ LedgerInv'
    <2>1. Release(w) /\ UNCHANGED <<row, op, todo, copy>> /\ adrift \subseteq adrift'
        BY <1>10 DEF Cut
    <2>2. \A v \in Workers, d \in Deliveries : holder'[d] = v => holder[d] = v
        BY <2>1, LocksGo
    <2> QED
        BY <1>0, <2>1, <2>2, DoneKept, LedgerKept DEF OpGrows
<1>11. ASSUME NEW w \in Workers, Commit(w)
       PROVE  DoneInv' /\ LedgerInv'
    <2>1. /\ todo[w] = {} /\ EndBatch(w) /\ Release(w) /\ UNCHANGED <<op, adrift>>
          /\ \A d \in Deliveries : row'[d] = IF holder[d] = w THEN copy[w][d] ELSE row[d]
        BY <1>11 DEF Commit
    <2>2. /\ \A v \in Workers \ {w} : todo'[v] = todo[v] /\ copy'[v] = copy[v]
          /\ \A d \in Deliveries : holder'[d] # w
          /\ \A d \in Deliveries : holder'[d] \in Workers => holder'[d] = holder[d]
        BY <2>1, BatchEnds, LocksGo
    <2>3. DoneInv'
        BY <2>1, <2>2 DEF DoneInv
    <2>4. ASSUME NEW d \in Deliveries, holder[d] = w
          PROVE  LET n == row[d].attempts + 1 IN
                 /\ n \in Attempts /\ row[d].state = "pending"
                 /\ row'[d].state # "none" /\ row'[d].attempts >= row[d].attempts
                 /\ row'[d].state = "delivered" => op[d][n] = "succeeded" /\ row'[d].attempts = n
                 /\ d \in adrift \/ row'[d].state = "delivered" \/ op[d][n] # "succeeded"
        BY <1>0, <2>1, <2>4 DEF DoneInv, HoldInv
    <2>5. NoKeyAheadOfTheRow'
        <3> SUFFICES ASSUME NEW d \in Deliveries, NEW n \in Attempts, op[d][n] # "none"
                     PROVE  n <= row'[d].attempts + 1
            BY <2>1 DEF NoKeyAheadOfTheRow
        <3>1. n <= row[d].attempts + 1
            BY DEF LedgerInv, NoKeyAheadOfTheRow
        <3>2. row[d] \in Row /\ copy[w][d] \in Row
            BY DEF TypeOK
        <3>3. row'[d] \in Row
            BY <2>1, <3>2
        <3> QED
            BY <2>1, <2>4, <3>1, <3>2, <3>3 DEF Row
    <2>6. \A d \in Deliveries, n \in Attempts : row'[d].state = "none" => op'[d][n] = "none"
        BY <2>1, <2>4 DEF LedgerInv
    <2>7. \A d \in Deliveries : row'[d].state = "delivered" => \E n \in Attempts : op'[d][n] = "succeeded"
        BY <2>1, <2>4 DEF LedgerInv
    <2>8. ASSUME NEW d \in Deliveries \ adrift, NEW n \in Attempts
          PROVE  /\ op'[d][n] = "succeeded" =>
                       \/ row'[d].state = "pending" /\ n = row'[d].attempts + 1
                       \/ row'[d].state = "delivered" /\ n = row'[d].attempts
                 /\ row'[d].state = "delivered" /\ n > row'[d].attempts => op'[d][n] = "none"
        <3>1. CASE holder[d] # w
            BY <2>1, <2>8, <3>1 DEF LedgerInv
        <3>2. CASE holder[d] = w
            <4>1. op[d][n] = "succeeded" => n = row[d].attempts + 1 /\ row'[d].state = "delivered"
                BY <2>4, <2>8, <3>2 DEF LedgerInv
            <4>2. op[d][n] # "none" => n <= row[d].attempts + 1
                BY DEF LedgerInv, NoKeyAheadOfTheRow
            <4>3. row'[d].state = "delivered" => row'[d].attempts = row[d].attempts + 1
                BY <2>4, <3>2
            <4> QED
                BY <2>1, <4>1, <4>2, <4>3 DEF TypeOK, Row
        <3> QED
            BY <3>1, <3>2
    <2>9. LedgerInv'
        BY <2>1, <2>5, <2>6, <2>7, <2>8 DEF LedgerInv
    <2> QED
        BY <2>3, <2>9
<1>12. ASSUME NEW w \in Workers, Send(w)
       PROVE  DoneInv' /\ LedgerInv'
    <2>1. UNCHANGED <<row, holder, todo, copy, op, adrift>>
        BY <1>12 DEF Send
    <2> QED
        BY <2>1 DEF DoneInv, LedgerInv, NoKeyAheadOfTheRow
<1>13. ASSUME NEW d \in Deliveries, NEW n \in Attempts, NEW end \in {"accepted", "lost"},
              Arrive(d, n, end)
       PROVE  DoneInv' /\ LedgerInv'
    <2>1. UNCHANGED <<row, holder, todo, copy, op, adrift>>
        BY <1>13 DEF Arrive
    <2> QED
        BY <2>1 DEF DoneInv, LedgerInv, NoKeyAheadOfTheRow
<1>14. ASSUME NEW d \in Deliveries, NEW n \in Attempts, Sweep(d, n)
       PROVE  DoneInv' /\ LedgerInv'
    <2>1. UNCHANGED <<row, holder, todo, copy, adrift>>
        BY <1>14 DEF Sweep
    <2>2. OpGrows
        BY <1>14, SweepWrites DEF OpGrows
    <2> QED
        BY <1>0, <2>1, <2>2, DoneKept, LedgerKept
<1>15. CASE UNCHANGED vars
    <2>1. UNCHANGED <<row, holder, todo, copy, op, adrift>>
        BY <1>15 DEF vars
    <2> QED
        BY <2>1 DEF DoneInv, LedgerInv, NoKeyAheadOfTheRow
<1> QED
    BY <1>1, <1>2, <1>3, <1>4, <1>5, <1>6, <1>7, <1>8, <1>9, <1>10, <1>11, <1>12, <1>13, <1>14, <1>15
       DEF Next, Dispatch, Fault, Console, World

\* The whole invariant is inductive.
LEMMA InvStep == IInv /\ [Next]_vars => IInv'
BY HoldStep, CallStep, LedgerStep DEF IInv

\* A row that says delivered names an event its subscriber took, whatever
\* crashed, was cut, or was replayed on the way (settled, plan_next).
THEOREM DeliveredIsTrue == Spec => []DeliveredMeansAccepted
<1>1. IInv => DeliveredMeansAccepted
    BY DEF IInv, LedgerInv, CallInv, DeliveredMeansAccepted
<1> QED
    BY <1>1, InvInit, InvStep, PTL DEF Spec

\* The ledger is at most one attempt ahead of the row (delivery_operation).
THEOREM OneKeyAhead == Spec => []NoKeyAheadOfTheRow
<1>1. IInv => NoKeyAheadOfTheRow
    BY DEF IInv, LedgerInv
<1> QED
    BY <1>1, InvInit, InvStep, PTL DEF Spec

\* After an acceptance the ledger holds, no later attempt is issued, but of a
\* delivery set adrift (issue_once, settled).
THEOREM AcceptanceIsFinal == Spec => []NothingAfterAnAcceptance
<1>1. IInv => NothingAfterAnAcceptance
    <2> SUFFICES ASSUME IInv, NEW d \in Deliveries \ adrift, NEW m \in Attempts, NEW n \in Attempts,
                        m < n, op[d][m] = "succeeded"
                 PROVE  op[d][n] = "none"
        BY DEF NothingAfterAnAcceptance
    <2>1. CASE row[d].state = "pending" /\ m = row[d].attempts + 1
        BY <2>1 DEF IInv, LedgerInv, NoKeyAheadOfTheRow, TypeOK, Row
    <2>2. CASE row[d].state = "delivered" /\ m = row[d].attempts
        BY <2>2 DEF IInv, LedgerInv
    <2> QED
        BY <2>1, <2>2 DEF IInv, LedgerInv
<1> QED
    BY <1>1, InvInit, InvStep, PTL DEF Spec

-----------------------------------------------------------------------------
(* The promise of a delivery.                                              *)

\* A record nobody won has sent nothing, and a caller that won one has sent
\* its request or is about to.
SentInv ==
    /\ \A d \in Deliveries, n \in Attempts : op[d][n] = "none" => fate[d][n] = "unsent"
    /\ \A w \in Workers, d \in Deliveries, n \in Attempts :
          Calling(w, d, n) => (pc[w] = "won" <=> fate[d][n] = "unsent")

\* A step that lets no request out and begins no call keeps it.
LEMMA SentKept ==
    ASSUME SentInv, fate' = fate,
           \A d \in Deliveries, n \in Attempts : op'[d][n] = "none" => op[d][n] = "none",
           \A v \in Workers, d \in Deliveries, n \in Attempts :
               Calling(v, d, n)' => Calling(v, d, n) /\ pc'[v] = pc[v]
    PROVE  SentInv'
BY DEF SentInv

\* Through every step of a dispatch, a fault, the far side and the sweep
\* (send_once, issue_once, HttpsSender.send).
LEMMA SentStep == TypeOK /\ HoldInv /\ CallInv /\ SentInv /\ [Next]_vars => SentInv'
<1> SUFFICES ASSUME TypeOK, HoldInv, CallInv, SentInv, [Next]_vars PROVE SentInv'
    OBVIOUS
<1>1. CASE UNCHANGED <<op, fate, pc, hand, copy>>
    BY <1>1, SentKept DEF Calling, Key
<1>2. ASSUME NEW w \in Workers, NEW D \in SUBSET Claimable, ClaimDue(w, D)
      PROVE  SentInv'
    <2>1. \A v \in Workers, d \in Deliveries, n \in Attempts :
             Calling(v, d, n)' => Calling(v, d, n) /\ pc'[v] = pc[v]
        BY <1>2 DEF ClaimDue, Calling, Key, TypeOK
    <2> QED
        BY <1>2, <2>1, SentKept DEF ClaimDue
<1>3. ASSUME NEW w \in Workers, NEW d \in Deliveries, Park(w, d)
      PROVE  SentInv'
    <2>1. Parked(copy[w][d]) \in Row
        BY ParkedRow DEF TypeOK
    <2> QED
        BY <1>3, <2>1, RecordingEndsTheCall, SentKept DEF Park
<1>4. ASSUME NEW w \in Workers, NEW d \in Deliveries, Found(w, d)
      PROVE  SentInv'
    <2>1. Settled(copy[w][d], op[d][Key(w, d)]) \in Row
        BY <1>4, KeyIsAnAttempt, SettledRow DEF Found, HoldInv
    <2> QED
        BY <1>4, <2>1, RecordingEndsTheCall, SentKept DEF Found
<1>5. ASSUME NEW w \in Workers, NEW d \in Deliveries, Issue(w, d)
      PROVE  SentInv'
    <2> DEFINE k == Key(w, d)
    <2>1. k \in Attempts /\ op[d][k] = "none" /\ fate' = fate
        BY <1>5, KeyIsAnAttempt DEF Issue
    <2>2. op' = [op EXCEPT ![d][k] = "sent"]
        BY <1>5 DEF Issue
    <2>3. op'[d][k] = "sent" /\ \A e \in Deliveries, n \in Attempts : e # d \/ n # k => op'[e][n] = op[e][n]
        BY <2>1, <2>2, OneCell DEF TypeOK
    <2>4. \A v \in Workers, e \in Deliveries, n \in Attempts : Calling(v, e, n)' =>
             \/ v = w /\ e = d /\ n = k /\ pc'[v] = "won"
             \/ v # w /\ Calling(v, e, n) /\ pc'[v] = pc[v]
        BY <1>5 DEF Issue, Calling, Key, TypeOK
    <2> QED
        BY <2>1, <2>3, <2>4 DEF SentInv
<1>6. ASSUME NEW w \in Workers, Send(w)
      PROVE  SentInv'
    <2> SUFFICES ASSUME NEW d, d = hand[w], NEW k, k = Key(w, d) PROVE SentInv'
        OBVIOUS
    <2>1. d \in Deliveries /\ k \in Attempts /\ Calling(w, d, k) /\ op' = op
        BY <1>6, KeyIsAnAttempt DEF Send, HoldInv, Calling
    <2>2. fate' = [fate EXCEPT ![d][k] = "travelling"]
        BY <1>6 DEF Send
    <2>3. fate'[d][k] = "travelling" /\ \A e \in Deliveries, n \in Attempts : e # d \/ n # k => fate'[e][n] = fate[e][n]
        BY <2>1, <2>2, OneCell DEF TypeOK
    <2>4. \A v \in Workers, e \in Deliveries, n \in Attempts : Calling(v, e, n)' =>
             Calling(v, e, n) /\ (IF v = w THEN pc'[v] = "calling" ELSE pc'[v] = pc[v])
        BY <1>6 DEF Send, Calling, Key, TypeOK
    <2>5. \A v \in Workers : Calling(v, d, k) => v = w
        BY <2>1 DEF CallInv
    <2>6. op[d][k] # "none"
        BY <2>1 DEF CallInv
    <2>7. \A v \in Workers, e \in Deliveries, n \in Attempts : Calling(v, e, n) /\ v = w => e = d /\ n = k
        BY DEF Calling
    <2> QED
        BY <2>1, <2>3, <2>4, <2>5, <2>6, <2>7 DEF SentInv
<1>7. ASSUME NEW w \in Workers, NEW outcome \in CallOutcome, Answer(w, outcome)
      PROVE  SentInv'
    <2> SUFFICES ASSUME NEW d, d = hand[w], NEW k, k = Key(w, d) PROVE SentInv'
        OBVIOUS
    <2>1. d \in Deliveries /\ k \in Attempts /\ Calling(w, d, k)
          /\ PlanNext(copy[w][d], outcome) \in Row
        BY <1>7, KeyIsAnAttempt, PlanNextRow DEF Answer, HoldInv, Calling
    <2>2. RecordAttempt(w, d, PlanNext(copy[w][d], outcome)) /\ op' = [op EXCEPT ![d][k] = StateAfterCall[outcome]]
          /\ fate' = IF outcome \in {"rejected", "quota"} THEN [fate EXCEPT ![d][k] = "lost"] ELSE fate
        BY <1>7 DEF Answer
    <2>3. \A v \in Workers, e \in Deliveries, n \in Attempts :
             Calling(v, e, n)' => v # w /\ Calling(v, e, n) /\ pc'[v] = pc[v]
        BY <2>1, <2>2, RecordingEndsTheCall
    <2>4. /\ op'[d][k] # "none"
          /\ \A e \in Deliveries, n \in Attempts : e # d \/ n # k => op'[e][n] = op[e][n]
        BY <2>1, <2>2, OneCell DEF TypeOK, StateAfterCall
    <2>5. \A e \in Deliveries, n \in Attempts : e # d \/ n # k => fate'[e][n] = fate[e][n]
        BY <2>1, <2>2, OneCell DEF TypeOK
    <2>6. \A v \in Workers : v # w => ~Calling(v, d, k)
        BY <2>1 DEF CallInv
    <2> QED
        BY <2>3, <2>4, <2>5, <2>6 DEF SentInv
<1>8. ASSUME NEW w \in Workers, Raise(w)
      PROVE  SentInv'
    <2>1. EndBatch(w) /\ fate' = fate
        BY <1>8 DEF Raise
    <2>2. \A d \in Deliveries, n \in Attempts : op'[d][n] = "none" => op[d][n] = "none"
        BY <1>8, RaiseWrites
    <2> QED
        BY <2>1, <2>2, EndingEndsTheCall, SentKept
<1>9. ASSUME NEW w \in Workers, Overtaken(w) \/ Crash(w) \/ Commit(w)
      PROVE  SentInv'
    <2>1. EndBatch(w) /\ UNCHANGED <<op, fate>>
        BY <1>9 DEF Overtaken, Crash, Commit
    <2> QED
        BY <2>1, EndingEndsTheCall, SentKept
<1>10. ASSUME NEW d \in Deliveries, NEW n \in Attempts, NEW end \in {"accepted", "lost"},
              Arrive(d, n, end)
       PROVE  SentInv'
    <2>1. UNCHANGED <<op, pc, hand, copy>> /\ fate[d][n] = "travelling" /\ fate' = [fate EXCEPT ![d][n] = end]
        BY <1>10 DEF Arrive
    <2>2. /\ fate'[d][n] = end
          /\ \A e \in Deliveries, m \in Attempts : e # d \/ m # n => fate'[e][m] = fate[e][m]
        BY <2>1, OneCell DEF TypeOK
    <2>3. \A e \in Deliveries, m \in Attempts : fate'[e][m] = "unsent" <=> fate[e][m] = "unsent"
        BY <2>1, <2>2
    <2> QED
        BY <2>1, <2>3 DEF SentInv, Calling, Key
<1>11. ASSUME NEW d \in Deliveries, NEW n \in Attempts, Sweep(d, n)
       PROVE  SentInv'
    <2>1. UNCHANGED <<fate, pc, hand, copy>>
        BY <1>11 DEF Sweep
    <2>2. \A e \in Deliveries, m \in Attempts : op'[e][m] = "none" => op[e][m] = "none"
        BY <1>11, SweepWrites
    <2> QED
        BY <2>1, <2>2, SentKept DEF Calling, Key
<1> QED
    BY <1>1, <1>2, <1>3, <1>4, <1>5, <1>6, <1>7, <1>8, <1>9, <1>10, <1>11
       DEF Next, Dispatch, Fault, Console, World, RecordEvent, Replay, Deactivate, Reactivate,
           BecomeDue, Cut, vars

HIDE DEF Attempts

\* One cell of the fates moves one request of the promise.
LEMMA RequestMoves ==
    ASSUME TypeOK, NEW d \in Deliveries, NEW n \in Attempts,
           NEW x \in {"unsent", "travelling", "accepted", "lost"}, fate' = [fate EXCEPT ![d][n] = x]
    PROVE  /\ <<d, n>> \in Deliveries \X Attempts
           /\ Requests[<<d, n>>] = IF fate[d][n] = "accepted" THEN "applied" ELSE fate[d][n]
           /\ Requests' = [Requests EXCEPT ![<<d, n>>] = IF x = "accepted" THEN "applied" ELSE x]
<1>1. fate'[d][n] = x /\ \A e \in Deliveries, m \in Attempts : e # d \/ m # n => fate'[e][m] = fate[e][m]
    BY OneCell DEF TypeOK
<1>2. ASSUME NEW k \in Deliveries \X Attempts
      PROVE  Requests'[k] = IF k = <<d, n>> THEN (IF x = "accepted" THEN "applied" ELSE x) ELSE Requests[k]
    <2>1. k[1] \in Deliveries /\ k[2] \in Attempts /\ k = <<k[1], k[2]>>
        OBVIOUS
    <2>2. k = <<d, n>> <=> k[1] = d /\ k[2] = n
        BY <2>1
    <2>3. Requests'[k] = IF fate'[k[1]][k[2]] = "accepted" THEN "applied" ELSE fate'[k[1]][k[2]]
        BY DEF Requests
    <2>4. Requests[k] = IF fate[k[1]][k[2]] = "accepted" THEN "applied" ELSE fate[k[1]][k[2]]
        BY DEF Requests
    <2> QED
        BY <1>1, <2>1, <2>2, <2>3, <2>4
<1>3. /\ Requests = [k \in Deliveries \X Attempts |-> Requests[k]]
      /\ Requests' = [k \in Deliveries \X Attempts |-> Requests'[k]]
    BY DEF Requests
<1>4. <<d, n>> \in Deliveries \X Attempts
    OBVIOUS
<1>5. Requests[<<d, n>>] = IF fate[d][n] = "accepted" THEN "applied" ELSE fate[d][n]
    BY <1>4 DEF Requests
<1> QED
    BY <1>2, <1>3, <1>4, <1>5

\* One cell of the ledger that gets a verdict moves one verdict of the promise.
LEMMA VerdictMoves ==
    ASSUME NEW d \in Deliveries, NEW n \in Attempts, op'[d][n] \in {"succeeded", "failed"},
           \A e \in Deliveries, m \in Attempts : e # d \/ m # n => op'[e][m] = op[e][m]
    PROVE  Verdicts' = [Verdicts EXCEPT ![<<d, n>>] = op'[d][n]]
<1>2. ASSUME NEW k \in Deliveries \X Attempts
      PROVE  Verdicts'[k] = IF k = <<d, n>> THEN op'[d][n] ELSE Verdicts[k]
    <2>1. k[1] \in Deliveries /\ k[2] \in Attempts /\ k = <<k[1], k[2]>>
        OBVIOUS
    <2>2. k = <<d, n>> <=> k[1] = d /\ k[2] = n
        BY <2>1
    <2>3. Verdicts'[k] = IF op'[k[1]][k[2]] \in {"succeeded", "failed"} THEN op'[k[1]][k[2]] ELSE "open"
        BY DEF Verdicts
    <2>4. Verdicts[k] = IF op[k[1]][k[2]] \in {"succeeded", "failed"} THEN op[k[1]][k[2]] ELSE "open"
        BY DEF Verdicts
    <2> QED
        BY <2>1, <2>2, <2>3, <2>4
<1>3. /\ Verdicts = [k \in Deliveries \X Attempts |-> Verdicts[k]]
      /\ Verdicts' = [k \in Deliveries \X Attempts |-> Verdicts'[k]]
    BY DEF Verdicts
<1>4. <<d, n>> \in Deliveries \X Attempts
    OBVIOUS
<1> QED
    BY <1>2, <1>3, <1>4

\* A record won, or given up without an answer, shows nothing.
LEMMA VerdictsStay ==
    ASSUME \A d \in Deliveries, n \in Attempts :
               \/ op'[d][n] = op[d][n]
               \/ {op[d][n], op'[d][n]} \intersect {"succeeded", "failed"} = {}
    PROVE  Verdicts' = Verdicts
BY DEF Verdicts

\* What is known of a delivery, in the promise's words and in the ledger's.
LEMMA KnownIsOnTheLedger ==
    ASSUME NEW d \in Deliveries
    PROVE  Promise!Known(d) <=> \E n \in Attempts : op[d][n] = "succeeded"
BY DEF Promise!Known, Verdicts

\* An empty outbox has promised nothing yet.
LEMMA PromiseInit == Init => Promise!DInit
<1> SUFFICES ASSUME Init PROVE Promise!DInit
    OBVIOUS
<1>1. Requests = [k \in Deliveries \X Attempts |-> "unsent"]
    BY DEF Init, Requests
<1>2. Verdicts = [k \in Deliveries \X Attempts |-> "open"]
    BY DEF Init, Verdicts
<1>3. Stages = [d \in Deliveries |-> "none"]
    BY DEF Init, Stages, Blank, NoRow
<1> QED
    BY <1>1, <1>2, <1>3 DEF Init, Promise!DInit, Promise!PInit

\* The request of a call that was won leaves as the promise lets it: of a
\* delivery that waits, after the others, none of which is known to be taken.
LEMMA SendIsAnAttempt ==
    ASSUME IInv, SentInv, NEW w \in Workers, Send(w)
    PROVE  \E d \in Deliveries, n \in Attempts : Promise!Attempt(d, n)
<1> SUFFICES ASSUME NEW d, d = hand[w], NEW n, n = Key(w, d)
             PROVE  \E e \in Deliveries, m \in Attempts : Promise!Attempt(e, m)
    OBVIOUS
<1>1. d \in todo[w] /\ d \in Deliveries /\ n \in Attempts /\ pc[w] = "won"
    BY KeyIsAnAttempt DEF IInv, HoldInv, Send
<1>2. Calling(w, d, n)
    BY <1>1 DEF Calling
<1>3. fate[d][n] = "unsent" /\ op[d][n] \in {"sent", "unknown"}
    BY <1>1, <1>2 DEF IInv, CallInv, SentInv
<1>4. /\ fate' = [fate EXCEPT ![d][n] = "travelling"]
      /\ UNCHANGED <<row, replayed, op, adrift>>
    BY DEF Send
<1>5. /\ Requests[<<d, n>>] = "unsent"
      /\ Requests' = [Requests EXCEPT ![<<d, n>>] = "travelling"]
      /\ <<d, n>> \in Deliveries \X Attempts
    BY <1>1, <1>3, <1>4, RequestMoves DEF IInv
<1>6. Verdicts[<<d, n>>] = "open" /\ Verdicts' = Verdicts /\ Stages' = Stages
    BY <1>1, <1>3, <1>4, <1>5 DEF Verdicts, Stages
<1>7. Promise!Issue(<<d, n>>)
    BY <1>5, <1>6 DEF Promise!Issue
<1>8. row[d].state # "none"
    BY <1>1 DEF IInv, HoldInv
<1>9. ASSUME d \notin adrift
      PROVE  /\ row[d].state = "pending" /\ ~Promise!Known(d)
             /\ \A m \in Attempts : m > n => Requests[<<d, m>>] = "unsent"
    <2>1. row[d].state = "pending" /\ n = row[d].attempts + 1
        BY <1>1, <1>9 DEF IInv, HoldInv, Key
    <2>2. \A m \in Attempts : op[d][m] # "succeeded"
        BY <1>1, <1>3, <1>9, <2>1 DEF IInv, LedgerInv
    <2>3. ASSUME NEW m \in Attempts, m > n PROVE Requests[<<d, m>>] = "unsent"
        <3>1. op[d][m] = "none"
            BY <1>1, <2>1, <2>3 DEF IInv, LedgerInv, NoKeyAheadOfTheRow, TypeOK, Row, Attempts
        <3>2. fate[d][m] = "unsent"
            BY <1>1, <3>1 DEF SentInv
        <3>3. <<d, m>> \in Deliveries \X Attempts
            BY <1>1
        <3> QED
            BY <3>2, <3>3 DEF Requests
    <2> QED
        BY <1>1, <2>1, <2>2, <2>3, KnownIsOnTheLedger
<1>10. Stages[d] = row[d].state
    BY <1>1 DEF Stages
<1>11. Promise!Attempt(d, n)
    BY <1>4, <1>6, <1>7, <1>8, <1>9, <1>10 DEF Promise!Attempt, Promise!rows
<1> QED
    BY <1>1, <1>11

\* An answer is heard: an acceptance of a request that was taken, a refusal of
\* one that was not, or nothing.
LEMMA AnswerIsHeard ==
    ASSUME IInv, SentInv, NEW w \in Workers, NEW outcome \in CallOutcome, Answer(w, outcome)
    PROVE  \/ \E d \in Deliveries, n \in Attempts : Promise!Hear(d, n)
           \/ UNCHANGED <<Requests, Verdicts, Stages, replayed, adrift>>
<1> SUFFICES ASSUME NEW d, d = hand[w], NEW n, n = Key(w, d)
             PROVE  \/ \E e \in Deliveries, m \in Attempts : Promise!Hear(e, m)
                    \/ UNCHANGED <<Requests, Verdicts, Stages, replayed, adrift>>
    OBVIOUS
<1>1. d \in todo[w] /\ d \in Deliveries /\ n \in Attempts /\ pc[w] = "calling"
    BY KeyIsAnAttempt DEF IInv, HoldInv, Answer
<1>2. fate[d][n] \in {"travelling", "accepted", "lost"}
    <2>1. Calling(w, d, n)
        BY <1>1 DEF Calling
    <2>2. fate[d][n] # "unsent"
        BY <1>1, <2>1 DEF SentInv
    <2> QED
        BY <1>1, <2>2 DEF IInv, TypeOK
<1>3. /\ op[d][n] = "sent" /\ op' = [op EXCEPT ![d][n] = StateAfterCall[outcome]]
      /\ outcome = "ok" => fate[d][n] = "accepted"
      /\ outcome \in {"rejected", "quota"} => fate[d][n] # "accepted"
      /\ fate' = IF outcome \in {"rejected", "quota"} THEN [fate EXCEPT ![d][n] = "lost"] ELSE fate
      /\ UNCHANGED <<row, replayed, adrift>>
    BY DEF Answer
<1>4. Stages' = Stages
    BY <1>3 DEF Stages
<1>5. <<d, n>> \in Deliveries \X Attempts
    BY <1>1
<1>6. TypeOK /\ Verdicts[<<d, n>>] = "open"
    <2>1. TypeOK
        BY DEF IInv
    <2>2. Verdicts[<<d, n>>] = IF op[d][n] \in {"succeeded", "failed"} THEN op[d][n] ELSE "open"
        BY <1>5 DEF Verdicts
    <2> QED
        BY <1>3, <2>1, <2>2
<1>b. ASSUME NEW x, op' = [op EXCEPT ![d][n] = x]
      PROVE  /\ op'[d][n] = x
             /\ \A e \in Deliveries, m \in Attempts : e # d \/ m # n => op'[e][m] = op[e][m]
    <2>1. op \in [Deliveries -> [Attempts -> {"none", "sent", "unknown", "succeeded", "failed"}]]
        BY <1>6 DEF TypeOK
    <2> QED
        BY <1>1, <1>b, <2>1, OneCell
<1>a. ASSUME NEW x \in {"succeeded", "failed"}, op' = [op EXCEPT ![d][n] = x]
      PROVE  Verdicts' = [Verdicts EXCEPT ![<<d, n>>] = x]
    <2>1. /\ op'[d][n] = x
          /\ \A e \in Deliveries, m \in Attempts : e # d \/ m # n => op'[e][m] = op[e][m]
        BY <1>a, <1>b
    <2>2. Verdicts' = [Verdicts EXCEPT ![<<d, n>>] = op'[d][n]]
        BY <1>1, <1>a, <2>1, VerdictMoves
    <2> QED
        BY <2>1, <2>2
<1>7. CASE outcome = "unavailable"
    <2>1. Verdicts' = Verdicts
        <3>1. op' = [op EXCEPT ![d][n] = "unknown"]
            BY <1>3, <1>7 DEF StateAfterCall
        <3>2. /\ op'[d][n] = "unknown"
              /\ \A e \in Deliveries, m \in Attempts : e # d \/ m # n => op'[e][m] = op[e][m]
            BY <1>b, <3>1
        <3> QED
            BY <1>3, <3>2, VerdictsStay
    <2>2. Requests' = Requests
        BY <1>3, <1>7 DEF Requests
    <2> QED
        BY <1>3, <1>4, <2>1, <2>2
<1>8. CASE outcome = "ok"
    <2>1. Verdicts' = [Verdicts EXCEPT ![<<d, n>>] = "succeeded"]
        <3>1. op' = [op EXCEPT ![d][n] = "succeeded"]
            BY <1>3, <1>8 DEF StateAfterCall
        <3> QED
            BY <1>a, <3>1
    <2>2. Requests[<<d, n>>] = "applied" /\ Requests' = Requests
        BY <1>3, <1>5, <1>8 DEF Requests
    <2>3. Promise!Conclude(<<d, n>>)
        BY <1>6, <2>1, <2>2 DEF Promise!Conclude
    <2> QED
        BY <1>1, <1>3, <1>4, <2>3 DEF Promise!Hear, Promise!rows
<1>9. CASE outcome \in {"rejected", "quota"}
    <2>1. Verdicts' = [Verdicts EXCEPT ![<<d, n>>] = "failed"]
        <3>1. op' = [op EXCEPT ![d][n] = "failed"]
            <4>1. StateAfterCall[outcome] = "failed"
                BY <1>9 DEF StateAfterCall
            <4> QED
                BY <1>3, <4>1
        <3> QED
            BY <1>a, <3>1
    <2>2. /\ Requests[<<d, n>>] = fate[d][n] /\ fate[d][n] \in {"travelling", "lost"}
          /\ Requests' = [Requests EXCEPT ![<<d, n>>] = "lost"]
        BY <1>1, <1>2, <1>3, <1>9, RequestMoves DEF IInv
    <2>3. CASE fate[d][n] = "travelling"
        <3>1. Promise!Refuse(<<d, n>>)
            BY <1>6, <2>1, <2>2, <2>3 DEF Promise!Refuse
        <3> QED
            BY <1>1, <1>3, <1>4, <3>1 DEF Promise!Hear, Promise!rows
    <2>4. CASE fate[d][n] = "lost"
        <3>1. Requests' = Requests
            <4>1. Requests = [Requests EXCEPT ![<<d, n>>] = Requests[<<d, n>>]]
                BY <1>5 DEF Requests
            <4> QED
                BY <2>2, <2>4, <4>1
        <3>2. Promise!Conclude(<<d, n>>)
            BY <1>6, <2>1, <2>2, <2>4, <3>1 DEF Promise!Conclude
        <3> QED
            BY <1>1, <1>3, <1>4, <3>2 DEF Promise!Hear, Promise!rows
    <2> QED
        BY <2>2, <2>3, <2>4
<1> QED
    BY <1>7, <1>8, <1>9 DEF CallOutcome

\* A batch is written as the promise lets rows be closed: delivered where an
\* acceptance is known, given up where none is or the delivery is adrift.
LEMMA CommitCloses ==
    ASSUME IInv, NEW w \in Workers, Commit(w)
    PROVE  \E done, over \in SUBSET Deliveries : Promise!Close(done, over)
<1> DEFINE done == {d \in Deliveries : holder[d] = w /\ copy[w][d].state = "delivered"}
           over == {d \in Deliveries : holder[d] = w /\ copy[w][d].state = "exhausted"}
<1>1. /\ todo[w] = {} /\ UNCHANGED <<op, fate, replayed, adrift>>
      /\ \A d \in Deliveries : row'[d] = IF holder[d] = w THEN copy[w][d] ELSE row[d]
    BY DEF Commit
<1>2. ASSUME NEW d \in Deliveries, holder[d] = w
      PROVE  /\ row[d].state = "pending"
             /\ copy[w][d].state \in {"pending", "delivered", "exhausted"}
             /\ row[d].attempts + 1 \in Attempts
             /\ copy[w][d].state = "delivered" => op[d][row[d].attempts + 1] = "succeeded"
             /\ d \in adrift \/ copy[w][d].state = "delivered" \/ op[d][row[d].attempts + 1] # "succeeded"
    <2>1. row[d].state = "pending" /\ row[d].attempts + 1 \in Attempts
        BY <1>2, HeldHasANext DEF IInv, HoldInv
    <2>2. copy[w][d].state \in DeliveryState
        BY DEF IInv, TypeOK, Row
    <2> QED
        BY <1>1, <1>2, <2>1, <2>2 DEF IInv, DoneInv, DeliveryState
<1>3. ASSUME NEW d \in done PROVE Stages[d] = "pending" /\ Promise!Known(d)
    BY <1>2, <1>3, KnownIsOnTheLedger DEF Stages
<1>4. ASSUME NEW d \in over PROVE Stages[d] = "pending" /\ (Promise!Known(d) => d \in adrift)
    <2>1. ASSUME d \notin adrift, NEW n \in Attempts PROVE op[d][n] # "succeeded"
        BY <1>2, <1>4, <2>1 DEF IInv, LedgerInv
    <2> QED
        BY <1>2, <1>4, <2>1, KnownIsOnTheLedger DEF Stages
<1>5. Requests' = Requests /\ Verdicts' = Verdicts
    BY <1>1 DEF Requests, Verdicts
<1>6. Stages' = [d \in Deliveries |-> IF d \in done THEN "delivered"
                                      ELSE IF d \in over THEN "exhausted" ELSE Stages[d]]
    <2>1. ASSUME NEW d \in Deliveries
          PROVE  row'[d].state = IF d \in done THEN "delivered"
                                 ELSE IF d \in over THEN "exhausted" ELSE row[d].state
        BY <1>1, <1>2
    <2> QED
        BY <2>1 DEF Stages
<1> HIDE DEF done, over
<1>7. Promise!Close(done, over)
    BY <1>1, <1>3, <1>4, <1>5, <1>6 DEF Promise!Close, Promise!pvars
<1>8. done \in SUBSET Deliveries /\ over \in SUBSET Deliveries
    BY DEF done, over
<1> QED
    BY <1>7, <1>8

\* A transaction that is cut, and a delivery parked over an acceptance, set
\* deliveries that wait adrift.
LEMMA DriftLoosens ==
    ASSUME IInv, NEW w \in Workers, Cut(w) \/ \E d \in Deliveries : Park(w, d)
    PROVE  \/ \E D \in SUBSET Deliveries : Promise!Loosen(D)
           \/ UNCHANGED <<Requests, Verdicts, Stages, replayed, adrift>>
<1>1. UNCHANGED <<row, op, fate, replayed>>
    BY DEF Cut, Park
<1>2. UNCHANGED <<Requests, Verdicts, Stages>>
    BY <1>1 DEF Requests, Verdicts, Stages
<1>3. ASSUME NEW D \in SUBSET todo[w], ~cut[w], adrift' = adrift \union D
      PROVE  Promise!Loosen(D) /\ D \in SUBSET Deliveries
    <2>1. \A d \in D : d \in Deliveries /\ row[d].state = "pending"
        BY <1>3 DEF IInv, HoldInv, TypeOK
    <2>2. \A d \in D : Stages[d] = "pending"
        BY <2>1 DEF Stages
    <2> QED
        BY <1>1, <1>2, <1>3, <2>1, <2>2 DEF Promise!Loosen, Promise!pvars
<1>4. CASE Cut(w)
    BY <1>3, <1>4 DEF Cut
<1>5. ASSUME NEW d \in Deliveries, Park(w, d)
      PROVE  \/ \E D \in SUBSET Deliveries : Promise!Loosen(D)
             \/ UNCHANGED <<Requests, Verdicts, Stages, replayed, adrift>>
    <2>1. d \in todo[w] /\ (adrift' = adrift \union {d} \/ adrift' = adrift)
        BY <1>5 DEF Park
    <2>2. CASE adrift' = adrift
        BY <1>1, <1>2, <2>2
    <2>3. CASE adrift' = adrift \union {d} /\ cut[w]
        <3>1. d \in adrift
            BY <2>1, <2>3 DEF IInv, HoldInv
        <3> QED
            BY <1>1, <1>2, <2>3, <3>1
    <2>4. CASE adrift' = adrift \union {d} /\ ~cut[w]
        BY <1>3, <2>1, <2>4
    <2> QED
        BY <2>1, <2>2, <2>3, <2>4
<1> QED
    BY <1>4, <1>5

\* What the receiver does with a request is heard by nobody yet.
LEMMA ArrivalIsHeard ==
    ASSUME TypeOK, NEW d \in Deliveries, NEW n \in Attempts, NEW end \in {"accepted", "lost"},
           Arrive(d, n, end)
    PROVE  Promise!Hear(d, n)
<1>1. /\ fate[d][n] = "travelling" /\ fate' = [fate EXCEPT ![d][n] = end]
      /\ UNCHANGED <<row, op, replayed, adrift>>
    BY DEF Arrive
<1>2. UNCHANGED <<Verdicts, Stages>>
    BY <1>1 DEF Verdicts, Stages
<1>3. Requests[<<d, n>>] = "travelling"
    BY <1>1 DEF Requests
<1>4. CASE end = "accepted"
    <2>1. fate' = [fate EXCEPT ![d][n] = "accepted"]
        BY <1>1, <1>4
    <2>2. Requests' = [Requests EXCEPT ![<<d, n>>] = "applied"]
        BY <2>1, RequestMoves
    <2>3. Promise!Act(<<d, n>>)
        BY <1>2, <1>3, <2>2 DEF Promise!Act
    <2> QED
        BY <1>1, <1>2, <2>3 DEF Promise!Hear, Promise!rows
<1>5. CASE end = "lost"
    <2>1. fate' = [fate EXCEPT ![d][n] = "lost"]
        BY <1>1, <1>5
    <2>2. Requests' = [Requests EXCEPT ![<<d, n>>] = "lost"]
        BY <2>1, RequestMoves
    <2>3. Promise!Vanish(<<d, n>>)
        BY <1>2, <1>3, <2>2 DEF Promise!Vanish
    <2> QED
        BY <1>1, <1>2, <2>3 DEF Promise!Hear, Promise!rows
<1> QED
    BY <1>4, <1>5

\* Every step is a step of DeliveryPromise, or shows nothing of one.
LEMMA PromiseStep == IInv /\ SentInv /\ [Next]_vars => [Promise!DNext]_(Promise!dvars)
<1> SUFFICES ASSUME IInv, SentInv, [Next]_vars
             PROVE  Promise!DNext \/ UNCHANGED <<Requests, Verdicts, Stages, replayed, adrift>>
    BY DEF Promise!dvars, Promise!pvars, Promise!rows
<1>1. CASE UNCHANGED <<row, op, fate, replayed, adrift>>
    BY <1>1 DEF Requests, Verdicts, Stages
<1>2. ASSUME NEW d \in Deliveries, RecordEvent(d)
      PROVE  Promise!DNext
    <2>1. /\ row[d].state = "none" /\ row' = [row EXCEPT ![d] = [state |-> "pending", attempts |-> 0]]
          /\ UNCHANGED <<op, fate, replayed, adrift>>
        BY <1>2 DEF RecordEvent
    <2>2. /\ Stages[d] = "none" /\ Stages' = [Stages EXCEPT ![d] = "pending"]
          /\ UNCHANGED <<Requests, Verdicts>>
        BY <2>1 DEF IInv, TypeOK, Requests, Verdicts, Stages
    <2>3. Promise!Owe(d)
        BY <2>1, <2>2 DEF Promise!Owe, Promise!pvars
    <2> QED
        BY <2>3 DEF Promise!DNext
<1>3. ASSUME NEW d \in Deliveries, Replay(d)
      PROVE  Promise!DNext
    <2>1. /\ row[d].state = "exhausted" /\ row' = [row EXCEPT ![d] = ReplayedRow(row[d])]
          /\ d \notin replayed /\ replayed' = replayed \union {d}
          /\ UNCHANGED <<op, fate, adrift>>
        BY <1>3 DEF Replay
    <2>2. /\ Stages[d] = "exhausted" /\ Stages' = [Stages EXCEPT ![d] = "pending"]
          /\ UNCHANGED <<Requests, Verdicts>>
        BY <2>1 DEF IInv, TypeOK, Requests, Verdicts, Stages, ReplayedRow
    <2>3. Promise!Reopen(d)
        BY <2>1, <2>2 DEF Promise!Reopen, Promise!pvars
    <2> QED
        BY <2>3 DEF Promise!DNext
<1>4. ASSUME NEW w \in Workers, NEW d \in Deliveries, Issue(w, d)
      PROVE  UNCHANGED <<Requests, Verdicts, Stages, replayed, adrift>>
    <2> SUFFICES ASSUME NEW k, k = Key(w, d)
                 PROVE  UNCHANGED <<Requests, Verdicts, Stages, replayed, adrift>>
        OBVIOUS
    <2>1. /\ op[d][k] = "none" /\ op' = [op EXCEPT ![d][k] = "sent"] /\ k \in Attempts
          /\ UNCHANGED <<row, fate, replayed, adrift>>
        BY <1>4, KeyIsAnAttempt DEF Issue, IInv
    <2>2. op \in [Deliveries -> [Attempts -> {"none", "sent", "unknown", "succeeded", "failed"}]]
        BY DEF IInv, TypeOK
    <2>3. op'[d][k] = "sent" /\ \A e \in Deliveries, m \in Attempts : e # d \/ m # k => op'[e][m] = op[e][m]
        BY <2>1, <2>2, OneCell
    <2>4. Verdicts' = Verdicts
        BY <2>1, <2>3, VerdictsStay
    <2> QED
        BY <2>1, <2>4 DEF Requests, Stages
<1>5. ASSUME NEW w \in Workers, Send(w)
      PROVE  Promise!DNext
    BY <1>5, SendIsAnAttempt DEF Promise!DNext
<1>6. ASSUME NEW w \in Workers, NEW outcome \in CallOutcome, Answer(w, outcome)
      PROVE  Promise!DNext \/ UNCHANGED <<Requests, Verdicts, Stages, replayed, adrift>>
    BY <1>6, AnswerIsHeard DEF Promise!DNext
<1>7. ASSUME NEW w \in Workers, Commit(w)
      PROVE  Promise!DNext
    BY <1>7, CommitCloses DEF Promise!DNext
<1>8. ASSUME NEW w \in Workers, Cut(w) \/ \E d \in Deliveries : Park(w, d)
      PROVE  Promise!DNext \/ UNCHANGED <<Requests, Verdicts, Stages, replayed, adrift>>
    BY <1>8, DriftLoosens DEF Promise!DNext
<1>9. ASSUME NEW w \in Workers, Raise(w)
      PROVE  UNCHANGED <<Requests, Verdicts, Stages, replayed, adrift>>
    <2>1. UNCHANGED <<row, fate, replayed, adrift>>
        BY <1>9 DEF Raise
    <2>2. Verdicts' = Verdicts
        BY <1>9, RaiseWrites, VerdictsStay DEF IInv
    <2> QED
        BY <2>1, <2>2 DEF Requests, Stages
<1>10. ASSUME NEW d \in Deliveries, NEW n \in Attempts, Sweep(d, n)
       PROVE  UNCHANGED <<Requests, Verdicts, Stages, replayed, adrift>>
    <2>1. UNCHANGED <<row, fate, replayed, adrift>>
        BY <1>10 DEF Sweep
    <2>2. Verdicts' = Verdicts
        BY <1>10, SweepWrites, VerdictsStay DEF IInv
    <2> QED
        BY <2>1, <2>2 DEF Requests, Stages
<1>11. ASSUME NEW d \in Deliveries, NEW n \in Attempts, NEW end \in {"accepted", "lost"},
              Arrive(d, n, end)
       PROVE  Promise!DNext
    BY <1>11, ArrivalIsHeard DEF IInv, Promise!DNext
<1> QED
    BY <1>1, <1>2, <1>3, <1>4, <1>5, <1>6, <1>7, <1>8, <1>9, <1>10, <1>11
       DEF Next, vars, Dispatch, Fault, Console, World, BecomeDue, Deactivate, Reactivate,
           ClaimDue, Found, Overtaken, Crash

\* Through any crashes, cut transactions, exceptions, sweeps and replays the
\* outbox keeps the promise of each delivery (dispatch_on, attempt_one,
\* record_attempt, replay_delivery).
THEOREM ImplementsThePromise == Spec => KeepsThePromise
<1>1. Init => SentInv
    BY DEF Init, SentInv, Calling
<1>2. IInv /\ SentInv /\ [Next]_vars => SentInv'
    BY SentStep DEF IInv
<1> QED
    BY <1>1, <1>2, InvInit, InvStep, PromiseInit, PromiseStep, PTL
       DEF Spec, KeepsThePromise, Promise!DSpec

\* Each attempt of a delivery is one intent of the operation ledger: what
\* SideEffects promises of a key, the outbox keeps for it without leaning on
\* the grace, because nothing of the outbox settles a record but its caller.
THEOREM EachAttemptOnce == Spec => Promise!PSpec
<1>1. Promise!DInit => Promise!PInit
    BY DEF Promise!DInit
<1>2. [Promise!DNext]_(Promise!dvars) => [Promise!PNext]_(Promise!pvars)
    <2> SUFFICES ASSUME Promise!DNext PROVE Promise!PNext \/ UNCHANGED Promise!pvars
        BY DEF Promise!dvars
    <2>1. ASSUME NEW d \in Deliveries, NEW n \in Attempts, Promise!Attempt(d, n) \/ Promise!Hear(d, n)
          PROVE  Promise!PNext
        <3>1. <<d, n>> \in Deliveries \X Attempts
            OBVIOUS
        <3> QED
            BY <2>1, <3>1 DEF Promise!Attempt, Promise!Hear, Promise!PNext
    <2> QED
        BY <2>1 DEF Promise!DNext, Promise!Owe, Promise!Reopen, Promise!Close, Promise!Loosen
<1> QED
    BY <1>1, <1>2, ImplementsThePromise, PTL DEF KeepsThePromise, Promise!DSpec, Promise!PSpec

=============================================================================
