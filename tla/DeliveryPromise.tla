-------------------------- MODULE DeliveryPromise --------------------------
(***************************************************************************)
(* What `brain.ops.outbox` promises about a webhook delivery, with no      *)
(* workers, batches, locks or ledger in sight.  Each attempt is one intent *)
(* of OncePromise: its request leaves once, and what was made of it is     *)
(* true.  A delivery waits until it is delivered, which takes an answer    *)
(* that says so, or given up; a person may put it back once.  Until it is  *)
(* loose (nobody vouches for its row any more) its attempts follow one     *)
(* another and end with a known acceptance.  Outbox implements this.       *)
(***************************************************************************)
EXTENDS OncePromise, Naturals

CONSTANTS
    Deliveries,
    Attempts    \* numbers; Keys are the pairs <<delivery, attempt>>

VARIABLES
    stage,      \* where each delivery is
    reopened,   \* deliveries a person put back
    loose       \* deliveries that only the promise of each attempt still holds of

rows  == <<stage, reopened, loose>>
dvars == <<pvars, rows>>

DInit ==
    /\ PInit
    /\ stage = [d \in Deliveries |-> "none"]
    /\ reopened = {}
    /\ loose = {}

\* An attempt of d is known to have been taken.
Known(d) == \E n \in Attempts : verdict[<<d, n>>] = "succeeded"

Owe(d) ==
    /\ stage[d] = "none"
    /\ stage' = [stage EXCEPT ![d] = "pending"]
    /\ UNCHANGED <<pvars, reopened, loose>>

\* The request of attempt n leaves: of a delivery that waits, after all the
\* others that ever left for it, and not once one is known to have been taken.
Attempt(d, n) ==
    /\ stage[d] # "none"
    /\ d \notin loose => /\ stage[d] = "pending"
                         /\ ~Known(d)
                         /\ \A m \in Attempts : m > n => request[<<d, m>>] = "unsent"
    /\ Issue(<<d, n>>)
    /\ UNCHANGED rows

\* The far side, and what is made of its answer.
Hear(d, n) ==
    /\ Act(<<d, n>>) \/ Vanish(<<d, n>>) \/ Conclude(<<d, n>>) \/ Refuse(<<d, n>>)
    /\ UNCHANGED rows

\* What a batch came to is written for all of it at once.
Close(done, over) ==
    /\ \A d \in done \union over : stage[d] = "pending"
    /\ \A d \in done : Known(d)
    /\ \A d \in over : Known(d) => d \in loose
    /\ stage' = [d \in Deliveries |-> IF d \in done THEN "delivered"
                                      ELSE IF d \in over THEN "exhausted" ELSE stage[d]]
    /\ UNCHANGED <<pvars, reopened, loose>>

Reopen(d) ==
    /\ stage[d] = "exhausted"
    /\ d \notin reopened
    /\ stage' = [stage EXCEPT ![d] = "pending"]
    /\ reopened' = reopened \union {d}
    /\ UNCHANGED <<pvars, loose>>

Loosen(D) ==
    /\ \A d \in D : stage[d] = "pending"
    /\ loose' = loose \union D
    /\ UNCHANGED <<pvars, stage, reopened>>

DNext ==
    \/ \E d \in Deliveries : Owe(d) \/ Reopen(d) \/ \E n \in Attempts : Attempt(d, n) \/ Hear(d, n)
    \/ \E done, over \in SUBSET Deliveries : Close(done, over)
    \/ \E D \in SUBSET Deliveries : Loosen(D)

DSpec == DInit /\ [][DNext]_dvars

=============================================================================
