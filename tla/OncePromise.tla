---------------------------- MODULE OncePromise ----------------------------
(***************************************************************************)
(* What `brain.ops.idempotency` promises about one intent, with no ledger  *)
(* states, callers or sweeps in sight: a request leaves at most once, the  *)
(* connected system acts on it or does not, and a verdict, given at most   *)
(* once, says which.  SideEffects implements this, and Outbox does for the *)
(* attempts of a delivery.                                                 *)
(***************************************************************************)
CONSTANT Keys

VARIABLES
    request,    \* what became of the one request under each key
    verdict     \* what the operation was recorded as

pvars == <<request, verdict>>

PInit ==
    /\ request = [k \in Keys |-> "unsent"]
    /\ verdict = [k \in Keys |-> "open"]

\* The one request under k leaves, while nobody has said what it came to.
Issue(k) ==
    /\ request[k] = "unsent"
    /\ verdict[k] = "open"
    /\ request' = [request EXCEPT ![k] = "travelling"]
    /\ UNCHANGED verdict

Act(k) ==
    /\ request[k] = "travelling"
    /\ request' = [request EXCEPT ![k] = "applied"]
    /\ UNCHANGED verdict

Vanish(k) ==
    /\ request[k] = "travelling"
    /\ request' = [request EXCEPT ![k] = "lost"]
    /\ UNCHANGED verdict

\* The verdict is the truth, and is final.
Conclude(k) ==
    /\ verdict[k] = "open"
    /\ \/ request[k] = "applied" /\ verdict' = [verdict EXCEPT ![k] = "succeeded"]
       \/ request[k] \in {"unsent", "lost"} /\ verdict' = [verdict EXCEPT ![k] = "failed"]
    /\ UNCHANGED request

\* A refusal says that nothing was done, and nothing will be.
Refuse(k) ==
    /\ verdict[k] = "open"
    /\ request[k] = "travelling"
    /\ request' = [request EXCEPT ![k] = "lost"]
    /\ verdict' = [verdict EXCEPT ![k] = "failed"]

PNext == \E k \in Keys : Issue(k) \/ Act(k) \/ Vanish(k) \/ Conclude(k) \/ Refuse(k)

PSpec == PInit /\ [][PNext]_pvars

=============================================================================
