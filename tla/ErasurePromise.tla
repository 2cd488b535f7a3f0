--------------------------- MODULE ErasurePromise ---------------------------
(***************************************************************************)
(* What `brain.ops.erasure_store` promises about requests and the people   *)
(* they are about, with no drains, stores, holds or locks in sight.  One   *)
(* request about a person is open at a time, and its end is final.  What   *)
(* a person has in the database leaves in the step that ends a request     *)
(* about them, and in no other; what is beside it leaves while one is open *)
(* or, where a drain lost its transaction, is astray.  The record of what  *)
(* was sent for them never leaves.  Erasure implements this.               *)
(***************************************************************************)
EXTENDS Naturals

CONSTANTS
    Requests, Subjects, SubjectOf,
    Pieces,
    Beside,     \* pieces that are not in the database
    Lasting     \* pieces no erasure removes, "operations" among them

VARIABLES outcome, live, sends,
    astray      \* requests a drain goes on with that can no longer end them

evars == <<outcome, live, sends, astray>>

EInit ==
    /\ outcome = [r \in Requests |-> "none"]
    /\ live \in [Subjects -> SUBSET (Pieces \ {"operations"})]
    /\ sends = [s \in Subjects |-> 0]
    /\ astray = {}

File(r) ==
    /\ outcome[r] = "none"
    /\ \A q \in Requests : SubjectOf[q] = SubjectOf[r] => outcome[q] # "open"
    /\ outcome' = [outcome EXCEPT ![r] = "open"]
    /\ UNCHANGED <<live, sends, astray>>

\* One step, so that no reader finds rows gone and the request unanswered.
End(r, gone, answer) ==
    /\ outcome[r] = "open"
    /\ gone \subseteq Pieces \ (Beside \union Lasting)
    /\ answer = "held" => gone = {}
    /\ outcome' = [outcome EXCEPT ![r] = answer]
    /\ live' = [live EXCEPT ![SubjectOf[r]] = @ \ gone]
    /\ UNCHANGED <<sends, astray>>

Slip(r, p) ==
    /\ outcome[r] = "open" \/ r \in astray
    /\ live' = [live EXCEPT ![SubjectOf[r]] = @ \ {p}]
    /\ UNCHANGED <<outcome, sends, astray>>

Stray(r) ==
    /\ outcome[r] = "open"
    /\ astray' = astray \union {r}
    /\ UNCHANGED <<outcome, live, sends>>

Return(r) ==
    /\ astray' = astray \ {r}
    /\ UNCHANGED <<outcome, live, sends>>

Keep(s, p) ==
    /\ live' = [live EXCEPT ![s] = @ \union {p}]
    /\ UNCHANGED <<outcome, sends, astray>>

Send(s) ==
    /\ "operations" \notin live[s]
    /\ live' = [live EXCEPT ![s] = @ \union {"operations"}]
    /\ sends' = [sends EXCEPT ![s] = @ + 1]
    /\ UNCHANGED <<outcome, astray>>

ENext ==
    \/ \E r \in Requests :
          \/ File(r) \/ Stray(r) \/ Return(r)
          \/ \E p \in Beside : Slip(r, p)
          \/ \E gone \in SUBSET Pieces, answer \in {"held", "incomplete", "erased"} : End(r, gone, answer)
    \/ \E s \in Subjects : Send(s) \/ \E p \in Pieces \ {"operations"} : Keep(s, p)

ESpec == EInit /\ [][ENext]_evars

=============================================================================
