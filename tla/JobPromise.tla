----------------------------- MODULE JobPromise -----------------------------
(***************************************************************************)
(* What `brain.ops.queue` and the sweep of `brain.ops.recovery_run`        *)
(* promise about a job, with no workers, heartbeats, lists or asks in      *)
(* sight.  A job is begun where it waits, and nothing happens to one that  *)
(* succeeded.  One that runs with nobody in it, or stopped, is returned by *)
(* the sweep where it is safe to run twice and was not returned too often; *)
(* any other waits for a person, who sees it first.  Of a job mistaken for *)
(* left behind only some of this holds.  JobQueue implements it.           *)
(***************************************************************************)
EXTENDS Naturals

CONSTANTS Jobs, Safe, MaxRedrives

VARIABLES
    place,      \* the driver's word for each job
    inside,     \* jobs whose body runs somewhere
    begun,      \* how often each was begun
    returned,   \* how often it was made to wait again
    wished,     \* of these, for a person
    shown,      \* stopped jobs a person has been shown
    mistaken    \* jobs taken for left behind while they ran

jvars == <<place, inside, begun, returned, wished, shown, mistaken>>

JInit ==
    /\ place = [j \in Jobs |-> "todo"]
    /\ inside = {} /\ shown = {} /\ mistaken = {}
    /\ begun = [j \in Jobs |-> 0]
    /\ returned = [j \in Jobs |-> 0]
    /\ wished = [j \in Jobs |-> 0]

\* Nobody is in the body of j, as far as that can be known.
LeftBehind(j) == j \in inside => j \in mistaken

Begin(j) ==
    /\ place[j] = "todo" /\ LeftBehind(j)
    /\ place' = [place EXCEPT ![j] = "doing"]
    /\ begun' = [begun EXCEPT ![j] = @ + 1]
    /\ inside' = inside \union {j}
    /\ UNCHANGED <<returned, wished, shown, mistaken>>

\* A body is over, or dies; a word about a job that stopped changes nothing,
\* and of a mistaken one there may be a second body.
End(j) ==
    /\ j \in inside
    /\ \/ inside' = inside \ {j}
       \/ j \in mistaken /\ inside' = inside
    /\ \/ place' = place
       \/ /\ place[j] = "doing" \/ (j \in mistaken /\ place[j] = "todo")
          /\ \E end \in {"succeeded", "failed"} : place' = [place EXCEPT ![j] = end]
    /\ UNCHANGED <<begun, returned, wished, shown, mistaken>>

Mistake(J) ==
    /\ \A j \in J : place[j] = "doing" /\ j \in inside
    /\ mistaken' = mistaken \union J
    /\ UNCHANGED <<place, inside, begun, returned, wished, shown>>

StopBehind(j) ==
    /\ place[j] = "doing" /\ LeftBehind(j)
    /\ place' = [place EXCEPT ![j] = "failed"]
    /\ UNCHANGED <<inside, begun, returned, wished, shown, mistaken>>

Again(j) ==
    /\ LeftBehind(j)
    /\ place' = [place EXCEPT ![j] = "todo"]
    /\ returned' = [returned EXCEPT ![j] = @ + 1]
    /\ UNCHANGED <<inside, begun, shown, mistaken>>

Return(j) ==
    /\ j \in Safe /\ place[j] \in {"doing", "failed"}
    /\ j \in mistaken \/ returned[j] < MaxRedrives + wished[j]
    /\ Again(j)
    /\ UNCHANGED wished

Wish(j) ==
    /\ j \in shown /\ place[j] = "failed"
    /\ Again(j)
    /\ wished' = [wished EXCEPT ![j] = @ + 1]

Show(J) ==
    /\ \A j \in J : place[j] = "failed"
    /\ shown' = shown \union J
    /\ UNCHANGED <<place, inside, begun, returned, wished, mistaken>>

JNext ==
    \/ \E j \in Jobs : Begin(j) \/ End(j) \/ StopBehind(j) \/ Return(j) \/ Wish(j)
    \/ \E J \in SUBSET Jobs : Mistake(J) \/ Show(J)

JSpec == JInit /\ [][JNext]_jvars

=============================================================================
