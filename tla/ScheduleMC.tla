----------------------------- MODULE ScheduleMC -----------------------------
(* Instances of Schedule for TLC: one interval for every control. *)
EXTENDS Schedule, TLC

CONSTANT Interval
EveryInterval == [c \in Controls |-> Interval]

ReplicaSymmetry == Permutations(Replicas)

=============================================================================
