----------------------------- MODULE JobQueueMC -----------------------------
(* Instances of JobQueue for TLC. *)
EXTENDS JobQueue

=============================================================================
