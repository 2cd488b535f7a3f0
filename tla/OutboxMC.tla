------------------------------ MODULE OutboxMC ------------------------------
(* Small instances of Outbox: workers and deliveries are model values,      *)
(* interchangeable where no constant names one of them.                     *)
EXTENDS Outbox, TLC

Alike == Permutations(Workers) \union Permutations(Deliveries)

=============================================================================
