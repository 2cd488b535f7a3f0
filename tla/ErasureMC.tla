------------------------------ MODULE ErasureMC ------------------------------
(* An instance of Erasure for TLC: two requests about one person. *)
EXTENDS Erasure

CONSTANTS sue, w1

InOrder == <<"conversation", "memory", "operations">>
AboutSue == [r \in Requests |-> sue]
OverSue == [h \in Holds |-> {sue}]

=============================================================================
