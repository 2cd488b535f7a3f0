----------------------------- MODULE ApprovalsMC -----------------------------
(* Instances of Approvals for TLC. *)
EXTENDS Approvals

CONSTANTS ann, bob, cay

\* Both requests run as ann, who may decide the one that needs one person.
AskedByAnn == [r \in Requests |-> ann]

=============================================================================
