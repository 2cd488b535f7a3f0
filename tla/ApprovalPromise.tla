-------------------------- MODULE ApprovalPromise --------------------------
(***************************************************************************)
(* What an approval promises, with no locks, clocks or passes in sight: an *)
(* action waits for people, is granted or turned down once, by two others  *)
(* than the one it runs as where it needs two, and only a granted one is   *)
(* carried out, once.  Approvals implements this.                          *)
(***************************************************************************)
EXTENDS Naturals

CONSTANTS Requests, People, AskerOf

VARIABLES
    stage,      \* where each request is
    needs,      \* requests that need two people
    agreed,     \* who said yes to each
    carried     \* how often each was carried out

pvars == <<stage, needs, agreed, carried>>

PInit ==
    /\ stage = [r \in Requests |-> "unraised"]
    /\ needs = {}
    /\ agreed = [r \in Requests |-> {}]
    /\ carried = [r \in Requests |-> 0]

Put(r) ==
    /\ stage[r] = "unraised"
    /\ stage' = [stage EXCEPT ![r] = "pending"]
    /\ needs' \in {needs, needs \union {r}}
    /\ UNCHANGED <<agreed, carried>>

\* The first of two people.
Agree(r, p) ==
    /\ stage[r] = "pending" /\ r \in needs
    /\ agreed[r] = {} /\ p # AskerOf[r]
    /\ agreed' = [agreed EXCEPT ![r] = {p}]
    /\ UNCHANGED <<stage, needs, carried>>

Grant(r, p) ==
    /\ stage[r] = "pending"
    /\ r \in needs => p # AskerOf[r] /\ \E q \in agreed[r] : q # p
    /\ stage' = [stage EXCEPT ![r] = "approved"]
    /\ agreed' = [agreed EXCEPT ![r] = @ \union {p}]
    /\ UNCHANGED <<needs, carried>>

TurnDown(r) ==
    /\ stage[r] = "pending"
    /\ stage' = [stage EXCEPT ![r] = "rejected"]
    /\ UNCHANGED <<needs, agreed, carried>>

CarryOut(r) ==
    /\ stage[r] = "approved" /\ carried[r] = 0
    /\ carried' = [carried EXCEPT ![r] = 1]
    /\ UNCHANGED <<stage, needs, agreed>>

PNext ==
    \E r \in Requests :
        \/ Put(r) \/ TurnDown(r) \/ CarryOut(r)
        \/ \E p \in People : Agree(r, p) \/ Grant(r, p)

PSpec == PInit /\ [][PNext]_pvars

=============================================================================
