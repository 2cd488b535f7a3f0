----------------------------- MODULE RunPromise -----------------------------
(***************************************************************************)
(* What `brain.ops.schedule_store` promises of the runs of a control, with *)
(* no locks, ticks, queued jobs or times of day in sight.  A process       *)
(* begins a run of a control only when everybody else that is on it is     *)
(* adrift: cut off from the transaction it runs in, and at it all the      *)
(* same.  A run is put on record only by a process that never was adrift   *)
(* in it, and so had the control to itself from its start to its commit.   *)
(* What a person asked for goes with such a record, and in no other way.   *)
(* Schedule implements this.                                               *)
(***************************************************************************)
EXTENDS Naturals

CONSTANTS Controls, NoControl, Processes

VARIABLES
    on,         \* the control each process is in a run of
    adrift,     \* processes whose run has lost its transaction
    tried,      \* age of the newest run on record
    wanted      \* controls a person asked for since

rvars == <<on, adrift, tried, wanted>>

RInit ==
    /\ on = [p \in Processes |-> NoControl]
    /\ adrift = {}
    /\ tried \in [Controls -> Nat]
    /\ wanted = {}

Begin(p, c) ==
    /\ on[p] = NoControl
    /\ \A q \in Processes : on[q] = c => q \in adrift
    /\ on' = [on EXCEPT ![p] = c]
    /\ UNCHANGED <<adrift, tried, wanted>>

\* It is still on the control, and will put nothing on record.
Drift(p) ==
    /\ on[p] # NoControl
    /\ adrift' = adrift \union {p}
    /\ UNCHANGED <<on, tried, wanted>>

\* The run is over, and left no record.
GiveUp(p) ==
    /\ on' = [on EXCEPT ![p] = NoControl]
    /\ adrift' = adrift \ {p}
    /\ UNCHANGED <<tried, wanted>>

\* The record is no older than the newest, and may be younger than what was asked.
PutOnRecord(p) ==
    /\ on[p] # NoControl /\ p \notin adrift
    /\ \E age \in 0 .. tried[on[p]] : tried' = [tried EXCEPT ![on[p]] = age]
    /\ wanted' \in {wanted, wanted \ {on[p]}}
    /\ on' = [on EXCEPT ![p] = NoControl]
    /\ UNCHANGED adrift

Ask(c) ==
    /\ wanted' = wanted \union {c}
    /\ UNCHANGED <<on, adrift, tried>>

TimePasses ==
    /\ tried' \in [Controls -> Nat]
    /\ \A c \in Controls : tried'[c] >= tried[c]
    /\ UNCHANGED <<on, adrift, wanted>>

RNext ==
    \/ \E p \in Processes : Drift(p) \/ GiveUp(p) \/ PutOnRecord(p) \/ \E c \in Controls : Begin(p, c)
    \/ \E c \in Controls : Ask(c)
    \/ TimePasses

RSpec == RInit /\ [][RNext]_rvars

=============================================================================
