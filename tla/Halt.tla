-------------------------------- MODULE Halt --------------------------------
(***************************************************************************)
(* The halts of `brain.ops.halt` as `brain.ops.halt_store` writes and      *)
(* reads them: administrators stop work and restart it, each press a row   *)
(* of ops.halt that is never changed, carrying the instant its request     *)
(* arrived.  Rows are written in another order than their instants, and a  *)
(* restart reads the halt it names in one transaction and is written in    *)
(* another.                                                                *)
(*                                                                         *)
(* Requests take instants no two of which are equal.  The modules whose    *)
(* work a halt refuses extend this one and take theirs from `stamp` too.   *)
(***************************************************************************)
EXTENDS Naturals

CONSTANTS
    Admins,         \* persons at the halt screen, one request at a time each
    Targets,        \* what may be stopped: a scope and the name it has there
    NoTarget,
    MaxStamp        \* bound on the instants requests take in a behaviour

ASSUME HaltAssumption == NoTarget \notin Targets /\ MaxStamp \in Nat

VARIABLES
    stamp,          \* the instant of the newest request
    acts,           \* ops.halt
    pressing,       \* where the request of each administrator is
    aim,            \* what it stops or restarts
    pressedAt,      \* when it arrived
    named           \* when the halt was declared that a restart names

pressVars == <<pressing, aim, pressedAt, named>>
haltVars  == <<stamp, acts, pressVars>>

HaltInit ==
    /\ stamp = 0
    /\ acts = {}
    /\ pressing = [p \in Admins |-> "nothing"]
    /\ aim = [p \in Admins |-> NoTarget]
    /\ pressedAt = [p \in Admins |-> 0]
    /\ named = [p \in Admins |-> 0]

-----------------------------------------------------------------------------

\* latest_halt_acts: of the rows of a target, the one with the latest instant.
IsLatest(r) == \A s \in acts : s.target = r.target => s.at <= r.at

InForce == {r.target : r \in {s \in acts : s.act = "halt" /\ IsLatest(s)}}

TakeStamp == stamp < MaxStamp /\ stamp' = stamp + 1

Press(p, k, phase) ==
    /\ pressing[p] = "nothing"
    /\ TakeStamp
    /\ pressing' = [pressing EXCEPT ![p] = phase]
    /\ aim' = [aim EXCEPT ![p] = k]
    /\ pressedAt' = [pressedAt EXCEPT ![p] = stamp + 1]
    /\ UNCHANGED <<acts, named>>

PressStop(p, k) == Press(p, k, "stopping")
PressResume(p, k) == Press(p, k, "looking")

LetGo(p) ==
    /\ pressing' = [pressing EXCEPT ![p] = "nothing"]
    /\ aim' = [aim EXCEPT ![p] = NoTarget]
    /\ pressedAt' = [pressedAt EXCEPT ![p] = 0]
    /\ named' = [named EXCEPT ![p] = 0]

Insert(p, act) ==
    /\ acts' = acts \union {[act |-> act, target |-> aim[p], at |-> pressedAt[p]]}
    /\ LetGo(p)
    /\ UNCHANGED stamp

\* stop: one row, and no look at what stands.
WriteStop(p) == pressing[p] = "stopping" /\ Insert(p, "halt")

\* resume's read: the halt in force on the target, declared before the restart.
LookUp(p) ==
    /\ pressing[p] = "looking"
    /\ \E r \in acts : /\ r.act = "halt" /\ r.target = aim[p] /\ IsLatest(r)
                       /\ r.at <= pressedAt[p]
                       /\ named' = [named EXCEPT ![p] = r.at]
    /\ pressing' = [pressing EXCEPT ![p] = "lifting"]
    /\ UNCHANGED <<stamp, acts, aim, pressedAt>>

\* Mutant: the restart is stamped with the instant it is written at.
LiftAsOfNow(p) ==
    /\ pressing[p] = "lifting"
    /\ acts' = acts \union {[act |-> "resume", target |-> aim[p], at |-> stamp + 1]}
    /\ LetGo(p)
    /\ UNCHANGED stamp

\* resume's row, over whatever has been written since its read.
Lift(p) == pressing[p] = "lifting" /\ Insert(p, "resume")

\* Nothing is stopped there, the halts cannot be read, or the request dies.
GiveUpPressing(p) ==
    /\ pressing[p] # "nothing"
    /\ LetGo(p)
    /\ UNCHANGED <<stamp, acts>>

HaltNext ==
    \E p \in Admins :
        \/ \E k \in Targets : PressStop(p, k) \/ PressResume(p, k)
        \/ WriteStop(p) \/ LookUp(p) \/ Lift(p) \/ GiveUpPressing(p)

HaltSpec == HaltInit /\ [][HaltNext]_haltVars

-----------------------------------------------------------------------------
(* Properties.                                                             *)

HaltTypeOK ==
    /\ stamp \in Nat
    /\ acts \subseteq [act : {"halt", "resume"}, target : Targets, at : Nat]
    /\ pressing \in [Admins -> {"nothing", "stopping", "looking", "lifting"}]
    /\ aim \in [Admins -> Targets \union {NoTarget}]
    /\ \A p \in Admins : pressing[p] # "nothing" => aim[p] \in Targets
    /\ pressedAt \in [Admins -> Nat] /\ named \in [Admins -> Nat]

\* A halt in force ends only by a restart that was asked for after every stop
\* of that target it ends, however the two requests' statements interleave.
StopsOutlastOlderResumes ==
    [][\A k \in InForce : k \notin InForce' =>
          \E p \in Admins :
              /\ pressing[p] = "lifting" /\ aim[p] = k
              /\ \A r \in acts : r.act = "halt" /\ r.target = k => r.at < pressedAt[p]]_haltVars

=============================================================================
