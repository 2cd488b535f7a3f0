----------------------------- MODULE Approvals -----------------------------
(***************************************************************************)
(* An action an agent may not do alone waits as a row of gate.suspension;  *)
(* people decide it (`brain.approval_routes`, `brain.console.approvals`),  *)
(* and a pass of the worker (`brain.ops.approved_runs`) carries out what   *)
(* was approved, with nobody present, if it would still be allowed.        *)
(*                                                                         *)
(* A person's reach and clock are those of their request's admission; the  *)
(* decision is one transaction under a lock of the row, any time later.    *)
(* A pass lists once and then reads, for each in turn, the asker's reach,  *)
(* the agent's standing and the connector's write key, each on its own.    *)
(* The issuing itself is SideEffects; its claim and its win are here.      *)
(*                                                                         *)
(* Requests are the actions a connector carries out: the worker is started *)
(* with that executor only.  Knowledge promotions, which the database      *)
(* carries out as it records the approval, are not modelled.               *)
(***************************************************************************)
EXTENDS Naturals, FiniteSets

CONSTANTS
    Requests,       \* suspension ids
    NoRequest,
    People,         \* whoever is admitted with the capability over the requests
    Nobody,
    AskerOf,        \* the person each request runs as
    Sensitive,      \* those whose tool needs a second person, with the setting on as they are raised
    Workers,        \* processes that pass over what is approved
    Limit,          \* how many one pass takes
    Window,         \* how long a request may wait
    MaxTime, MaxChanges, MaxFaults  \* bounds on a behaviour

ASSUME RequestsAssumption == Requests \subseteq Nat /\ NoRequest \notin Requests
ASSUME PeopleAssumption ==
    /\ AskerOf \in [Requests -> People]
    /\ Nobody \notin People
    /\ Sensitive \subseteq Requests
ASSUME BoundsAssumption ==
    /\ Limit \in Nat /\ Window \in Nat \ {0}
    /\ MaxTime \in Nat /\ MaxChanges \in Nat /\ MaxFaults \in Nat

Verdicts == {"approved", "rejected"}

VARIABLES
    now,
    state,      \* the row's state, "unraised" without one
    stamp,      \* the hash of the reach it was raised at
    expires,    \* when its window ends
    two,        \* rows that need two people
    endorser, decider, decidedAt,
    reach,      \* the hash of each person's reach
    standing,   \* requests whose agent is enabled and whose leash and checks allow them
    keyed,      \* requests whose connector has its write key
    phase, todo, hand,  \* one pass per worker: what it listed, and the one it is at
    got,        \* the reach it read for it
    was,        \* what was so of it at some instant since the worker turned to it
    ops,        \* the request's record in ops.operation
    sent,       \* how often it was sent
    lost,       \* requests whose worker died between the claim and the win
    changes, faults

rowVars    == <<state, stamp, expires, two, endorser, decider, decidedAt>>
worldVars  == <<reach, standing, keyed>>
passVars   == <<phase, todo, hand, got>>
ledgerVars == <<ops, sent>>
countVars  == <<changes, faults>>
vars == <<now, rowVars, worldVars, passVars, was, ledgerVars, lost, countVars>>

Init ==
    /\ now = 0
    /\ state = [r \in Requests |-> "unraised"]
    /\ stamp = [r \in Requests |-> 0]
    /\ expires = [r \in Requests |-> 0]
    /\ two = {}
    /\ endorser = [r \in Requests |-> Nobody]
    /\ decider = [r \in Requests |-> Nobody]
    /\ decidedAt = [r \in Requests |-> 0]
    /\ reach = [p \in People |-> 0]
    /\ standing = Requests /\ keyed = Requests
    /\ phase = [w \in Workers |-> "idle"]
    /\ todo = [w \in Workers |-> {}]
    /\ hand = [w \in Workers |-> NoRequest]
    /\ got = [w \in Workers |-> 0]
    /\ was = [w \in Workers |-> {}]
    /\ ops = [r \in Requests |-> "none"]
    /\ sent = [r \in Requests |-> 0]
    /\ lost = {}
    /\ changes = 0 /\ faults = 0

-----------------------------------------------------------------------------
(* What a run of r needs, and what each worker has lived through.          *)

Conditions == {"reach", "standing", "key", "time"}

Holding(r) ==
    {c \in Conditions :
        /\ c = "reach" => reach[AskerOf[r]] = stamp[r]
        /\ c = "standing" => r \in standing
        /\ c = "key" => r \in keyed
        /\ c = "time" => now < expires[r]}

\* Every step of the world is lived through by the workers that hold a request.
Lived ==
    was' = [w \in Workers |->
               IF hand[w] \in Requests THEN was[w] \union Holding(hand[w])' ELSE was[w]]

-----------------------------------------------------------------------------
(* People.                                                                 *)

\* suspend and put_suspension, at the asker's reach.
Raise(r) ==
    /\ state[r] = "unraised"
    /\ state' = [state EXCEPT ![r] = "pending"]
    /\ stamp' = [stamp EXCEPT ![r] = reach[AskerOf[r]]]
    /\ expires' = [expires EXCEPT ![r] = now + Window]
    /\ two' = two \union ({r} \intersect Sensitive)
    /\ UNCHANGED <<now, endorser, decider, decidedAt, worldVars, passVars, was,
                   ledgerVars, lost, countVars>>

\* The card is offered: open at the person's instant, and, where two are
\* needed, not to the one it runs as nor to the one who said yes already.
MayApprove(p, r, at) ==
    /\ state[r] = "pending" /\ at < expires[r]
    /\ r \in two => p \notin {AskerOf[r], endorser[r]}

FirstOfTwo(r, v) == v = "approved" /\ r \in two /\ endorser[r] = Nobody

\* take_decision by p, admitted at an instant since the row was raised.  It
\* answers that there is no such approval where the card is not offered.
Decide(p, r, v, at) ==
    /\ at \in (expires[r] - Window)..now
    /\ MayApprove(p, r, at)
    /\ IF FirstOfTwo(r, v)
       THEN /\ endorser' = [endorser EXCEPT ![r] = p]
            /\ UNCHANGED <<state, stamp, expires, two, decider, decidedAt>>
       ELSE /\ state' = [state EXCEPT ![r] = v]
            /\ decider' = [decider EXCEPT ![r] = p]
            /\ decidedAt' = [decidedAt EXCEPT ![r] = at]
            /\ UNCHANGED <<stamp, expires, two, endorser>>
    /\ UNCHANGED <<now, worldVars, passVars, was, ledgerVars, lost, countVars>>

-----------------------------------------------------------------------------
(* The world: time, grants, agents and leashes, connectors' keys.          *)

Changed ==
    /\ changes < MaxChanges
    /\ changes' = changes + 1
    /\ UNCHANGED <<now, rowVars, passVars, ledgerVars, lost, faults>>
    /\ Lived

Flip(S, r) == IF r \in S THEN S \ {r} ELSE S \union {r}

ChangeReach(p) ==
    /\ reach' = [reach EXCEPT ![p] = 1 - @]
    /\ UNCHANGED <<standing, keyed>>
    /\ Changed
ChangeStanding(r) ==
    /\ standing' = Flip(standing, r)
    /\ UNCHANGED <<reach, keyed>>
    /\ Changed
ChangeKey(r) ==
    /\ keyed' = Flip(keyed, r)
    /\ UNCHANGED <<reach, standing>>
    /\ Changed

Tick ==
    /\ now < MaxTime
    /\ now' = now + 1
    /\ UNCHANGED <<rowVars, worldVars, passVars, ledgerVars, lost, countVars>>
    /\ Lived

-----------------------------------------------------------------------------
(* A pass of worker w.                                                     *)

\* Mutant: what lapses within the tick is not listed.
DueForLonger ==
    {r \in Requests : state[r] = "approved" /\ now + 1 < expires[r] /\ ops[r] = "none"}

\* gate.approved_to_run: approved, in its window, and not claimed by a run.
Due == {r \in Requests : state[r] = "approved" /\ now < expires[r] /\ ops[r] = "none"}

\* ORDER BY decided_at, id.
Before(s, r) == decidedAt[s] < decidedAt[r] \/ (decidedAt[s] = decidedAt[r] /\ s < r)
Ahead(S, r) == {s \in S : Before(s, r)}
FirstOf(S) == {r \in S : Cardinality(Ahead(S, r)) < Limit}

List(w) ==
    /\ phase[w] = "idle" /\ FirstOf(Due) # {}
    /\ phase' = [phase EXCEPT ![w] = "passing"]
    /\ todo' = [todo EXCEPT ![w] = FirstOf(Due)]
    /\ UNCHANGED <<now, rowVars, worldVars, hand, got, was, ledgerVars, lost, countVars>>

\* Mutant: what is listed is run at the reach it was raised at.
TurnAsRaised(w, r) ==
    /\ phase[w] = "passing"
    /\ r \in todo[w] /\ Ahead(todo[w], r) = {}
    /\ phase' = [phase EXCEPT ![w] = "reached"]
    /\ hand' = [hand EXCEPT ![w] = r]
    /\ got' = [got EXCEPT ![w] = stamp[r]]
    /\ was' = [was EXCEPT ![w] = Holding(r)]
    /\ UNCHANGED <<now, rowVars, worldVars, todo, ledgerVars, lost, countVars>>

\* It turns to the next, and loads its asker's reach.
Turn(w, r) ==
    /\ phase[w] = "passing"
    /\ r \in todo[w] /\ Ahead(todo[w], r) = {}
    /\ phase' = [phase EXCEPT ![w] = "reached"]
    /\ hand' = [hand EXCEPT ![w] = r]
    /\ got' = [got EXCEPT ![w] = reach[AskerOf[r]]]
    /\ was' = [was EXCEPT ![w] = Holding(r)]
    /\ UNCHANGED <<now, rowVars, worldVars, todo, ledgerVars, lost, countVars>>

GoOn(w, next) ==
    /\ phase' = [phase EXCEPT ![w] = next]
    /\ UNCHANGED <<todo, hand, got, was>>

\* Whatever it came to, the pass goes on to the next, or is over.
Leave(w) ==
    /\ todo' = [todo EXCEPT ![w] = @ \ {hand[w]}]
    /\ phase' = [phase EXCEPT ![w] = IF todo[w] \subseteq {hand[w]} THEN "idle" ELSE "passing"]
    /\ hand' = [hand EXCEPT ![w] = NoRequest]
    /\ got' = [got EXCEPT ![w] = 0]
    /\ was' = [was EXCEPT ![w] = {}]

\* The agent's ceiling and bound leash, as stored now: without them it is gone,
\* and by them the checks refuse it or do not.
ReadStanding(w) ==
    /\ phase[w] = "reached"
    /\ IF hand[w] \in standing THEN GoOn(w, "judging") ELSE Leave(w)
    /\ UNCHANGED <<now, rowVars, worldVars, ledgerVars, lost, countVars>>

\* Mutant: the reach it has is not compared with the one it was raised at.
MayRunAtAnyReach(w) ==
    /\ hand[w] \in keyed
    /\ now < expires[hand[w]]
    /\ state[hand[w]] = "approved"

\* resume, on the clock, once the connector's key is leased.
MayRun(w) ==
    /\ hand[w] \in keyed
    /\ now < expires[hand[w]]
    /\ state[hand[w]] = "approved"
    /\ got[w] = stamp[hand[w]]

Judge(w) ==
    /\ phase[w] = "judging"
    /\ IF MayRun(w) THEN GoOn(w, "claiming") ELSE Leave(w)
    /\ UNCHANGED <<now, rowVars, worldVars, ledgerVars, lost, countVars>>

Claim(w) ==
    /\ phase[w] = "claiming"
    /\ ops' = [ops EXCEPT ![hand[w]] = IF @ = "none" THEN "pending" ELSE @]
    /\ GoOn(w, "winning")
    /\ UNCHANGED <<now, rowVars, worldVars, sent, lost, countVars>>

\* Mutant: whoever has claimed the record sends.
WinAlways(w) ==
    /\ phase[w] = "winning"
    /\ ops' = [ops EXCEPT ![hand[w]] = "sent"]
    /\ sent' = [sent EXCEPT ![hand[w]] = @ + 1]
    /\ lost' = lost \ {hand[w]}
    /\ Leave(w)
    /\ UNCHANGED <<now, rowVars, worldVars, countVars>>

\* One caller wins the pending record, and sends; any other is told of a repeat.
Win(w) ==
    /\ phase[w] = "winning"
    /\ IF ops[hand[w]] = "pending"
       THEN /\ ops' = [ops EXCEPT ![hand[w]] = "sent"]
            /\ sent' = [sent EXCEPT ![hand[w]] = @ + 1]
            /\ lost' = lost \ {hand[w]}
       ELSE UNCHANGED <<ops, sent, lost>>
    /\ Leave(w)
    /\ UNCHANGED <<now, rowVars, worldVars, countVars>>

Faulted ==
    /\ faults < MaxFaults
    /\ faults' = faults + 1
    /\ UNCHANGED <<now, rowVars, worldVars, ledgerVars, changes>>

\* A read, the vault or the ledger raises: it is counted as failed.
Fail(w) ==
    /\ phase[w] \in {"reached", "judging", "claiming", "winning"}
    /\ lost' = IF phase[w] = "winning" THEN lost \union {hand[w]} ELSE lost
    /\ Leave(w)
    /\ Faulted

\* The process dies, and is started again for the next pass.
Die(w) ==
    /\ phase[w] # "idle"
    /\ lost' = IF phase[w] = "winning" THEN lost \union {hand[w]} ELSE lost
    /\ phase' = [phase EXCEPT ![w] = "idle"]
    /\ todo' = [todo EXCEPT ![w] = {}]
    /\ hand' = [hand EXCEPT ![w] = NoRequest]
    /\ got' = [got EXCEPT ![w] = 0]
    /\ was' = [was EXCEPT ![w] = {}]
    /\ Faulted

-----------------------------------------------------------------------------

PassStep(w) ==
    \/ List(w) \/ ReadStanding(w) \/ Judge(w) \/ Claim(w) \/ Win(w)
    \/ \E r \in Requests : Turn(w, r)

PersonStep ==
    \/ \E r \in Requests : Raise(r)
    \/ \E p \in People, r \in Requests, v \in Verdicts, at \in 0..MaxTime : Decide(p, r, v, at)

WorldStep ==
    \/ \E r \in Requests : ChangeReach(AskerOf[r]) \/ ChangeStanding(r) \/ ChangeKey(r)
    \/ Tick

Next ==
    \/ PersonStep \/ WorldStep
    \/ \E w \in Workers : PassStep(w) \/ Fail(w) \/ Die(w)

Spec == Init /\ [][Next]_vars

\* The control schedule starts a pass every five minutes and a process that
\* runs goes on.  Nobody is made to decide.
FairSpec == Spec /\ \A w \in Workers : WF_vars(PassStep(w))

-----------------------------------------------------------------------------

TypeOK ==
    /\ now \in 0..MaxTime
    /\ state \in [Requests -> {"unraised", "pending"} \union Verdicts]
    /\ stamp \in [Requests -> {0, 1}]
    /\ expires \in [Requests -> Nat]
    /\ two \subseteq Sensitive
    /\ endorser \in [Requests -> People \union {Nobody}]
    /\ decider \in [Requests -> People \union {Nobody}]
    /\ decidedAt \in [Requests -> 0..MaxTime]
    /\ reach \in [People -> {0, 1}]
    /\ standing \subseteq Requests /\ keyed \subseteq Requests
    /\ phase \in [Workers -> {"idle", "passing", "reached", "judging", "claiming", "winning"}]
    /\ todo \in [Workers -> SUBSET Requests]
    /\ hand \in [Workers -> Requests \union {NoRequest}]
    /\ \A w \in Workers :
        /\ phase[w] = "idle" <=> todo[w] = {}
        /\ hand[w] = NoRequest <=> phase[w] \in {"idle", "passing"}
    /\ got \in [Workers -> {0, 1}]
    /\ was \in [Workers -> SUBSET Conditions]
    /\ ops \in [Requests -> {"none", "pending", "sent"}]
    /\ sent \in [Requests -> Nat]
    /\ lost \subseteq Requests
    /\ changes \in 0..MaxChanges /\ faults \in 0..MaxFaults

(* A two-person row that is approved was agreed to by two, neither of whom *)
(* it runs as, however their presses and first looks were interleaved.     *)
TwoOthersAgreed ==
    \A r \in two :
        state[r] = "approved" =>
            /\ endorser[r] \in People \ {AskerOf[r]}
            /\ decider[r] \in People \ {AskerOf[r], endorser[r]}

(* A request that was sent was approved, and since its worker turned to it *)
(* its asker's reach was the one it was raised at, its agent allowed it,   *)
(* its connector had the key and its window was open, each at some time:   *)
(* nothing is run on what was so before (the pass listed it, people        *)
(* decided it, the request was raised).                                    *)
RunsOnlyAsApproved ==
    [][\A w \in Workers, r \in Requests :
          hand[w] = r /\ hand'[w] # r /\ sent'[r] # sent[r] =>
              state[r] = "approved" /\ was[w] = Conditions]_vars

(* The promise of an approval.                                             *)
Carried == sent
Agreed ==
    [r \in Requests |->
        ({endorser[r]} \union (IF state[r] = "approved" THEN {decider[r]} ELSE {})) \ {Nobody}]
Promise == INSTANCE ApprovalPromise WITH
    stage <- state, needs <- two, agreed <- Agreed, carried <- Carried
KeepsThePromise == Promise!PSpec

(* An approved request in its window, still allowed, and with fewer others *)
(* ahead of it than a pass takes.                                          *)
Runnable(r) ==
    /\ state[r] = "approved" /\ sent[r] = 0
    /\ Holding(r) = Conditions
    /\ Cardinality(Ahead(Due, r)) < Limit

(* No such request waits for ever, except one whose worker died after it   *)
(* had claimed the record and before it won it.                            *)
RunnableIsSentOrLost == \A r \in Requests : []<>~(Runnable(r) /\ r \notin lost)

=============================================================================
