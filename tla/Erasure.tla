------------------------------ MODULE Erasure ------------------------------
(***************************************************************************)
(* The queue of erasure requests (`brain.ops.erasure_store`,               *)
(* `brain.ops.erasure`): an administrator files a request about a person,  *)
(* and the worker's schedule drains the queue, one transaction for each    *)
(* request, the oldest first.                                              *)
(*                                                                         *)
(* Rows leave with the transaction; the keys of the person's session       *)
(* memory and their refresh tokens are outside the database and leave at   *)
(* once.  One store is one savepoint: a database error puts it back and    *)
(* it is reported as not reached.  Any other exception ends the drain.     *)
(* A connection that was cut is met at the next statement.                 *)
(*                                                                         *)
(* What a person has is one piece for each store and two beside them.  A   *)
(* table whose rows may not leave makes its store one of Keeps, as         *)
(* ops.operation does; each store is taken for its tables of one rule.     *)
(* Meanwhile the person goes on, and so do their agents, whose sends are   *)
(* recorded under the key that SideEffects is about.                       *)
(***************************************************************************)
EXTENDS Naturals, Sequences

CONSTANTS
    Requests,       \* request ids, in the order that breaks a tie
    NoRequest,
    Subjects,
    SubjectOf,      \* whom each request is about
    Holds, HoldOver,    \* legal holds, and the people each is over
    Workers,        \* processes that drain
    Stores,         \* the stores an erasure is for, in its order
    Executed,       \* those that have an executor
    Keeps,          \* those whose rows no path may remove
    Talkers,        \* those who have a conversation at first
    Written,        \* what a person goes on writing
    Limit,          \* how many requests one drain takes
    MaxTime, MaxWrites, MaxFaults   \* bounds on a behaviour

ListedStores == {Stores[i] : i \in 1..Len(Stores)}

ASSUME RequestsAssumption ==
    /\ Requests \subseteq Nat /\ NoRequest \notin Requests
    /\ SubjectOf \in [Requests -> Subjects]
    /\ HoldOver \in [Holds -> SUBSET Subjects]
ASSUME StoresAssumption ==
    /\ Len(Stores) \in Nat /\ Stores \in [1..Len(Stores) -> ListedStores]
    /\ {"conversation", "memory", "operations"} \subseteq ListedStores
    /\ {"session", "token"} \intersect ListedStores = {}
    /\ "operations" \in Keeps /\ "conversation" \notin Keeps
ASSUME BoundsAssumption ==
    MaxTime \in Nat /\ MaxWrites \in Nat /\ MaxFaults \in Nat /\ Limit \in Nat \ {0}

Pieces == ListedStores \union {"session", "token"}
ASSUME WrittenAssumption == Talkers \subseteq Subjects /\ Written \subseteq Pieces \ {"operations"}

Answers == {"unread", "removed", "kept", "refused"}
Unread == [s \in ListedStores |-> "unread"]

VARIABLES
    clock,
    filed,          \* when each request was filed, 0 before
    outcome,        \* "none" before it is filed and "open" until it is finished
    live,           \* the pieces of each person that can still be read
    opened,         \* people with a conversation, retired ones included
    placed, lifted, \* the instants on each hold, 0 for none
    sends,          \* how often a send of each person's agents left
    pc, now, left,  \* one drain per worker
    taken,          \* the request it has locked
    held, knows,    \* the holds over its person, and whether it read a conversation of theirs
    at, said,       \* the store it is at, and what became of those before
    fresh,          \* pieces written after it had reached their store
    cut,            \* drains whose transaction has ended under them
    before,         \* the holds that stood when it took its request
    old,            \* what was there as it began on its person, and was not written since
    writes, faults

queueVars == <<filed, outcome>>
dataVars  == <<live, opened, sends>>
holdVars  == <<placed, lifted>>
drainVars == <<pc, now, left, taken, held, knows, at, said, fresh, cut, before, old>>
vars == <<clock, queueVars, dataVars, holdVars, drainVars, writes, faults>>

Init ==
    /\ clock = 1
    /\ filed = [r \in Requests |-> 0]
    /\ outcome = [r \in Requests |-> "none"]
    /\ opened = Talkers
    /\ live = [s \in Subjects |->
                  Pieces \ (IF s \in Talkers THEN {"operations"}
                            ELSE {"operations", "conversation", "session"})]
    /\ placed = [h \in Holds |-> 0] /\ lifted = [h \in Holds |-> 0]
    /\ sends = [s \in Subjects |-> 0]
    /\ pc = [w \in Workers |-> "idle"]
    /\ now = [w \in Workers |-> 0]
    /\ left = [w \in Workers |-> 0]
    /\ taken = [w \in Workers |-> NoRequest]
    /\ held = [w \in Workers |-> {}]
    /\ knows = [w \in Workers |-> FALSE]
    /\ at = [w \in Workers |-> 1]
    /\ said = [w \in Workers |-> Unread]
    /\ fresh = [w \in Workers |-> {}]
    /\ cut = {}
    /\ before = [w \in Workers |-> {}]
    /\ old = [w \in Workers |-> {}]
    /\ writes = 0 /\ faults = 0

Whose(w) == SubjectOf[taken[w]]
Busy(w) == taken[w] \in Requests

-----------------------------------------------------------------------------
(* People: the queue, the holds, and the person themselves.  A route's     *)
(* instant is that of its admission and its row is written later, which    *)
(* matters for a hold: a drain that began in between has not read it.      *)

File(r) ==
    /\ outcome[r] = "none"
    /\ \A q \in Requests : SubjectOf[q] = SubjectOf[r] => outcome[q] # "open"
    /\ filed' = [filed EXCEPT ![r] = clock]
    /\ outcome' = [outcome EXCEPT ![r] = "open"]
    /\ UNCHANGED <<clock, dataVars, holdVars, drainVars, writes, faults>>

Place(h) ==
    /\ placed[h] = 0
    /\ \E t \in 1..clock : placed' = [placed EXCEPT ![h] = t]
    /\ UNCHANGED <<clock, queueVars, dataVars, lifted, drainVars, writes, faults>>

Lift(h) ==
    /\ placed[h] > 0 /\ lifted[h] = 0
    /\ lifted' = [lifted EXCEPT ![h] = clock]
    /\ UNCHANGED <<clock, queueVars, dataVars, placed, drainVars, writes, faults>>

\* The person uses the system, and what was read of them before is not all there is.
Use(s, p) ==
    /\ writes < MaxWrites
    /\ p = "session" => s \in opened
    /\ live' = [live EXCEPT ![s] = @ \union {p}]
    /\ opened' = IF p = "conversation" THEN opened \union {s} ELSE opened
    /\ fresh' = [w \in Workers |->
                    IF /\ Busy(w) /\ Whose(w) = s
                       /\ p \in ListedStores /\ said[w][p] # "unread"
                    THEN fresh[w] \union {p} ELSE fresh[w]]
    /\ old' = [w \in Workers |->
                  IF Busy(w) /\ Whose(w) = s THEN old[w] \ {p} ELSE old[w]]
    /\ writes' = writes + 1
    /\ UNCHANGED <<clock, queueVars, sends, holdVars, pc, now, left, taken, held, knows,
                   at, said, cut, before, faults>>

\* An agent of theirs sends, unless a record is under the key already.
Issue(s) ==
    /\ "operations" \notin live[s]
    /\ live' = [live EXCEPT ![s] = @ \union {"operations"}]
    /\ sends' = [sends EXCEPT ![s] = @ + 1]
    /\ UNCHANGED <<clock, queueVars, opened, holdVars, drainVars, writes, faults>>

Tick ==
    /\ clock < MaxTime
    /\ clock' = clock + 1
    /\ UNCHANGED <<queueVars, dataVars, holdVars, drainVars, writes, faults>>

PersonStep ==
    \/ \E r \in Requests : File(r)
    \/ \E h \in Holds : Place(h) \/ Lift(h)
    \/ \E s \in Subjects : Issue(s) \/ \E p \in Written : Use(s, p)
    \/ Tick

-----------------------------------------------------------------------------
(* A drain.                                                                *)

Locked == {taken[w] : w \in Workers \ cut}
Owed(w) ==
    {r \in Requests : outcome[r] = "open" /\ filed[r] <= now[w] /\ r \notin Locked}
Older(q, r) == filed[q] < filed[r] \/ (filed[q] = filed[r] /\ q <= r)

\* A worker between two requests: nothing is locked and nothing is uncommitted.
LetGo(w) ==
    /\ taken' = [taken EXCEPT ![w] = NoRequest]
    /\ held' = [held EXCEPT ![w] = {}]
    /\ knows' = [knows EXCEPT ![w] = FALSE]
    /\ at' = [at EXCEPT ![w] = 1]
    /\ said' = [said EXCEPT ![w] = Unread]
    /\ fresh' = [fresh EXCEPT ![w] = {}]
    /\ cut' = cut \ {w}
    /\ before' = [before EXCEPT ![w] = {}]
    /\ old' = [old EXCEPT ![w] = {}]

Begin(w) ==
    /\ pc[w] = "idle"
    /\ pc' = [pc EXCEPT ![w] = "next"]
    /\ now' = [now EXCEPT ![w] = clock]
    /\ left' = [left EXCEPT ![w] = Limit]
    /\ UNCHANGED <<clock, queueVars, dataVars, holdVars, taken, held, knows, at, said,
                   fresh, cut, before, old, writes, faults>>

Take(w) ==
    /\ pc[w] = "next" /\ left[w] > 0
    /\ \E r \in Owed(w) :
          /\ \A q \in Owed(w) : Older(r, q)
          /\ taken' = [taken EXCEPT ![w] = r]
    /\ left' = [left EXCEPT ![w] = @ - 1]
    /\ before' = [before EXCEPT ![w] = {h \in Holds : placed[h] > 0 /\ lifted[h] = 0}]
    /\ pc' = [pc EXCEPT ![w] = "holds"]
    /\ UNCHANGED <<clock, queueVars, dataVars, holdVars, now, held, knows, at, said,
                   fresh, cut, old, writes, faults>>

EndPass(w) ==
    /\ pc' = [pc EXCEPT ![w] = "idle"]
    /\ now' = [now EXCEPT ![w] = 0]
    /\ left' = [left EXCEPT ![w] = 0]

EndDrain(w) ==
    /\ pc[w] = "next"
    /\ left[w] = 0 \/ Owed(w) = {}
    /\ EndPass(w)
    /\ UNCHANGED <<clock, queueVars, dataVars, holdVars, taken, held, knows, at,
                   said, fresh, cut, before, old, writes, faults>>

\* Mutant: the holds are judged as of when the request was filed.
HoldsOverAtFiling(w) ==
    {h \in Holds :
        /\ Whose(w) \in HoldOver[h]
        /\ placed[h] \in 1..filed[taken[w]]
        /\ lifted[h] = 0 \/ filed[taken[w]] < lifted[h]}

\* active_holds at the drain's instant, and those of them over the person.
HoldsOver(w) ==
    {h \in Holds :
        /\ Whose(w) \in HoldOver[h]
        /\ placed[h] \in 1..now[w]
        /\ lifted[h] = 0 \/ now[w] < lifted[h]}

ReadHolds(w) ==
    /\ pc[w] = "holds" /\ w \notin cut
    /\ held' = [held EXCEPT ![w] = HoldsOver(w)]
    /\ pc' = [pc EXCEPT ![w] = "threads"]
    /\ UNCHANGED <<clock, queueVars, dataVars, holdVars, now, left, taken, knows, at, said,
                   fresh, cut, before, old, writes, faults>>

\* Mutant: only the conversations that are not retired are read.
ConversedLive(s) == "conversation" \in live[s]

Conversed(s) == s \in opened

ReadThreads(w) ==
    /\ pc[w] = "threads" /\ w \notin cut
    /\ knows' = [knows EXCEPT ![w] = Conversed(Whose(w))]
    /\ old' = [old EXCEPT ![w] = live[Whose(w)]]
    /\ pc' = [pc EXCEPT ![w] = IF held[w] = {} THEN "store" ELSE "finish"]
    /\ UNCHANGED <<clock, queueVars, dataVars, holdVars, now, left, taken, held, at, said,
                   fresh, cut, before, writes, faults>>

AfterStore(w) ==
    /\ at' = [at EXCEPT ![w] = @ + 1]
    /\ pc' = [pc EXCEPT ![w] = IF at[w] < Len(Stores) THEN "store" ELSE "own"]

\* Mutant: every row may be deleted.
LeavesAll(store) == TRUE

Leaves(store) == store \notin Keeps

\* What a store's executor answers for rows it reached.
Reached(w, store) ==
    IF Leaves(store) THEN "removed"
    ELSE IF store \in live[Whose(w)] THEN "kept" ELSE "removed"

EraseStore(w) ==
    /\ pc[w] = "store" /\ w \notin cut
    /\ LET store == Stores[at[w]] IN
          /\ store \in Executed
          /\ said' = [said EXCEPT ![w][store] = Reached(w, store)]
          /\ IF store = "memory" /\ knows[w]
             THEN pc' = [pc EXCEPT ![w] = "session"] /\ UNCHANGED at
             ELSE AfterStore(w)
    /\ UNCHANGED <<clock, queueVars, dataVars, holdVars, now, left, taken, held, knows,
                   fresh, cut, before, old, writes, faults>>

\* No executor, or a database error part-way, which is a fault: the store is as it was.
RefuseStore(w) ==
    /\ pc[w] = "store" /\ w \notin cut
    /\ IF Stores[at[w]] \in Executed
       THEN faults < MaxFaults /\ faults' = faults + 1
       ELSE UNCHANGED faults
    /\ said' = [said EXCEPT ![w][Stores[at[w]]] = "refused"]
    /\ AfterStore(w)
    /\ UNCHANGED <<clock, queueVars, dataVars, holdVars, now, left, taken, held, knows,
                   fresh, cut, before, old, writes>>

EraseSession(w) ==
    /\ pc[w] = "session"
    /\ live' = [live EXCEPT ![Whose(w)] = @ \ {"session"}]
    /\ AfterStore(w)
    /\ UNCHANGED <<clock, queueVars, opened, sends, holdVars, now, left, taken, held, knows,
                   said, fresh, cut, before, old, writes, faults>>

EraseTokens(w) ==
    /\ pc[w] = "own"
    /\ live' = [live EXCEPT ![Whose(w)] = @ \ {"token"}]
    /\ pc' = [pc EXCEPT ![w] = "finish"]
    /\ UNCHANGED <<clock, queueVars, opened, sends, holdVars, now, left, taken, held, knows,
                   at, said, fresh, cut, before, old, writes, faults>>

\* Mutant: a held request is left waiting for its hold to be lifted.
OutcomeWaits(w) ==
    IF held[w] # {} THEN "open"
    ELSE IF \E s \in ListedStores : said[w][s] \in {"refused", "kept"}
         THEN "incomplete" ELSE "erased"

OutcomeOf(w) ==
    IF held[w] # {} THEN "held"
    ELSE IF \E s \in ListedStores : said[w][s] \in {"refused", "kept"}
         THEN "incomplete" ELSE "erased"

\* Rows the transaction retired or deleted, those put in since left alone.
Removed(w) ==
    {s \in ListedStores : said[w][s] = "removed" /\ Leaves(s) /\ s \notin fresh[w]}

\* The request's own record, which says what was said of each store, and the commit.
Finish(w) ==
    /\ pc[w] = "finish" /\ w \notin cut
    /\ outcome' = [outcome EXCEPT ![taken[w]] = OutcomeOf(w)]
    /\ live' = [live EXCEPT ![Whose(w)] = @ \ Removed(w)]
    /\ pc' = [pc EXCEPT ![w] = "next"]
    /\ LetGo(w)
    /\ UNCHANGED <<clock, filed, opened, sends, holdVars, now, left, writes, faults>>

\* What ends a drain half way: the transaction is rolled back, the request stays open.
Abandon(w) ==
    /\ EndPass(w)
    /\ LetGo(w)
    /\ UNCHANGED <<clock, queueVars, dataVars, holdVars, writes>>

\* The next statement on a connection that has gone.
MeetTheCut(w) ==
    /\ w \in cut /\ pc[w] \in {"holds", "threads", "store", "finish"}
    /\ Abandon(w)
    /\ UNCHANGED faults

\* The cache or the vault refuses, or the process dies.
Fail(w) ==
    /\ Busy(w) /\ faults < MaxFaults
    /\ Abandon(w)
    /\ faults' = faults + 1

\* The server ends the transaction, and its lock with it.
Cut(w) ==
    /\ Busy(w) /\ w \notin cut /\ faults < MaxFaults
    /\ cut' = cut \union {w}
    /\ faults' = faults + 1
    /\ UNCHANGED <<clock, queueVars, dataVars, holdVars, pc, now, left, taken, held, knows,
                   at, said, fresh, before, old, writes>>

Drain(w) ==
    \/ Begin(w) \/ Take(w) \/ EndDrain(w)
    \/ ReadHolds(w) \/ ReadThreads(w)
    \/ EraseStore(w) \/ RefuseStore(w) \/ EraseSession(w) \/ EraseTokens(w)
    \/ Finish(w) \/ MeetTheCut(w)

Next ==
    \/ PersonStep
    \/ \E w \in Workers : Drain(w) \/ Fail(w) \/ Cut(w)

Spec == Init /\ [][Next]_vars

\* The schedule starts a drain every quarter of an hour, and each goes on.
FairSpec == Spec /\ \A w \in Workers : WF_vars(Drain(w))

-----------------------------------------------------------------------------
(* What it keeps.                                                          *)

\* Every variable keeps its type, and no drain is past the end of the stores.
TypeOK ==
    /\ clock \in Nat /\ writes \in Nat /\ faults \in Nat
    /\ filed \in [Requests -> Nat]
    /\ outcome \in [Requests -> {"none", "open", "held", "incomplete", "erased"}]
    /\ live \in [Subjects -> SUBSET Pieces] /\ opened \subseteq Subjects
    /\ placed \in [Holds -> Nat] /\ lifted \in [Holds -> Nat]
    /\ sends \in [Subjects -> Nat]
    /\ pc \in [Workers -> {"idle", "next", "holds", "threads", "store", "session", "own",
                           "finish"}]
    /\ now \in [Workers -> Nat] /\ left \in [Workers -> Nat]
    /\ taken \in [Workers -> Requests \union {NoRequest}]
    /\ held \in [Workers -> SUBSET Holds] /\ knows \in [Workers -> BOOLEAN]
    /\ at \in [Workers -> 1..(Len(Stores) + 1)]
    /\ said \in [Workers -> [ListedStores -> Answers]]
    /\ fresh \in [Workers -> SUBSET Pieces] /\ cut \subseteq Workers
    /\ before \in [Workers -> SUBSET Holds]
    /\ old \in [Workers -> SUBSET Pieces]

\* Nothing of a person is lost while a hold over them stands that stood when the
\* request was taken, unless it was placed after the drain had begun: the drain
\* judges every request of its pass as of the instant it was started at.
HeldIsKept ==
    [][\A s \in Subjects : live[s] \subseteq live'[s]
          \/ \E w \in Workers :
                /\ pc'[w] # pc[w] /\ Busy(w) /\ Whose(w) = s
                /\ \A h \in before[w] :
                      s \in HoldOver[h] /\ lifted[h] = 0 => placed[h] > now[w]]_vars

\* What a finished request says is so: of a store it says was removed nothing that
\* was there as the drain began on it is left, where the memory was reached neither
\* are the keys of any conversation, and no other row went with it.
ReportsAreTrue ==
    [][\A w \in Workers :
          Busy(w) /\ w \notin cut /\ outcome'[taken[w]] # outcome[taken[w]] =>
             LET removed == {s \in ListedStores : said[w][s] = "removed"}
             IN  /\ old[w] \intersect removed \intersect live'[Whose(w)] = {}
                 /\ said[w]["memory"] \in {"removed", "kept"} =>
                       "session" \notin old[w] \intersect live'[Whose(w)]
                 /\ live[Whose(w)] \ live'[Whose(w)] \subseteq removed]_vars

\* An erasure does not make a key usable again: what was sent for a person is sent
\* once, however often they are erased.
KeysStaySpent == \A s \in Subjects : sends[s] <= 1

\* Requests whose transaction is gone and whose drain has not met that yet.
Astray == {r \in Requests : \E w \in cut : taken[w] = r}

Promise == INSTANCE ErasurePromise WITH
    Beside <- {"session", "token"}, Lasting <- Keeps, astray <- Astray

\* With the drains, holds and stores out of sight this is ErasurePromise: a request
\* ends once, rows leave only with the end of a request about their person that no
\* hold met, what is beside the database only for one that is open or astray, and
\* the record under a key for none.
KeepsThePromise == Promise!ESpec

\* A request that was filed is finished, whatever fails a bounded number of times
\* and whatever holds stand.
FiledIsFinished ==
    \A r \in Requests :
        outcome[r] = "open" ~> outcome[r] \in {"held", "incomplete", "erased"}

=============================================================================
