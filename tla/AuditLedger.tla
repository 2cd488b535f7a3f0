---------------------------- MODULE AuditLedger -----------------------------
(***************************************************************************)
(* The audit ledger, obs.audit_entry.  Triggers append to it inside the    *)
(* transactions of what they record, under one advisory lock that lasts to *)
(* the end of the transaction.  `brain.audit.chain_check` walks it a chunk *)
(* at a time, each chunk a transaction of its own, while it grows; and a   *)
(* scheduled job outside the install publishes its head, and asks each     *)
(* time whether the head it published last is still there.                 *)
(*                                                                         *)
(* A restore from an older backup takes the newest entries away; rows are  *)
(* changed or removed only with the table's own triggers switched off.     *)
(*                                                                         *)
(* A digest stands for everything it is computed from, so that two entries *)
(* have one digest only when they and all before them are the same.        *)
(***************************************************************************)
EXTENDS Naturals, FiniteSets

CONSTANTS
    Writers,        \* transactions that record something, one at a time each
    Facts,          \* what they record
    Chunk,          \* CHUNK, rows a statement of the walk loads
    MaxRows, MaxFaults, MaxMissed,  \* bounds on a behaviour
    MaxFaultsWalked                 \* and on the faults a walk begins after or meets

ASSUME LedgerAssumption ==
    /\ Chunk \in Nat \ {0} /\ MaxRows \in Nat
    /\ MaxFaults \in Nat /\ MaxMissed \in Nat /\ MaxFaultsWalked \in Nat

Genesis  == <<"genesis">>
NoDigest == <<"none">>
NoPlace  == [seq |-> 0, prev |-> NoDigest]
NoHead   == [seq |-> 0, head |-> NoDigest, of |-> {}]

VARIABLES
    rows,           \* obs.audit_entry
    writing,        \* where the transaction of each writer is
    place,          \* where its trigger found the chain to end
    job, current,   \* where the anchor job is, and the head it read
    published,      \* the head in the anchor repository's newest file
    walk,           \* "idle" or "walking"
    after, digest,  \* one past the last number walked, and that entry's digest
    anchor,         \* the head the walk was handed
    pending,        \* and not yet met
    completeness,   \* what the walk will say of it
    faults, missed, \* restores and edits; checks of the job that got no answer
    lost,           \* published heads a fault took the entry of, each until it is
                    \* back or a run of the job reports it
    unanswered,     \* heads another was published over without an answer
    walked, stood,  \* rows the walk read; those there when it began
    steady          \* no restore or edit since it began

writeVars  == <<writing, place>>
jobVars    == <<job, current, published, missed>>
walkVars   == <<walk, after, digest, anchor, pending, completeness, walked, stood, steady>>
faultVars  == <<faults, lost, unanswered>>
vars == <<rows, writeVars, jobVars, walkVars, faultVars>>

Init ==
    /\ rows = {} /\ faults = 0 /\ lost = {} /\ unanswered = {}
    /\ writing = [w \in Writers |-> "idle"]
    /\ place = [w \in Writers |-> NoPlace]
    /\ job = "idle" /\ current = NoHead /\ published = NoHead
    /\ missed = 0
    /\ walk = "idle" /\ after = 0 /\ digest = Genesis
    /\ anchor = NoHead /\ pending = NoHead /\ completeness = "unanchored"
    /\ walked = {} /\ stood = {} /\ steady = TRUE

-----------------------------------------------------------------------------
(* Entries.                                                                *)

\* audit_entry_hash, and compute_entry_hash.
Digest(seq, what, prev) == <<seq, what, prev>>

Entry(seq, what, prev) == [seq |-> seq, fact |-> what, prev |-> prev, digest |-> Digest(seq, what, prev)]

IsNewest(e) == \A d \in rows : d.seq <= e.seq

\* Where the next entry goes: one past the newest, with its digest as parent.
\* A set of one.
EndsOfChain ==
    IF rows = {} THEN {[seq |-> 0, prev |-> Genesis]}
    ELSE {[seq |-> e.seq + 1, prev |-> e.digest] : e \in {e \in rows : IsNewest(e)}}

\* A published head can be asked about, and digest_at answers with it.
Checkable(h) == h # NoHead /\ h.head # Genesis

Held(h, s) == \E e \in s : e.seq = h.seq /\ e.digest = h.head

\* Those of heads hs that rows s hold no entry of.
Missing(hs, s) == {h \in hs : Checkable(h) /\ ~Held(h, s)}

-----------------------------------------------------------------------------
(* The append, the same in every audited table's trigger.                  *)

\* Mutant: the lock is let go with the statement.
NeverLocked == FALSE

Locked == \E w \in Writers : writing[w] = "holding"

\* A statement changed an audited row; its trigger waits for the lock, and
\* reads the end of the chain once it has it.
Draw(w) ==
    /\ writing[w] = "idle" /\ ~Locked
    /\ writing' = [writing EXCEPT ![w] = "holding"]
    /\ \E end \in EndsOfChain : place' = [place EXCEPT ![w] = end]
    /\ UNCHANGED <<rows, jobVars, walkVars, faultVars>>

EndWriting(w) ==
    /\ writing' = [writing EXCEPT ![w] = "idle"]
    /\ place' = [place EXCEPT ![w] = NoPlace]

\* The merge inserts, and the transaction commits.
Commit(w, f) ==
    /\ writing[w] = "holding"
    /\ Cardinality(rows) < MaxRows
    /\ \A e \in rows : e.seq # place[w].seq /\ e.prev # place[w].prev
    /\ rows' = rows \union {Entry(place[w].seq, f, place[w].prev)}
    /\ lost' = Missing(lost, rows')
    /\ EndWriting(w)
    /\ UNCHANGED <<jobVars, walkVars, faults, unanswered>>

\* The transaction fails: the place is taken, or for a reason of its own.
Rollback(w) ==
    /\ writing[w] = "holding"
    /\ EndWriting(w)
    /\ UNCHANGED <<rows, jobVars, walkVars, faultVars>>

-----------------------------------------------------------------------------
(* What is done to the table from outside.                                 *)

\* The walk is over, and keeps nothing.
WalkOver ==
    /\ walk' = "idle" /\ completeness' = "unanchored"
    /\ after' = 0 /\ digest' = Genesis /\ anchor' = NoHead /\ pending' = NoHead
    /\ walked' = {} /\ stood' = {} /\ steady' = TRUE

Disturb(left) ==
    /\ faults < (IF walk = "walking" THEN MaxFaultsWalked ELSE MaxFaults)
    /\ faults' = faults + 1
    /\ rows' = left /\ rows' # rows
    /\ lost' = lost \union Missing({published}, left)
    /\ UNCHANGED <<jobVars, unanswered>>

\* The database is restored to an older state: connections are gone, and so
\* are the newest entries.
Restore(n) ==
    /\ Disturb({e \in rows : e.seq < n})
    /\ writing' = [w \in Writers |-> "idle"]
    /\ place' = [w \in Writers |-> NoPlace]
    /\ IF walk = "walking" THEN WalkOver ELSE UNCHANGED walkVars

Edit(left) ==
    /\ Disturb(left)
    /\ steady' = (walk = "idle")
    /\ UNCHANGED <<writeVars, walk, after, digest, anchor, pending, completeness, walked, stood>>

\* A row is changed where it stands.
Alter(e, f) == Edit((rows \ {e}) \union {[e EXCEPT !.fact = f]})

Remove(e) == Edit(rows \ {e})

-----------------------------------------------------------------------------
(* The walk, check_ledger.                                                 *)

\* A person asks for it, and may hand it the head published last.
StartWalk ==
    /\ walk = "idle" /\ faults <= MaxFaultsWalked
    /\ walk' = "walking" /\ after' = 0 /\ digest' = Genesis
    /\ anchor' \in {NoHead, published}
    /\ pending' = IF Checkable(anchor') THEN anchor' ELSE NoHead
    /\ completeness' = "unanchored"
    /\ walked' = {} /\ stood' = rows /\ steady' = TRUE
    /\ UNCHANGED <<rows, writeVars, jobVars, faultVars>>

\* Mutant: the content of an entry is not digested again.
LinkedOnly(c) ==
    /\ \E e \in c : e.seq = after
    /\ \A e \in c :
          \/ e.seq = after /\ e.prev = digest
          \/ \E d \in c : e.seq = d.seq + 1 /\ e.prev = d.digest

\* _join_break and first_break find nothing: the chunk begins where the walk
\* got to, each entry has the one before it as parent, and each digest is of
\* what the entry says.
Unbroken(c) ==
    /\ \E e \in c : e.seq = after
    /\ \A e \in c :
          /\ \/ e.seq = after /\ e.prev = digest
             \/ \E d \in c : e.seq = d.seq + 1 /\ e.prev = d.digest
          /\ e.digest = Digest(e.seq, e.fact, e.prev)

\* Up to a chunk of the rows not walked, oldest first.
NextChunk ==
    LET left == {e \in rows : e.seq >= after}
    IN {e \in left : Cardinality({d \in left : d.seq < e.seq}) < Chunk}

\* Mutant: a full chunk is taken for the last.
AlwaysLast(c) == c # {}

\* Fewer rows than were asked for: the ledger ended.
IsLast(c) == Cardinality(c) < Chunk

\* Mutant: a head is left for the chunk after the one it ends.
OnlyPast(c) == pending # NoHead /\ \E e \in c : e.seq > pending.seq

\* The head held back is of an entry in this chunk, or before it.
IsDue(c) == pending # NoHead /\ \E e \in c : e.seq >= pending.seq

\* What is said of the head once chunk c is walked: in it, the head is
\* checked against the entry at its number.
Answer(c) ==
    IF ~IsDue(c) THEN completeness
    ELSE IF \E e \in c : e.seq = pending.seq /\ e.digest = pending.head THEN "anchored"
    ELSE "missing"

\* The report of a walk that ends with chunk c.  A head still held back when
\* the ledger ends is missing from it.
Report(c) ==
    IF c # {} /\ ~Unbroken(c) THEN [continuous |-> FALSE, completeness |-> "unanchored"]
    ELSE [continuous |-> TRUE,
          completeness |-> IF pending # NoHead /\ ~IsDue(c) THEN "missing" ELSE Answer(c)]

WalkChunk ==
    /\ walk = "walking"
    /\ LET c == NextChunk IN
          IF IsLast(c) \/ ~Unbroken(c) THEN WalkOver
          ELSE \E e \in c :
               /\ \A d \in c : d.seq <= e.seq
               /\ after' = e.seq + 1 /\ digest' = e.digest
               /\ pending' = IF IsDue(c) THEN NoHead ELSE pending
               /\ completeness' = Answer(c)
               /\ walked' = walked \union c
               /\ UNCHANGED <<walk, anchor, stood, steady>>
    /\ UNCHANGED <<rows, writeVars, jobVars, faultVars>>

-----------------------------------------------------------------------------
(* The anchor job, of which there is one at a time.                        *)

\* published_head; an empty ledger is number nought with the genesis digest.
HeadAt(end) == [seq |-> IF end.seq = 0 THEN 0 ELSE end.seq - 1, head |-> end.prev, of |-> rows]

ReadHead ==
    /\ job = "idle"
    /\ job' = "checking"
    /\ \E end \in EndsOfChain : current' = HeadAt(end)
    /\ UNCHANGED <<rows, writeVars, published, missed, walkVars, faultVars>>

\* Mutant: only a head whose number is gone is a finding.
OnlyRemoved(h) == \A e \in rows : e.seq # h.seq

\* What the check calls removed or rewritten.
Gone(h) == ~Held(h, rows) \/ current.seq < h.seq

\* The head read is committed, whatever the check said of the one before,
\* which reported the heads hs.
Publish(hs) ==
    /\ job = "checking" /\ job' = "idle"
    /\ published' = current /\ current' = NoHead
    /\ lost' = (lost \ hs) \union Missing({current}, rows)
    /\ UNCHANGED <<rows, writeVars, walkVars, faults>>

\* The commit reads nothing of the ledger, so it is one step with the check.
Check ==
    /\ Publish({h \in {published} : Checkable(h) /\ Gone(h)})
    /\ unanswered' = unanswered \ {current}
    /\ UNCHANGED missed

\* The question gets no answer: not a finding, and the run goes on.
CheckUnanswered ==
    /\ Publish({})
    /\ Checkable(published) /\ missed < MaxMissed /\ missed' = missed + 1
    /\ unanswered' = (unanswered \union {published}) \ {current}

\* A run fails before its push: what it found and the head it read go with it.
FailRun ==
    /\ job = "checking"
    /\ job' = "idle" /\ current' = NoHead
    /\ UNCHANGED <<rows, writeVars, published, missed, walkVars, faultVars>>

-----------------------------------------------------------------------------

Write(w) == Draw(w) \/ (\E f \in Facts : Commit(w, f)) \/ Rollback(w)

JobStep == ReadHead \/ Check \/ CheckUnanswered \/ FailRun

Outside ==
    \/ \E n \in 0..MaxRows : Restore(n)
    \/ \E e \in rows : Remove(e) \/ \E f \in Facts : Alter(e, f)

Next ==
    \/ \E w \in Writers : Write(w)
    \/ JobStep
    \/ StartWalk \/ WalkChunk
    \/ Outside

Spec == Init /\ [][Next]_vars

-----------------------------------------------------------------------------
(* Properties.                                                             *)

\* The types of the variables, and what is left of a transaction or a walk that
\* is over.
TypeOK ==
    /\ IsFiniteSet(rows)
    /\ \A e \in rows : e.seq \in Nat /\ e = [seq |-> e.seq, fact |-> e.fact,
                                            prev |-> e.prev, digest |-> e.digest]
    /\ writing \in [Writers -> {"idle", "holding"}]
    /\ DOMAIN place = Writers
    /\ \A w \in Writers :
          /\ place[w].seq \in Nat
          /\ writing[w] = "idle" => place[w] = NoPlace
    /\ job \in {"idle", "checking"}
    /\ job = "idle" => current = NoHead
    /\ walk \in {"idle", "walking"} /\ after \in Nat
    /\ walk = "idle" => walked = {} /\ after = 0 /\ anchor = NoHead /\ pending = NoHead
    /\ completeness \in {"unanchored", "anchored", "missing"}
    /\ faults \in Nat /\ missed \in Nat /\ steady \in BOOLEAN

\* One chain from the genesis digest, with no two entries at one number.
Chained(s) ==
    /\ \A e, d \in s : e.seq = d.seq => e = d
    /\ \A e \in s :
          /\ e.digest = Digest(e.seq, e.fact, e.prev)
          /\ \/ e.seq = 0 /\ e.prev = Genesis
             \/ \E d \in s : e.seq = d.seq + 1 /\ e.prev = d.digest

\* While nothing is restored or edited the ledger is one chain from its first
\* entry, and a transaction that drew its place finds it free, however the
\* appends and their rollbacks interleave.
AppendsMakeOneChain ==
    faults = 0 =>
        /\ Chained(rows)
        /\ \A w \in Writers : writing[w] = "holding" => EndsOfChain = {place[w]}

Reported == WalkChunk /\ walk' = "idle"

\* A walk of a ledger nothing was done to finds no break and the head it was
\* handed, whatever is appended between its chunks.
NoFalseAlarm ==
    [][Reported /\ faults = 0 =>
          Report(NextChunk) = [continuous |-> TRUE,
              completeness |-> IF Checkable(anchor) THEN "anchored" ELSE "unanchored"]]_vars

\* A walk that found no break and the head it was handed read every entry of
\* the chain that head was published of, unaltered, whatever was restored or
\* edited before or during it.
AnchoredIsAsPublished ==
    [][Reported /\ Report(NextChunk) = [continuous |-> TRUE, completeness |-> "anchored"]
           /\ Chained(anchor.of) => anchor.of \subseteq walked \union NextChunk]_vars

\* A walk during which nothing was restored or edited, and which found no
\* break, read all that was there when it began, and owns up to a head it was
\* handed and did not find.
ContinuousIsWhole ==
    [][Reported /\ steady /\ Report(NextChunk).continuous =>
          /\ stood \subseteq walked \union NextChunk
          /\ Report(NextChunk).completeness = "unanchored" => ~Checkable(anchor)]_vars

\* Every published head whose entry is lost, the first or a later one, is
\* reported before another is published over it, though the ledger may have
\* grown past it again and runs may have failed, unless its entry is back or
\* the last question about that very head went unanswered.
LossIsFound == lost \subseteq {published} \union unanswered

=============================================================================
