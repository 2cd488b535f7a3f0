------------------------- MODULE AuditLedgerProofs --------------------------
(***************************************************************************)
(* Proofs about AuditLedger for any writers, facts and chunk, and any      *)
(* number of restores and edits.                                           *)
(*                                                                         *)
(* What the chain of an entry holds is a matter of induction along it, and *)
(* so is what the oldest rows of a ledger are.  Both are put as the least  *)
(* of a set of numbers: LeastNumber, from the well-founded order of finite *)
(* sets.                                                                   *)
(***************************************************************************)
EXTENDS AuditLedger, FiniteSetTheorems, WellFoundedInduction, TLAPS

\* A set of numbers that is not empty has a least one.
LEMMA LeastNumber ==
    ASSUME NEW T \in SUBSET Nat, T # {}
    PROVE  \E n \in T : \A m \in T : n <= m
<1> SUFFICES ASSUME NEW fam, fam = {0 .. t : t \in T} PROVE \E n \in T : \A m \in T : n <= m
    OBVIOUS
<1>1. fam \subseteq FiniteSubsetsOf(Nat)
    <2> SUFFICES ASSUME NEW t \in T PROVE 0 .. t \in FiniteSubsetsOf(Nat)
        OBVIOUS
    <2>1. IsFiniteSet(0 .. t)
        BY FS_Interval
    <2> QED BY <2>1, SMTT(30) DEF FiniteSubsetsOf
<1>2. fam # {}
    OBVIOUS
<1>3. PICK s \in fam : \A u \in fam : ~ (<<u, s>> \in StrictSubsetOrdering(Nat))
    <2>1. IsWellFoundedOn(StrictSubsetOrdering(Nat), FiniteSubsetsOf(Nat))
        BY FS_StrictSubsetOrderingWellFounded
    <2> HIDE DEF StrictSubsetOrdering, FiniteSubsetsOf, IsWellFoundedOn
    <2> QED BY <1>1, <1>2, <2>1, WFMin
<1>4. PICK n \in T : s = 0 .. n
    OBVIOUS
<1>5. ASSUME NEW m \in T, m < n PROVE FALSE
    <2>1. 0 .. m \in fam
        OBVIOUS
    <2>2. 0 .. m \subseteq s /\ 0 .. m # s /\ s \subseteq Nat /\ 0 .. m \subseteq Nat
        <3>1. n \in s /\ n \notin 0 .. m
            BY <1>4, <1>5
        <3> QED BY <1>4, <1>5, <3>1
    <2>3. <<0 .. m, s>> \in StrictSubsetOrdering(Nat)
        BY <2>2 DEF StrictSubsetOrdering
    <2> QED BY <1>3, <2>1, <2>3
<1>6. \A m \in T : ~ (m < n) /\ m \in Nat /\ n \in Nat
    BY <1>5
<1> QED BY <1>6, SMTT(30)

-----------------------------------------------------------------------------
(* The inductive invariant.                                                *)

IsRow(e) == e = [seq |-> e.seq, fact |-> e.fact, prev |-> e.prev, digest |-> e.digest] /\ e.seq \in Nat

IsChain(s) == \A e \in s : IsRow(e)

\* A head is of the newest of the rows it was read from.
IsHead(h) ==
    /\ h.seq \in Nat /\ IsChain(h.of)
    /\ h.of # {} => \E e \in h.of : /\ e.seq = h.seq /\ e.digest = h.head
                                    /\ \A d \in h.of : d.seq <= e.seq
    /\ h.of = {} => ~Checkable(h)

\* Nothing has been done to the ledger: it has a row at each number below
\* some, and holds every head that was read.
PlainInv ==
    faults = 0 =>
        /\ \E n \in Nat : /\ \A e \in rows : e.seq < n
                          /\ \A i \in 0 .. (n - 1) : \E e \in rows : e.seq = i
        /\ \A h \in {current, published, anchor} : Checkable(h) => Held(h, rows)

\* At most one transaction holds the lock.
LockInv == \A v, w \in Writers : writing[v] = "holding" /\ writing[w] = "holding" => v = w

\* A place that was drawn is past every row.
PlaceInv == \A w \in Writers : writing[w] = "holding" => \A e \in rows : e.seq < place[w].seq

HeadInv == IsHead(current) /\ IsHead(published) /\ IsHead(anchor)

\* A head that is lost could be asked about, and is not there.
LostInv == \A h \in lost : Checkable(h) /\ ~Held(h, rows)

\* Every entry says what its digest is of, and has the one before it beside it.
Whole(s) ==
    \A e \in s :
        /\ IsRow(e) /\ e.digest = Digest(e.seq, e.fact, e.prev)
        /\ \/ e.seq = 0 /\ e.prev = Genesis
           \/ \E d \in s : e.seq = d.seq + 1 /\ e.prev = d.digest

\* What was walked is whole down to the first entry, and the walk stands at
\* its end.
WalkedInv ==
    /\ IsChain(walked)
    /\ \A e \in walked :
          /\ e.seq < after
          /\ e.digest = Digest(e.seq, e.fact, e.prev)
          /\ \/ e.seq = 0 /\ e.prev = Genesis
             \/ \E d \in walked : e.seq = d.seq + 1 /\ e.prev = d.digest
    /\ after = 0 => digest = Genesis
    /\ after # 0 => \E e \in walked : after = e.seq + 1 /\ digest = e.digest

\* The head a walk was handed is held back, or has been met and spoken of.
PendingInv ==
    walk = "walking" =>
        /\ pending # NoHead => pending = anchor /\ Checkable(anchor) /\ pending.seq >= after
        /\ pending # NoHead => completeness = "unanchored"
        /\ completeness = "anchored" =>
              \E e \in walked : e.seq = anchor.seq /\ e.digest = anchor.head
        /\ pending = NoHead /\ completeness = "unanchored" => ~Checkable(anchor)
        /\ ~Checkable(anchor) => completeness = "unanchored"

\* While nothing is done to the ledger under a walk, it has every row there
\* was below where it stands.
SteadyInv ==
    steady /\ walk = "walking" =>
        /\ stood \subseteq rows /\ walked \subseteq rows
        /\ \A e \in rows : e.seq < after => e \in walked

\* And if nothing ever was, it met every head it was to.
MetInv ==
    walk = "walking" /\ faults = 0 =>
        steady /\ completeness # "missing"

IInv ==
    /\ TypeOK /\ AppendsMakeOneChain /\ LossIsFound
    /\ PlainInv /\ LockInv /\ PlaceInv /\ HeadInv /\ LostInv
    /\ WalkedInv /\ PendingInv /\ SteadyInv /\ MetInv

-----------------------------------------------------------------------------
(* Chunks.                                                                 *)

Left == {e \in rows : e.seq >= after}

\* A chunk is of rows not walked, and closed under those below.
LEMMA ChunkIsOfTheOldest ==
    ASSUME TypeOK
    PROVE  /\ NextChunk \subseteq Left
           /\ \A e \in NextChunk, d \in Left : d.seq <= e.seq => d \in NextChunk
<1>1. NextChunk \subseteq Left
    BY DEF NextChunk, Left
<1>2. ASSUME NEW e \in NextChunk, NEW d \in Left, d.seq <= e.seq PROVE d \in NextChunk
    <2> SUFFICES ASSUME NEW lo, lo = {x \in Left : x.seq < d.seq}, NEW hi, hi = {x \in Left : x.seq < e.seq}
                 PROVE  Cardinality(lo) < Chunk
        BY DEF NextChunk, Left
    <2>1. IsFiniteSet(Left) /\ IsFiniteSet(hi)
        BY FS_Subset DEF TypeOK, Left
    <2>2. d.seq \in Nat /\ e.seq \in Nat /\ \A x \in Left : x.seq \in Nat
        BY <1>1 DEF TypeOK, Left
    <2>3. lo \subseteq hi
        BY <1>2, <2>2
    <2>4. Cardinality(lo) <= Cardinality(hi) /\ Cardinality(lo) \in Nat /\ Cardinality(hi) \in Nat
        BY <2>1, <2>3, FS_Subset, FS_CardinalityType
    <2>5. Cardinality(hi) < Chunk
        BY DEF NextChunk, Left
    <2> QED BY <2>4, <2>5, LedgerAssumption
<1> QED BY <1>1, <1>2

\* The last chunk is all that is left.
LEMMA LastIsAllThatIsLeft ==
    ASSUME TypeOK, IsLast(NextChunk)
    PROVE  NextChunk = Left
<1> SUFFICES ASSUME NEW rest, rest = Left \ NextChunk, rest # {} PROVE FALSE
    BY ChunkIsOfTheOldest
<1> SUFFICES ASSUME NEW seqs, seqs = {e.seq : e \in rest} PROVE FALSE
    OBVIOUS
<1>1. seqs \subseteq Nat /\ seqs # {}
    BY DEF TypeOK, Left
<1>2. PICK d \in rest : \A e \in rest : d.seq <= e.seq
    <2>1. PICK n \in seqs : \A m \in seqs : n <= m
        BY <1>1, LeastNumber
    <2> QED BY <2>1
<1> SUFFICES ASSUME NEW lo, lo = {x \in Left : x.seq < d.seq} PROVE FALSE
    OBVIOUS
<1>3. \A x \in Left : x.seq \in Nat
    BY DEF TypeOK, Left
<1>4. lo \subseteq NextChunk
    BY <1>2, <1>3
<1>5. IsFiniteSet(NextChunk)
    BY ChunkIsOfTheOldest, FS_Subset DEF TypeOK, Left
<1>6. Cardinality(lo) <= Cardinality(NextChunk) /\ Cardinality(lo) \in Nat /\ Cardinality(NextChunk) \in Nat
    BY <1>4, <1>5, FS_Subset, FS_CardinalityType
<1>7. Cardinality(lo) < Chunk
    BY <1>6, LedgerAssumption DEF IsLast
<1>8. d \in NextChunk
    BY <1>7 DEF NextChunk, Left
<1> QED BY <1>8

\* A chunk that is not the last has something in it.
LEMMA NotLastIsNotEmpty ==
    ASSUME NEW c, ~IsLast(c) PROVE c # {}
BY FS_EmptySet, LedgerAssumption DEF IsLast

\* What a walk has read with an unbroken chunk is whole.
LEMMA UnbrokenKeepsWhole ==
    ASSUME TypeOK, WalkedInv, NEW c \in SUBSET rows, Unbroken(c)
    PROVE  \A e \in walked \union c :
              /\ IsRow(e)
              /\ e.digest = Digest(e.seq, e.fact, e.prev)
              /\ \/ e.seq = 0 /\ e.prev = Genesis
                 \/ \E d \in walked \union c : e.seq = d.seq + 1 /\ e.prev = d.digest
<1>1. ASSUME NEW e \in walked
      PROVE  /\ IsRow(e) /\ e.digest = Digest(e.seq, e.fact, e.prev)
             /\ \/ e.seq = 0 /\ e.prev = Genesis
                \/ \E d \in walked \union c : e.seq = d.seq + 1 /\ e.prev = d.digest
    BY DEF WalkedInv, IsChain
<1>2. ASSUME NEW e \in c
      PROVE  /\ IsRow(e) /\ e.digest = Digest(e.seq, e.fact, e.prev)
             /\ \/ e.seq = 0 /\ e.prev = Genesis
                \/ \E d \in walked \union c : e.seq = d.seq + 1 /\ e.prev = d.digest
    <2>1. IsRow(e)
        BY DEF TypeOK, IsRow
    <2>2. e.digest = Digest(e.seq, e.fact, e.prev)
        BY DEF Unbroken
    <2>3. CASE e.seq = after /\ e.prev = digest
        BY <2>1, <2>2, <2>3 DEF WalkedInv
    <2>4. CASE \E d \in c : e.seq = d.seq + 1 /\ e.prev = d.digest
        BY <2>1, <2>2, <2>4
    <2> QED BY <2>3, <2>4 DEF Unbroken
<1> QED BY <1>1, <1>2

-----------------------------------------------------------------------------
(* The steps.                                                              *)

\* The ledger starts empty, and everything idle.
LEMMA InvInit == Init => IInv
<1> SUFFICES ASSUME Init PROVE IInv
    OBVIOUS
<1> USE DEF Init, NoHead, NoPlace
<1>1. TypeOK
    BY FS_EmptySet DEF TypeOK
<1>2. AppendsMakeOneChain
    BY DEF AppendsMakeOneChain, Chained
<1>3. PlainInv /\ HeadInv
    BY DEF PlainInv, HeadInv, IsHead, IsChain, Checkable
<1>4. LossIsFound /\ LockInv /\ PlaceInv /\ LostInv /\ WalkedInv /\ PendingInv /\ SteadyInv /\ MetInv
    BY DEF LossIsFound, LockInv, PlaceInv, LostInv, WalkedInv, IsChain, PendingInv, SteadyInv, MetInv
<1> QED BY <1>1, <1>2, <1>3, <1>4 DEF IInv

\* The end of the ledger is a place, and the head read from it a head.
LEMMA EndsArePlaces ==
    ASSUME TypeOK, NEW end \in EndsOfChain
    PROVE  /\ end = [seq |-> end.seq, prev |-> end.prev] /\ end.seq \in Nat
           /\ IsHead(HeadAt(end)) /\ HeadAt(end) # NoHead
           /\ Checkable(HeadAt(end)) => Held(HeadAt(end), rows)
<1>1. CASE rows = {}
    <2>1. end = [seq |-> 0, prev |-> Genesis]
        BY <1>1 DEF EndsOfChain
    <2>2. HeadAt(end) = [seq |-> 0, head |-> Genesis, of |-> {}]
        BY <1>1, <2>1 DEF HeadAt
    <2> QED BY <2>1, <2>2 DEF IsHead, IsChain, Checkable, NoHead, NoDigest, Genesis
<1>2. CASE rows # {}
    <2>1. PICK e \in rows : IsNewest(e) /\ end = [seq |-> e.seq + 1, prev |-> e.digest]
        BY <1>2 DEF EndsOfChain
    <2>2. e.seq \in Nat /\ IsChain(rows)
        BY DEF TypeOK, IsChain, IsRow
    <2>3. HeadAt(end) = [seq |-> e.seq, head |-> e.digest, of |-> rows]
        BY <2>1, <2>2 DEF HeadAt
    <2> QED BY <1>2, <2>1, <2>2, <2>3 DEF IsHead, Held, NoHead, IsNewest
<1> QED BY <1>1, <1>2

\* A commit adds one row.
LEMMA CommitKeepsRows ==
    ASSUME TypeOK, NEW w \in Writers, NEW f \in Facts, Commit(w, f)
    PROVE  IsFiniteSet(rows') /\ IsChain(rows')
<1>1. IsFiniteSet(rows')
    BY FS_AddElement DEF Commit, TypeOK
<1>2. place[w].seq \in Nat /\ IsChain(rows)
    BY DEF TypeOK, IsChain, IsRow
<1>3. IsRow(Entry(place[w].seq, f, place[w].prev))
    BY <1>2 DEF IsRow, Entry
<1> QED BY <1>1, <1>2, <1>3 DEF Commit, IsChain

\* A restore or an edit leaves rows, and none it can be said a head is of that
\* was not there.
LEMMA OutsideKeepsRows ==
    ASSUME TypeOK, Outside
    PROVE  /\ IsFiniteSet(rows') /\ IsChain(rows')
           /\ \A h : Held(h, rows') => Held(h, rows)
           /\ \E left : Disturb(left)
<1>1. ASSUME NEW n \in 0 .. MaxRows, Restore(n)
      PROVE  rows' \subseteq rows /\ \E left : Disturb(left)
    BY <1>1 DEF Restore, Disturb
<1>2. ASSUME NEW e \in rows, Remove(e)
      PROVE  rows' \subseteq rows /\ \E left : Disturb(left)
    BY <1>2 DEF Remove, Edit, Disturb
<1>3. ASSUME rows' \subseteq rows, \E left : Disturb(left)
      PROVE  /\ IsFiniteSet(rows') /\ IsChain(rows')
             /\ \A h : Held(h, rows') => Held(h, rows)
    BY <1>3, FS_Subset DEF TypeOK, IsChain, IsRow, Held
<1>4. ASSUME NEW e \in rows, NEW f \in Facts, Alter(e, f)
      PROVE  /\ IsFiniteSet(rows') /\ IsChain(rows')
             /\ \A h : Held(h, rows') => Held(h, rows)
             /\ \E left : Disturb(left)
    <2> SUFFICES ASSUME NEW d, d = [e EXCEPT !.fact = f] PROVE
             /\ IsFiniteSet(rows') /\ IsChain(rows')
             /\ \A h : Held(h, rows') => Held(h, rows)
             /\ \E left : Disturb(left)
        OBVIOUS
    <2>1. rows' = (rows \ {e}) \union {d} /\ \E left : Disturb(left)
        BY <1>4 DEF Alter, Edit, Disturb
    <2>2. IsFiniteSet(rows')
        BY <2>1, FS_AddElement, FS_RemoveElement DEF TypeOK
    <2>3. IsRow(e)
        BY DEF TypeOK, IsRow
    <2>4. IsRow(d) /\ d.seq = e.seq /\ d.digest = e.digest
        BY <2>3 DEF IsRow
    <2>5. IsChain(rows')
        BY <2>1, <2>4 DEF TypeOK, IsChain, IsRow
    <2>6. \A h : Held(h, rows') => Held(h, rows)
        BY <2>1, <2>4 DEF Held
    <2> QED BY <2>1, <2>2, <2>5, <2>6
<1> QED BY <1>1, <1>2, <1>3, <1>4 DEF Outside

\* What a restore or an edit does to the walk.
LEMMA OutsideAndTheWalk ==
    ASSUME TypeOK, Outside
    PROVE  \/ WalkOver
           \/ UNCHANGED walkVars /\ walk = "idle"
           \/ /\ UNCHANGED <<walk, after, digest, anchor, pending, completeness, walked, stood>>
              /\ steady' = (walk = "idle")
<1>1. ASSUME NEW n \in 0 .. MaxRows, Restore(n)
      PROVE  WalkOver \/ (UNCHANGED walkVars /\ walk = "idle")
    BY <1>1 DEF Restore, TypeOK
<1> QED BY <1>1 DEF Outside, Remove, Alter, Edit, walkVars, TypeOK

\* One step of the walk that is not its last.
WalksOn(c) ==
    /\ c # {} /\ Unbroken(c)
    /\ \E e \in c : /\ \A d \in c : d.seq <= e.seq
                    /\ after' = e.seq + 1 /\ digest' = e.digest
    /\ pending' = IF IsDue(c) THEN NoHead ELSE pending
    /\ completeness' = Answer(c)
    /\ walked' = walked \union c
    /\ UNCHANGED <<walk, anchor, stood, steady>>

\* What each step leaves of the walk.
LEMMA StepsOfTheWalk ==
    ASSUME TypeOK, [Next]_vars
    PROVE  \/ UNCHANGED walkVars
           \/ WalkOver
           \/ /\ UNCHANGED <<walk, after, digest, anchor, pending, completeness, walked, stood>>
              /\ steady' = (walk = "idle") /\ Outside
           \/ StartWalk
           \/ walk = "walking" /\ WalksOn(NextChunk) /\ UNCHANGED <<rows, faults>>
<1>1. CASE UNCHANGED vars
    BY <1>1 DEF vars
<1>2. ASSUME NEW w \in Writers, Write(w) PROVE UNCHANGED walkVars
    BY <1>2 DEF Write, Draw, Commit, Rollback
<1>3. CASE JobStep
    BY <1>3 DEF JobStep, ReadHead, Check, CheckUnanswered, FailRun, Publish
<1>4. CASE WalkChunk
    BY <1>4, NotLastIsNotEmpty DEF WalkChunk, WalksOn, faultVars
<1>5. CASE Outside
    BY <1>5, OutsideAndTheWalk
<1> QED BY <1>1, <1>2, <1>3, <1>4, <1>5 DEF Next

\* What each step leaves of the ledger.
LEMMA StepsOfTheLedger ==
    ASSUME TypeOK, [Next]_vars
    PROVE  \/ UNCHANGED rows /\ faults' = faults
           \/ /\ \E w \in Writers, f \in Facts : Commit(w, f)
              /\ faults' = faults
           \/ Outside /\ faults' = faults + 1
<1>1. CASE UNCHANGED vars
    BY <1>1 DEF vars, faultVars
<1>2. ASSUME NEW w \in Writers, Write(w)
      PROVE  /\ faults' = faults
             /\ UNCHANGED rows \/ \E f \in Facts : Commit(w, f)
    BY <1>2 DEF Write, Draw, Commit, Rollback, faultVars
<1>3. CASE JobStep
    BY <1>3 DEF JobStep, ReadHead, Check, CheckUnanswered, FailRun, Publish, faultVars
<1>4. CASE WalkChunk \/ StartWalk
    BY <1>4 DEF WalkChunk, StartWalk, faultVars
<1>5. CASE Outside
    BY <1>5, OutsideKeepsRows DEF Disturb
<1> QED BY <1>1, <1>2, <1>3, <1>4, <1>5 DEF Next

\* The types, part by part.
RowsOK == IsFiniteSet(rows) /\ IsChain(rows) /\ faults \in Nat

WritersOK ==
    /\ writing \in [Writers -> {"idle", "holding"}]
    /\ DOMAIN place = Writers
    /\ \A w \in Writers : /\ place[w].seq \in Nat
                          /\ writing[w] = "idle" => place[w] = NoPlace

JobOK ==
    /\ job \in {"idle", "checking"} /\ missed \in Nat
    /\ job = "idle" => current = NoHead

WalkOK ==
    /\ walk \in {"idle", "walking"} /\ after \in Nat
    /\ walk = "idle" => walked = {} /\ after = 0 /\ anchor = NoHead /\ pending = NoHead
    /\ completeness \in {"unanchored", "anchored", "missing"} /\ steady \in BOOLEAN

LEMMA TypeParts == TypeOK <=> RowsOK /\ WritersOK /\ JobOK /\ WalkOK
BY DEF TypeOK, RowsOK, WritersOK, JobOK, WalkOK, IsChain, IsRow

\* Every step keeps the types.
LEMMA KeepsType ==
    ASSUME TypeOK, [Next]_vars
    PROVE  TypeOK'
<1>1. RowsOK'
    <2>1. CASE UNCHANGED rows /\ faults' = faults
        BY <2>1, TypeParts DEF RowsOK, IsChain, IsRow
    <2>2. ASSUME NEW w \in Writers, NEW f \in Facts, Commit(w, f), faults' = faults PROVE RowsOK'
        BY <2>2, CommitKeepsRows, TypeParts DEF RowsOK
    <2>3. CASE Outside /\ faults' = faults + 1
        BY <2>3, OutsideKeepsRows, TypeParts DEF RowsOK
    <2> QED BY <2>1, <2>2, <2>3, StepsOfTheLedger
<1>2. WritersOK'
    <2> USE TypeParts DEF WritersOK
    <2>1. ASSUME NEW w \in Writers, Draw(w) PROVE WritersOK'
        <3>1. PICK end \in EndsOfChain : place' = [place EXCEPT ![w] = end]
            BY <2>1 DEF Draw
        <3>2. end.seq \in Nat
            BY EndsArePlaces
        <3> QED BY <2>1, <3>1, <3>2 DEF Draw
    <2>2. ASSUME NEW w \in Writers, EndWriting(w) PROVE WritersOK'
        BY <2>2 DEF EndWriting, NoPlace
    <2>3. ASSUME NEW n \in 0 .. MaxRows, Restore(n) PROVE WritersOK'
        BY <2>3 DEF Restore, NoPlace
    <2>4. CASE UNCHANGED writeVars
        BY <2>4 DEF writeVars
    <2>5. UNCHANGED writeVars \/ (\E w \in Writers : Draw(w) \/ EndWriting(w))
          \/ \E n \in 0 .. MaxRows : Restore(n)
        BY DEF Next, vars, Write, Commit, Rollback, JobStep, ReadHead, Check, CheckUnanswered,
               FailRun, Publish, StartWalk, WalkChunk, Outside, Remove, Alter, Edit
    <2> QED BY <2>1, <2>2, <2>3, <2>4, <2>5
<1>3. JobOK'
    <2> USE TypeParts DEF JobOK
    <2>1. UNCHANGED jobVars \/ ReadHead \/ Check \/ CheckUnanswered \/ FailRun
        BY OutsideKeepsRows
           DEF Next, vars, Write, Draw, Commit, Rollback, JobStep, StartWalk, WalkChunk, Disturb
    <2>2. CASE UNCHANGED jobVars
        BY <2>2 DEF jobVars
    <2>3. CASE ReadHead
        BY <2>3 DEF ReadHead
    <2>4. CASE CheckUnanswered
        BY <2>4 DEF CheckUnanswered, Publish
    <2>5. CASE Check
        BY <2>5 DEF Check, Publish
    <2>6. CASE FailRun
        BY <2>6 DEF FailRun
    <2> QED BY <2>1, <2>2, <2>3, <2>4, <2>5, <2>6
<1>4. WalkOK'
    <2> USE TypeParts DEF WalkOK
    <2>1. CASE UNCHANGED walkVars
        BY <2>1 DEF walkVars
    <2>2. CASE WalkOver
        BY <2>2 DEF WalkOver
    <2>3. CASE /\ UNCHANGED <<walk, after, digest, anchor, pending, completeness, walked, stood>>
               /\ steady' = (walk = "idle")
        BY <2>3
    <2>4. CASE StartWalk
        BY <2>4 DEF StartWalk
    <2>5. CASE walk = "walking" /\ WalksOn(NextChunk)
        <3>1. after' \in Nat
            BY <2>5, ChunkIsOfTheOldest DEF WalksOn, Left, TypeOK
        <3> QED BY <2>5, <3>1 DEF WalksOn, Answer
    <2> QED BY <2>1, <2>2, <2>3, <2>4, <2>5, StepsOfTheWalk
<1> QED BY <1>1, <1>2, <1>3, <1>4
    DEF TypeOK, RowsOK, WritersOK, JobOK, WalkOK, IsChain, IsRow

\* Where heads come from.
LEMMA HeadsCome ==
    ASSUME TypeOK, [Next]_vars
    PROVE  /\ published' \in {published, current}
           /\ anchor' \in {NoHead, anchor, published}
           /\ \/ current' \in {NoHead, current}
              \/ \E end \in EndsOfChain : current' = HeadAt(end)
<1>1. /\ published' \in {published, current}
      /\ current' \in {NoHead, current} \/ \E end \in EndsOfChain : current' = HeadAt(end)
    BY OutsideKeepsRows
       DEF Next, vars, Write, Draw, Commit, Rollback, JobStep, StartWalk, WalkChunk, Disturb,
           ReadHead, Check, CheckUnanswered, FailRun, Publish, jobVars
<1>2. anchor' \in {NoHead, anchor, published}
    BY StepsOfTheWalk DEF walkVars, WalkOver, StartWalk, WalksOn
<1> QED BY <1>1, <1>2

\* A head stays one.
LEMMA KeepsHeads ==
    ASSUME TypeOK, HeadInv, [Next]_vars
    PROVE  HeadInv'
<1>1. IsHead(NoHead)
    BY DEF IsHead, IsChain, Checkable, NoHead
<1> QED BY <1>1, HeadsCome, EndsArePlaces DEF HeadInv, IsHead, IsChain, IsRow, Checkable

\* While nothing is done to the ledger, it is one chain, and holds the heads
\* that were read.
LEMMA KeepsPlain ==
    ASSUME TypeOK, AppendsMakeOneChain, PlainInv, LockInv, HeadInv, [Next]_vars
    PROVE  AppendsMakeOneChain' /\ PlainInv' /\ LockInv'
<1>1. LockInv'
    <2>1. ASSUME NEW w \in Writers, Draw(w) PROVE LockInv'
        BY <2>1 DEF Draw, Locked, LockInv, TypeOK
    <2>2. ASSUME NEW w \in Writers, EndWriting(w) PROVE LockInv'
        BY <2>2 DEF EndWriting, LockInv, TypeOK
    <2>3. ASSUME NEW n \in 0 .. MaxRows, Restore(n) PROVE LockInv'
        BY <2>3 DEF Restore, LockInv
    <2>4. CASE UNCHANGED writing
        BY <2>4 DEF LockInv
    <2>5. UNCHANGED writing \/ (\E w \in Writers : Draw(w) \/ EndWriting(w))
          \/ \E n \in 0 .. MaxRows : Restore(n)
        BY DEF Next, vars, writeVars, Write, Commit, Rollback, JobStep, ReadHead, Check,
               CheckUnanswered, FailRun, Publish, StartWalk, WalkChunk, Outside, Remove, Alter, Edit
    <2> QED BY <2>1, <2>2, <2>3, <2>4, <2>5
<1> SUFFICES ASSUME faults' = 0 PROVE AppendsMakeOneChain' /\ PlainInv'
    BY <1>1 DEF AppendsMakeOneChain, PlainInv
<1>2. faults = 0 /\ ~Outside
    BY StepsOfTheLedger, OutsideKeepsRows DEF TypeOK, Disturb
<1>3. PICK n \in Nat : /\ \A e \in rows : e.seq < n
                       /\ \A i \in 0 .. (n - 1) : \E e \in rows : e.seq = i
    BY <1>2 DEF PlainInv
<1>4. Chained(rows) /\ \A w \in Writers : writing[w] = "holding" => EndsOfChain = {place[w]}
    BY <1>2 DEF AppendsMakeOneChain
<1>5. \A e \in rows : IsRow(e)
    BY DEF TypeOK, IsRow
\* The end of the chain is past number n - 1.
<1>6. \A end \in EndsOfChain :
         /\ end.seq = n
         /\ \/ n = 0 /\ end.prev = Genesis
            \/ \E d \in rows : d.seq + 1 = n /\ end.prev = d.digest
    <2>1. CASE rows = {}
        <3>1. n = 0
            BY <1>3, <2>1
        <3> QED BY <2>1, <3>1 DEF EndsOfChain
    <2>2. CASE rows # {}
        <3> SUFFICES ASSUME NEW e \in rows, IsNewest(e) PROVE e.seq + 1 = n
            BY <2>2 DEF EndsOfChain
        <3>1. e.seq \in Nat /\ e.seq < n
            BY <1>3, <1>5 DEF IsRow
        <3>2. PICK d \in rows : d.seq = n - 1
            BY <1>3, <3>1
        <3> QED BY <3>1, <3>2 DEF IsNewest
    <2> QED BY <2>1, <2>2
<1>7. /\ published' \in {published, current}
      /\ anchor' \in {NoHead, anchor, published}
      /\ \/ current' \in {NoHead, current}
         \/ Checkable(current') => Held(current', rows)
    BY HeadsCome, EndsArePlaces
<1>8. CASE UNCHANGED rows
    <2>1. EndsOfChain' = EndsOfChain
        BY <1>8 DEF EndsOfChain, IsNewest
    <2>2. AppendsMakeOneChain'
        <3>1. ASSUME NEW w \in Writers, writing'[w] = "holding" PROVE EndsOfChain = {place'[w]}
            <4>1. CASE writing[w] = "holding" /\ place'[w] = place[w]
                BY <1>4, <4>1
            <4>2. CASE Draw(w)
                <5>1. PICK end \in EndsOfChain : place' = [place EXCEPT ![w] = end]
                    BY <4>2 DEF Draw
                <5>2. \A a, b \in EndsOfChain : a = b
                    <6>1. \A d, e \in rows : d.seq = e.seq => d = e
                        BY <1>4 DEF Chained
                    <6> QED BY <1>5, <6>1 DEF EndsOfChain, IsNewest, IsRow
                <5> QED BY <5>1, <5>2 DEF TypeOK
            <4>3. (writing[w] = "holding" /\ place'[w] = place[w]) \/ Draw(w)
                BY <1>2, <3>1
                   DEF TypeOK, Next, vars, writeVars, Write, Draw, Commit, Rollback, EndWriting,
                       JobStep, ReadHead, Check, CheckUnanswered, FailRun, Publish, StartWalk, WalkChunk
            <4> QED BY <4>1, <4>2, <4>3
        <3> QED BY <1>4, <1>8, <2>1, <3>1 DEF AppendsMakeOneChain, Chained
    <2>3. PlainInv'
        <3>1. \A h \in {current', published', anchor'} : Checkable(h) => Held(h, rows)
            BY <1>7, <1>2 DEF PlainInv, Checkable
        <3> QED BY <1>3, <1>8, <3>1 DEF PlainInv, Checkable, Held
    <2> QED BY <2>2, <2>3
<1>9. ASSUME NEW w \in Writers, NEW f \in Facts, Commit(w, f)
      PROVE  AppendsMakeOneChain' /\ PlainInv'
    <2> SUFFICES ASSUME NEW new, new = Entry(place[w].seq, f, place[w].prev)
                 PROVE  AppendsMakeOneChain' /\ PlainInv'
        OBVIOUS
    <2>1. /\ rows' = rows \union {new} /\ writing[w] = "holding"
          /\ writing' = [writing EXCEPT ![w] = "idle"]
        BY <1>9 DEF Commit, EndWriting
    <2>2. EndsOfChain = {place[w]}
        BY <1>4, <2>1
    <2>3. /\ new.seq = n /\ new.digest = Digest(new.seq, new.fact, new.prev)
          /\ \/ n = 0 /\ new.prev = Genesis
             \/ \E d \in rows : d.seq + 1 = n /\ new.prev = d.digest
        BY <1>6, <2>2 DEF Entry
    <2>4. Chained(rows')
        <3>1. \A e, d \in rows' : e.seq = d.seq => e = d
            BY <1>3, <1>4, <1>5, <2>1, <2>3 DEF Chained, IsRow
        <3>2. ASSUME NEW e \in rows'
              PROVE  /\ e.digest = Digest(e.seq, e.fact, e.prev)
                     /\ \/ e.seq = 0 /\ e.prev = Genesis
                        \/ \E d \in rows' : e.seq = d.seq + 1 /\ e.prev = d.digest
            <4>1. CASE e = new
                BY <2>1, <2>3, <4>1
            <4>2. CASE e \in rows
                BY <1>4, <2>1, <4>2 DEF Chained
            <4> QED BY <2>1, <4>1, <4>2
        <3> QED BY <3>1, <3>2 DEF Chained
    <2>5. \A v \in Writers : writing'[v] # "holding"
        BY <2>1 DEF LockInv, TypeOK
    <2>6. AppendsMakeOneChain'
        BY <2>4, <2>5 DEF AppendsMakeOneChain
    <2>7. PlainInv'
        <3>1. /\ \A e \in rows' : e.seq < n + 1
              /\ \A i \in 0 .. n : \E e \in rows' : e.seq = i
            BY <1>3, <1>5, <2>1, <2>3 DEF IsRow
        <3>2. \A h \in {current', published', anchor'} : Checkable(h) => Held(h, rows')
            <4>1. UNCHANGED <<current, published, anchor>>
                BY <1>9 DEF Commit, jobVars, walkVars
            <4> QED BY <1>2, <2>1, <4>1 DEF PlainInv, Held
        <3> QED BY <3>1, <3>2 DEF PlainInv, Checkable, Held
    <2> QED BY <2>6, <2>7
<1> QED BY <1>2, <1>8, <1>9, StepsOfTheLedger

\* A place stays past every row, for one at a time is drawn.
LEMMA KeepsPlaces ==
    ASSUME TypeOK, LockInv, PlaceInv, [Next]_vars
    PROVE  PlaceInv'
<1> SUFFICES ASSUME NEW v \in Writers, writing'[v] = "holding", NEW e \in rows'
             PROVE  e.seq < place'[v].seq
    BY DEF PlaceInv
<1>1. ASSUME NEW w \in Writers, Draw(w) PROVE e.seq < place'[v].seq
    <2>1. PICK end \in EndsOfChain : place' = [place EXCEPT ![w] = end]
        BY <1>1 DEF Draw
    <2>2. e \in rows /\ e.seq < end.seq
        BY <1>1 DEF Draw, EndsOfChain, IsNewest, TypeOK
    <2>3. CASE v = w
        BY <2>1, <2>2, <2>3 DEF TypeOK
    <2>4. CASE v # w
        BY <1>1, <2>1, <2>2, <2>4 DEF Draw, TypeOK, PlaceInv
    <2> QED BY <2>3, <2>4
<1>2. ASSUME NEW w \in Writers, EndWriting(w),
             UNCHANGED rows \/ writing[w] = "holding"
      PROVE  e.seq < place'[v].seq
    BY <1>2 DEF EndWriting, TypeOK, LockInv, PlaceInv
<1>3. CASE Outside
    <2>1. ASSUME NEW n \in 0 .. MaxRows, Restore(n) PROVE FALSE
        BY <2>1 DEF Restore
    <2>2. ASSUME NEW d \in rows, Remove(d) PROVE e.seq < place'[v].seq
        BY <2>2 DEF Remove, Edit, Disturb, writeVars, PlaceInv
    <2>3. ASSUME NEW d \in rows, NEW f \in Facts, Alter(d, f) PROVE e.seq < place'[v].seq
        <3>1. UNCHANGED writeVars /\ rows' = (rows \ {d}) \union {[d EXCEPT !.fact = f]}
            BY <2>3 DEF Alter, Edit, Disturb
        <3>2. [d EXCEPT !.fact = f].seq = d.seq
            BY DEF TypeOK
        <3> QED BY <3>1, <3>2 DEF PlaceInv, writeVars
    <2> QED BY <1>3, <2>1, <2>2, <2>3 DEF Outside
<1>4. CASE UNCHANGED <<rows, writeVars>>
    BY <1>4 DEF PlaceInv, writeVars
<1> QED
    BY <1>1, <1>2, <1>3, <1>4
       DEF Next, vars, Write, Commit, Rollback, JobStep, ReadHead, Check, CheckUnanswered,
           FailRun, Publish, StartWalk, WalkChunk

\* A lost head is asked about next, unless another was published over it
\* without an answer.
LEMMA KeepsLost ==
    ASSUME TypeOK, LossIsFound, LostInv, [Next]_vars
    PROVE  LossIsFound' /\ LostInv'
<1> USE DEF LossIsFound, LostInv, Missing
<1>1. ASSUME NEW w \in Writers, NEW f \in Facts, Commit(w, f) PROVE LossIsFound' /\ LostInv'
    BY <1>1 DEF Commit, jobVars
<1>2. CASE UNCHANGED <<rows, published, lost, unanswered>>
    BY <1>2 DEF Held
\* The head that was asked about is reported if it is lost, and no other is lost
\* but those that went unanswered before.
<1>3. CASE Check
    <2>1. \A h \in lost : h = published => Checkable(h) /\ Gone(h)
        BY DEF Gone
    <2>2. lost \ {h \in {published} : Checkable(h) /\ Gone(h)} \subseteq unanswered
        BY <2>1
    <2>3. LossIsFound'
        BY <1>3, <2>2 DEF Check, Publish
    <2>4. LostInv'
        BY <1>3 DEF Check, Publish, Held
    <2> QED BY <2>3, <2>4
<1>4. CASE CheckUnanswered
    <2>1. LossIsFound'
        BY <1>4 DEF CheckUnanswered, Publish
    <2>2. LostInv'
        BY <1>4 DEF CheckUnanswered, Publish, Held
    <2> QED BY <2>1, <2>2
<1>5. CASE Outside
    <2>1. PICK left : Disturb(left)
        BY <1>5, OutsideKeepsRows
    <2>2. \A h : Held(h, rows') => Held(h, rows)
        BY <1>5, OutsideKeepsRows
    <2>3. LossIsFound'
        BY <2>1 DEF Disturb, jobVars
    <2>4. LostInv'
        BY <2>1, <2>2 DEF Disturb
    <2> QED BY <2>3, <2>4
<1> QED
    BY <1>1, <1>2, <1>3, <1>4, <1>5
       DEF Next, vars, faultVars, jobVars, Write, Draw, Rollback, JobStep, ReadHead, FailRun,
           StartWalk, WalkChunk

\* The walk goes down to the first entry.
LEMMA KeepsWalked ==
    ASSUME TypeOK, WalkedInv, [Next]_vars
    PROVE  WalkedInv'
<1>1. CASE UNCHANGED <<after, digest, walked>>
    BY <1>1 DEF WalkedInv, IsChain, IsRow
<1>2. CASE walked' = {} /\ after' = 0 /\ digest' = Genesis
    BY <1>2 DEF WalkedInv, IsChain
<1>3. CASE walk = "walking" /\ WalksOn(NextChunk)
    <2> SUFFICES ASSUME NEW c, c = NextChunk PROVE WalkedInv'
        OBVIOUS
    <2>1. c \subseteq rows /\ \A x \in c : x.seq \in Nat /\ x.seq >= after
        BY ChunkIsOfTheOldest DEF Left, TypeOK
    <2>2. PICK e \in c : (\A d \in c : d.seq <= e.seq) /\ after' = e.seq + 1 /\ digest' = e.digest
        BY <1>3 DEF WalksOn
    <2>3. walked' = walked \union c /\ Unbroken(c)
        BY <1>3 DEF WalksOn
    <2>4. \A x \in walked' :
              /\ IsRow(x) /\ x.digest = Digest(x.seq, x.fact, x.prev)
              /\ \/ x.seq = 0 /\ x.prev = Genesis
                 \/ \E d \in walked' : x.seq = d.seq + 1 /\ x.prev = d.digest
        BY <2>1, <2>3, UnbrokenKeepsWhole
    <2>5. \A x \in walked' : x.seq < after'
        BY <2>1, <2>2, <2>3, <2>4 DEF WalkedInv, IsRow, TypeOK
    <2>6. after' # 0 /\ e \in walked'
        BY <2>1, <2>2, <2>3
    <2> QED BY <2>2, <2>4, <2>5, <2>6 DEF WalkedInv, IsChain, IsRow
<1> QED BY <1>1, <1>2, <1>3, StepsOfTheWalk DEF walkVars, WalkOver, StartWalk

\* The head a walk was handed is held back, or has been spoken of.
LEMMA KeepsPending ==
    ASSUME TypeOK, HeadInv, PendingInv, [Next]_vars
    PROVE  PendingInv'
<1> USE DEF PendingInv, Checkable
<1>1. CASE UNCHANGED <<walk, after, anchor, pending, completeness, walked>>
    BY <1>1
<1>2. CASE WalkOver
    BY <1>2 DEF WalkOver
<1>3. CASE StartWalk
    BY <1>3 DEF StartWalk, HeadInv, IsHead, NoHead
<1>4. CASE walk = "walking" /\ WalksOn(NextChunk)
    <2> SUFFICES ASSUME NEW c, c = NextChunk PROVE PendingInv'
        OBVIOUS
    <2>1. /\ pending' = IF IsDue(c) THEN NoHead ELSE pending
          /\ completeness' = Answer(c) /\ walked' = walked \union c
          /\ UNCHANGED <<walk, anchor>>
          /\ \E e \in c : after' = e.seq + 1
        BY <1>4 DEF WalksOn
    <2>2. \A x \in c : x.seq \in Nat
        BY ChunkIsOfTheOldest DEF Left, TypeOK
    <2>3. CASE IsDue(c)
        <3>1. pending # NoHead /\ pending = anchor /\ Checkable(anchor)
            BY <1>4, <2>3 DEF IsDue
        <3> QED BY <1>4, <2>1, <2>3, <3>1 DEF Answer
    <2>4. CASE ~IsDue(c)
        <3>1. pending # NoHead => pending.seq >= after'
            <4>1. pending # NoHead => pending.seq \in Nat
                BY <1>4 DEF HeadInv, IsHead
            <4> QED BY <2>1, <2>2, <2>4, <4>1 DEF IsDue
        <3> QED BY <1>4, <2>1, <2>4, <3>1 DEF Answer
    <2> QED BY <2>3, <2>4
<1> QED BY <1>1, <1>2, <1>3, <1>4, StepsOfTheWalk DEF walkVars

\* A walk under which nothing is done misses no row it has passed.
LEMMA KeepsSteady ==
    ASSUME TypeOK, LockInv, PlaceInv, WalkedInv, SteadyInv, [Next]_vars
    PROVE  SteadyInv'
<1>1. CASE WalkOver
    BY <1>1 DEF WalkOver, SteadyInv
<1>2. CASE StartWalk
    BY <1>2 DEF StartWalk, SteadyInv, TypeOK
<1>3. CASE walk = "walking" /\ WalksOn(NextChunk) /\ UNCHANGED rows
    <2> SUFFICES ASSUME NEW c, c = NextChunk, steady PROVE SteadyInv'
        BY <1>3 DEF WalksOn, SteadyInv
    <2>1. PICK e \in c : after' = e.seq + 1
        BY <1>3 DEF WalksOn
    <2>2. ASSUME NEW d \in rows, d.seq < after' PROVE d \in walked'
        <3>1. CASE d.seq < after
            BY <1>3, <3>1 DEF WalksOn, SteadyInv
        <3>2. CASE ~ (d.seq < after)
            <4>1. d \in Left /\ d.seq <= e.seq
                BY <2>1, <2>2, <3>2, ChunkIsOfTheOldest DEF Left, TypeOK
            <4> QED BY <1>3, <4>1, ChunkIsOfTheOldest DEF WalksOn
        <3> QED BY <3>1, <3>2
    <2> QED BY <1>3, <2>2, ChunkIsOfTheOldest DEF WalksOn, SteadyInv, Left
<1>4. CASE /\ UNCHANGED <<walk, after, walked, stood>>
           /\ (steady' = (walk = "idle")) \/ (UNCHANGED steady /\ UNCHANGED rows)
    BY <1>4 DEF SteadyInv
<1>5. ASSUME NEW w \in Writers, NEW f \in Facts, Commit(w, f) PROVE SteadyInv'
    <2>1. UNCHANGED walkVars
        BY <1>5 DEF Commit
    <2> SUFFICES ASSUME steady, walk = "walking",
                        NEW e \in rows' \ rows, e.seq < after
                 PROVE  FALSE
        BY <1>5, <2>1 DEF SteadyInv, Commit, walkVars
    <2>2. e.seq = place[w].seq /\ \A d \in rows : d.seq < e.seq
        BY <1>5 DEF Commit, Entry, PlaceInv
    <2>3. after = 0 \/ \E d \in rows : after = d.seq + 1
        BY DEF WalkedInv, SteadyInv
    <2> QED BY <2>2, <2>3 DEF TypeOK
<1> QED
    <2>1. CASE UNCHANGED walkVars /\ UNCHANGED rows
        BY <1>4, <2>1 DEF walkVars
    <2>2. CASE UNCHANGED walkVars /\ Outside
        <3>1. WalkOver \/ walk = "idle" \/ steady' = FALSE
            BY <2>2, OutsideAndTheWalk DEF TypeOK
        <3> QED BY <2>2, <1>1, <3>1 DEF walkVars, SteadyInv
    <2>3. UNCHANGED walkVars => UNCHANGED rows \/ Outside \/ \E w \in Writers, f \in Facts : Commit(w, f)
        BY StepsOfTheLedger
    <2>4. CASE /\ UNCHANGED <<walk, after, digest, anchor, pending, completeness, walked, stood>>
               /\ steady' = (walk = "idle")
        <3>1. walk = "walking" => ~steady'
            BY <2>4
        <3> QED BY <2>4, <3>1 DEF SteadyInv
    <2>5. CASE UNCHANGED walkVars
        BY <1>5, <2>1, <2>2, <2>3, <2>5
    <2>6. CASE walk = "walking" /\ WalksOn(NextChunk) /\ UNCHANGED <<rows, faults>>
        BY <1>3, <2>6
    <2> QED BY <1>1, <1>2, <2>4, <2>5, <2>6, StepsOfTheWalk

\* A walk of a ledger nothing was done to meets the head when it comes to it.
LEMMA KeepsMet ==
    ASSUME TypeOK, PlainInv, PendingInv, MetInv, [Next]_vars
    PROVE  MetInv'
<1> SUFFICES ASSUME faults' = 0, walk' = "walking" PROVE steady' /\ completeness' # "missing"
    BY DEF MetInv
<1>1. faults = 0 /\ ~Outside
    BY StepsOfTheLedger, OutsideKeepsRows DEF TypeOK, Disturb
<1>2. CASE UNCHANGED walkVars
    BY <1>1, <1>2 DEF walkVars, MetInv
<1>3. CASE StartWalk
    BY <1>3 DEF StartWalk
<1>4. CASE walk = "walking" /\ WalksOn(NextChunk)
    <2> SUFFICES ASSUME NEW c, c = NextChunk, IsDue(c) PROVE \E e \in c : e.seq = pending.seq /\ e.digest = pending.head
        BY <1>1, <1>4 DEF WalksOn, Answer, MetInv
    <2>1. pending = anchor /\ Checkable(anchor) /\ pending.seq >= after
        BY <1>4 DEF IsDue, PendingInv
    <2>2. PICK e \in rows : e.seq = pending.seq /\ e.digest = pending.head
        BY <1>1, <2>1 DEF PlainInv, Held
    <2>3. PICK x \in c : x.seq >= pending.seq
        BY DEF IsDue
    <2>4. e \in Left /\ e.seq <= x.seq
        BY <2>1, <2>2, <2>3 DEF Left
    <2> QED BY <2>2, <2>3, <2>4, ChunkIsOfTheOldest
<1>5. ~WalkOver
    BY DEF WalkOver
<1> QED BY <1>1, <1>2, <1>3, <1>4, <1>5, StepsOfTheWalk

\* The invariant is inductive.
LEMMA InvNext == IInv /\ [Next]_vars => IInv'
BY KeepsType, KeepsPlain, KeepsPlaces, KeepsHeads, KeepsLost, KeepsWalked, KeepsPending, KeepsSteady,
   KeepsMet DEF IInv

LEMMA Invariance == Spec => []IInv
BY InvInit, InvNext, PTL DEF Spec

-----------------------------------------------------------------------------
(* The theorems.                                                           *)

\* The ledger, its writers, the walk and the anchor job keep their types.
THEOREM TypeCorrect == Spec => []TypeOK
BY Invariance, PTL DEF IInv

\* However appends interleave and roll back, the ledger is one chain until it
\* is restored or edited.
THEOREM AppendsChain == Spec => []AppendsMakeOneChain
BY Invariance, PTL DEF IInv

\* However often the ledger is restored or edited, each published head whose
\* entry is lost is reported before another is published over it, whatever was
\* reported before and whichever runs failed; but for one whose own question
\* went unanswered.
THEOREM LossesAreFound == Spec => []LossIsFound
BY Invariance, PTL DEF IInv

\* A walk that reports found its last chunk unbroken and last, or a break.
LEMMA ReportedChunk ==
    ASSUME TypeOK, Reported
    PROVE  /\ walk = "walking" /\ UNCHANGED faults
           /\ IsLast(NextChunk) \/ ~Unbroken(NextChunk)
           /\ NextChunk = {} \/ Unbroken(NextChunk) => IsLast(NextChunk)
<1>1. walk = "walking" /\ (IsLast(NextChunk) \/ ~Unbroken(NextChunk)) /\ UNCHANGED faults
    BY DEF Reported, WalkChunk, faultVars
<1>2. IsLast({})
    BY FS_EmptySet, LedgerAssumption DEF IsLast
<1> QED BY <1>1, <1>2

\* A walk of a ledger nothing was done to finds it unbroken.
LEMMA PlainIsUnbroken ==
    ASSUME IInv, faults = 0, walk = "walking", NextChunk # {}
    PROVE  Unbroken(NextChunk)
<1> SUFFICES ASSUME NEW c, c = NextChunk PROVE Unbroken(c)
    OBVIOUS
<1> USE DEF IInv
<1>1. steady /\ walked \subseteq rows /\ after \in Nat
    BY DEF MetInv, SteadyInv, TypeOK
<1>2. Chained(rows) /\ \A e \in rows : IsRow(e)
    BY DEF AppendsMakeOneChain, TypeOK, IsRow
<1>3. \E e \in c : e.seq = after
    <2>1. PICK x \in c : x \in rows /\ x.seq >= after
        BY ChunkIsOfTheOldest DEF Left
    <2>2. PICK e \in rows : e.seq = after
        BY <1>1, <1>2, <2>1 DEF PlainInv, IsRow
    <2>3. e \in Left /\ e.seq <= x.seq
        BY <1>1, <2>1, <2>2 DEF Left
    <2> QED BY <2>1, <2>2, <2>3, ChunkIsOfTheOldest
<1>4. ASSUME NEW e \in c
      PROVE  /\ \/ e.seq = after /\ e.prev = digest
                \/ \E d \in c : e.seq = d.seq + 1 /\ e.prev = d.digest
             /\ e.digest = Digest(e.seq, e.fact, e.prev)
    <2>1. e \in rows /\ e.seq >= after
        BY ChunkIsOfTheOldest DEF Left
    <2>2. e.digest = Digest(e.seq, e.fact, e.prev)
        BY <1>2, <2>1 DEF Chained
    <2>3. CASE e.seq = after
        <3>1. CASE after = 0
            BY <1>2, <2>1, <2>2, <2>3, <3>1 DEF Chained, WalkedInv, IsRow
        <3>2. CASE after # 0
            <4>1. PICK w \in walked : after = w.seq + 1 /\ digest = w.digest
                BY <3>2 DEF WalkedInv
            <4>2. PICK d \in rows : e.seq = d.seq + 1 /\ e.prev = d.digest
                BY <1>2, <2>1, <2>3, <3>2 DEF Chained
            <4>3. d = w
                BY <1>1, <1>2, <2>3, <4>1, <4>2 DEF Chained, IsRow
            <4> QED BY <2>2, <2>3, <4>1, <4>2, <4>3
        <3> QED BY <3>1, <3>2
    <2>4. CASE e.seq # after
        <3>1. PICK d \in rows : e.seq = d.seq + 1 /\ e.prev = d.digest
            BY <1>1, <1>2, <2>1, <2>4 DEF Chained, IsRow
        <3>2. d \in Left /\ d.seq <= e.seq
            BY <1>1, <1>2, <2>1, <2>4, <3>1 DEF Left, IsRow
        <3> QED BY <2>2, <3>1, <3>2, ChunkIsOfTheOldest
    <2> QED BY <2>3, <2>4
<1> QED BY <1>3, <1>4 DEF Unbroken

\* Nothing that is only appended to is ever reported broken or cut.
THEOREM NoAlarmIsFalse == Spec => NoFalseAlarm
<1>1. ASSUME IInv, [Next]_vars, Reported, faults = 0
      PROVE  Report(NextChunk) = [continuous |-> TRUE,
                 completeness |-> IF Checkable(anchor) THEN "anchored" ELSE "unanchored"]
    <2> SUFFICES ASSUME NEW c, c = NextChunk
                 PROVE  Report(c) = [continuous |-> TRUE,
                            completeness |-> IF Checkable(anchor) THEN "anchored" ELSE "unanchored"]
        OBVIOUS
    <2> USE DEF IInv
    <2>1. walk = "walking" /\ (c = {} \/ Unbroken(c)) /\ IsLast(c)
        BY <1>1, ReportedChunk, PlainIsUnbroken
    <2>2. c = Left
        BY <1>1, <2>1, LastIsAllThatIsLeft
    <2>3. CASE pending # NoHead
        <3>1. pending = anchor /\ Checkable(anchor) /\ pending.seq >= after
            BY <1>1, <2>1, <2>3 DEF PendingInv
        <3>2. PICK e \in rows : e.seq = pending.seq /\ e.digest = pending.head
            BY <1>1, <3>1 DEF PlainInv, Held
        <3>3. e \in c /\ e.seq >= pending.seq
            BY <1>1, <2>2, <3>1, <3>2 DEF Left, TypeOK
        <3>4. IsDue(c)
            BY <2>3, <3>3 DEF IsDue
        <3> QED BY <2>1, <3>1, <3>2, <3>3, <3>4 DEF Report, Answer
    <2>4. CASE pending = NoHead
        <3>1. ~IsDue(c)
            BY <2>4 DEF IsDue
        <3>2. completeness = IF Checkable(anchor) THEN "anchored" ELSE "unanchored"
            BY <1>1, <2>1, <2>4 DEF PendingInv, MetInv, TypeOK
        <3> QED BY <2>1, <2>4, <3>1, <3>2 DEF Report, Answer
    <2> QED BY <2>3, <2>4
<1> QED BY <1>1, Invariance, PTL DEF Spec, NoFalseAlarm

\* A walk under which nothing was restored or edited misses nothing that was
\* there, and never passes over a head it was handed.
THEOREM WalksAreWhole == Spec => ContinuousIsWhole
<1>1. ASSUME IInv, [Next]_vars, Reported, steady, Report(NextChunk).continuous
      PROVE  /\ stood \subseteq walked \union NextChunk
             /\ Report(NextChunk).completeness = "unanchored" => ~Checkable(anchor)
    <2> SUFFICES ASSUME NEW c, c = NextChunk
                 PROVE  /\ stood \subseteq walked \union c
                        /\ Report(c).completeness = "unanchored" => ~Checkable(anchor)
        OBVIOUS
    <2> USE DEF IInv
    <2>1. c = {} \/ Unbroken(c)
        BY <1>1 DEF Report
    <2>2. walk = "walking" /\ IsLast(c)
        BY <1>1, <2>1, ReportedChunk
    <2>3. c = Left
        BY <1>1, <2>2, LastIsAllThatIsLeft
    <2>4. stood \subseteq walked \union c
        BY <1>1, <2>2, <2>3 DEF SteadyInv, Left, TypeOK
    <2>5. Report(c).completeness = IF pending # NoHead /\ ~IsDue(c) THEN "missing" ELSE Answer(c)
        BY <2>1 DEF Report
    <2>6. IsDue(c) => Answer(c) # "unanchored"
        BY DEF Answer
    <2>7. ~IsDue(c) => Answer(c) = completeness
        BY DEF Answer
    <2>8. IsDue(c) => pending # NoHead
        BY DEF IsDue
    <2>9. pending = NoHead /\ completeness = "unanchored" => ~Checkable(anchor)
        BY <1>1, <2>2 DEF PendingInv
    <2> QED BY <2>4, <2>5, <2>6, <2>7, <2>8, <2>9
<1> QED BY <1>1, Invariance, PTL DEF Spec, ContinuousIsWhole

\* Two chains that have one digest at one number are one chain below it.
LEMMA ChainsMeet ==
    ASSUME NEW A, Chained(A), IsChain(A), NEW W, Whole(W),
           NEW a \in A, NEW w \in W, a.seq = w.seq, a.digest = w.digest
    PROVE  \A e \in A : e.seq <= a.seq => e \in W
<1> USE DEF IsChain, Whole
<1>1. ASSUME NEW e \in A, NEW d \in W, e.digest = d.digest PROVE e = d
    BY <1>1 DEF Chained, Digest, IsRow
<1> SUFFICES ASSUME NEW n, n = a.seq,
                    NEW met, met = {i \in 0 .. n : \E e \in A : e \in W /\ e.seq = i}
             PROVE  \A e \in A : e.seq <= n => e \in W
    OBVIOUS
<1>2. n \in Nat
    BY DEF IsRow
<1> SUFFICES ASSUME NEW down, down = {k \in 0 .. n : n - k \notin met}, down # {} PROVE FALSE
    <2> SUFFICES ASSUME NEW e \in A, e.seq <= n, NEW down, down = {k \in 0 .. n : n - k \notin met}, down = {}
                 PROVE  e \in W
        OBVIOUS
    <2>1. e.seq \in 0 .. n /\ n - e.seq \in 0 .. n /\ n - (n - e.seq) = e.seq
        BY <1>2 DEF IsRow
    <2>2. e.seq \in met
        BY <2>1
    <2>3. PICK d \in A : d \in W /\ d.seq = e.seq
        BY <2>2
    <2> QED BY <2>3 DEF Chained
<1>3. PICK k \in down : \A m \in down : k <= m
    <2>1. down \in SUBSET Nat
        BY <1>2
    <2> QED BY <2>1, LeastNumber
<1>4. k # 0
    <2>1. a = w
        BY <1>1
    <2>2. n \in met /\ n - 0 = n
        BY <1>2, <2>1
    <2> QED BY <2>2
<1>5. k - 1 \in 0 .. n /\ k - 1 \notin down
    BY <1>2, <1>3, <1>4
<1>6. PICK e \in A : e \in W /\ e.seq = n - (k - 1)
    BY <1>5
<1>7. e.seq # 0 /\ e.seq = (n - k) + 1
    BY <1>2, <1>4, <1>6
<1>8. PICK d \in A : e.seq = d.seq + 1 /\ e.prev = d.digest
    BY <1>6, <1>7 DEF Chained
<1>9. PICK v \in W : e.seq = v.seq + 1 /\ e.prev = v.digest
    BY <1>6, <1>7
<1>10. d = v /\ d.seq = n - k
    <2>1. d = v
        BY <1>1, <1>8, <1>9
    <2>2. d.seq \in Nat /\ k \in Nat
        BY <1>3 DEF IsRow
    <2> QED BY <1>2, <1>7, <1>8, <2>1, <2>2
<1>11. n - k \in met
    BY <1>2, <1>10
<1> QED BY <1>11

\* The head a walk finds vouches for the whole of the chain it was published
\* of, through any restores and edits, and though the walk may have crossed
\* them.
THEOREM AnchorsVouch == Spec => AnchoredIsAsPublished
<1>1. ASSUME IInv, [Next]_vars, Reported,
             Report(NextChunk) = [continuous |-> TRUE, completeness |-> "anchored"],
             Chained(anchor.of)
      PROVE  anchor.of \subseteq walked \union NextChunk
    <2> SUFFICES ASSUME NEW c, c = NextChunk, NEW w, w = walked \union c, anchor.of # {}
                 PROVE  anchor.of \subseteq w
        OBVIOUS
    <2> USE DEF IInv
    <2>1. walk = "walking" /\ (c = {} \/ Unbroken(c))
        BY <1>1, ReportedChunk DEF Report
    <2>2. c \in SUBSET rows
        BY <1>1, ChunkIsOfTheOldest DEF Left
    <2>3. Whole(w)
        <3>1. CASE c = {}
            BY <1>1, <3>1 DEF WalkedInv, IsChain, Whole
        <3>2. CASE Unbroken(c)
            BY <1>1, <2>2, <3>2, UnbrokenKeepsWhole DEF Whole
        <3> QED BY <2>1, <3>1, <3>2
    <2>4. PICK a \in anchor.of : /\ a.seq = anchor.seq /\ a.digest = anchor.head
                                 /\ \A d \in anchor.of : d.seq <= a.seq
        BY <1>1 DEF HeadInv, IsHead
    <2>5. \E e \in w : e.seq = anchor.seq /\ e.digest = anchor.head
        <3>1. IF pending # NoHead /\ ~IsDue(c) THEN FALSE ELSE Answer(c) = "anchored"
            BY <1>1, <2>1 DEF Report
        <3>2. CASE IsDue(c)
            <4>1. pending = anchor
                BY <1>1, <2>1, <3>2 DEF IsDue, PendingInv
            <4> QED BY <3>1, <3>2, <4>1 DEF Answer
        <3>3. CASE ~IsDue(c)
            <4>1. completeness = "anchored"
                BY <3>1, <3>3 DEF Answer
            <4> QED BY <1>1, <2>1, <4>1 DEF PendingInv
        <3> QED BY <3>2, <3>3
    <2>6. IsChain(anchor.of)
        BY <1>1 DEF HeadInv, IsHead
    <2>7. PICK e \in w : e.seq = anchor.seq /\ e.digest = anchor.head
        BY <2>5
    <2>8. \A d \in anchor.of : d.seq <= a.seq => d \in w
        <3>1. a.seq = e.seq /\ a.digest = e.digest
            BY <2>4, <2>7
        <3>2. Chained(anchor.of)
            BY <1>1
        <3> QED BY <2>3, <2>6, <3>1, <3>2, ChainsMeet
    <2> QED BY <2>4, <2>8
<1> QED BY <1>1, Invariance, PTL DEF Spec, AnchoredIsAsPublished

=============================================================================
