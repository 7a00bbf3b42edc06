---------------------------- MODULE GenomeProofs ----------------------------
(* Proofs about Genome, for every set of contexts, keys, events and bounds. *)
EXTENDS GenomeRefinement, SequenceTheorems, TLAPS

Contents == Unit \cup {Hole}

\* What a write of n units of a block writes.
IsFront(s, b, n) ==
    /\ n \in 0..2 /\ b \in Block /\ s \in Seq(Unit) /\ Len(s) = n
    /\ \A p \in 1..n : s[p] = [blk |-> b, part |-> p]

-----------------------------------------------------------------------------
(* Lemmas about the write operator *)

\* The units of a block are a sequence of Parts units.
LEMMA UnitsOfType ==
    ASSUME NEW b \in Block
    PROVE  /\ UnitsOf(b) \in Seq(Unit)
           /\ Len(UnitsOf(b)) = Parts
           /\ \A p \in 1..Parts : UnitsOf(b)[p] = [blk |-> b, part |-> p]
<1>1. UnitsOf(b) \in [1..Parts -> Unit]
  BY DEF UnitsOf, Unit
<1>2. UnitsOf(b) \in Seq(Unit) /\ Len(UnitsOf(b)) = Parts
  BY <1>1 DEF UnitsOf, Parts
<1>3. QED
  BY <1>2 DEF UnitsOf

\* A prefix of the units of a block is a sequence of units.
LEMMA PrefixType ==
    ASSUME NEW b \in Block, NEW n \in 0..Parts
    PROVE  /\ SubSeq(UnitsOf(b), 1, n) \in Seq(Unit)
           /\ Len(SubSeq(UnitsOf(b), 1, n)) = n
           /\ \A p \in 1..n : SubSeq(UnitsOf(b), 1, n)[p] = [blk |-> b, part |-> p]
<1>1. UnitsOf(b) \in Seq(Unit) /\ Len(UnitsOf(b)) = 2 /\ n \in 0..2
  BY UnitsOfType DEF Parts
<1>2. \A p \in 1..2 : UnitsOf(b)[p] = [blk |-> b, part |-> p]
  BY UnitsOfType DEF Parts
<1>3. ASSUME NEW u \in Seq(Unit), Len(u) = 2, NEW m \in 0..2
      PROVE  /\ SubSeq(u, 1, m) \in Seq(Unit)
             /\ Len(SubSeq(u, 1, m)) = m
             /\ \A p \in 1..m : SubSeq(u, 1, m)[p] = u[p]
  BY <1>3
<1>4. QED
  BY <1>1, <1>2, <1>3

\* Writing units into a file gives a file.
LEMMA WriteAtType ==
    ASSUME NEW f \in Seq(Contents), NEW o \in Nat, NEW s \in Seq(Unit)
    PROVE  WriteAt(f, o, s) \in Seq(Contents)
<1> DEFINE m == IF Len(f) > o + Len(s) THEN Len(f) ELSE o + Len(s)
           u == [i \in 1..m |->
                  IF i \in o+1..o+Len(s) THEN s[i - o]
                  ELSE IF i <= Len(f) THEN f[i] ELSE Hole]
<1>1. m \in Nat
  OBVIOUS
<1>2. ASSUME NEW i \in 1..m
      PROVE  (IF i \in o+1..o+Len(s) THEN s[i - o]
              ELSE IF i <= Len(f) THEN f[i] ELSE Hole) \in Contents
  <2>1. CASE i \in o+1..o+Len(s)
    <3>1. i - o \in 1..Len(s)
      BY <2>1
    <3>2. s[i - o] \in Unit
      BY <3>1
    <3>3. QED
      BY <2>1, <3>2 DEF Contents
  <2>2. CASE i \notin o+1..o+Len(s) /\ i <= Len(f)
    BY <2>2
  <2>3. CASE i \notin o+1..o+Len(s) /\ ~(i <= Len(f))
    BY <2>3 DEF Contents
  <2>4. QED
    BY <2>1, <2>2, <2>3
<1>3. u \in [1..m -> Contents]
  BY <1>2
<1>4. u \in Seq(Contents)
  <2> HIDE DEF m, u
  <2>1. QED
    BY <1>1, <1>3
<1>5. QED
  BY <1>4 DEF WriteAt

\* A write at the end of the file appends to it.
LEMMA WriteAtEnd ==
    ASSUME NEW f \in Seq(Contents), NEW s \in Seq(Unit)
    PROVE  /\ Len(WriteAt(f, Len(f), s)) = Len(f) + Len(s)
           /\ \A i \in 1..Len(f) : WriteAt(f, Len(f), s)[i] = f[i]
           /\ \A i \in 1..Len(s) : WriteAt(f, Len(f), s)[Len(f) + i] = s[i]
  BY DEF WriteAt

-----------------------------------------------------------------------------
(* Type correctness *)

\* A block that reads as whole was written by somebody: it is no hole.
LEMMA WholeIsBlock ==
    ASSUME NEW f \in Seq(Contents), NEW o \in Nat,
           o + Parts <= Len(f), IsWhole(f, o)
    PROVE  /\ f[o + 1] \in Unit
           /\ f[o + 1].blk \in Block
<1>1. f[o + 1] \in Contents /\ f[o + 1].part = 1
  BY DEF IsWhole, Parts
<1>2. f[o + 1] # Hole
  BY <1>1 DEF Hole
<1>3. QED
  BY <1>1, <1>2 DEF Contents, Unit

\* A new block is a block.
LEMMA NewBlockType ==
    ASSUME TypeOK, NEW h \in Handles, NEW e \in Events
    PROVE  NewBlock(h, e) \in Block
  BY GenomeAssumption DEF TypeOK, NewBlock, Block, GenomeAssumption

\* A context that is reset has the values of a closed one.
LEMMA ResetType ==
    ASSUME TypeOK, NEW h \in Handles, NEW r \in {"none", "ok", "error", "unread"},
           Reset(h, r)
    PROVE  /\ pc' \in [Handles -> {"closed", "create", "scan", "seek", "open"}]
           /\ off' \in [Handles -> Nat]
           /\ nextIndex' \in [Handles -> Nat]
           /\ prev' \in [Handles -> Nat]
           /\ result' \in [Handles -> {"none", "ok", "error", "unread"}]
  BY DEF TypeOK, Reset

\* Every reachable state has the declared types, whatever the faults and
\* however many processes share the file.
LEMMA TypeStep == TypeOK /\ [Next]_vars => TypeOK'
<1> SUFFICES ASSUME TypeOK, [Next]_vars PROVE TypeOK'
  OBVIOUS
<1> USE DEF TypeOK
<1>1. ASSUME NEW h \in Handles, OpenExisting(h) \/ OpenMissing(h) PROVE TypeOK'
  BY <1>1 DEF OpenExisting, OpenMissing
<1>2. ASSUME NEW h \in Handles, Create(h) PROVE TypeOK'
  BY <1>2 DEF Create
<1>3. ASSUME NEW h \in Handles, ScanBlock(h) PROVE TypeOK'
  <2>1. file[off[h] + 1].blk \in Block
    BY <1>3, WholeIsBlock DEF ScanBlock, BlockVerifies, Contents
  <2>2. file[off[h] + 1].blk.stamp \in Nat
    BY <2>1 DEF Block
  <2>3. QED
    BY <1>3, <2>2 DEF ScanBlock, Parts
<1>4. ASSUME NEW h \in Handles, ScanRefuse(h) \/ Close(h) \/ Crash(h) \/ OpenFails(h) PROVE TypeOK'
  BY <1>4, ResetType DEF ScanRefuse, Close, Crash, OpenFails
<1>5. ASSUME NEW h \in Handles, ScanEnd(h) \/ SeekEnd(h) \/ AppendReject(h)
      PROVE  TypeOK'
  <2>1. CASE ScanEnd(h)
    BY <2>1 DEF ScanEnd
  <2>2. CASE SeekEnd(h)
    BY <2>2 DEF SeekEnd
  <2>3. CASE AppendReject(h)
    BY <2>3 DEF AppendReject
  <2>4. QED
    BY <1>5, <2>1, <2>2, <2>3
<1>6. ASSUME NEW h \in Handles, NEW e \in Events, AppendBlock(h, e) PROVE TypeOK'
  <2>1. NewBlock(h, e) \in Block
    BY NewBlockType
  <2>2. file' \in Seq(Contents)
    BY <1>6, <2>1, UnitsOfType, WriteAtType DEF AppendBlock, Contents
  <2>3. QED
    BY <1>6, <2>1, <2>2 DEF AppendBlock, Contents, Parts
<1>7. ASSUME NEW h \in Handles, NEW e \in Events, NEW n \in 0..Parts,
             \/ AppendShort(h, e, n)
             \/ CrashInAppend(h, e, n)
      PROVE  TypeOK'
  <2>1. NewBlock(h, e) \in Block
    BY NewBlockType
  <2>2. file' \in Seq(Contents)
    <3>1. SubSeq(UnitsOf(NewBlock(h, e)), 1, n) \in Seq(Unit)
      BY <2>1, PrefixType
    <3>2. file \in Seq(Contents) /\ off[h] \in Nat
      BY DEF Contents
    <3>3. file' = WriteAt(file, off[h], SubSeq(UnitsOf(NewBlock(h, e)), 1, n))
      BY <1>7 DEF AppendShort, CrashInAppend
    <3>4. QED
      BY <3>1, <3>2, <3>3, WriteAtType
  <2>3. CASE AppendShort(h, e, n)
    <3>1. n \in Nat
      BY DEF Parts
    <3>2. /\ file' \in Seq(Unit \cup {Hole})
          /\ off' \in [Handles -> Nat]
          /\ clock' \in Nat
      BY <2>2, <2>3, <3>1 DEF AppendShort, Contents
    <3>3. /\ result' \in [Handles -> {"none", "ok", "error", "unread"}]
          /\ UNCHANGED <<exists, pc, nextIndex, prev, acked>>
      BY <2>3 DEF AppendShort
    <3>4. QED
      BY <3>2, <3>3
  <2>4. CASE CrashInAppend(h, e, n)
    <3>1. /\ Reset(h, "none") /\ clock' = clock + 1 /\ UNCHANGED <<exists, acked>>
      BY <2>4 DEF CrashInAppend
    <3>2. /\ pc' \in [Handles -> {"closed", "create", "scan", "seek", "open"}]
          /\ off' \in [Handles -> Nat] /\ nextIndex' \in [Handles -> Nat] /\ prev' \in [Handles -> Nat]
          /\ result' \in [Handles -> {"none", "ok", "error", "unread"}]
      BY <3>1, ResetType
    <3>3. clock' \in Nat /\ file' \in Seq(Unit \cup {Hole})
      BY <2>2, <3>1 DEF Contents
    <3>4. QED
      BY <3>1, <3>2, <3>3
  <2>5. QED
    BY <1>7, <2>3, <2>4
<1>8. ASSUME NEW n \in 0..Len(file), NEW lost \in SUBSET (1..n), PowerLoss(n, lost) PROVE TypeOK'
  <2>1. n \in Nat /\ \A i \in 1..n : file[i] \in Contents /\ Hole \in Contents
    BY DEF Contents
  <2>2. file' \in [1..n -> Contents]
    BY <1>8, <2>1 DEF PowerLoss
  <2>3. file' \in Seq(Contents)
    BY <2>1, <2>2
  <2>4. QED
    BY <1>8, <2>3 DEF PowerLoss, Contents
<1>9. CASE UNCHANGED vars
  BY <1>9 DEF vars
<1> HIDE DEF TypeOK
<1>10. 0..Parts - 1 \subseteq 0..Parts
  BY DEF Parts
<1>11. QED
  BY <1>1, <1>2, <1>3, <1>4, <1>5, <1>6, <1>7, <1>8, <1>9, <1>10
  DEF Next, OpenStep

\* A closed journal has the types.
LEMMA TypeInit == Init => TypeOK
<1> SUFFICES ASSUME Init PROVE TypeOK
  OBVIOUS
<1>1. file \in Seq(Unit \cup {Hole})
  BY DEF Init
<1>2. acked \in SUBSET Block
  BY DEF Init
<1>3. QED
  BY <1>1, <1>2 DEF Init, TypeOK

\* TypeOK: every variable keeps its type under every fault.
THEOREM TypeCorrect == Spec => []TypeOK
  BY TypeInit, TypeStep, PTL DEF Spec

-----------------------------------------------------------------------------
(* One process at a time, processes that may die, no write cut short         *)

SingleWriter == Exclusive /\ Faults \subseteq {"crash"}

\* b is the block that comes after the n whole blocks of f.
NextBlock(f, n, b) ==
    /\ Len(f) = 2 * n
    /\ b.index = n
    /\ b.prev = StampAt(f, n)
    /\ n > 0 => b.key = f[1].blk.key

\* g is f with the first m units of b behind it.
Extends(f, g, b, m) ==
    /\ Len(g) = Len(f) + m
    /\ \A i \in 1..Len(f) : g[i] = f[i]
    /\ \A p \in 1..m : g[Len(f) + p] = [blk |-> b, part |-> p]

\* The block after the whole blocks of a chained file, or a part of it,
\* leaves the file chained.
LEMMA ChainGrows ==
    ASSUME NEW f \in Seq(Contents), Chained(f, f[1].blk.key),
           NEW n \in Nat, NEW b \in Block, NextBlock(f, n, b),
           NEW m \in 0..2, NEW g \in Seq(Contents), Extends(f, g, b, m)
    PROVE  Chained(g, g[1].blk.key)
<1> USE DEF NextBlock, Extends
<1> SUFFICES ASSUME NEW k \in Slots(g)
             PROVE  BlockVerifies(g, 2 * k, g[1].blk.key, k, StampAt(g, k))
  BY DEF Chained, Parts
<1>1. k \in Nat /\ 2 * k + 2 <= Len(g)
  BY DEF Slots, Parts
<1>2. CASE 2 * k + 2 <= Len(f)
  <2>1. k \in Slots(f)
    BY <1>1, <1>2 DEF Slots, Parts
  <2>2. BlockVerifies(f, 2 * k, f[1].blk.key, k, StampAt(f, k))
    BY <2>1 DEF Chained, Parts
  <2>3. g[2 * k + 1] = f[2 * k + 1] /\ g[2 * k + 2] = f[2 * k + 2] /\ g[1] = f[1]
    BY <1>1, <1>2
  <2>4. StampAt(g, k) = StampAt(f, k)
    <3>1. k # 0 => g[2 * (k - 1) + 1] = f[2 * (k - 1) + 1]
      BY <1>1, <1>2
    <3>2. QED
      BY <3>1 DEF StampAt, Parts
  <2>5. QED
    BY <2>2, <2>3, <2>4 DEF BlockVerifies, IsWhole, Parts
<1>3. CASE ~(2 * k + 2 <= Len(f))
  <2>1. k = n /\ m = 2
    BY <1>1, <1>3
  <2>2. g[2 * n + 1] = [blk |-> b, part |-> 1] /\ g[2 * n + 2] = [blk |-> b, part |-> 2]
    BY <2>1
  <2>3. g[1].blk.key = b.key
    <3>1. CASE n = 0
      BY <3>1, <2>2
    <3>2. CASE n > 0
      BY <3>2
    <3>3. QED
      BY <3>1, <3>2
  <2>4. StampAt(g, n) = StampAt(f, n)
    <3>1. n # 0 => g[2 * (n - 1) + 1] = f[2 * (n - 1) + 1]
      OBVIOUS
    <3>2. QED
      BY <3>1 DEF StampAt, Parts
  <2>5. IsWhole(g, 2 * n)
    <3>1. ASSUME NEW p \in 1..2 PROVE g[2 * n + p].part = p /\ g[2 * n + p].blk = g[2 * n + 1].blk
      <4>1. CASE p = 1
        BY <2>2, <4>1
      <4>2. CASE p = 2
        BY <2>2, <4>2
      <4>3. QED
        BY <4>1, <4>2
    <3>2. QED
      BY <3>1 DEF IsWhole, Parts
  <2>6. QED
    BY <2>1, <2>2, <2>3, <2>4, <2>5 DEF BlockVerifies
<1>4. QED
  BY <1>2, <1>3

\* Growing a file moves no block: what was durable stays so.
LEMMA DurableGrows ==
    ASSUME NEW f \in Seq(Contents), NEW g \in Seq(Contents),
           Len(f) <= Len(g), \A i \in 1..Len(f) : g[i] = f[i],
           NEW b \in Block, AtItsIndex(f, b)
    PROVE  AtItsIndex(g, b)
<1>1. b.index \in Nat
  BY DEF Block
<1> DEFINE i == b.index
<1> HIDE DEF i
<1>2. i \in Nat /\ 2 * i + 2 <= Len(f)
  BY <1>1 DEF AtItsIndex, Parts, i
<1>3. \A p \in 1..2 : g[2 * i + p] = f[2 * i + p]
  BY <1>2
<1>4. g[2 * i + 1] = f[2 * i + 1]
  BY <1>3
<1>5. IsWhole(f, 2 * i) => IsWhole(g, 2 * i)
  BY <1>3, <1>4 DEF IsWhole, Parts
<1>6. Parts * (i + 1) <= Len(g)
  BY <1>2 DEF Parts
<1>7. QED
  BY <1>4, <1>5, <1>6 DEF AtItsIndex, Parts, i

\* Before any process opens it the journal has the invariant; then one lemma an action.
LEMMA IInvInit == Init => IInv
<1> SUFFICES ASSUME Init PROVE IInv
  OBVIOUS
<1>1. TypeOK
  BY TypeInit
<1>2. OneActive /\ ExistsInv /\ CursorInv
  BY DEF Init, OneActive, ExistsInv, CursorInv, Reading
<1>3. Len(file) = 0 /\ Slots(file) = {}
  <2>1. Len(file) = 0
    BY DEF Init
  <2>2. \A n \in 0..0 : ~(2 * (n + 1) <= 0)
    OBVIOUS
  <2>3. QED
    BY <2>1, <2>2 DEF Slots, Parts
<1>4. FileInv
  BY <1>3 DEF FileInv, Chained, Parts
<1>5. AckedDurable
  BY DEF Init, AckedDurable
<1>6. QED
  BY <1>1, <1>2, <1>4, <1>5 DEF IInv

\* What the steps that leave the file alone have to show.
LEMMA SameFile ==
    ASSUME IInv, UNCHANGED <<file, acked>>
    PROVE  FileInv' /\ AckedDurable'
  BY DEF IInv, FileInv, AckedDurable

\* A context that forgets everything keeps the invariant about contexts.
LEMMA ResetCursor ==
    ASSUME IInv, UNCHANGED <<exists, file>>,
           NEW h \in Handles, NEW r, Reset(h, r)
    PROVE  OneActive' /\ ExistsInv' /\ CursorInv'
<1> USE DEF IInv, TypeOK
<1>1. pc'[h] = "closed" /\ off'[h] = 0 /\ nextIndex'[h] = 0 /\ prev'[h] = 0
  BY DEF Reset
<1>2. \A g \in Handles \ {h} :
          /\ pc'[g] = pc[g] /\ off'[g] = off[g]
          /\ nextIndex'[g] = nextIndex[g] /\ prev'[g] = prev[g]
  BY DEF Reset
<1>3. OneActive'
  BY <1>1, <1>2 DEF OneActive
<1>4. ExistsInv'
  BY <1>1, <1>2 DEF ExistsInv, Reading
<1>5. CursorInv'
  BY <1>1, <1>2 DEF CursorInv, Reading
<1>6. QED
  BY <1>3, <1>4, <1>5

\* kg_open begins: with an existing file, or with none.
LEMMA IInvOpen ==
    ASSUME SingleWriter, IInv, NEW h \in Handles,
           OpenExisting(h) \/ OpenMissing(h)
    PROVE  OneActive' /\ ExistsInv' /\ FileInv' /\ CursorInv' /\ AckedDurable'
<1> USE DEF IInv, TypeOK, SingleWriter
<1>1. \A g \in Handles : pc[g] = "closed"
  BY DEF OpenExisting, OpenMissing, MayOpen
<1>2. FileInv' /\ AckedDurable'
  BY SameFile DEF OpenExisting, OpenMissing
<1>3. OneActive'
  BY <1>1 DEF OneActive, OpenExisting, OpenMissing
<1>4. ExistsInv'
  BY <1>1 DEF ExistsInv, Reading, OpenExisting, OpenMissing
<1>5. CursorInv'
  <2>1. \A g \in Handles : off[g] = 0 /\ nextIndex[g] = 0 /\ prev[g] = 0
    BY <1>1 DEF CursorInv, Reading
  <2>2. \A g \in Handles : pc'[g] \notin {"seek", "open"}
    BY <1>1 DEF OpenExisting, OpenMissing
  <2>3. Len(file) \in Nat
    OBVIOUS
  <2>4. QED
    BY <2>1, <2>2, <2>3 DEF CursorInv, Reading, StampAt, Parts, OpenExisting, OpenMissing
<1>6. QED
  BY <1>2, <1>3, <1>4, <1>5

\* kg_open creates the file, which empties nobody's journal while one process runs.
LEMMA IInvCreate ==
    ASSUME SingleWriter, IInv, NEW h \in Handles, Create(h)
    PROVE  OneActive' /\ ExistsInv' /\ FileInv' /\ CursorInv' /\ AckedDurable'
<1> USE DEF IInv, TypeOK, Create
<1>1. file = <<>> /\ ~exists
  BY DEF ExistsInv, SingleWriter
<1>2. \A g \in Handles \ {h} : pc[g] = "closed" /\ pc'[g] = "closed"
  BY DEF OneActive
<1>3. FileInv' /\ AckedDurable'
  BY <1>1, SameFile
<1>4. OneActive' /\ ExistsInv'
  BY <1>2 DEF OneActive, ExistsInv, Reading
<1>5. CursorInv'
  <2>1. off[h] = 0 /\ nextIndex[h] = 0 /\ prev[h] = 0
    BY DEF CursorInv, Reading
  <2>2. pc'[h] = "scan"
    OBVIOUS
  <2>3. \A g \in Handles \ {h} : off[g] = 0 /\ nextIndex[g] = 0 /\ prev[g] = 0
    BY <1>2 DEF CursorInv, Reading
  <2>4. Len(file') = 0
    OBVIOUS
  <2>5. QED
    BY <1>2, <2>1, <2>2, <2>3, <2>4 DEF CursorInv, Reading, StampAt, Parts
<1>6. QED
  BY <1>3, <1>4, <1>5

\* kg_open reads on, and takes over position, index and hash at the end.
LEMMA IInvScan ==
    ASSUME IInv, NEW h \in Handles,
           ScanBlock(h) \/ ScanEnd(h) \/ SeekEnd(h)
    PROVE  OneActive' /\ ExistsInv' /\ FileInv' /\ CursorInv' /\ AckedDurable'
<1> USE DEF IInv, TypeOK
<1>1. FileInv' /\ AckedDurable'
  BY SameFile DEF ScanBlock, ScanEnd, SeekEnd
<1>2. OneActive' /\ ExistsInv'
  BY DEF OneActive, ExistsInv, Reading, ScanBlock, ScanEnd, SeekEnd
<1>3. CursorInv'
  <2>1. CASE ScanBlock(h)
    <3> DEFINE n == nextIndex[h]
    <3>1. /\ off[h] = 2 * n /\ n \in Nat /\ 2 * n + 2 <= Len(file)
          /\ off'[h] = 2 * n + 2 /\ nextIndex'[h] = n + 1
      BY <2>1 DEF ScanBlock, CursorInv, Reading, Parts
    <3>2. prev'[h] = StampAt(file, n + 1)
      BY <2>1, <3>1 DEF ScanBlock, StampAt, Parts
    <3>3. file[1].blk.key = KeyOf[h]
      <4>1. CASE n = 0
        BY <2>1, <3>1, <4>1 DEF ScanBlock, BlockVerifies
      <4>2. CASE n > 0
        BY <2>1, <4>2 DEF ScanBlock, CursorInv, Reading
      <4>3. QED
        BY <3>1, <4>1, <4>2
    <3>4. pc' = pc /\ pc[h] = "scan" /\ file' = file
      BY <2>1 DEF ScanBlock
    <3>5. \A g \in Handles \ {h} :
             off'[g] = off[g] /\ nextIndex'[g] = nextIndex[g] /\ prev'[g] = prev[g]
      BY <2>1 DEF ScanBlock
    <3>6. ASSUME NEW g \in Handles, g # h PROVE CursorInv!(g)'
      BY <3>4, <3>5, <3>6 DEF CursorInv, Reading
    <3>7. CursorInv!(h)'
      BY <3>1, <3>2, <3>3, <3>4 DEF Reading, Parts
    <3>8. QED
      BY <3>6, <3>7 DEF CursorInv
  <2>2. CASE ScanEnd(h)
    <3>1. off[h] = Len(file)
      BY <2>2 DEF ScanEnd, CursorInv, Reading
    <3>2. QED
      BY <2>2, <3>1 DEF ScanEnd, CursorInv, Reading
  <2>3. CASE SeekEnd(h)
    <3>1. off[h] = Len(file) /\ off' = off
      BY <2>3 DEF SeekEnd, CursorInv
    <3>2. QED
      BY <2>3, <3>1 DEF SeekEnd, CursorInv, Reading
  <2>4. QED
    BY <2>1, <2>2, <2>3
<1>4. QED
  BY <1>1, <1>2, <1>3

\* What is written behind an open context's last block, whole or in part,
\* keeps the file one chain; n is how much of the block reached the file.
LEMMA WriteKeepsFile ==
    ASSUME IInv, NEW h \in Handles, NEW e \in Events, pc[h] = "open",
           NEW b, b = NewBlock(h, e), NEW n, NEW s, IsFront(s, b, n),
           NEW g, g = WriteAt(file, off[h], s)
    PROVE  /\ g \in Seq(Contents)
           /\ Extends(file, g, b, n)
           /\ Chained(g, g[1].blk.key)
<1>0. /\ n \in 0..2 /\ b \in Block /\ s \in Seq(Unit) /\ Len(s) = n
      /\ \A p \in 1..n : s[p] = [blk |-> b, part |-> p]
  BY DEF IsFront
<1> USE <1>0
<1>1. /\ off[h] = Len(file) /\ off[h] = 2 * nextIndex[h]
      /\ prev[h] = StampAt(file, nextIndex[h])
      /\ nextIndex[h] > 0 => file[1].blk.key = KeyOf[h]
      /\ nextIndex[h] \in Nat
  BY DEF IInv, TypeOK, CursorInv, Reading, Parts
<1>2. b.index = nextIndex[h] /\ b.prev = prev[h] /\ b.key = KeyOf[h]
  BY DEF NewBlock
<1>3. file \in Seq(Contents)
  BY DEF IInv, TypeOK, Contents
<1>4. g = WriteAt(file, Len(file), s) /\ Len(file) \in Nat
  BY <1>1, <1>3
<1>5. g \in Seq(Contents)
  BY <1>3, <1>4, WriteAtType
<1>6. Extends(file, g, b, n)
  BY <1>3, <1>4, WriteAtEnd DEF Extends
<1>7. NextBlock(file, nextIndex[h], b)
  BY <1>1, <1>2 DEF NextBlock
<1>8. Chained(file, file[1].blk.key)
  BY DEF IInv, FileInv
<1>9. Chained(g, g[1].blk.key)
  BY <1>1, <1>3, <1>5, <1>6, <1>7, <1>8, ChainGrows
<1>10. QED
  BY <1>5, <1>6, <1>9

\* What the invariant says of the acknowledged blocks outlives the write.
LEMMA AckedGrows ==
    ASSUME IInv, NEW c \in acked, NEW g \in Seq(Contents),
           NEW b, NEW n \in 0..2, Extends(file, g, b, n)
    PROVE  AtItsIndex(g, c)
<1> USE DEF Extends
<1>1. c \in Block /\ file \in Seq(Contents) /\ AtItsIndex(file, c)
  BY DEF IInv, TypeOK, AckedDurable, Contents
<1>2. Len(file) <= Len(g)
  BY <1>1
<1>3. QED
  BY <1>1, <1>2, DurableGrows

\* kg_append writes a whole block behind the last one.
LEMMA IInvAppend ==
    ASSUME IInv, NEW h \in Handles, NEW e \in Events, AppendBlock(h, e)
    PROVE  OneActive' /\ ExistsInv' /\ FileInv' /\ CursorInv' /\ AckedDurable'
<1>1. PICK b \in Block : b = NewBlock(h, e)
  BY NewBlockType DEF IInv
<1>2. PICK n \in Nat : n = nextIndex[h]
  BY DEF IInv, TypeOK
<1>3. pc[h] = "open" /\ pc' = pc /\ exists' = exists
  BY DEF AppendBlock, MayAppend
<1>4. /\ UnitsOf(b) \in Seq(Unit) /\ Len(UnitsOf(b)) = 2
      /\ \A p \in 1..2 : UnitsOf(b)[p] = [blk |-> b, part |-> p]
      /\ file' = WriteAt(file, off[h], UnitsOf(b)) /\ 2 \in 0..2
  BY <1>1, UnitsOfType DEF Parts, AppendBlock
<1>5. /\ file' \in Seq(Contents)
      /\ Extends(file, file', b, 2)
      /\ Chained(file', file'[1].blk.key)
  <2>1. IsFront(UnitsOf(b), b, 2)
    BY <1>4 DEF IsFront
  <2>2. QED
    BY <1>1, <1>3, <1>4, <2>1, WriteKeepsFile
<1>6. /\ off[h] = Len(file) /\ off[h] = 2 * n
      /\ n > 0 => file[1].blk.key = KeyOf[h]
      /\ b.index = n /\ b.stamp = clock + 1 /\ b.key = KeyOf[h]
  BY <1>1, <1>2, <1>3 DEF IInv, TypeOK, CursorInv, Reading, Parts, NewBlock
<1>7. /\ off'[h] = 2 * n + 2 /\ nextIndex'[h] = n + 1 /\ prev'[h] = clock + 1
      /\ \A g \in Handles \ {h} :
            off'[g] = off[g] /\ nextIndex'[g] = nextIndex[g] /\ prev'[g] = prev[g]
  BY <1>2, <1>6 DEF IInv, TypeOK, AppendBlock, Parts
<1>8. \A g \in Handles \ {h} : pc[g] = "closed"
  BY <1>3 DEF IInv, OneActive
<1>9. /\ file'[2 * n + 1] = [blk |-> b, part |-> 1]
      /\ file'[2 * n + 2] = [blk |-> b, part |-> 2]
      /\ Len(file') = 2 * n + 2
      /\ n > 0 => file'[1] = file[1]
  BY <1>5, <1>6 DEF Extends
<1>10. OneActive' /\ ExistsInv'
  BY <1>3 DEF IInv, OneActive, ExistsInv, Reading
<1>11. FileInv'
  <2>1. "crash" \notin Faults => Len(file') % Parts = 0
    BY <1>9 DEF Parts
  <2>2. QED
    BY <1>5, <2>1 DEF FileInv
<1>12. CursorInv'
  <2>1. CursorInv!(h)'
    <3>1. StampAt(file', n + 1) = clock + 1
      BY <1>6, <1>9 DEF StampAt, Parts
    <3>2. file'[1].blk.key = KeyOf[h]
      <4>1. CASE n = 0
        BY <1>6, <1>9, <4>1
      <4>2. CASE n > 0
        BY <1>6, <1>9, <4>2
      <4>3. QED
        BY <4>1, <4>2
    <3>3. QED
      BY <1>3, <1>7, <1>9, <3>1, <3>2 DEF Reading, Parts
  <2>2. ASSUME NEW g \in Handles, g # h PROVE CursorInv!(g)'
    BY <1>3, <1>7, <1>8, <2>2 DEF IInv, CursorInv, Reading
  <2>3. QED
    BY <2>1, <2>2 DEF CursorInv
<1>13. AckedDurable'
  <2>1. acked' = acked \cup {b}
    BY <1>1 DEF AppendBlock
  <2>2. \A c \in acked : AtItsIndex(file', c)
    BY <1>4, <1>5, AckedGrows
  <2>3. AtItsIndex(file', b)
    <3>1. IsWhole(file', 2 * n)
      BY <1>9 DEF IsWhole, Parts
    <3>2. QED
      BY <1>6, <1>9, <3>1 DEF AtItsIndex, Parts
  <2>4. QED
    BY <2>1, <2>2, <2>3 DEF AckedDurable
<1>14. QED
  BY <1>10, <1>11, <1>12, <1>13

\* A process dies in kg_append and leaves any front of its block.
LEMMA IInvCrashInAppend ==
    ASSUME SingleWriter, IInv, NEW h \in Handles, NEW e \in Events,
           NEW n \in 0..Parts, CrashInAppend(h, e, n)
    PROVE  OneActive' /\ ExistsInv' /\ FileInv' /\ CursorInv' /\ AckedDurable'
<1>1. PICK b \in Block : b = NewBlock(h, e)
  BY NewBlockType DEF IInv
<1>2. pc[h] = "open" /\ n \in 0..2
  BY DEF CrashInAppend, MayAppend, Parts
<1>3. PICK s : s = SubSeq(UnitsOf(b), 1, n)
  OBVIOUS
<1>4. /\ s \in Seq(Unit) /\ Len(s) = n
      /\ \A p \in 1..n : s[p] = [blk |-> b, part |-> p]
      /\ file' = WriteAt(file, off[h], s)
  BY <1>1, <1>3, PrefixType DEF CrashInAppend
<1>5. /\ file' \in Seq(Contents)
      /\ Extends(file, file', b, n)
      /\ Chained(file', file'[1].blk.key)
  <2>1. PICK g : g = file'
    OBVIOUS
  <2>2. g = WriteAt(file, off[h], s) /\ pc[h] = "open" /\ n \in 0..2
    BY <1>2, <1>4, <2>1
  <2>3. /\ g \in Seq(Contents) /\ Extends(file, g, b, n)
        /\ Chained(g, g[1].blk.key)
    <3>1. IsFront(s, b, n)
      BY <1>2, <1>4 DEF IsFront
    <3>2. QED
      BY <1>1, <2>2, <3>1, WriteKeepsFile
  <2>4. QED
    BY <2>1, <2>3
<1>6. /\ pc'[h] = "closed" /\ off'[h] = 0 /\ nextIndex'[h] = 0 /\ prev'[h] = 0
      /\ \A g \in Handles \ {h} :
            /\ pc'[g] = pc[g] /\ off'[g] = off[g]
            /\ nextIndex'[g] = nextIndex[g] /\ prev'[g] = prev[g]
      /\ exists' = exists /\ acked' = acked
  BY DEF IInv, TypeOK, CrashInAppend, Reset
<1>7. \A g \in Handles : pc'[g] = "closed"
  BY <1>2, <1>6 DEF IInv, OneActive
<1>8. OneActive'
  BY <1>7 DEF OneActive
<1>9. ExistsInv'
  BY <1>2, <1>6, <1>7 DEF IInv, ExistsInv, Reading
<1>10. FileInv'
  BY <1>5 DEF FileInv, SingleWriter, CrashInAppend
<1>11. CursorInv'
  <2>1. \A g \in Handles : off'[g] = 0 /\ nextIndex'[g] = 0 /\ prev'[g] = 0
    BY <1>2, <1>6, <1>7 DEF IInv, OneActive, CursorInv, Reading
  <2>2. QED
    BY <1>7, <2>1 DEF CursorInv, Reading
<1>12. AckedDurable'
  BY <1>2, <1>5, <1>6, AckedGrows DEF AckedDurable
<1>13. QED
  BY <1>8, <1>9, <1>10, <1>11, <1>12

\* With one process at a time every step keeps the invariant.
LEMMA IInvStep == SingleWriter /\ IInv /\ [Next]_vars => IInv'
<1> SUFFICES ASSUME SingleWriter, IInv, [Next]_vars PROVE IInv'
  OBVIOUS
<1>1. TypeOK'
  BY TypeStep DEF IInv
<1> DEFINE Rest == OneActive /\ ExistsInv /\ FileInv /\ CursorInv /\ AckedDurable
<1>2. ASSUME NEW h \in Handles, OpenExisting(h) \/ OpenMissing(h) PROVE Rest'
  BY <1>2, IInvOpen
<1>3. ASSUME NEW h \in Handles, Create(h) PROVE Rest'
  BY <1>3, IInvCreate
<1>4. ASSUME NEW h \in Handles, ScanBlock(h) \/ ScanEnd(h) \/ SeekEnd(h) PROVE Rest'
  BY <1>4, IInvScan
<1>5. ASSUME NEW h \in Handles, ScanRefuse(h) \/ Close(h) \/ Crash(h) PROVE Rest'
  <2>1. UNCHANGED <<exists, file, acked>> /\ \E r : Reset(h, r)
    BY <1>5 DEF ScanRefuse, Close, Crash
  <2>2. QED
    BY <2>1, SameFile, ResetCursor
<1>6. ASSUME NEW h \in Handles, AppendReject(h) PROVE Rest'
  BY <1>6 DEF AppendReject, IInv, OneActive, ExistsInv, FileInv, CursorInv, AckedDurable, Reading
<1>7. ASSUME NEW h \in Handles, NEW e \in Events, AppendBlock(h, e) PROVE Rest'
  BY <1>7, IInvAppend
<1>8. ASSUME NEW h \in Handles, NEW e \in Events, NEW n \in 0..Parts,
             CrashInAppend(h, e, n)
      PROVE  Rest'
  BY <1>8, IInvCrashInAppend
<1>9. ASSUME NEW h \in Handles, NEW e \in Events, NEW n \in 0..Parts - 1
      PROVE  ~AppendShort(h, e, n)
  BY DEF SingleWriter, AppendShort
<1>10. /\ \A n \in 0..Len(file) : \A lost \in SUBSET (1..n) : ~PowerLoss(n, lost)
       /\ \A h \in Handles : ~OpenFails(h)
  BY DEF SingleWriter, PowerLoss, OpenFails
<1>11. ASSUME UNCHANGED vars PROVE Rest'
  <2>1. OneActive' /\ ExistsInv'
    BY <1>11 DEF vars, IInv, OneActive, ExistsInv, Reading
  <2>2. FileInv' /\ AckedDurable'
    BY <1>11, SameFile DEF vars
  <2>3. CursorInv'
    BY <1>11 DEF vars, IInv, CursorInv, Reading
  <2>4. QED
    BY <2>1, <2>2, <2>3
<1> HIDE DEF Rest
<1>12. Rest'
  BY <1>2, <1>3, <1>4, <1>5, <1>6, <1>7, <1>8, <1>9, <1>10, <1>11
  DEF Next, OpenStep
<1>13. QED
  BY <1>1, <1>12 DEF Rest, IInv

\* The inductive invariant holds for every set of contexts, keys and events,
\* as long as one process at a time has the file and no write is cut short.
THEOREM Inductive == SingleWriter => (Spec => []IInv)
<1>1. SUFFICES ASSUME SingleWriter PROVE Spec => []IInv
  OBVIOUS
<1>2. IInv /\ [Next]_vars => IInv'
  BY <1>1, IInvStep
<1>3. QED
  BY <1>2, IInvInit, PTL DEF Spec

\* Every block kg_append acknowledged stays in the file, at its index.
THEOREM AckedDurability == SingleWriter => (Spec => []AckedDurable)
<1>1. IInv => AckedDurable
  BY DEF IInv
<1>2. QED
  BY <1>1, Inductive, PTL

\* A file of whole blocks verifies after every step of every call.
THEOREM JournalIntegrity == SingleWriter => (Spec => []JournalVerifies)
<1>1. SUFFICES ASSUME SingleWriter PROVE Spec => []JournalVerifies
  OBVIOUS
<1>2. IInv => JournalVerifies
  <2>1. SUFFICES ASSUME IInv, file # <<>>, Len(file) % Parts = 0
                 PROVE  \E k \in Keys : Verifies(file, k)
    BY DEF JournalVerifies
  <2>2. /\ file \in Seq(Contents) /\ Len(file) % 2 = 0 /\ Len(file) # 0
        /\ Chained(file, file[1].blk.key)
    BY <2>1 DEF IInv, TypeOK, FileInv, Contents, Parts
  <2>3. 0 \in Slots(file) /\ 2 <= Len(file)
    BY <2>2 DEF Slots, Parts
  <2>4. IsWhole(file, 0)
    BY <2>2, <2>3 DEF Chained, BlockVerifies, Parts
  <2>5. file[1].blk \in Block
    BY <2>2, <2>3, <2>4, WholeIsBlock DEF Parts
  <2>6. QED
    BY <2>2, <2>5 DEF Verifies, Block, Parts
<1>3. QED
  BY <1>1, <1>2, Inductive, PTL

-----------------------------------------------------------------------------
(* One process at a time, and every fault                                    *)

\* Of a file that grows, every place that was in it before looks as it did.
LEMMA WholeLasts ==
    ASSUME NEW f \in Seq(Contents), NEW g \in Seq(Contents), NEW b, NEW n \in 0..2, Extends(f, g, b, n),
           NEW i \in 0..Len(f) - 2
    PROVE  /\ i \in 0..Len(g) - 2
           /\ g[i + 1] = f[i + 1] /\ g[i + 2] = f[i + 2]
           /\ IsWhole(g, i) <=> IsWhole(f, i)
<1>1. /\ Len(g) = Len(f) + n /\ Len(f) \in Nat /\ i \in Nat /\ i + 2 <= Len(f)
      /\ \A k \in 1..Len(f) : g[k] = f[k]
  BY DEF Extends
<1>2. i + 1 \in 1..Len(f) /\ i + 2 \in 1..Len(f) /\ i \in 0..Len(g) - 2
  BY <1>1
<1>3. g[i + 1] = f[i + 1] /\ g[i + 2] = f[i + 2]
  BY <1>1, <1>2
<1>4. IsWhole(g, i) <=> IsWhole(f, i)
  <2>1. \A p \in 1..2 : p = 1 \/ p = 2
    OBVIOUS
  <2>2. QED
    BY <1>3, <2>1 DEF IsWhole, Parts
<1>5. QED
  BY <1>2, <1>3, <1>4

\* What stands whole was written: it is no hole.
LEMMA WholeIsWritten ==
    ASSUME NEW f \in Seq(Contents), NEW i \in 0..Len(f) - 2, IsWhole(f, i)
    PROVE  /\ i + 1 \in 1..Len(f) /\ i + 2 \in 1..Len(f)
           /\ f[i + 1] # Hole /\ f[i + 2] # Hole
<1>1. 1 \in 1..2 /\ 2 \in 1..2 /\ i + 1 \in 1..Len(f) /\ i + 2 \in 1..Len(f)
  OBVIOUS
<1>2. f[i + 1].part = 1 /\ f[i + 2].part = 2
  BY <1>1 DEF IsWhole, Parts
<1>3. QED
  BY <1>1, <1>2 DEF Hole

\* A place where a block of an older stamp stands was in the file before.
LEMMA WholeIsOld ==
    ASSUME FaultInv, NEW g \in Seq(Contents), NEW b \in Block, b.stamp = clock + 1,
           NEW n \in 0..2, Extends(file, g, b, n),
           NEW i \in 0..Len(g) - 2, IsWhole(g, i), g[i + 1].blk.stamp # b.stamp
    PROVE  i \in 0..Len(file) - 2
<1>1. /\ file \in Seq(Contents) /\ Len(file) \in Nat /\ Len(g) = Len(file) + n
      /\ \A p \in 1..n : g[Len(file) + p] = [blk |-> b, part |-> p]
  BY DEF FaultInv, TypeOK, Contents, Extends
<1>2. g[i + 2].blk = g[i + 1].blk /\ i \in Nat /\ i + 2 <= Len(g)
  BY DEF IsWhole, Parts
<1>3. ASSUME ~(i + 2 <= Len(file)) PROVE FALSE
  <2>1. PICK q \in 1..n : Len(file) + q = i + 2
    <3>1. i + 2 - Len(file) \in 1..n
      BY <1>1, <1>2, <1>3
    <3>2. QED
      BY <1>1, <1>2, <3>1
  <2>2. g[i + 2].blk = b
    <3>1. g[Len(file) + q] = [blk |-> b, part |-> q]
      BY <1>1
    <3>2. QED
      BY <2>1, <3>1
  <2>3. QED
    BY <1>2, <2>2
<1>4. QED
  BY <1>1, <1>2, <1>3

\* What an open context writes goes behind all there is.
LEMMA WriteExtends ==
    ASSUME FaultInv, NEW h \in Handles, pc[h] = "open",
           NEW b, NEW n, NEW s, IsFront(s, b, n), NEW g, g = WriteAt(file, off[h], s)
    PROVE  g \in Seq(Contents) /\ Extends(file, g, b, n)
<1>0. /\ n \in 0..2 /\ b \in Block /\ s \in Seq(Unit) /\ Len(s) = n
      /\ \A p \in 1..n : s[p] = [blk |-> b, part |-> p]
  BY DEF IsFront
<1> USE <1>0
<1>1. off[h] = Len(file) /\ file \in Seq(Contents)
  BY DEF FaultInv, TypeOK, EndInv, Contents
<1>2. g = WriteAt(file, Len(file), s) /\ Len(file) \in Nat
  BY <1>1
<1>3. g \in Seq(Contents)
  BY <1>1, <1>2, WriteAtType
<1>4. Extends(file, g, b, n)
  BY <1>1, <1>2, WriteAtEnd DEF Extends
<1>5. QED
  BY <1>3, <1>4

\* The block an open context builds chains to one that is in the file.
LEMMA ChainsBack ==
    ASSUME FaultInv, NEW h \in Handles, NEW e \in Events, pc[h] = "open",
           NEW b \in Block, b = NewBlock(h, e)
    PROVE  /\ b.stamp = clock + 1 /\ b.prev \in 0..clock
           /\ \A c \in acked : c.stamp = b.prev =>
                 \E j \in 0..Len(file) - 2 : IsWhole(file, j) /\ file[j + 1].blk = c
<1>1. /\ b.stamp = clock + 1 /\ b.prev = prev[h] /\ clock \in Nat /\ prev[h] \in Nat
      /\ file \in Seq(Contents)
  BY DEF NewBlock, FaultInv, TypeOK, Contents
<1>2. prev[h] # 0 => \E j \in 0..Len(file) - 2 : IsWhole(file, j) /\ file[j + 1].blk.stamp = prev[h]
  BY DEF FaultInv, EndInv, Reading, Parts
<1>3. \A j \in 0..Len(file) - 2 : j + 1 \in 1..Len(file)
  BY <1>1
<1>4. prev[h] \in 0..clock
  <2>1. CASE prev[h] = 0
    BY <1>1, <2>1
  <2>2. CASE prev[h] # 0
    <3>1. PICK j \in 0..Len(file) - 2 : IsWhole(file, j) /\ file[j + 1].blk.stamp = prev[h]
      BY <1>2, <2>2
    <3>2. file[j + 1].blk.stamp \in 1..clock
      BY <1>1, <1>3, <3>1, WholeIsWritten DEF FaultInv, StampInv, WrittenUnits
    <3>3. QED
      BY <1>1, <3>1, <3>2
  <2>3. QED
    BY <2>1, <2>2
<1>5. ASSUME NEW c \in acked, c.stamp = b.prev
      PROVE  \E j \in 0..Len(file) - 2 : IsWhole(file, j) /\ file[j + 1].blk = c
  <2>1. c.stamp \in 1..clock
    BY DEF FaultInv, StampInv
  <2>2. prev[h] # 0
    BY <1>1, <1>5, <2>1
  <2>3. PICK j \in 0..Len(file) - 2 : IsWhole(file, j) /\ file[j + 1].blk.stamp = prev[h]
    BY <1>2, <2>2
  <2>4. file[j + 1].blk = c
    BY <1>1, <1>3, <1>5, <2>3, WholeIsWritten DEF FaultInv, StampInv, WrittenUnits
  <2>5. QED
    BY <2>3, <2>4
<1>6. QED
  BY <1>1, <1>4, <1>5

\* What is written of a new block, and whether it is acknowledged.
Written(b, n) ==
    /\ Extends(file, file', b, n)
    /\ clock' = clock + 1
    /\ acked' = acked \/ (n = 2 /\ acked' = acked \cup {b})

\* A written front of a block leaves every unit in the block of its stamp, ...
LEMMA StampGrows ==
    ASSUME FaultInv, NEW b \in Block, b.stamp = clock + 1, b.prev \in 0..clock,
           NEW n \in 0..2, Written(b, n), file' \in Seq(Contents)
    PROVE  StampInv'
<1>1. /\ file \in Seq(Contents) /\ Len(file) \in Nat /\ clock \in Nat /\ clock' = clock + 1
      /\ Len(file') = Len(file) + n
      /\ \A i \in 1..Len(file) : file'[i] = file[i]
      /\ \A p \in 1..n : file'[Len(file) + p] = [blk |-> b, part |-> p]
  BY DEF FaultInv, TypeOK, Contents, Written, Extends
<1>2. ASSUME NEW i \in WrittenUnits'
      PROVE  \/ i \in WrittenUnits /\ file'[i] = file[i]
             \/ i \notin WrittenUnits /\ file'[i].blk = b
  <2>0. i \in 1..Len(file') /\ file'[i] # Hole
    BY DEF WrittenUnits
  <2>1. CASE i \in 1..Len(file)
    BY <1>1, <2>0, <2>1 DEF WrittenUnits
  <2>2. CASE i \notin 1..Len(file)
    <3>1. PICK p \in 1..n : i = Len(file) + p
      <4>1. i - Len(file) \in 1..n /\ i = Len(file) + (i - Len(file))
        BY <1>1, <2>0, <2>2
      <4>2. QED
        BY <4>1
    <3>2. file'[i] = [blk |-> b, part |-> p]
      BY <1>1, <3>1
    <3>3. QED
      BY <2>2, <3>2 DEF WrittenUnits
  <2>3. QED
    BY <2>1, <2>2
<1>3. \A i \in WrittenUnits : file[i].blk.stamp \in 1..clock
  BY DEF FaultInv, StampInv
<1>4. \A i, j \in WrittenUnits : file[i].blk.stamp = file[j].blk.stamp => file[i].blk = file[j].blk
  BY DEF FaultInv, StampInv
<1>5. \A c \in acked : /\ c.stamp \in 1..clock /\ c.prev < c.stamp
                       /\ \A i \in WrittenUnits : file[i].blk.stamp = c.stamp => file[i].blk = c
  BY DEF FaultInv, StampInv
<1>6. \A m \in 1..clock : m \in 1..clock' /\ m # b.stamp
  BY <1>1
<1>7. \A i \in WrittenUnits' : file'[i].blk.stamp \in 1..clock'
  <2>1. b.stamp \in 1..clock'
    BY <1>1
  <2>2. QED
    BY <1>2, <1>3, <1>6, <2>1
<1>8. \A i, j \in WrittenUnits' : file'[i].blk.stamp = file'[j].blk.stamp => file'[i].blk = file'[j].blk
  BY <1>2, <1>3, <1>4, <1>6
<1>9. \A c \in acked' : c \in acked \/ c = b
  BY DEF Written
<1>10. b.stamp \in 1..clock' /\ b.prev < b.stamp
  BY <1>1
<1>11. \A c \in acked' : /\ c.stamp \in 1..clock' /\ c.prev < c.stamp
                        /\ \A i \in WrittenUnits' : file'[i].blk.stamp = c.stamp => file'[i].blk = c
  <2>1. ASSUME NEW c \in acked, NEW i \in WrittenUnits', file'[i].blk.stamp = c.stamp
        PROVE  file'[i].blk = c
    BY <1>2, <1>5, <1>6, <2>1
  <2>2. ASSUME NEW i \in WrittenUnits', file'[i].blk.stamp = b.stamp
        PROVE  file'[i].blk = b
    BY <1>2, <1>3, <1>6, <2>2
  <2>3. QED
    BY <1>5, <1>6, <1>9, <1>10, <2>1, <2>2
<1>12. QED
  BY <1>7, <1>8, <1>11 DEF StampInv

\* ... and every whole block behind the one it names.
LEMMA OrderGrows ==
    ASSUME FaultInv, NEW h \in Handles, pc[h] = "open",
           NEW b \in Block, b.stamp = clock + 1, b.prev \in 0..clock,
           \A c \in acked : c.stamp = b.prev =>
               \E j \in 0..Len(file) - 2 : IsWhole(file, j) /\ file[j + 1].blk = c,
           NEW n \in 0..2, Written(b, n), file' \in Seq(Contents)
    PROVE  OrderInv'
<1>1. /\ file \in Seq(Contents) /\ Len(file) \in Nat /\ clock \in Nat
      /\ Len(file') = Len(file) + n /\ Extends(file, file', b, n)
      /\ \A p \in 1..n : file'[Len(file) + p] = [blk |-> b, part |-> p]
  <2>1. file \in Seq(Contents) /\ clock \in Nat
    BY DEF FaultInv, TypeOK, Contents
  <2>2. Len(file) \in Nat
    BY <2>1
  <2>3. QED
    BY <2>1, <2>2 DEF Written, Extends
<1>2. \A c \in acked' : c \in acked \/ (c = b /\ n = 2)
  <2>1. acked' = acked \/ (n = 2 /\ acked' = acked \cup {b})
    BY DEF Written
  <2>2. QED
    BY <2>1
<1>3. \A c \in acked : c.stamp \in 1..clock /\ c.prev < c.stamp
  BY DEF FaultInv, StampInv
<1>4. SUFFICES ASSUME NEW a \in acked', NEW c \in acked', c.prev = a.stamp,
                      NEW i \in 0..Len(file') - 2, IsWhole(file', i), file'[i + 1].blk = c
               PROVE  \E j \in 0..i - 1 : IsWhole(file', j) /\ file'[j + 1].blk = a
  BY DEF OrderInv, Parts
<1>5. CASE c \in acked
  <2>1. i \in 0..Len(file) - 2
    <3>1. c.stamp # b.stamp
      BY <1>1, <1>3, <1>5
    <3>2. QED
      BY <1>1, <1>4, <3>1, WholeIsOld
  <2>2. IsWhole(file, i) /\ file[i + 1].blk = c
    BY <1>1, <1>4, <2>1, WholeLasts
  <2>3. a \in acked
    <3>1. ASSUME a = b PROVE FALSE
      BY <1>1, <1>3, <1>4, <1>5, <3>1 DEF Block
    <3>2. QED
      BY <1>2, <3>1
  <2>4. PICK j \in 0..i - 1 : IsWhole(file, j) /\ file[j + 1].blk = a
    <3>1. OrderInv
      BY DEF FaultInv
    <3>2. c.prev = a.stamp /\ i \in 0..Len(file) - Parts
      BY <1>4, <2>1 DEF Parts
    <3>3. QED
      BY <1>5, <2>2, <2>3, <3>1, <3>2 DEF OrderInv
  <2>5. j \in 0..Len(file) - 2
    BY <1>1, <2>1
  <2>6. IsWhole(file', j) /\ file'[j + 1].blk = a
    <3>1. PICK f, g : f = file /\ g = file'
      OBVIOUS
    <3>2. f \in Seq(Contents) /\ g \in Seq(Contents) /\ Extends(f, g, b, n) /\ j \in 0..Len(f) - 2
      BY <1>1, <2>5, <3>1
    <3>3. g[j + 1] = f[j + 1] /\ (IsWhole(g, j) <=> IsWhole(f, j))
      BY <3>2, WholeLasts
    <3>4. QED
      BY <2>4, <3>1, <3>3
  <2>7. QED
    BY <2>6
<1>6. CASE c = b /\ n = 2
  <2>1. i >= Len(file)
    <3>1. ASSUME ~(i >= Len(file)) PROVE FALSE
      <4>1. i + 1 \in 1..Len(file)
        BY <1>1, <3>1
      <4>2. file'[i + 1] = file[i + 1]
        BY <1>1, <4>1 DEF Extends
      <4>3. file[i + 1].blk.stamp \in 1..clock
        <5>1. file'[i + 1] # Hole
          BY <1>1, <1>4, WholeIsWritten
        <5>2. i + 1 \in WrittenUnits
          BY <4>1, <4>2, <5>1 DEF WrittenUnits
        <5>3. QED
          BY <5>2 DEF FaultInv, StampInv
      <4>4. QED
        BY <1>1, <1>4, <1>6, <4>2, <4>3
    <3>2. QED
      BY <3>1
  <2>2. a \in acked
    <3>1. ASSUME a = b PROVE FALSE
      BY <1>1, <1>4, <1>6, <3>1
    <3>2. QED
      BY <1>2, <3>1
  <2>3. PICK j \in 0..Len(file) - 2 : IsWhole(file, j) /\ file[j + 1].blk = a
    BY <1>4, <1>6, <2>2
  <2>4. j \in 0..i - 1
    BY <1>1, <2>1
  <2>5. IsWhole(file', j) /\ file'[j + 1].blk = a
    <3>1. PICK f, g : f = file /\ g = file'
      OBVIOUS
    <3>2. f \in Seq(Contents) /\ g \in Seq(Contents) /\ Extends(f, g, b, n) /\ j \in 0..Len(f) - 2
      BY <1>1, <2>3, <3>1
    <3>3. g[j + 1] = f[j + 1] /\ (IsWhole(g, j) <=> IsWhole(f, j))
      BY <3>2, WholeLasts
    <3>4. QED
      BY <2>3, <3>1, <3>3
  <2>6. QED
    BY <2>4, <2>5
<1>7. QED
  BY <1>2, <1>4, <1>5, <1>6

Rest == OneActive /\ ExistsInv /\ StampInv /\ OrderInv /\ EndInv /\ ScanInv

SomeOpen == \E g \in Handles : pc[g] = "open"

\* Steps that leave the file alone leave its stamps and, unless kg_open returns, its order.
LEMMA StampsStay ==
    ASSUME FaultInv, UNCHANGED <<file, acked, clock>>
    PROVE  StampInv' /\ ((SomeOpen' => SomeOpen) => OrderInv')
<1>1. StampInv'
  BY DEF FaultInv, StampInv, WrittenUnits
<1>2. ASSUME SomeOpen' => SomeOpen PROVE OrderInv'
  <2>1. OrderInv /\ file' = file /\ acked' = acked
    BY DEF FaultInv
  <2>2. \A i : IsWhole(file', i) <=> IsWhole(file, i)
    BY <2>1
  <2>3. QED
    BY <1>2, <2>1, <2>2 DEF OrderInv, SomeOpen
<1>3. QED
  BY <1>1, <1>2

\* In a file that kg_open has read to its end every block stands behind the one it
\* chains to: where it was verified, the block before it had that stamp.
LEMMA ScannedInOrder ==
    ASSUME FaultInv, NEW h \in Handles, pc[h] = "seek",
           NEW a \in acked, NEW c \in acked, c.prev = a.stamp,
           NEW i \in 0..Len(file) - 2, IsWhole(file, i), file[i + 1].blk = c
    PROVE  \E j \in 0..i - 1 : IsWhole(file, j) /\ file[j + 1].blk = a
<1>1. PICK n \in Nat : n = nextIndex[h]
  BY DEF FaultInv, TypeOK
<1>2. /\ Len(file) = 2 * n /\ file \in Seq(Contents)
      /\ \A m \in 0..n - 1 : /\ IsWhole(file, 2 * m)
                              /\ file[2 * m + 1].blk.prev = StampAt(file, m)
  BY <1>1 DEF FaultInv, TypeOK, ScanInv, Parts, Contents, BlockVerifies
<1>3. a.stamp \in 1..clock
  BY DEF FaultInv, StampInv
<1>4. PICK m \in 0..n - 1 : i = 2 * m \/ i = 2 * m + 1
  <2>1. i \div 2 \in 0..n - 1 /\ (i = 2 * (i \div 2) \/ i = 2 * (i \div 2) + 1)
    BY <1>2
  <2>2. QED
    BY <2>1
<1>5. i = 2 * m
  <2>1. ASSUME i = 2 * m + 1 PROVE FALSE
    <3>1. i + 1 = 2 * m + 2 /\ 2 \in 1..2 /\ 1 \in 1..2
      BY <2>1
    <3>2. file[2 * m + 2].part = 2 /\ file[i + 1].part = 1
      BY <1>2, <3>1 DEF IsWhole, Parts
    <3>3. QED
      BY <3>1, <3>2
  <2>2. QED
    BY <1>4, <2>1
<1>6. StampAt(file, m) = a.stamp
  BY <1>2, <1>5
<1>7. m # 0 /\ file[2 * (m - 1) + 1].blk.stamp = a.stamp
  BY <1>3, <1>6 DEF StampAt, Parts
<1>8. m - 1 \in 0..n - 1 /\ 2 * (m - 1) \in 0..i - 1 /\ 2 * (m - 1) \in 0..Len(file) - 2
  BY <1>2, <1>5, <1>7
<1>9. IsWhole(file, 2 * (m - 1))
  BY <1>2, <1>8
<1>10. 2 * (m - 1) + 1 \in WrittenUnits
  BY <1>2, <1>8, <1>9, WholeIsWritten DEF WrittenUnits
<1>11. file[2 * (m - 1) + 1].blk = a
  BY <1>7, <1>10 DEF FaultInv, StampInv
<1>12. QED
  BY <1>8, <1>9, <1>11

\* A context that forgets everything, the others being closed.
LEMMA AllForgotten ==
    ASSUME TypeOK', \A g \in Handles : pc'[g] = "closed" /\ off'[g] = 0 /\ nextIndex'[g] = 0 /\ prev'[g] = 0
    PROVE  OneActive' /\ EndInv' /\ ScanInv'
  BY DEF OneActive, EndInv, ScanInv, Reading

\* While a process is at work on the file every other context is blank.
LEMMA OthersForgotten ==
    ASSUME FaultInv, NEW h \in Handles, pc[h] # "closed"
    PROVE  \A g \in Handles \ {h} : pc[g] = "closed" /\ off[g] = 0 /\ nextIndex[g] = 0 /\ prev[g] = 0
  BY DEF FaultInv, OneActive, EndInv, Reading

\* A context that is closed leaves nothing to keep; then one lemma an action.
LEMMA FaultReset ==
    ASSUME FaultInv, TypeOK', UNCHANGED <<exists, file, acked, clock>>,
           NEW h \in Handles, NEW r, Reset(h, r), pc[h] # "closed"
    PROVE  Rest'
<1>1. \A g \in Handles : pc'[g] = "closed" /\ off'[g] = 0 /\ nextIndex'[g] = 0 /\ prev'[g] = 0
  BY OthersForgotten DEF FaultInv, TypeOK, Reset
<1>2. ExistsInv'
  BY <1>1 DEF FaultInv, ExistsInv, Reading
<1>3. QED
  BY <1>1, <1>2, StampsStay, AllForgotten DEF Rest, SomeOpen

\* kg_open begins, with or without a file.
LEMMA FaultOpen ==
    ASSUME Exclusive, FaultInv, NEW h \in Handles, OpenExisting(h) \/ OpenMissing(h)
    PROVE  Rest'
<1> USE DEF FaultInv, TypeOK
<1>1. \A g \in Handles : pc[g] = "closed"
  BY DEF OpenExisting, OpenMissing, MayOpen
<1>2. StampInv' /\ OrderInv'
  <2>1. ~SomeOpen' /\ UNCHANGED <<file, acked, clock>>
    BY <1>1 DEF SomeOpen, OpenExisting, OpenMissing
  <2>2. QED
    BY <2>1, StampsStay
<1>3. OneActive'
  BY <1>1 DEF OneActive, OpenExisting, OpenMissing
<1>4. ExistsInv'
  BY <1>1 DEF ExistsInv, Reading, OpenExisting, OpenMissing
<1>5. \A g \in Handles : /\ off'[g] = 0 /\ nextIndex'[g] = 0 /\ prev'[g] = 0
                        /\ pc'[g] \in {"closed", "scan", "create"}
  BY <1>1 DEF EndInv, Reading, OpenExisting, OpenMissing
<1>6. EndInv'
  BY <1>5 DEF EndInv, Reading
<1>7. ScanInv'
  <2>1. Len(file) \in Nat /\ file' = file
    BY DEF OpenExisting, OpenMissing
  <2>2. 0..0 - 1 = {}
    OBVIOUS
  <2>3. StampAt(file, 0) = 0 /\ 0 <= Len(file)
    BY <2>1 DEF StampAt
  <2>4. SUFFICES ASSUME NEW g \in Handles, pc'[g] \in {"scan", "seek"}
                 PROVE  /\ off'[g] = 2 * nextIndex'[g]
                        /\ off'[g] <= Len(file) /\ pc'[g] # "seek"
                        /\ prev'[g] = StampAt(file, nextIndex'[g])
                        /\ 0..nextIndex'[g] - 1 = {}
    BY <2>1 DEF ScanInv, Parts
  <2>5. off'[g] = 0 /\ nextIndex'[g] = 0 /\ prev'[g] = 0 /\ pc'[g] # "seek"
    BY <1>5
  <2>6. QED
    BY <2>2, <2>3, <2>5
<1>8. QED
  BY <1>2, <1>3, <1>4, <1>6, <1>7 DEF Rest

\* kg_open creates the file, and a missing one is all it replaces unless "r+b" failed.
LEMMA FaultCreate ==
    ASSUME FaultInv, NEW h \in Handles, Create(h)
    PROVE  Rest'
<1> USE DEF FaultInv, TypeOK
<1>1. file' = <<>> /\ exists' /\ pc[h] = "create" /\ pc' = [pc EXCEPT ![h] = "scan"]
  BY DEF Create
<1>2. \A g \in Handles \ {h} : pc[g] = "closed" /\ pc'[g] = "closed"
  BY <1>1, OthersForgotten
<1>3. \A g \in Handles : off'[g] = 0 /\ nextIndex'[g] = 0 /\ prev'[g] = 0
  BY <1>1, <1>2 DEF EndInv, Reading, Create
<1>4. StampInv' /\ OrderInv'
  <2>1. UNCHANGED <<acked, clock>> /\ Len(file') = 0 /\ ~SomeOpen'
    BY <1>1, <1>2 DEF Create, SomeOpen
  <2>2. WrittenUnits' = {}
    BY <2>1 DEF WrittenUnits
  <2>3. QED
    BY <2>1, <2>2 DEF StampInv, OrderInv, SomeOpen
<1>5. OneActive' /\ ExistsInv'
  BY <1>1, <1>2 DEF OneActive, ExistsInv, Reading
<1>6. EndInv'
  BY <1>1, <1>2, <1>3 DEF EndInv, Reading
<1>7. ScanInv'
  <2>1. pc'[h] = "scan" /\ Len(file') = 0
    BY <1>1
  <2>2. 0..0 - 1 = {}
    OBVIOUS
  <2>3. QED
    BY <1>2, <1>3, <2>1, <2>2 DEF ScanInv, StampAt, Parts
<1>8. QED
  BY <1>4, <1>5, <1>6, <1>7 DEF Rest

\* kg_open reads a block, which BlockVerifies makes the next of its chain.
LEMMA FaultScan ==
    ASSUME FaultInv, TypeOK', NEW h \in Handles, ScanBlock(h)
    PROVE  Rest'
<1> USE DEF FaultInv
<1> DEFINE n == nextIndex[h]
<1>1. /\ pc[h] = "scan" /\ pc' = pc /\ UNCHANGED <<exists, file, acked, clock>>
      /\ n \in Nat /\ off[h] = 2 * n /\ prev[h] = StampAt(file, n)
      /\ 2 * n + 2 <= Len(file) /\ Len(file) \in Nat
      /\ BlockVerifies(file, 2 * n, KeyOf[h], n, StampAt(file, n))
      /\ \A m \in 0..n - 1 : BlockVerifies(file, 2 * m, KeyOf[h], m, StampAt(file, m))
  BY DEF ScanBlock, ScanInv, TypeOK, Parts
<1>2. /\ off'[h] = 2 * n + 2 /\ nextIndex'[h] = n + 1 /\ prev'[h] = file[2 * n + 1].blk.stamp
      /\ \A g \in Handles \ {h} :
            off'[g] = off[g] /\ nextIndex'[g] = nextIndex[g] /\ prev'[g] = prev[g]
  BY <1>1 DEF ScanBlock, TypeOK, Parts
<1>3. \A g \in Handles \ {h} : pc[g] = "closed" /\ off[g] = 0 /\ nextIndex[g] = 0 /\ prev[g] = 0
  BY <1>1, OthersForgotten
<1> HIDE DEF n
<1>4. StampInv' /\ OrderInv' /\ OneActive' /\ ExistsInv'
  BY <1>1, StampsStay DEF OneActive, ExistsInv, Reading, SomeOpen
<1>5. EndInv'
  <2>1. 2 * n \in 0..Len(file) - 2 /\ IsWhole(file, 2 * n)
    BY <1>1 DEF BlockVerifies
  <2>2. QED
    BY <1>1, <1>2, <1>3, <2>1 DEF EndInv, Reading, Parts
<1>6. ScanInv'
  <2>1. prev'[h] = StampAt(file, n + 1)
    BY <1>1, <1>2 DEF StampAt, Parts
  <2>2. \A m \in 0..(n + 1) - 1 : m = n \/ m \in 0..n - 1
    BY <1>1
  <2>3. \A m \in 0..(n + 1) - 1 : BlockVerifies(file, 2 * m, KeyOf[h], m, StampAt(file, m))
    BY <1>1, <2>2
  <2>4. pc'[h] = "scan" /\ off'[h] = 2 * (n + 1) /\ off'[h] <= Len(file)
    BY <1>1, <1>2
  <2>5. QED
    BY <1>1, <1>2, <1>3, <2>1, <2>3, <2>4 DEF ScanInv, Parts
<1>7. QED
  BY <1>4, <1>5, <1>6 DEF Rest

\* kg_open ends its scan and seeks to the end of the file.
LEMMA FaultSeek ==
    ASSUME FaultInv, NEW h \in Handles, ScanEnd(h) \/ SeekEnd(h)
    PROVE  Rest'
<1> USE DEF FaultInv
<1>1. UNCHANGED <<exists, file, acked, clock, nextIndex, prev>> /\ Len(file) \in Nat /\ pc[h] # "closed"
  BY DEF ScanEnd, SeekEnd, TypeOK
<1>2. \A g \in Handles \ {h} : pc[g] = "closed" /\ off[g] = 0 /\ nextIndex[g] = 0 /\ prev[g] = 0
  BY <1>1, OthersForgotten
<1>3. StampInv' /\ OneActive' /\ ExistsInv'
  BY <1>1, StampsStay DEF OneActive, ExistsInv, Reading, ScanEnd, SeekEnd, TypeOK
<1>4. off[h] \in Nat /\ off[h] <= Len(file)
  BY DEF ScanEnd, SeekEnd, ScanInv, TypeOK
<1>5. CASE ScanEnd(h)
  <2>1. off[h] = Len(file) /\ pc[h] = "scan" /\ pc'[h] = "seek" /\ off' = off
        /\ \A g \in Handles \ {h} : pc'[g] = pc[g]
    BY <1>1, <1>4, <1>5 DEF ScanEnd, TypeOK
  <2>2. EndInv' /\ ScanInv'
    BY <1>1, <1>2, <2>1 DEF EndInv, ScanInv, Reading
  <2>3. ~SomeOpen'
    BY <1>2, <2>1 DEF SomeOpen
  <2>4. QED
    BY <1>1, <1>3, <2>2, <2>3, StampsStay DEF Rest
<1>6. CASE SeekEnd(h)
  <2>1. off'[h] = Len(file) /\ pc[h] = "seek" /\ pc'[h] = "open"
        /\ \A g \in Handles \ {h} : pc'[g] = pc[g] /\ off'[g] = off[g]
    BY <1>6 DEF SeekEnd, TypeOK
  <2>2. EndInv' /\ ScanInv'
    BY <1>1, <1>2, <2>1 DEF EndInv, ScanInv, Reading
  <2>3. OrderInv'
    BY <1>1, <2>1, ScannedInOrder DEF OrderInv, Parts
  <2>4. QED
    BY <1>3, <2>2, <2>3 DEF Rest
<1>7. QED
  BY <1>5, <1>6

\* kg_append, whole, cut short, or cut off with its process: of the new block b, n
\* units reach the end of the file.
LEMMA FaultWrites ==
    ASSUME FaultInv, NEW h \in Handles, NEW e \in Events, pc[h] = "open",
           NEW b, b = NewBlock(h, e), NEW n, NEW s, IsFront(s, b, n),
           file' = WriteAt(file, off[h], s), clock' = clock + 1,
           acked' = acked \/ (n = 2 /\ acked' = acked \cup {b})
    PROVE  /\ file' \in Seq(Contents) /\ Extends(file, file', b, n)
           /\ StampInv' /\ OrderInv'
<1>0. /\ n \in 0..2 /\ b \in Block /\ s \in Seq(Unit) /\ Len(s) = n
      /\ \A p \in 1..n : s[p] = [blk |-> b, part |-> p]
  BY DEF IsFront
<1> USE <1>0
<1>1. file' \in Seq(Contents) /\ Extends(file, file', b, n)
  <2>1. PICK g : g = file' /\ g = WriteAt(file, off[h], s)
    OBVIOUS
  <2>2. g \in Seq(Contents) /\ Extends(file, g, b, n)
    BY <2>1, WriteExtends
  <2>3. QED
    BY <2>1, <2>2
<1>2. Written(b, n)
  BY <1>1 DEF Written
<1>3. /\ b.stamp = clock + 1 /\ b.prev \in 0..clock
      /\ \A c \in acked : c.stamp = b.prev =>
            \E j \in 0..Len(file) - 2 : IsWhole(file, j) /\ file[j + 1].blk = c
  BY ChainsBack
<1>4. StampInv' /\ OrderInv'
  BY <1>1, <1>2, <1>3, StampGrows, OrderGrows
<1>5. QED
  BY <1>1, <1>4

\* kg_append writes a whole block, behind what the file holds.
LEMMA FaultAppend ==
    ASSUME FaultInv, NEW h \in Handles, NEW e \in Events, AppendBlock(h, e)
    PROVE  Rest' /\ Grows(file, file')
<1>1. PICK b \in Block : b = NewBlock(h, e)
  BY NewBlockType DEF FaultInv
<1>2. /\ pc[h] = "open" /\ pc' = pc /\ exists' = exists
      /\ clock' = clock + 1 /\ acked' = acked \cup {b} /\ b.stamp = clock + 1
  BY <1>1 DEF AppendBlock, MayAppend, NewBlock
<1>3. /\ UnitsOf(b) \in Seq(Unit) /\ Len(UnitsOf(b)) = 2 /\ 2 \in 0..2
      /\ \A p \in 1..2 : UnitsOf(b)[p] = [blk |-> b, part |-> p]
      /\ file' = WriteAt(file, off[h], UnitsOf(b))
  BY <1>1, UnitsOfType DEF Parts, AppendBlock
<1>4. file' \in Seq(Contents) /\ Extends(file, file', b, 2) /\ StampInv' /\ OrderInv'
  <2>1. IsFront(UnitsOf(b), b, 2)
    BY <1>3 DEF IsFront
  <2>2. QED
    BY <1>1, <1>2, <1>3, <2>1, FaultWrites
<1>5. \A g \in Handles \ {h} : pc[g] = "closed" /\ off[g] = 0 /\ nextIndex[g] = 0 /\ prev[g] = 0
  BY <1>2, OthersForgotten
<1>6. /\ off'[h] = Len(file) + 2 /\ prev'[h] = clock + 1
      /\ \A g \in Handles \ {h} :
            off'[g] = off[g] /\ nextIndex'[g] = nextIndex[g] /\ prev'[g] = prev[g]
  BY <1>2 DEF FaultInv, TypeOK, EndInv, AppendBlock, Parts
<1>7. /\ Len(file) \in Nat /\ Len(file') = Len(file) + 2
      /\ file'[Len(file) + 1] = [blk |-> b, part |-> 1]
      /\ file'[Len(file) + 2] = [blk |-> b, part |-> 2]
      /\ \A i \in 1..Len(file) : file'[i] = file[i]
  BY <1>4 DEF Extends, FaultInv, TypeOK
<1>8. OneActive' /\ ExistsInv'
  BY <1>2 DEF FaultInv, OneActive, ExistsInv, Reading
<1>9. EndInv'
  <2>1. Len(file) \in 0..Len(file') - 2 /\ IsWhole(file', Len(file)) /\ file'[Len(file) + 1].blk.stamp = clock + 1
    BY <1>2, <1>7 DEF IsWhole, Parts
  <2>2. QED
    BY <1>2, <1>5, <1>6, <1>7, <2>1 DEF EndInv, Reading, Parts
<1>10. ScanInv'
  BY <1>2, <1>5 DEF ScanInv
<1>11. Grows(file, file')
  BY <1>7 DEF Grows
<1>12. QED
  BY <1>4, <1>8, <1>9, <1>10, <1>11 DEF Rest

\* kg_append's write is cut short, and the context lives on.
LEMMA FaultShort ==
    ASSUME FaultInv, NEW h \in Handles, NEW e \in Events, NEW n \in 0..Parts - 1, AppendShort(h, e, n)
    PROVE  Rest' /\ Grows(file, file')
<1>1. PICK b \in Block : b = NewBlock(h, e)
  BY NewBlockType DEF FaultInv
<1>2. /\ pc[h] = "open" /\ pc' = pc /\ UNCHANGED <<exists, nextIndex, prev, acked>>
      /\ clock' = clock + 1 /\ n \in 0..2 /\ n \in 0..Parts
  BY DEF AppendShort, MayAppend, Parts
<1>3. PICK s : s = SubSeq(UnitsOf(b), 1, n)
  OBVIOUS
<1>4. /\ s \in Seq(Unit) /\ Len(s) = n
      /\ \A p \in 1..n : s[p] = [blk |-> b, part |-> p]
      /\ file' = WriteAt(file, off[h], s)
  BY <1>1, <1>2, <1>3, PrefixType DEF AppendShort
<1>5. file' \in Seq(Contents) /\ Extends(file, file', b, n) /\ StampInv' /\ OrderInv'
  <2>1. IsFront(s, b, n)
    BY <1>2, <1>4 DEF IsFront
  <2>2. QED
    BY <1>1, <1>2, <1>4, <2>1, FaultWrites
<1>6. \A g \in Handles \ {h} : pc[g] = "closed" /\ off[g] = 0 /\ nextIndex[g] = 0 /\ prev[g] = 0
  BY <1>2, OthersForgotten
<1>7. off'[h] = Len(file) + n /\ \A g \in Handles \ {h} : off'[g] = off[g]
  BY <1>2 DEF FaultInv, TypeOK, EndInv, AppendShort
<1>8. /\ Len(file) \in Nat /\ Len(file') = Len(file) + n /\ file \in Seq(Contents)
      /\ \A i \in 1..Len(file) : file'[i] = file[i]
  <2>1. file \in Seq(Contents)
    BY DEF FaultInv, TypeOK, Contents
  <2>2. Len(file) \in Nat
    BY <2>1
  <2> QED BY <1>5, <2>1, <2>2 DEF Extends
<1>9. OneActive' /\ ExistsInv'
  BY <1>2 DEF FaultInv, OneActive, ExistsInv, Reading
<1>10. EndInv'
  <2>1. prev[h] # 0 => \E i \in 0..Len(file') - 2 : IsWhole(file', i) /\ file'[i + 1].blk.stamp = prev[h]
    <3>1. SUFFICES ASSUME prev[h] # 0
                   PROVE  \E i \in 0..Len(file') - 2 : IsWhole(file', i) /\ file'[i + 1].blk.stamp = prev[h]
      OBVIOUS
    <3>2. PICK i \in 0..Len(file) - 2 : IsWhole(file, i) /\ file[i + 1].blk.stamp = prev[h]
      BY <1>2, <3>1 DEF FaultInv, EndInv, Reading, Parts
    <3>3. QED
      BY <1>2, <1>5, <1>8, <3>2, WholeLasts
  <2>2. QED
    BY <1>2, <1>6, <1>7, <1>8, <2>1 DEF EndInv, Reading, Parts
<1>11. ScanInv'
  BY <1>2, <1>6 DEF ScanInv
<1>12. Grows(file, file')
  BY <1>2, <1>8 DEF Grows
<1>13. QED
  BY <1>5, <1>9, <1>10, <1>11, <1>12 DEF Rest

\* A process dies in kg_append.
LEMMA FaultCrash ==
    ASSUME FaultInv, TypeOK', NEW h \in Handles, NEW e \in Events, NEW n \in 0..Parts, CrashInAppend(h, e, n)
    PROVE  Rest' /\ Grows(file, file')
<1>1. PICK b \in Block : b = NewBlock(h, e)
  BY NewBlockType DEF FaultInv
<1>2. pc[h] = "open" /\ UNCHANGED <<exists, acked>> /\ clock' = clock + 1 /\ n \in 0..2
  BY DEF CrashInAppend, MayAppend, Parts
<1>3. PICK s : s = SubSeq(UnitsOf(b), 1, n)
  OBVIOUS
<1>4. /\ s \in Seq(Unit) /\ Len(s) = n
      /\ \A p \in 1..n : s[p] = [blk |-> b, part |-> p]
      /\ file' = WriteAt(file, off[h], s)
  BY <1>1, <1>3, PrefixType DEF CrashInAppend
<1>5. file' \in Seq(Contents) /\ Extends(file, file', b, n) /\ StampInv' /\ OrderInv'
  <2>1. IsFront(s, b, n)
    BY <1>2, <1>4 DEF IsFront
  <2>2. QED
    BY <1>1, <1>2, <1>4, <2>1, FaultWrites
<1>6. \A g \in Handles : pc'[g] = "closed" /\ off'[g] = 0 /\ nextIndex'[g] = 0 /\ prev'[g] = 0
  BY <1>2, OthersForgotten DEF FaultInv, TypeOK, CrashInAppend, Reset
<1>7. ExistsInv'
  BY <1>2, <1>6 DEF FaultInv, ExistsInv, Reading
<1>8. Grows(file, file')
  BY <1>2, <1>5 DEF Extends, Grows, FaultInv, TypeOK
<1>9. QED
  BY <1>5, <1>6, <1>7, <1>8, AllForgotten DEF Rest

\* Parts of the file are lost, and every context with them.
LEMMA FaultPowerLoss ==
    ASSUME FaultInv, TypeOK', NEW n \in 0..Len(file), NEW lost \in SUBSET (1..n), PowerLoss(n, lost)
    PROVE  Rest'
<1>1. \A g \in Handles : pc'[g] = "closed" /\ off'[g] = 0 /\ nextIndex'[g] = 0 /\ prev'[g] = 0
  BY DEF PowerLoss
<1>2. /\ file \in Seq(Contents) /\ Len(file) \in Nat /\ n \in Nat /\ n <= Len(file)
      /\ file' = [i \in 1..n |-> IF i \in lost THEN Hole ELSE file[i]]
      /\ UNCHANGED <<exists, acked, clock>>
  BY DEF PowerLoss, FaultInv, TypeOK, Contents
<1>3. ExistsInv'
  <2>1. ~exists => n = 0
    BY <1>2 DEF FaultInv, ExistsInv
  <2>2. n = 0 => file' = <<>>
    BY <1>2
  <2>3. QED
    BY <1>1, <1>2, <2>1, <2>2 DEF ExistsInv, Reading
<1>4. \A i \in WrittenUnits' : i \in WrittenUnits /\ file'[i] = file[i]
  <2>1. Len(file') = n
    BY <1>2
  <2>2. SUFFICES ASSUME NEW i \in 1..n, file'[i] # Hole PROVE i \in WrittenUnits /\ file'[i] = file[i]
    BY <2>1 DEF WrittenUnits
  <2>3. file'[i] = file[i] /\ i \in 1..Len(file)
    BY <1>2, <2>2
  <2>4. QED
    BY <2>2, <2>3 DEF WrittenUnits
<1>5. StampInv'
  <2>1. StampInv /\ acked' = acked /\ clock' = clock
    BY <1>2 DEF FaultInv
  <2>2. \A i \in WrittenUnits' : file'[i].blk.stamp \in 1..clock'
    BY <1>4, <2>1 DEF StampInv
  <2>3. \A i, j \in WrittenUnits' : file'[i].blk.stamp = file'[j].blk.stamp => file'[i].blk = file'[j].blk
    BY <1>4, <2>1 DEF StampInv
  <2>4. \A c \in acked' : /\ c.stamp \in 1..clock' /\ c.prev < c.stamp
                          /\ \A i \in WrittenUnits' : file'[i].blk.stamp = c.stamp => file'[i].blk = c
    BY <1>4, <2>1 DEF StampInv
  <2>5. QED
    BY <2>2, <2>3, <2>4 DEF StampInv
<1>6. OrderInv'
  BY <1>1 DEF OrderInv
<1>7. QED
  BY <1>1, <1>3, <1>5, <1>6, AllForgotten DEF Rest

\* Before any process opens it the journal has the faults' invariant too.
LEMMA FaultInit == Init => FaultInv
<1> SUFFICES ASSUME Init PROVE FaultInv
  OBVIOUS
<1>1. TypeOK
  BY TypeInit
<1>2. OneActive /\ ExistsInv /\ EndInv /\ ScanInv
  BY DEF Init, OneActive, ExistsInv, EndInv, ScanInv, Reading
<1>3. StampInv
  BY DEF Init, StampInv, WrittenUnits
<1>4. OrderInv
  BY DEF Init, OrderInv
<1>5. QED
  BY <1>1, <1>2, <1>3, <1>4 DEF FaultInv

\* What a step carries over: the invariant's own parts, and the file but for a loss
\* of power or an "r+b" that failed.
FileStays == Grows(file, file') \/ PowerIsLost \/ "open_error" \in Faults

Carried == Rest' /\ FileStays

\* A step keeps the invariant and what is in the file.
LEMMA FaultStep ==
    ASSUME Exclusive, FaultInv, [Next]_vars
    PROVE  FaultInv' /\ FileStays
<1>1. TypeOK'
  BY TypeStep DEF FaultInv
<1>2. file' = file => Grows(file, file')
  BY DEF Grows, FaultInv, TypeOK
<1>3. ASSUME NEW h \in Handles, OpenExisting(h) \/ OpenMissing(h) PROVE Carried
  <2>1. file' = file
    BY <1>3 DEF OpenExisting, OpenMissing
  <2>2. QED
    BY <1>2, <1>3, <2>1, FaultOpen DEF Carried, FileStays
<1>4. ASSUME NEW h \in Handles, Create(h) PROVE Carried
  <2>1. "open_error" \notin Faults => file' = file
    BY <1>4 DEF Create, FaultInv, ExistsInv
  <2>2. QED
    BY <1>2, <1>4, <2>1, FaultCreate DEF Carried, FileStays
<1>5. ASSUME NEW h \in Handles, ScanBlock(h) PROVE Carried
  <2>1. file' = file
    BY <1>5 DEF ScanBlock
  <2>2. QED
    BY <1>1, <1>2, <1>5, <2>1, FaultScan DEF Carried, FileStays
<1>6. ASSUME NEW h \in Handles, ScanEnd(h) \/ SeekEnd(h) PROVE Carried
  <2>1. file' = file
    BY <1>6 DEF ScanEnd, SeekEnd
  <2>2. QED
    BY <1>2, <1>6, <2>1, FaultSeek DEF Carried, FileStays
<1>7. ASSUME NEW h \in Handles, ScanRefuse(h) \/ Close(h) \/ Crash(h) \/ OpenFails(h) PROVE Carried
  <2>1. /\ UNCHANGED <<exists, file, acked, clock>> /\ pc[h] # "closed"
        /\ \E r : Reset(h, r)
    BY <1>7 DEF ScanRefuse, Close, Crash, OpenFails
  <2>2. QED
    BY <1>1, <1>2, <2>1, FaultReset DEF Carried, FileStays
<1>8. ASSUME NEW h \in Handles, AppendReject(h) PROVE Carried
  <2>1. UNCHANGED <<exists, file, pc, off, nextIndex, prev, clock, acked>>
    BY <1>8 DEF AppendReject
  <2>2. Rest'
    BY <2>1, StampsStay DEF Rest, FaultInv, OneActive, ExistsInv, EndInv, ScanInv, Reading, SomeOpen
  <2>3. QED
    BY <1>2, <2>1, <2>2 DEF Carried, FileStays
<1>9. ASSUME NEW h \in Handles, NEW e \in Events, AppendBlock(h, e) PROVE Carried
  BY <1>9, FaultAppend DEF Carried, FileStays
<1>10. ASSUME NEW h \in Handles, NEW e \in Events, NEW n \in 0..Parts - 1, AppendShort(h, e, n) PROVE Carried
  BY <1>10, FaultShort DEF Carried, FileStays
<1>11. ASSUME NEW h \in Handles, NEW e \in Events, NEW n \in 0..Parts, CrashInAppend(h, e, n) PROVE Carried
  BY <1>1, <1>11, FaultCrash DEF Carried, FileStays
<1>12. ASSUME NEW n \in 0..Len(file), NEW lost \in SUBSET (1..n), PowerLoss(n, lost) PROVE Carried
  <2>1. PowerIsLost
    BY <1>12 DEF PowerIsLost
  <2>2. QED
    BY <1>1, <1>12, <2>1, FaultPowerLoss DEF Carried, FileStays
<1>13. ASSUME UNCHANGED vars PROVE Carried
  <2>1. Rest'
    BY <1>13, StampsStay DEF vars, Rest, FaultInv, OneActive, ExistsInv, EndInv, ScanInv, Reading, SomeOpen
  <2>2. Grows(file, file')
    BY <1>2, <1>13 DEF vars
  <2>3. QED
    BY <2>1, <2>2 DEF Carried, FileStays
<1>14. ASSUME NEW h \in Handles, OpenStep(h) PROVE Carried
  BY <1>4, <1>5, <1>6, <1>7, <1>14 DEF OpenStep
<1>15. ASSUME Next PROVE Carried
  BY <1>3, <1>7, <1>8, <1>9, <1>10, <1>11, <1>12, <1>14, <1>15 DEF Next
<1>16. Carried
  BY <1>13, <1>15
<1>17. QED
  BY <1>1, <1>16 DEF Carried, Rest, FaultInv

\* The invariant outlives every fault, while one process at a time has the file.
THEOREM FaultInductive == Exclusive => (Spec => []FaultInv)
<1>1. SUFFICES ASSUME Exclusive PROVE Spec => []FaultInv
  OBVIOUS
<1>2. FaultInv /\ [Next]_vars => FaultInv'
  BY <1>1, FaultStep
<1>3. QED
  BY <1>2, FaultInit, PTL DEF Spec

\* A block whose units stand in the file stands there whole, and the other way round.
LEMMA WholeStands ==
    ASSUME FaultInv, NEW b \in Block, NEW i \in 0..Len(file) - 2
    PROVE  (\A p \in 1..2 : file[i + p] = UnitsOf(b)[p]) <=> IsWhole(file, i) /\ file[i + 1].blk = b
<1>1. \A p \in 1..2 : UnitsOf(b)[p] = [blk |-> b, part |-> p]
  BY UnitsOfType DEF Parts
<1>2. ASSUME NEW p \in 1..2, file[i + p].part = p PROVE file[i + p] \in Unit
  <2>1. file \in Seq(Contents) /\ Len(file) \in Nat
    BY DEF FaultInv, TypeOK, Contents
  <2>2. i + p \in 1..Len(file)
    BY <2>1
  <2>3. file[i + p] \in Contents /\ file[i + p] # Hole
    BY <1>2, <2>1, <2>2 DEF Hole
  <2>4. QED
    BY <2>3 DEF Contents
<1>3. 1 \in 1..2 /\ 2 \in 1..2 /\ \A p \in 1..2 : p = 1 \/ p = 2
  OBVIOUS
<1>4. ASSUME \A p \in 1..2 : file[i + p] = UnitsOf(b)[p]
      PROVE  IsWhole(file, i) /\ file[i + 1].blk = b
  <2>1. \A p \in 1..2 : file[i + p] = [blk |-> b, part |-> p]
    BY <1>1, <1>4
  <2>2. \A p \in 1..2 : file[i + p].blk = b /\ file[i + p].part = p
    BY <2>1
  <2>3. QED
    BY <1>3, <2>2 DEF IsWhole, Parts
<1>5. ASSUME IsWhole(file, i), file[i + 1].blk = b
      PROVE  \A p \in 1..2 : file[i + p] = UnitsOf(b)[p]
  <2>1. SUFFICES ASSUME NEW p \in 1..2 PROVE file[i + p] = [blk |-> b, part |-> p]
    BY <1>1
  <2>2. file[i + p].blk = b /\ file[i + p].part = p
    BY <1>5 DEF IsWhole, Parts
  <2>3. file[i + p] = [blk |-> file[i + p].blk, part |-> file[i + p].part]
    BY <1>2, <2>2 DEF Unit
  <2>4. QED
    BY <2>2, <2>3
<1>6. QED
  BY <1>4, <1>5

\* Whatever was torn, and whatever a loss of power left holes in: a journal that
\* kg_open took holds, with any acknowledged block, all those it chains to.
THEOREM AcceptedUnbroken == Exclusive => (Spec => []AcceptedHasNoGap)
<1>1. SUFFICES ASSUME Exclusive PROVE Spec => []AcceptedHasNoGap
  OBVIOUS
<1>2. FaultInv => AcceptedHasNoGap
  <2>1. SUFFICES ASSUME FaultInv, SomeOpen, NEW b \in acked, NEW c \in acked, c.prev = b.stamp, InFile(file, c)
                 PROVE  InFile(file, b)
    BY DEF AcceptedHasNoGap, SomeOpen
  <2>2. b \in Block /\ c \in Block /\ Len(file) \in Nat
    BY <2>1 DEF FaultInv, TypeOK
  <2>3. PICK i \in 0..Len(file) - 2 : \A p \in 1..2 : file[i + p] = UnitsOf(c)[p]
    BY <2>1 DEF InFile, Parts
  <2>4. IsWhole(file, i) /\ file[i + 1].blk = c
    BY <2>1, <2>2, <2>3, WholeStands
  <2>5. PICK j \in 0..i - 1 : IsWhole(file, j) /\ file[j + 1].blk = b
    BY <2>1, <2>4 DEF FaultInv, OrderInv, SomeOpen, Parts
  <2>6. j \in 0..Len(file) - 2
    BY <2>2
  <2>7. \A p \in 1..2 : file[j + p] = UnitsOf(b)[p]
    BY <2>1, <2>2, <2>5, <2>6, WholeStands
  <2>8. QED
    BY <2>6, <2>7 DEF InFile, Parts
<1>3. QED
  BY <1>1, <1>2, FaultInductive, PTL

\* No step of any call changes or removes a byte of the file, whatever failed before,
\* as long as fopen "r+b" fails on a missing file only.
THEOREM Immutability == Exclusive /\ "open_error" \notin Faults => (Spec => AppendOnly)
<1>1. SUFFICES ASSUME Exclusive, "open_error" \notin Faults PROVE Spec => AppendOnly
  OBVIOUS
<1>2. FaultInv /\ [Next]_vars => [Grows(file, file') \/ PowerIsLost]_vars
  BY <1>1, FaultStep DEF FileStays
<1>3. QED
  BY <1>1, <1>2, FaultInductive, PTL DEF Spec, AppendOnly

\* kg_open returns 0 exactly on the files kg_verify_file accepts under its key.
THEOREM OpeningDecides == Exclusive => (Spec => OpenDecides)
<1>1. SUFFICES ASSUME Exclusive PROVE Spec => OpenDecides
  OBVIOUS
<1>2. ASSUME FaultInv, Next, NEW h \in Handles, pc[h] = "seek", pc'[h] = "open"
      PROVE  Verifies(file, KeyOf[h])
  <2>1. PICK n \in Nat : n = nextIndex[h]
    BY <1>2 DEF FaultInv, TypeOK
  <2>2. /\ Len(file) = 2 * n
        /\ \A m \in 0..n - 1 : BlockVerifies(file, 2 * m, KeyOf[h], m, StampAt(file, m))
    BY <1>2, <2>1 DEF FaultInv, ScanInv, Parts
  <2>3. \A m \in Slots(file) : m \in 0..n - 1
    BY <2>2 DEF Slots, Parts
  <2>4. Len(file) % 2 = 0
    BY <2>2
  <2>5. QED
    BY <2>2, <2>3, <2>4 DEF Verifies, Chained, Parts
<1>3. ASSUME FaultInv, Next, NEW h \in Handles, pc[h] = "scan", result'[h] = "error", result[h] # "error"
      PROVE  ~Verifies(file, KeyOf[h])
  <2>1. ScanRefuse(h)
    <3>1. ASSUME NEW g \in Handles, ScanRefuse(g) PROVE g = h
      BY <1>3, <3>1 DEF ScanRefuse, Reset, FaultInv, TypeOK
    <3>2. ASSUME NEW g \in Handles, AppendReject(g) \/ \E e \in Events, n \in 0..Parts - 1 : AppendShort(g, e, n)
          PROVE  FALSE
      <4>1. pc[g] = "open" /\ result' = [result EXCEPT ![g] = "error"]
        BY <3>2 DEF AppendReject, AppendShort, MayAppend
      <4>2. QED
        BY <1>3, <4>1 DEF FaultInv, TypeOK
    <3>3. ASSUME NEW g \in Handles,
                 \/ OpenExisting(g) \/ OpenMissing(g) \/ Create(g) \/ ScanBlock(g) \/ ScanEnd(g)
                 \/ SeekEnd(g) \/ Close(g) \/ Crash(g) \/ OpenFails(g)
                 \/ \E e \in Events : AppendBlock(g, e) \/ \E n \in 0..Parts : CrashInAppend(g, e, n)
          PROVE  FALSE
      <4>1. result' = result \/ \E r \in {"none", "ok", "unread"} : result' = [result EXCEPT ![g] = r]
        BY <3>3 DEF OpenExisting, OpenMissing, Create, ScanBlock, ScanEnd, SeekEnd, Close, Crash, OpenFails,
                    Reset, AppendBlock, CrashInAppend
      <4>2. QED
        BY <1>3, <4>1 DEF FaultInv, TypeOK
    <3>4. ASSUME NEW n \in 0..Len(file), NEW lost \in SUBSET (1..n), PowerLoss(n, lost) PROVE FALSE
      BY <1>3, <3>4 DEF PowerLoss
    <3>5. QED
      BY <1>3, <3>1, <3>2, <3>3, <3>4 DEF Next, OpenStep
  <2>2. PICK n \in Nat : n = nextIndex[h]
    BY <1>3 DEF FaultInv, TypeOK
  <2>3. /\ off[h] = 2 * n /\ prev[h] = StampAt(file, n) /\ Len(file) \in Nat
    BY <1>3, <2>2 DEF FaultInv, TypeOK, ScanInv, Parts
  <2>4. /\ 2 * n < Len(file)
        /\ 2 * n + 2 <= Len(file) => ~BlockVerifies(file, 2 * n, KeyOf[h], n, StampAt(file, n))
    BY <2>1, <2>2, <2>3 DEF ScanRefuse, Parts
  <2>5. CASE 2 * n + 2 <= Len(file)
    <3>1. n \in Slots(file)
      BY <2>3, <2>5 DEF Slots, Parts
    <3>2. QED
      BY <2>4, <2>5, <3>1 DEF Verifies, Chained, Parts
  <2>6. CASE ~(2 * n + 2 <= Len(file))
    <3>1. Len(file) = 2 * n + 1
      BY <2>3, <2>4, <2>6
    <3>2. Len(file) % 2 # 0
      BY <3>1
    <3>3. QED
      BY <3>2 DEF Verifies, Parts
  <2>7. QED
    BY <2>5, <2>6
<1>4. FaultInv /\ [Next]_vars =>
        [ \A h \in Handles :
          /\ pc[h] = "seek" /\ pc'[h] = "open" => Verifies(file, KeyOf[h])
          /\ pc[h] = "scan" /\ result'[h] = "error" /\ result[h] # "error"
                => ~Verifies(file, KeyOf[h]) ]_vars
  BY <1>2, <1>3
<1>5. QED
  BY <1>1, <1>4, FaultInductive, PTL DEF Spec, OpenDecides

-----------------------------------------------------------------------------
(* The genome file is a journal *)

\* The whole blocks of file f, as entries.
LogOf(f) == [n \in 1..Len(f) \div 2 |-> EntryOf(f[2 * (n - 1) + 1].blk)]

\* The positions of the blocks bs in the journal.
Positions(bs) == {b.index + 1 : b \in bs}

\* A block written whole behind n whole blocks is a new entry ...
LEMMA WholeIsEntry ==
    ASSUME NEW f \in Seq(Contents), NEW n \in Nat, Len(f) = 2 * n, NEW b \in Block,
           NEW g \in Seq(Contents), Extends(f, g, b, 2)
    PROVE  LogOf(g) = Append(LogOf(f), EntryOf(b)) /\ Len(g) % 2 = 0
<1> DEFINE S == {EntryOf(f[2 * (k - 1) + 1].blk) : k \in 1..n} \cup {EntryOf(b)}
           a == Append(LogOf(f), EntryOf(b))
<1>1. /\ Len(f) \div 2 = n /\ Len(g) = 2 * n + 2 /\ Len(g) \div 2 = n + 1
      /\ Len(g) % 2 = 0
  BY DEF Extends
<1>2. /\ LogOf(f) = [k \in 1..n |-> EntryOf(f[2 * (k - 1) + 1].blk)]
      /\ LogOf(g) = [k \in 1..n + 1 |-> EntryOf(g[2 * (k - 1) + 1].blk)]
  BY <1>1 DEF LogOf
<1>3. LogOf(f) \in Seq(S) /\ Len(LogOf(f)) = n /\ EntryOf(b) \in S
  <2>1. LogOf(f) \in [1..n -> S]
    BY <1>2
  <2>2. EntryOf(b) \in S
    OBVIOUS
  <2> HIDE DEF S
  <2> QED BY <2>1, <2>2
<1> HIDE DEF S
<1>4. \A k \in 1..n : g[2 * (k - 1) + 1] = f[2 * (k - 1) + 1]
  <2> TAKE k \in 1..n
  <2>1. 2 * (k - 1) + 1 \in 1..Len(f)
    OBVIOUS
  <2> QED BY <2>1 DEF Extends
<1>5. g[2 * ((n + 1) - 1) + 1].blk = b
  <2>1. 2 * ((n + 1) - 1) + 1 = Len(f) + 1 /\ 1 \in 1..2
    OBVIOUS
  <2>2. g[2 * ((n + 1) - 1) + 1] = [blk |-> b, part |-> 1]
    BY <2>1 DEF Extends
  <2> QED BY <2>2
<1>6. \A k \in 1..n + 1 : LogOf(g)[k] = IF k <= n THEN LogOf(f)[k] ELSE EntryOf(b)
  <2> TAKE k \in 1..n + 1
  <2>1. CASE k <= n
    <3>1. k \in 1..n
      BY <2>1
    <3> QED BY <1>2, <1>4, <2>1, <3>1
  <2>2. CASE ~(k <= n)
    <3>1. k = n + 1
      BY <2>2
    <3> QED BY <1>2, <1>5, <2>2, <3>1
  <2> QED BY <2>1, <2>2
<1>7. \A k \in 1..n + 1 : a[k] = IF k <= n THEN LogOf(f)[k] ELSE EntryOf(b)
  BY <1>3
<1>8. a \in Seq(S) /\ Len(a) = n + 1
  BY <1>3
<1> HIDE DEF a
<1>9. a = [k \in 1..n + 1 |-> a[k]]
  <2>1. a \in [1..n + 1 -> S]
    BY <1>8
  <2> QED BY <2>1
<1>10. LogOf(g) = [k \in 1..n + 1 |-> LogOf(g)[k]]
  BY <1>2
<1>11. \A k \in 1..n + 1 : LogOf(g)[k] = a[k]
  BY <1>6, <1>7
<1>12. LogOf(g) = a
  BY <1>9, <1>10, <1>11
<1>13. QED
  BY <1>1, <1>12 DEF a

\* ... and a part of one is none.
LEMMA PartIsNoEntry ==
    ASSUME NEW f \in Seq(Contents), NEW n \in Nat, Len(f) = 2 * n, NEW b \in Block,
           NEW m \in 0..1, NEW g \in Seq(Contents), Extends(f, g, b, m)
    PROVE  LogOf(g) = LogOf(f) /\ Len(g) % 2 = m
<1>1. /\ Len(f) \div 2 = n /\ Len(g) = 2 * n + m /\ Len(g) \div 2 = n
      /\ Len(g) % 2 = m
  BY DEF Extends
<1>2. /\ LogOf(f) = [k \in 1..n |-> EntryOf(f[2 * (k - 1) + 1].blk)]
      /\ LogOf(g) = [k \in 1..n |-> EntryOf(g[2 * (k - 1) + 1].blk)]
  BY <1>1 DEF LogOf
<1>3. \A k \in 1..n : g[2 * (k - 1) + 1] = f[2 * (k - 1) + 1]
  <2> TAKE k \in 1..n
  <2>1. 2 * (k - 1) + 1 \in 1..Len(f)
    OBVIOUS
  <2> QED BY <2>1 DEF Extends
<1>4. QED
  BY <1>1, <1>2, <1>3

\* An open context may record in the journal: it stands behind whole blocks, under
\* the key of the first, and its block's index is the next position.
LEMMA MayWrite ==
    ASSUME IInv, NEW h \in Handles, NEW e \in Events, pc[h] = "open",
           NEW b \in Block, b = NewBlock(h, e)
    PROVE  /\ J!MayRecord(KeyOf[h])
           /\ b.index \in Nat /\ Len(FileLog) = b.index
           /\ EntryOf(b) = [key |-> KeyOf[h], event |-> e]
           /\ file \in Seq(Contents) /\ Len(file) = 2 * b.index
<1>1. PICK n \in Nat : n = nextIndex[h]
  BY DEF IInv, TypeOK
<1>2. /\ file \in Seq(Contents) /\ Len(file) = 2 * n
      /\ n > 0 => file[1].blk.key = KeyOf[h]
  BY <1>1 DEF IInv, TypeOK, CursorInv, Reading, Parts, Contents
<1>3. b.index = n /\ b.key = KeyOf[h] /\ b.event = e
  BY <1>1 DEF NewBlock
<1>4. EntryOf(b) = [key |-> KeyOf[h], event |-> e]
  BY <1>3 DEF EntryOf
<1>5. Len(file) \div 2 = n /\ Len(file) % 2 = 0
  BY <1>2
<1>6. FileLog = [k \in 1..n |-> EntryOf(file[2 * (k - 1) + 1].blk)]
  BY <1>5 DEF FileLog, Parts
<1>7. Len(FileLog) = n
  BY <1>6
<1>8. FileLog # <<>> => FileLog[1].key = KeyOf[h]
  <2>1. SUFFICES ASSUME FileLog # <<>> PROVE FileLog[1].key = KeyOf[h]
    OBVIOUS
  <2>2. n > 0
    <3>1. n = 0 => FileLog = <<>>
      BY <1>6
    <3> QED BY <2>1, <3>1
  <2>3. 1 \in 1..n /\ 2 * (1 - 1) + 1 = 1
    BY <2>2
  <2>4. FileLog[1] = EntryOf(file[1].blk)
    BY <1>6, <2>3
  <2> QED BY <1>2, <2>2, <2>4 DEF EntryOf
<1>9. J!MayRecord(KeyOf[h])
  BY <1>5, <1>8 DEF J!MayRecord, Parts
<1>10. QED
  BY <1>2, <1>3, <1>4, <1>7, <1>9

\* Every step of the genome is a step of the abstract Journal, or none.
LEMMA JournalStep ==
    ASSUME SingleWriter, IInv, [Next]_vars
    PROVE  [J!Next]_<<FileLog, Positions(acked), Len(file) % Parts # 0>>
<1> DEFINE Stutter == file' = file /\ acked' = acked
           Step == [J!Next]_<<FileLog, Positions(acked), Len(file) % Parts # 0>>
<1>0. KeyOf \in [Handles -> Keys] /\ FileLog' = LogOf(file') /\ FileLog = LogOf(file)
  BY GenomeAssumption DEF FileLog, LogOf, Parts
<1>1. ASSUME Stutter PROVE Step
  BY <1>1 DEF FileLog
<1>2. ASSUME NEW h \in Handles,
             \/ OpenExisting(h) \/ OpenMissing(h)
             \/ ScanBlock(h) \/ ScanRefuse(h) \/ ScanEnd(h) \/ SeekEnd(h)
             \/ Close(h) \/ AppendReject(h) \/ Crash(h)
      PROVE  Stutter
  BY <1>2 DEF OpenExisting, OpenMissing, ScanBlock, ScanRefuse, ScanEnd,
              SeekEnd, Close, AppendReject, Crash
<1>3. ASSUME NEW h \in Handles, Create(h) PROVE Stutter
  BY <1>3 DEF IInv, ExistsInv, Create, SingleWriter
<1>4. ASSUME NEW h \in Handles, NEW e \in Events, AppendBlock(h, e)
      PROVE  Step
  <2>1. PICK b \in Block : b = NewBlock(h, e)
    BY NewBlockType DEF IInv
  <2>2. pc[h] = "open" /\ acked' = acked \cup {b}
    BY <1>4, <2>1 DEF AppendBlock, MayAppend
  <2>3. /\ J!MayRecord(KeyOf[h])
        /\ b.index \in Nat /\ Len(FileLog) = b.index
        /\ EntryOf(b) = [key |-> KeyOf[h], event |-> e]
        /\ file \in Seq(Contents) /\ Len(file) = 2 * b.index
    BY <2>1, <2>2, MayWrite
  <2>4. /\ UnitsOf(b) \in Seq(Unit) /\ Len(UnitsOf(b)) = 2 /\ 2 \in 0..2
        /\ \A p \in 1..2 : UnitsOf(b)[p] = [blk |-> b, part |-> p]
        /\ file' = WriteAt(file, off[h], UnitsOf(b))
    BY <1>4, <2>1, UnitsOfType DEF Parts, AppendBlock
  <2>5. file' \in Seq(Contents) /\ Extends(file, file', b, 2)
    <3>1. IsFront(UnitsOf(b), b, 2)
      BY <2>4 DEF IsFront
    <3> QED BY <2>1, <2>2, <2>4, <3>1, WriteKeepsFile
  <2>6. LogOf(file') = Append(LogOf(file), EntryOf(b)) /\ Len(file') % 2 = 0 /\ Len(file) % 2 = 0
    BY <2>3, <2>5, WholeIsEntry
  <2>7. Positions(acked)' = Positions(acked) \cup {Len(FileLog) + 1}
    BY <2>2, <2>3 DEF Positions
  <2>8. J!Record(KeyOf[h], e)
    BY <1>0, <2>3, <2>6, <2>7 DEF J!Record, Positions, Parts
  <2> QED BY <1>0, <2>8 DEF J!Next
<1>5. ASSUME NEW h \in Handles, NEW e \in Events, NEW n \in 0..Parts, CrashInAppend(h, e, n)
      PROVE  Step
  <2>1. PICK b \in Block : b = NewBlock(h, e)
    BY NewBlockType DEF IInv
  <2>2. pc[h] = "open" /\ acked' = acked /\ n \in 0..2
    BY <1>5 DEF CrashInAppend, MayAppend, Parts
  <2>3. /\ J!MayRecord(KeyOf[h])
        /\ b.index \in Nat /\ Len(FileLog) = b.index
        /\ EntryOf(b) = [key |-> KeyOf[h], event |-> e]
        /\ file \in Seq(Contents) /\ Len(file) = 2 * b.index
    BY <2>1, <2>2, MayWrite
  <2>4. PICK s : s = SubSeq(UnitsOf(b), 1, n)
    OBVIOUS
  <2>5. /\ s \in Seq(Unit) /\ Len(s) = n
        /\ \A p \in 1..n : s[p] = [blk |-> b, part |-> p]
        /\ file' = WriteAt(file, off[h], s)
    BY <1>5, <2>1, <2>4, PrefixType DEF CrashInAppend
  <2>6. file' \in Seq(Contents) /\ Extends(file, file', b, n)
    <3>1. IsFront(s, b, n)
      BY <2>2, <2>5 DEF IsFront
    <3> QED BY <2>1, <2>2, <2>5, <3>1, WriteKeepsFile
  <2>7. Len(file) % 2 = 0
    BY <2>3
  <2>8. CASE n = 2
    <3>1. LogOf(file') = Append(LogOf(file), EntryOf(b)) /\ Len(file') % 2 = 0
      BY <2>3, <2>6, <2>8, WholeIsEntry
    <3>2. J!RecordUnheard(KeyOf[h], e)
      BY <1>0, <2>2, <2>3, <2>7, <3>1 DEF J!RecordUnheard, Parts
    <3> QED BY <1>0, <3>2 DEF J!Next
  <2>9. CASE n # 2
    <3>1. n \in 0..1
      BY <2>2, <2>9
    <3>2. LogOf(file') = LogOf(file) /\ Len(file') % 2 = n
      BY <2>3, <2>6, <3>1, PartIsNoEntry
    <3>3. CASE n = 0
      BY <1>0, <2>2, <2>7, <3>2, <3>3 DEF Positions, Parts
    <3>4. CASE n = 1
      <4>1. J!Tear(KeyOf[h])
        BY <1>0, <2>2, <2>3, <3>2, <3>4 DEF J!Tear, Parts
      <4> QED BY <1>0, <4>1 DEF J!Next
    <3> QED BY <3>1, <3>3, <3>4
  <2> QED BY <2>8, <2>9
<1>6. /\ \A h \in Handles, e \in Events, n \in 0..Parts - 1 : ~AppendShort(h, e, n)
      /\ \A n \in 0..Len(file) : \A lost \in SUBSET (1..n) : ~PowerLoss(n, lost)
      /\ \A h \in Handles : ~OpenFails(h)
  BY DEF SingleWriter, AppendShort, PowerLoss, OpenFails
<1>7. ASSUME UNCHANGED vars PROVE Stutter
  BY <1>7 DEF vars
<1> HIDE DEF Stutter, Step
<1>8. Step
  BY <1>1, <1>2, <1>3, <1>4, <1>5, <1>6, <1>7 DEF Next, OpenStep
<1>9. QED
  BY <1>8 DEF Step

\* Read as entries, the genome file is the journal of module Journal: calls and
\* deaths of processes record entries, or tear one, and never change or drop any.
THEOREM GenomeIsJournal == SingleWriter => (Spec => ImplementsJournal)
<1>1. SUFFICES ASSUME SingleWriter PROVE Spec => ImplementsJournal
  OBVIOUS
<1>2. Init => J!Init
  <2>1. SUFFICES ASSUME Init PROVE J!Init
    OBVIOUS
  <2>2. file = <<>> /\ acked = {} /\ Len(file) = 0
    BY <2>1 DEF Init
  <2>3. 0 \div 2 = 0 /\ 0 % 2 = 0
    OBVIOUS
  <2>4. FileLog = <<>>
    BY <2>2, <2>3 DEF FileLog, Parts
  <2> QED BY <2>2, <2>3, <2>4 DEF J!Init, Parts
<1>3. IInv /\ [Next]_vars => [J!Next]_<<FileLog, {b.index + 1 : b \in acked}, Len(file) % Parts # 0>>
  BY <1>1, JournalStep DEF Positions
<1>4. Spec => []IInv
  BY <1>1, Inductive
<1>5. QED
  BY <1>2, <1>3, <1>4, PTL DEF Spec, ImplementsJournal, J!Spec, J!jvars
=============================================================================
