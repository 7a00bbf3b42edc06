------------------------------- MODULE Genome -------------------------------
(***************************************************************************)
(* The digital genome of backend/src/genome.c: one journal file of chained, *)
(* signed blocks, and the KolibriGenome handles (kg_open / kg_append /      *)
(* kg_close) that processes hold on it.                                    *)
(*                                                                         *)
(* A block is written as Parts units, so that a torn write leaves the file *)
(* with a fragment.  SHA-256 of a block is the block's stamp (every block  *)
(* built carries a fresh one: its nanosecond timestamp and its content);   *)
(* its HMAC is the key that signed it.  Every handle has a file position   *)
(* of its own: kg_open uses mode "r+b", not append mode.                   *)
(***************************************************************************)
EXTENDS Integers, Sequences, FiniteSets

CONSTANTS
    Handles,      \* KolibriGenome contexts that may be opened on the file
    Keys,         \* HMAC keys
    KeyOf,        \* the key each context is opened with
    Events,       \* contents kg_append accepts (event type and digit payload)
    MaxStamp,     \* bound: blocks built in one behaviour
    Exclusive,    \* TRUE: a context is opened only while no other is
    Faults        \* which of AllFaults the environment may produce

\* A write cut short; a process that dies; a machine that does; a read, a seek or
\* the creation of the file that fails; fopen "r+b" failing on a file that is there.
AllFaults == {"short_write", "crash", "power_loss", "io_error", "open_error"}

ASSUME GenomeAssumption ==
    /\ KeyOf \in [Handles -> Keys]
    /\ MaxStamp \in Nat
    /\ Exclusive \in BOOLEAN
    /\ Faults \subseteq AllFaults

VARIABLES
    exists,       \* the file is in the directory
    file,         \* its contents, a sequence of units
    pc,           \* where each context stands in kg_open
    off,          \* the position of each context's FILE, in units
    nextIndex,    \* ctx->next_index (expected_index while kg_open reads)
    prev,         \* stamp of ctx->last_block, 0 when has_last_block is 0
    result,       \* what the last call on the context returned
    clock,        \* stamps handed out so far
    acked         \* history: the blocks kg_append returned 0 for

vars == <<exists, file, pc, off, nextIndex, prev, result, clock, acked>>
ctxVars == <<pc, off, nextIndex, prev, result>>

-----------------------------------------------------------------------------
(* Blocks and the file *)

Parts == 2

Block == [index: Nat, stamp: Nat, prev: Nat, key: Keys, event: Events]

\* What a write leaves of a block: its i-th part.
Unit == [blk: Block, part: 1..Parts]

\* A byte range nobody wrote: the file system fills it with zeroes.
Hole == [part |-> 0]

UnitsOf(b) == [p \in 1..Parts |-> [blk |-> b, part |-> p]]

\* fwrite and fflush of the units s by a FILE positioned at o: the bytes there
\* are replaced, a gap before them is filled, the rest of the file stays.
WriteAt(f, o, s) ==
    [i \in 1..(IF Len(f) > o + Len(s) THEN Len(f) ELSE o + Len(s)) |->
        IF i \in o+1..o+Len(s) THEN s[i - o]
        ELSE IF i <= Len(f) THEN f[i]
        ELSE Hole]

\* The unit sequence f[o+1..o+Parts] is one block, whole and in order.
IsWhole(f, o) ==
    \A p \in 1..Parts : f[o + p].part = p /\ f[o + p].blk = f[o + 1].blk

\* Mutant of BlockVerifies: the HMAC is not compared.
MutVerifiesAnyKey(f, o, key, index, before) ==
    /\ IsWhole(f, o)
    /\ f[o + 1].blk.index = index
    /\ f[o + 1].blk.prev = before

\* parse_and_verify_block: the block read at o has the expected index, chains
\* to the expected previous block and carries the HMAC of the key.
BlockVerifies(f, o, key, index, before) ==
    /\ IsWhole(f, o)
    /\ f[o + 1].blk.index = index
    /\ f[o + 1].blk.prev = before
    /\ f[o + 1].blk.key = key

\* The stamp the n-th block of the file chains to.
StampAt(f, n) == IF n = 0 THEN 0 ELSE f[Parts * (n - 1) + 1].blk.stamp

\* The indices of the blocks that fit into the file.
Slots(f) == {n \in 0..Len(f) : Parts * (n + 1) <= Len(f)}

Chained(f, key) ==
    \A n \in Slots(f) : BlockVerifies(f, Parts * n, key, n, StampAt(f, n))

\* kg_verify_file returns 0: the file is whole blocks, each verified in turn.
Verifies(f, key) == Len(f) % Parts = 0 /\ Chained(f, key)

\* The block is in the file, whole, at the place its index names.
AtItsIndex(f, b) ==
    /\ Parts * (b.index + 1) <= Len(f)
    /\ IsWhole(f, Parts * b.index)
    /\ f[Parts * b.index + 1].blk = b

\* The block is in the file, whole, wherever it stands.
InFile(f, b) ==
    \E i \in 0..Len(f) - Parts :
        \A p \in 1..Parts : f[i + p] = UnitsOf(b)[p]

-----------------------------------------------------------------------------
Init ==
    /\ exists = FALSE
    /\ file = <<>>
    /\ pc = [h \in Handles |-> "closed"]
    /\ off = [h \in Handles |-> 0]
    /\ nextIndex = [h \in Handles |-> 0]
    /\ prev = [h \in Handles |-> 0]
    /\ result = [h \in Handles |-> "none"]
    /\ clock = 0
    /\ acked = {}

\* reset_context, and kg_close: the context forgets everything.
Reset(h, r) ==
    /\ pc' = [pc EXCEPT ![h] = "closed"]
    /\ off' = [off EXCEPT ![h] = 0]
    /\ nextIndex' = [nextIndex EXCEPT ![h] = 0]
    /\ prev' = [prev EXCEPT ![h] = 0]
    /\ result' = [result EXCEPT ![h] = r]

MayOpen(h) ==
    /\ pc[h] = "closed"
    /\ Exclusive => \A g \in Handles : pc[g] = "closed"

\* Mutant of OpenExisting: the file is always opened with "w+b".
MutOpenAlwaysCreates(h) ==
    /\ MayOpen(h)
    /\ exists
    /\ pc' = [pc EXCEPT ![h] = "create"]
    /\ result' = [result EXCEPT ![h] = "none"]
    /\ UNCHANGED <<exists, file, off, nextIndex, prev, clock, acked>>

\* kg_open, first half: fopen(path, "r+b") finds the file or does not.
OpenExisting(h) ==
    /\ MayOpen(h)
    /\ exists
    /\ pc' = [pc EXCEPT ![h] = "scan"]
    /\ result' = [result EXCEPT ![h] = "none"]
    /\ UNCHANGED <<exists, file, off, nextIndex, prev, clock, acked>>

\* fopen(path, "r+b") fails: the file is missing, or cannot be opened just now
\* (kg_open does not look at errno).
OpenMissing(h) ==
    /\ MayOpen(h)
    /\ exists => "open_error" \in Faults
    /\ pc' = [pc EXCEPT ![h] = "create"]
    /\ result' = [result EXCEPT ![h] = "none"]
    /\ UNCHANGED <<exists, file, off, nextIndex, prev, clock, acked>>

\* fopen(path, "w+b") creates the file, or truncates the one that is there.
Create(h) ==
    /\ pc[h] = "create"
    /\ exists' = TRUE
    /\ file' = <<>>
    /\ pc' = [pc EXCEPT ![h] = "scan"]
    /\ UNCHANGED <<off, nextIndex, prev, result, clock, acked>>

\* Mutant of ScanBlock: blocks are not verified, and a lost one is passed over.
MutScanPasses(h) ==
    /\ pc[h] = "scan"
    /\ off[h] + Parts <= Len(file)
    /\ off' = [off EXCEPT ![h] = @ + Parts]
    /\ nextIndex' = [nextIndex EXCEPT ![h] = @ + 1]
    /\ prev' = [prev EXCEPT ![h] = IF IsWhole(file, off[h]) THEN file[off[h] + 1].blk.stamp ELSE @]
    /\ UNCHANGED <<exists, file, pc, result, clock, acked>>

\* One turn of the reading loop: a whole block that verifies is taken over.
ScanBlock(h) ==
    /\ pc[h] = "scan"
    /\ off[h] + Parts <= Len(file)
    /\ BlockVerifies(file, off[h], KeyOf[h], nextIndex[h], prev[h])
    /\ off' = [off EXCEPT ![h] = @ + Parts]
    /\ nextIndex' = [nextIndex EXCEPT ![h] = @ + 1]
    /\ prev' = [prev EXCEPT ![h] = file[off[h] + 1].blk.stamp]
    /\ UNCHANGED <<exists, file, pc, result, clock, acked>>

\* A block that does not verify, or a remainder shorter than a block: -1.
ScanRefuse(h) ==
    /\ pc[h] = "scan"
    /\ off[h] < Len(file)
    /\ off[h] + Parts <= Len(file) =>
          ~BlockVerifies(file, off[h], KeyOf[h], nextIndex[h], prev[h])
    /\ Reset(h, "error")
    /\ UNCHANGED <<exists, file, clock, acked>>

\* fopen "w+b" fails, or ferror finds that a read did, or fseek does: -1, which
\* says nothing about the file.
OpenFails(h) ==
    /\ "io_error" \in Faults
    /\ pc[h] \in {"create", "scan", "seek"}
    /\ Reset(h, "unread")
    /\ UNCHANGED <<exists, file, clock, acked>>

\* Mutants of ScanEnd: a remainder shorter than a block is let through; the
\* end of the file is not noticed.
MutScanEndTorn(h) ==
    /\ pc[h] = "scan"
    /\ off[h] + Parts > Len(file)
    /\ pc' = [pc EXCEPT ![h] = "seek"]
    /\ UNCHANGED <<exists, file, off, nextIndex, prev, result, clock, acked>>

\* fread returns 0: the loop ends, next_index is set.
ScanEnd(h) ==
    /\ pc[h] = "scan"
    /\ off[h] >= Len(file)
    /\ pc' = [pc EXCEPT ![h] = "seek"]
    /\ UNCHANGED <<exists, file, off, nextIndex, prev, result, clock, acked>>

\* Mutants of SeekEnd: to the start of the file, or to its last block.
MutSeekStart(h) ==
    /\ pc[h] = "seek"
    /\ off' = [off EXCEPT ![h] = 0]
    /\ pc' = [pc EXCEPT ![h] = "open"]
    /\ result' = [result EXCEPT ![h] = "ok"]
    /\ UNCHANGED <<exists, file, nextIndex, prev, clock, acked>>

\* fseek(SEEK_END), and kg_open returns 0.
SeekEnd(h) ==
    /\ pc[h] = "seek"
    /\ off' = [off EXCEPT ![h] = Len(file)]
    /\ pc' = [pc EXCEPT ![h] = "open"]
    /\ result' = [result EXCEPT ![h] = "ok"]
    /\ UNCHANGED <<exists, file, nextIndex, prev, clock, acked>>

Close(h) ==
    /\ pc[h] = "open"
    /\ Reset(h, "none")
    /\ UNCHANGED <<exists, file, clock, acked>>

\* The block kg_append builds from what the context remembers.
NewBlock(h, e) ==
    [index |-> nextIndex[h], stamp |-> clock + 1, prev |-> prev[h],
     key |-> KeyOf[h], event |-> e]

MayAppend(h) == pc[h] = "open" /\ clock < MaxStamp

\* Mutant of AppendBlock: next_index is not advanced.
MutAppendForgetsIndex(h, e) ==
    /\ MayAppend(h)
    /\ file' = WriteAt(file, off[h], UnitsOf(NewBlock(h, e)))
    /\ off' = [off EXCEPT ![h] = @ + Parts]
    /\ prev' = [prev EXCEPT ![h] = clock + 1]
    /\ result' = [result EXCEPT ![h] = "ok"]
    /\ clock' = clock + 1
    /\ acked' = acked \cup {NewBlock(h, e)}
    /\ UNCHANGED <<exists, pc, nextIndex>>

\* kg_append returns 0.
AppendBlock(h, e) ==
    /\ MayAppend(h)
    /\ file' = WriteAt(file, off[h], UnitsOf(NewBlock(h, e)))
    /\ off' = [off EXCEPT ![h] = @ + Parts]
    /\ nextIndex' = [nextIndex EXCEPT ![h] = @ + 1]
    /\ prev' = [prev EXCEPT ![h] = clock + 1]
    /\ result' = [result EXCEPT ![h] = "ok"]
    /\ clock' = clock + 1
    /\ acked' = acked \cup {NewBlock(h, e)}
    /\ UNCHANGED <<exists, pc>>

\* A payload that is not digits, or a field too long: -1 before any write.
AppendReject(h) ==
    /\ pc[h] = "open"
    /\ result' = [result EXCEPT ![h] = "error"]
    /\ UNCHANGED <<exists, file, pc, off, nextIndex, prev, clock, acked>>

\* fwrite or fflush fails after n units: -1, the context keeps its index and
\* its last block, and the FILE stands after what was written.
AppendShort(h, e, n) ==
    /\ "short_write" \in Faults
    /\ MayAppend(h)
    /\ file' = WriteAt(file, off[h], SubSeq(UnitsOf(NewBlock(h, e)), 1, n))
    /\ off' = [off EXCEPT ![h] = @ + n]
    /\ result' = [result EXCEPT ![h] = "error"]
    /\ clock' = clock + 1
    /\ UNCHANGED <<exists, pc, nextIndex, prev, acked>>

\* The process dies inside kg_append; all of the block may have been written.
CrashInAppend(h, e, n) ==
    /\ "crash" \in Faults
    /\ MayAppend(h)
    /\ file' = WriteAt(file, off[h], SubSeq(UnitsOf(NewBlock(h, e)), 1, n))
    /\ clock' = clock + 1
    /\ Reset(h, "none")
    /\ UNCHANGED <<exists, acked>>

\* The process dies anywhere else.
Crash(h) ==
    /\ "crash" \in Faults
    /\ pc[h] # "closed"
    /\ Reset(h, "none")
    /\ UNCHANGED <<exists, file, clock, acked>>

\* The machine dies.  Nothing calls fsync, and what was written reaches the disk
\* in any order: of the file n units are left, the lost ones among them zeroes.
PowerLoss(n, lost) ==
    /\ "power_loss" \in Faults
    /\ file' = [i \in 1..n |-> IF i \in lost THEN Hole ELSE file[i]]
    /\ pc' = [h \in Handles |-> "closed"]
    /\ off' = [h \in Handles |-> 0]
    /\ nextIndex' = [h \in Handles |-> 0]
    /\ prev' = [h \in Handles |-> 0]
    /\ result' = [h \in Handles |-> "none"]
    /\ UNCHANGED <<exists, clock, acked>>

OpenStep(h) ==
    \/ Create(h)
    \/ ScanBlock(h)
    \/ ScanRefuse(h)
    \/ ScanEnd(h)
    \/ SeekEnd(h)

Next ==
    \/ \E h \in Handles :
          \/ OpenExisting(h)
          \/ OpenMissing(h)
          \/ OpenStep(h)
          \/ Close(h)
          \/ OpenFails(h)
          \/ AppendReject(h)
          \/ Crash(h)
          \/ \E e \in Events :
                \/ AppendBlock(h, e)
                \/ \E n \in 0..Parts - 1 : AppendShort(h, e, n)
                \/ \E n \in 0..Parts : CrashInAppend(h, e, n)
    \/ \E n \in 0..Len(file) : \E lost \in SUBSET (1..n) : PowerLoss(n, lost)

\* A process inside kg_open keeps running; nobody has to call anything.
Fairness == \A h \in Handles : WF_vars(OpenStep(h))

Spec == Init /\ [][Next]_vars /\ Fairness

-----------------------------------------------------------------------------
(* Properties *)

TypeOK ==
    /\ exists \in BOOLEAN
    /\ file \in Seq(Unit \cup {Hole})
    /\ pc \in [Handles -> {"closed", "create", "scan", "seek", "open"}]
    /\ off \in [Handles -> Nat]
    /\ nextIndex \in [Handles -> Nat]
    /\ prev \in [Handles -> Nat]
    /\ result \in [Handles -> {"none", "ok", "error", "unread"}]
    /\ clock \in Nat
    /\ acked \in SUBSET Block

\* One process at a time: whatever sequence of opens, appends, rejected appends,
\* closes and deaths, by whichever keys, the file verifies under the key of one
\* of them unless it ends in a fragment (kg_open's scan, kg_append's index and
\* prev).
JournalVerifies ==
    file # <<>> /\ Len(file) % Parts = 0 => \E k \in Keys : Verifies(file, k)

Grows(f, g) == Len(f) <= Len(g) /\ \A i \in 1..Len(f) : g[i] = f[i]

PowerIsLost == \E n \in 0..Len(file) : \E lost \in SUBSET (1..n) : PowerLoss(n, lost)

\* The journal is immutable (docs/genome_chain.md, section 1): no step of a
\* process, whatever failed before it, changes or removes a byte of the file.
AppendOnly == [][Grows(file, file') \/ PowerIsLost]_vars

\* A block kg_append returned 0 for stays in the file, whole, at the place its
\* index names, even when later calls fail or the process dies.
AckedDurable == \A b \in acked : AtItsIndex(file, b)

\* Whatever was torn or lost before, a journal that kg_open took has no gap: if a
\* block that kg_append acknowledged is in it, so is the one it chains to, and
\* stays so while the context appends, write failures included.
AcceptedHasNoGap ==
    (\E h \in Handles : pc[h] = "open") =>
        \A b, c \in acked : c.prev = b.stamp /\ InFile(file, c) => InFile(file, b)

\* Why those hold while one process at a time has the file and no write is cut
\* short: one context is active, a context past its scan stands at the end of
\* the file and remembers its last block, and the file is one chain under the
\* key of its first block, with at most a fragment behind it.
Reading(h) == pc[h] \in {"scan", "seek", "open"}

OneActive ==
    \A g, h \in Handles : pc[g] # "closed" /\ pc[h] # "closed" => g = h

ExistsInv ==
    /\ ~exists => file = <<>>
    /\ "open_error" \notin Faults => \A h \in Handles : pc[h] = "create" => ~exists
    /\ \A h \in Handles : Reading(h) => exists

FileInv ==
    /\ Chained(file, file[1].blk.key)
    /\ "crash" \notin Faults => Len(file) % Parts = 0

CursorInv ==
    \A h \in Handles :
        /\ ~Reading(h) => off[h] = 0 /\ nextIndex[h] = 0 /\ prev[h] = 0
        /\ Reading(h) =>
              /\ off[h] = Parts * nextIndex[h]
              /\ off[h] <= Len(file)
              /\ prev[h] = StampAt(file, nextIndex[h])
              /\ nextIndex[h] > 0 => file[1].blk.key = KeyOf[h]
        /\ pc[h] \in {"seek", "open"} => off[h] = Len(file)

IInv ==
    /\ TypeOK
    /\ OneActive
    /\ ExistsInv
    /\ FileInv
    /\ CursorInv
    /\ AckedDurable

\* Why an accepted journal has no gap, and kg_open decides, whatever the faults,
\* while one process at a time has the file.  No two blocks share a stamp, an open
\* context stands at the end of the file, and what its next block will chain to is
\* in it.
WrittenUnits == {i \in 1..Len(file) : file[i] # Hole}

StampInv ==
    /\ \A i \in WrittenUnits : file[i].blk.stamp \in 1..clock
    /\ \A i, j \in WrittenUnits : file[i].blk.stamp = file[j].blk.stamp => file[i].blk = file[j].blk
    /\ \A b \in acked :
          /\ b.stamp \in 1..clock /\ b.prev < b.stamp
          /\ \A i \in WrittenUnits : file[i].blk.stamp = b.stamp => file[i].blk = b

\* In a journal that kg_open took a block stands behind the one it chains to.
OrderInv ==
    (\E h \in Handles : pc[h] = "open") => \A b, c \in acked : c.prev = b.stamp =>
        \A i \in 0..Len(file) - Parts : IsWhole(file, i) /\ file[i + 1].blk = c =>
            \E j \in 0..i - 1 : IsWhole(file, j) /\ file[j + 1].blk = b

EndInv ==
    \A h \in Handles :
        /\ ~Reading(h) => off[h] = 0 /\ nextIndex[h] = 0 /\ prev[h] = 0
        /\ pc[h] = "open" => off[h] = Len(file)
        /\ Reading(h) /\ prev[h] # 0 =>
              \E i \in 0..Len(file) - Parts : IsWhole(file, i) /\ file[i + 1].blk.stamp = prev[h]

\* What kg_open has read so far verifies.
ScanInv ==
    \A h \in Handles : pc[h] \in {"scan", "seek"} =>
        /\ off[h] = Parts * nextIndex[h]
        /\ off[h] <= Len(file) /\ (pc[h] = "seek" => off[h] = Len(file))
        /\ prev[h] = StampAt(file, nextIndex[h])
        /\ \A n \in 0..nextIndex[h] - 1 : BlockVerifies(file, Parts * n, KeyOf[h], n, StampAt(file, n))

FaultInv ==
    /\ TypeOK
    /\ OneActive
    /\ ExistsInv
    /\ StampInv
    /\ OrderInv
    /\ EndInv
    /\ ScanInv

\* kg_open's incremental scan and the declarative check agree: it returns 0
\* exactly on the files kg_verify_file accepts under the same key.
OpenDecides ==
    [][ \A h \in Handles :
          /\ pc[h] = "seek" /\ pc'[h] = "open" => Verifies(file, KeyOf[h])
          /\ pc[h] = "scan" /\ result'[h] = "error" /\ result[h] # "error"
                => ~Verifies(file, KeyOf[h]) ]_vars

\* docs/genome_chain.md:31: kg_append writes its block at the end of the file, and
\* so leaves all that is in the file.
AppendsAtEnd == [][acked' # acked => Grows(file, file')]_vars

=============================================================================
