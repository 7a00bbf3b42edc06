-------------------------------- MODULE Ledger --------------------------------
(***************************************************************************)
(* core/kolibri_script/genome.py, the genome of the Python simulator: a file *)
(* of signed frames, each a header that tells the length of the body after   *)
(* it.  A frame goes through Python's buffers: where a write fails, a small  *)
(* frame's rest waits there for the next one, a large one's rest is gone.    *)
(* A frame is a sequence of cells <<frame, place>>; the HMAC makes a reader  *)
(* refuse any body that is not one whole frame's.                            *)
(***************************************************************************)
EXTENDS Integers, Sequences, FiniteSets

CONSTANTS
    FrameCells,     \* cells of a frame, header and body
    MaxFrames,      \* bound: frames appended
    MaxFaults       \* bound: failing writes and crashes

ASSUME LedgerAssumption == FrameCells \in Nat \ {0} /\ MaxFrames \in Nat /\ MaxFaults \in Nat

VARIABLES
    file,           \* cells of the file, in order
    waiting,        \* cells still in the writer's buffers
    synced,         \* how many cells fsync has put on the disk
    running,        \* a simulator has the ledger open
    appended,       \* history: kind of each frame, by its number
    acknowledged,   \* history: frames whose append returned
    faults

ledgerVars == <<file, waiting, synced, running, appended, acknowledged, faults>>

FrameOf(k) == [i \in 1..FrameCells |-> <<k, i>>]
Upto(s, n) == SubSeq(s, 1, n)
Past(s, n) == SubSeq(s, n + 1, Len(s))

LedgerInit ==
    /\ file = <<>> /\ waiting = <<>> /\ synced = 0
    /\ running = FALSE
    /\ appended = <<>> /\ acknowledged = {}
    /\ faults = 0

\* append: write, flush and fsync of one frame; any of them may fail.
Written(kind) ==
    LET frame == FrameOf(Len(appended) + 1)
        all == waiting \o frame
    IN  /\ Len(appended) < MaxFrames
        /\ appended' = Append(appended, kind)
        /\ file' = file \o all
        /\ waiting' = <<>>
        /\ synced' = Len(file')
        /\ acknowledged' = acknowledged \cup {Len(appended')}
        /\ UNCHANGED faults

NotWritten(kind) ==
    LET frame == FrameOf(Len(appended) + 1)
        all == waiting \o frame
    IN  /\ Len(appended) < MaxFrames /\ faults < MaxFaults
        /\ faults' = faults + 1
        /\ appended' = Append(appended, kind)
        /\ \E n \in 0..Len(all) :
            /\ file' = file \o Upto(all, n)
            /\ waiting' \in {Past(all, n), Past(waiting, n)}
        /\ UNCHANGED <<synced, acknowledged>>

\* Mutant of HasRecords: asks for the records of this process.
MutHasRecords == acknowledged # {} /\ running

\* has_records.
HasRecords == Len(file) > 0

\* KolibriSim.__init__: a ledger without records begins with a GENESIS frame; when
\* that cannot be written there is no simulator.
Open ==
    /\ ~running /\ waiting = <<>>
    /\ ~HasRecords
    /\ \/ Written("GENESIS") /\ running' = TRUE
       \/ NotWritten("GENESIS") /\ running' = FALSE

Reopen ==
    /\ ~running /\ waiting = <<>>
    /\ HasRecords
    /\ running' = TRUE
    /\ UNCHANGED <<file, waiting, synced, appended, acknowledged, faults>>

\* KolibriGenomeLedger.append.
AppendFrame == running /\ Written("EVENT") /\ UNCHANGED running
AppendFails == running /\ NotWritten("EVENT") /\ UNCHANGED running

\* close, or __del__: what waits is flushed, and fails perhaps.
Close ==
    /\ running \/ waiting # <<>>
    /\ running' = FALSE
    /\ waiting' = <<>>
    /\ \/ file' = file \o waiting /\ UNCHANGED faults
       \/ /\ faults < MaxFaults /\ waiting # <<>>
          /\ faults' = faults + 1
          /\ \E n \in 0..Len(waiting) - 1 : file' = file \o Upto(waiting, n)
    /\ UNCHANGED <<synced, appended, acknowledged>>

\* The process dies, or the machine: the end of the file that was never synced may
\* be missing.
CrashLedger ==
    /\ faults < MaxFaults
    /\ running \/ waiting # <<>>
    /\ faults' = faults + 1
    /\ running' = FALSE
    /\ waiting' = <<>>
    /\ \E n \in synced..Len(file) : file' = Upto(file, n)
    /\ UNCHANGED <<synced, appended, acknowledged>>

LedgerNext ==
    Open \/ Reopen \/ AppendFrame \/ AppendFails \/ Close \/ CrashLedger

LedgerSpec == LedgerInit /\ [][LedgerNext]_ledgerVars

-----------------------------------------------------------------------------
\* _iter_ledger_blocks: whole frames from the start; at the first chunk that is not
\* one it raises.
ChunkIsWhole(j) ==
    \E k \in DOMAIN appended :
        SubSeq(file, (j - 1) * FrameCells + 1, j * FrameCells) = FrameOf(k)

FramesRead ==
    LET whole == {n \in 0..(Len(file) \div FrameCells) : \A j \in 1..n : ChunkIsWhole(j)}
        count == CHOOSE n \in whole : \A m \in whole : m <= n
    IN  [j \in 1..count |-> file[j * FrameCells][1]]

ReaderRaises == Len(FramesRead) * FrameCells # Len(file)

\* Some, and not all, of the frame is in the file.
TornFrame(k) ==
    LET there == {i \in 1..FrameCells : \E p \in DOMAIN file : file[p] = <<k, i>>}
    IN  there # {} /\ there # 1..FrameCells

Kinds == {"GENESIS", "EVENT"}
CellSet == (1..MaxFrames) \X (1..FrameCells)

LedgerOK ==
    /\ file \in Seq(CellSet) /\ waiting \in Seq(CellSet)
    /\ appended \in Seq(Kinds) /\ Len(appended) <= MaxFrames
    /\ synced \in 0..Len(file)
    /\ acknowledged \subseteq DOMAIN appended
    /\ running \in BOOLEAN
    /\ faults \in 0..MaxFaults

\* Whatever writes failed and wherever a process died, a reader gets frames in the
\* order of their appends, none twice, and the first of them is the one GENESIS; a
\* frame whose append returned is missing only behind a frame torn before it; and
\* the reader complains only of a torn frame.
LedgerReadsBack ==
    LET read == FramesRead IN
    /\ \A i, j \in DOMAIN read : i < j => read[i] < read[j]
    /\ \A i \in DOMAIN read : (appended[read[i]] = "GENESIS") <=> (i = 1)
    /\ \A k \in acknowledged :
        (\A j \in 1..k : ~TornFrame(j)) => \E i \in DOMAIN read : read[i] = k
    /\ ReaderRaises => \E k \in DOMAIN appended : TornFrame(k)

-----------------------------------------------------------------------------
(* The inductive invariant, of the file and of what waits behind it.  A write that    *)
(* fails leaves the front of its frame, and so does a crash: whatever is cut off is   *)
(* cut off at the end, and a cell stands behind those of its frame that come before.  *)

Cells == file \o waiting

\* Cell a is of an earlier frame than b, or stands before it in the same.
Precedes(a, b) == a[1] < b[1] \/ (a[1] = b[1] /\ a[2] < b[2])

\* Cells in order, each frame from its first cell on, of the frames that were appended;
\* and they begin with the one frame that is a GENESIS.
Ordered(cells, kinds) ==
    /\ \A p \in DOMAIN cells : cells[p][1] \in DOMAIN kinds
    /\ \A p, q \in DOMAIN cells : p < q => Precedes(cells[p], cells[q])
    /\ \A p \in DOMAIN cells : \A t \in 0..cells[p][2] - 1 :
            p - t \in DOMAIN cells /\ cells[p - t] = <<cells[p][1], cells[p][2] - t>>
    /\ \A p \in DOMAIN cells : kinds[cells[p][1]] = "GENESIS" <=> cells[p][1] = cells[1][1]

\* A simulator has begun its ledger, and what was acknowledged is on the disk, whole.
SafeInv ==
    /\ running => file # <<>>
    /\ \A k \in acknowledged : \E p \in 1..synced : file[p] = <<k, FrameCells>>

LedgerInv == LedgerOK /\ Ordered(Cells, appended) /\ SafeInv
=============================================================================
