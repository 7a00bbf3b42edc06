------------------------------- MODULE Archiver -------------------------------
(***************************************************************************)
(* backend/src/compress.c: three stages that turn bytes into bytes, and the *)
(* archive file they are stored in.  Bytes are 0..ByteBase-1; the two       *)
(* largest mark an LZ77 match and a run.  A checksum is the data itself:     *)
(* two data with one CRC32 are not told apart.                             *)
(*                                                                         *)
(* An archive is a header, then what was added, file after file; closing it  *)
(* writes the table of entries from the end of the header on.  Its cells    *)
(* are the bytes, but for a header of either kind, which is one cell.        *)
(***************************************************************************)
EXTENDS SequencesExt

CONSTANTS
    ByteBase,       \* 256 in the code
    Threshold,      \* shortest run or match that is encoded, 4 in the code
    Window,         \* LZ77_WINDOW_SIZE
    Originals,      \* data to compress
    Filed,          \* data to put in an archive
    FileNames,
    EntryCells,     \* cells of an entry of the table
    MaxEntries,     \* KOLIBRI_ARCHIVE_MAX_ENTRIES
    MaxWriteErrors  \* bound: writes that fall short

Methods == {"MATH", "LZ77", "RLE"}
RunMark == ByteBase - 1
MatchMark == ByteBase - 2
Longest == ByteBase - 1
Failed == <<-1>>

ASSUME ArchiverAssumption ==
    /\ ByteBase \in Nat /\ Threshold \in 2..(ByteBase - 1) /\ Window \in 1..ByteBase * ByteBase
    /\ \A d \in Originals \cup Filed : d \in Seq(0..ByteBase - 1)
    /\ EntryCells \in Nat /\ MaxEntries \in Nat /\ MaxWriteErrors \in Nat

VARIABLES
    archive,        \* state of the KolibriArchive: "none", "write", "closed", "read"
    cells,          \* the archive file
    entries,        \* the table of entries, in memory
    added,          \* history: what was added, [name, data]
    got,            \* the last thing restored: [what, data]
    packed,         \* the last thing compressed outside an archive
    writeErrors

archiverVars == <<archive, cells, entries, added, got, packed, writeErrors>>

-----------------------------------------------------------------------------
(* The stages.  Each goes on through the bytes, at is where, out what it wrote. *)

Start == [at |-> 1, out |-> <<>>]
Same(b, n) == [k \in 1..n |-> b]

\* A byte that is a marker is followed by 0.
Escape(mark, b) == IF b = mark THEN <<b, 0>> ELSE <<b>>

\* compress_mathematical, decompress_mathematical: each byte's difference.
Deltas(s) == [i \in DOMAIN s |-> IF i = 1 THEN s[1] ELSE (s[i] - s[i - 1]) % ByteBase]
Undelta(s) ==
    LET byte[i \in DOMAIN s] == IF i = 1 THEN s[1] ELSE (byte[i - 1] + s[i]) % ByteBase
    IN  [i \in DOMAIN s |-> byte[i]]

\* How many bytes from j on are those from i on, up to the longest that fits a byte.
Common(s, i, j) == CHOOSE n \in 0..Longest :
    /\ \A k \in 0..n - 1 : j + k <= Len(s) /\ s[i + k] = s[j + k]
    /\ n = Longest \/ j + n > Len(s) \/ s[i + n] # s[j + n]

\* How often the byte at i follows itself, up to what fits a byte.
RunLength(s, i) == LET more == Common(s, i, i + 1) IN IF more = Longest THEN Longest ELSE more + 1

\* Mutant of EncodedRun: a marker that is no run is not escaped.
MutEncodedRun(b, n) == IF n >= Threshold THEN <<RunMark, n, b>> ELSE Same(b, n)

\* A run becomes <<mark, length, byte>>.
EncodedRun(b, n) ==
    IF n >= Threshold THEN <<RunMark, n, b>>
    ELSE IF b = RunMark THEN [k \in 1..2 * n |-> IF k % 2 = 1 THEN b ELSE 0] ELSE Same(b, n)

\* compress_rle.
RunStep(s, r) ==
    IF r.at > Len(s) THEN r
    ELSE LET n == RunLength(s, r.at)
         IN  [at |-> r.at + n, out |-> r.out \o EncodedRun(s[r.at], n)]

AsRuns(s) ==
    LET after[k \in 0..Len(s)] == IF k = 0 THEN Start ELSE RunStep(s, after[k - 1])
    IN  after[Len(s)].out

\* decompress_rle.
UnRunStep(s, r) ==
    IF r.at > Len(s) \/ r.out = Failed THEN r
    ELSE CASE s[r.at] # RunMark \/ r.at = Len(s) ->
                [at |-> r.at + 1, out |-> Append(r.out, s[r.at])]
           [] s[r.at] = RunMark /\ r.at < Len(s) /\ s[r.at + 1] = 0 ->
                [at |-> r.at + 2, out |-> Append(r.out, RunMark)]
           [] s[r.at] = RunMark /\ r.at + 1 < Len(s) /\ s[r.at + 1] # 0 ->
                [at |-> r.at + 3, out |-> r.out \o Same(s[r.at + 2], s[r.at + 1])]
           [] OTHER -> [r EXCEPT !.out = Failed]

UnRun(s) ==
    LET after[k \in 0..Len(s)] == IF k = 0 THEN Start ELSE UnRunStep(s, after[k - 1])
    IN  after[Len(s)].out

\* compress_lz77 takes the longest match in the window, the farthest of them.
Match(s, j) ==
    LET from == {i \in 1..j - 1 : j - i <= Window}
        best == CHOOSE i \in from : \A h \in from :
                    \/ Common(s, i, j) > Common(s, h, j)
                    \/ Common(s, i, j) = Common(s, h, j) /\ i <= h
    IN  IF from = {} \/ Common(s, best, j) < Threshold \/ j - best >= Window
        THEN [len |-> 0, distance |-> 0] ELSE [len |-> Common(s, best, j), distance |-> j - best]

MatchStep(s, r) ==
    IF r.at > Len(s) THEN r
    ELSE LET m == Match(s, r.at)
         IN  IF m.len = 0 THEN [at |-> r.at + 1, out |-> r.out \o Escape(MatchMark, s[r.at])]
             ELSE [at |-> r.at + m.len,
                   out |-> r.out \o <<MatchMark, m.distance \div ByteBase, m.distance % ByteBase, m.len>>]

AsMatches(s) ==
    LET after[k \in 0..Len(s)] == IF k = 0 THEN Start ELSE MatchStep(s, after[k - 1])
    IN  after[Len(s)].out

\* decompress_lz77: a match may reach into what is being copied.
Copied(out, distance, n) ==
    LET after[k \in 0..n] ==
            IF k = 0 THEN out ELSE Append(after[k - 1], after[k - 1][Len(out) + k - distance])
    IN  after[n]

UnMatchStep(s, r) ==
    LET distance == s[r.at + 1] * ByteBase + s[r.at + 2]
    IN  IF r.at > Len(s) \/ r.out = Failed THEN r
        ELSE CASE s[r.at] # MatchMark \/ r.at = Len(s) ->
                    [at |-> r.at + 1, out |-> Append(r.out, s[r.at])]
               [] s[r.at] = MatchMark /\ r.at < Len(s) /\ s[r.at + 1] = 0 ->
                    [at |-> r.at + 2, out |-> Append(r.out, MatchMark)]
               [] /\ s[r.at] = MatchMark /\ r.at + 2 < Len(s)
                  /\ s[r.at + 1] # 0 /\ distance <= Len(r.out) ->
                    [at |-> r.at + 4, out |-> Copied(r.out, distance, s[r.at + 3])]
               [] OTHER -> [r EXCEPT !.out = Failed]

UnMatch(s) ==
    LET after[k \in 0..Len(s)] == IF k = 0 THEN Start ELSE UnMatchStep(s, after[k - 1])
    IN  after[Len(s)].out

\* kolibri_compress: a stage counts as used if it wrote anything; the runs need
\* room for twice what the stages before have made of the data.
Compress(d, methods) ==
    LET a == IF "MATH" \in methods THEN Deltas(d) ELSE d
        b == IF "LZ77" \in methods THEN AsMatches(a) ELSE a
        runs == "RLE" \in methods /\ Len(b) <= Len(d)
    IN  [used |-> IF d = <<>> THEN {} ELSE (methods \ {"RLE"}) \cup (IF runs THEN {"RLE"} ELSE {}),
         bytes |-> IF runs THEN AsRuns(b) ELSE b,
         sum |-> d]

\* kolibri_decompress.
Decompress(p) ==
    LET a == IF "RLE" \in p.used THEN UnRun(p.bytes) ELSE p.bytes
        b == IF a # Failed /\ "LZ77" \in p.used THEN UnMatch(a) ELSE a
        c == IF b # Failed /\ "MATH" \in p.used THEN Undelta(b) ELSE b
    IN  IF c = p.sum THEN c ELSE Failed

-----------------------------------------------------------------------------
(* kolibri_compress and kolibri_decompress by themselves *)

ArchiverInit ==
    /\ archive = "none"
    /\ cells = <<>> /\ entries = <<>> /\ added = <<>>
    /\ got = <<>> /\ packed = <<>>
    /\ writeErrors = 0

Pack(d, methods) ==
    /\ archive = "none" /\ packed = <<>>
    /\ packed' = Compress(d, methods)
    /\ UNCHANGED <<archive, cells, entries, added, got, writeErrors>>

Unpack ==
    /\ packed # <<>> /\ got = <<>>
    /\ got' = [of |-> "packed", data |-> Decompress(packed)]
    /\ UNCHANGED <<archive, cells, entries, added, packed, writeErrors>>

-----------------------------------------------------------------------------
(* The archive *)

\* kolibri_archive_create.
CreateArchive ==
    /\ archive = "none" /\ packed = <<>>
    /\ archive' = "write"
    /\ cells' = <<"header">>
    /\ UNCHANGED <<entries, added, got, packed, writeErrors>>

Blob(p) == <<p>> \o p.bytes

\* kolibri_archive_add_file.
AddFile(name, d) ==
    LET blob == Blob(Compress(d, Methods)) IN
    /\ archive = "write" /\ Len(entries) < MaxEntries
    /\ cells' = cells \o blob
    /\ entries' = Append(entries, [name |-> name, offset |-> Len(cells) + 1, size |-> Len(blob)])
    /\ added' = Append(added, [name |-> name, data |-> d])
    /\ UNCHANGED <<archive, got, packed, writeErrors>>

\* The disk takes the first of its bytes only: no entry, but the bytes stay.
AddFileShort(d) ==
    LET blob == Blob(Compress(d, Methods)) IN
    /\ archive = "write" /\ Len(entries) < MaxEntries
    /\ writeErrors < MaxWriteErrors
    /\ writeErrors' = writeErrors + 1
    /\ \E n \in 0..Len(blob) - 1 : cells' = cells \o SubSeq(blob, 1, n)
    /\ UNCHANGED <<archive, entries, added, got, packed>>

\* kolibri_archive_close, which writes over what follows the header.
CloseArchive ==
    LET table == [k \in 1..EntryCells * Len(entries) |-> "table"] IN
    /\ archive = "write"
    /\ archive' = "closed"
    /\ cells' = <<"header">> \o table \o SubSeq(cells, Len(table) + 2, Len(cells))
    /\ UNCHANGED <<entries, added, got, packed, writeErrors>>

\* kolibri_archive_open: the table comes back as it was written.
OpenArchive ==
    /\ archive = "closed"
    /\ archive' = "read"
    /\ UNCHANGED <<cells, entries, added, got, packed, writeErrors>>

\* Mutant of EntryFor: the file added last.
MutEntryFor(name) == CHOOSE k \in DOMAIN entries :
    /\ entries[k].name = name
    /\ \A j \in k + 1..Len(entries) : entries[j].name # name

EntryFor(name) == CHOOSE k \in DOMAIN entries :
    entries[k].name = name /\ \A j \in 1..k - 1 : entries[j].name # name

\* kolibri_archive_extract_file.  Without a header of compressed data it fails.
Extract(name) ==
    LET e == entries[EntryFor(name)] IN
    /\ archive = "read"
    /\ \E k \in DOMAIN entries : entries[k].name = name
    /\ got' = [of |-> name, data |->
        IF e.offset <= 1 + EntryCells * Len(entries) THEN Failed
        ELSE Decompress([cells[e.offset] EXCEPT !.bytes =
                 SubSeq(cells, e.offset + 1, e.offset + e.size - 1)])]
    /\ UNCHANGED <<archive, cells, entries, added, packed, writeErrors>>

ArchiverNext ==
    \/ \E d \in Originals, methods \in SUBSET Methods \ {{}} : Pack(d, methods)
    \/ Unpack
    \/ CreateArchive \/ CloseArchive \/ OpenArchive
    \/ \E name \in FileNames :
        \/ \E d \in Filed : AddFile(name, d)
        \/ Extract(name)
    \/ \E d \in Filed : AddFileShort(d)

ArchiverSpec == ArchiverInit /\ [][ArchiverNext]_archiverVars

-----------------------------------------------------------------------------
Bytes == Seq(0..ByteBase - 1)

ArchiverOK ==
    /\ archive \in {"none", "write", "closed", "read"}
    /\ entries \in Seq([name : FileNames, offset : Nat, size : Nat])
    /\ added \in Seq([name : FileNames, data : Filed])
    /\ Len(entries) = Len(added) /\ Len(entries) <= MaxEntries
    /\ packed # <<>> => packed.used \subseteq Methods /\ packed.bytes \in Bytes
    /\ got # <<>> => got.data = Failed \/ got.data \in Bytes
    /\ writeErrors \in 0..MaxWriteErrors

\* A match nearer than ByteBase is written with a first byte of 0, which reads as
\* an escaped marker.
NearMatch(s) == \E j \in DOMAIN s : Match(s, j).len > 0 /\ Match(s, j).distance < ByteBase

Staged(p) == IF "MATH" \in p.used THEN Deltas(p.sum) ELSE p.sum

\* What is compressed by any of the methods comes back the same, whatever marker
\* bytes it holds, unless it has a near match.
UnpacksWhatWasPacked ==
    got # <<>> /\ packed # <<>> =>
        got.data = packed.sum \/ ("LZ77" \in packed.used /\ NearMatch(Staged(packed)))

\* A file taken out of an archive is the first that was added by that name, though
\* the table is written over the files and some writes fell short: other data never
\* come for it.  Where nothing comes, the table or a near match is why; that the table
\* is, is what ExtractionGivesBack is about.
ExtractsWhatWasAdded ==
    got # <<>> /\ archive = "read" =>
        LET k == CHOOSE k \in DOMAIN added :
                    added[k].name = got.of /\ \A j \in 1..k - 1 : added[j].name # got.of
        IN  \/ got.data = added[k].data
            \/ got.data = Failed /\ (NearMatch(Deltas(added[k].data))
                                     \/ entries[k].offset <= 1 + EntryCells * Len(entries))

RestoresWhatWasStored == UnpacksWhatWasPacked /\ ExtractsWhatWasAdded

\* An archive has a header before it has files, and nothing is compressed beside it.
PhasesInv ==
    /\ archive = "none" => cells = <<>> /\ entries = <<>> /\ added = <<>>
    /\ archive # "none" => packed = <<>> /\ Len(cells) > 0
    /\ archive # "read" /\ packed = <<>> => got = <<>>

\* What was compressed by itself is some original's.
PackedInv ==
    packed # <<>> =>
        /\ packed.sum \in Originals
        /\ \E methods \in SUBSET Methods : packed = Compress(packed.sum, methods)

\* Each file is where its entry says, but for those that the table was written over.
StoredInv == \A k \in DOMAIN entries :
    LET e == entries[k]
        blob == Blob(Compress(added[k].data, Methods))
    IN  /\ e.name = added[k].name /\ e.offset > 1 /\ e.size = Len(blob)
        /\ archive = "write" \/ e.offset > 1 + EntryCells * Len(entries) =>
                /\ e.offset + e.size - 1 <= Len(cells)
                /\ \A i \in 1..e.size : cells[e.offset + i - 1] = blob[i]

ArchiverInv == ArchiverOK /\ PhasesInv /\ PackedInv /\ StoredInv /\ RestoresWhatWasStored

\* Decompression reverses compression (docs/archiver.md, tests/test_compress.c).
DecompressionReverses == got # <<>> /\ packed # <<>> => got.data = packed.sum

\* What was added to an archive can be extracted when it has been closed and opened again
\* (docs/archiver.md, Archive Operations; tests/test_compress.c, test_archive_operations).
ExtractionGivesBack ==
    got # <<>> /\ archive = "read" =>
        \E k \in DOMAIN added : added[k] = [name |-> got.of, data |-> got.data]
=============================================================================
