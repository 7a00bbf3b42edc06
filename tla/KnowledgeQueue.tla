--------------------------- MODULE KnowledgeQueue ---------------------------
(***************************************************************************)
(* The moderated queue of knowledge (backend/src/knowledge_queue.c), its    *)
(* command line tool (apps/kolibri_queue.c) and the pipeline that publishes *)
(* what was approved (scripts/knowledge_pipeline.sh: an export of the       *)
(* approved rows as Markdown files, then kolibri_indexer over the files).   *)
(*                                                                         *)
(* Submissions are the rows of a SQLite table, here a sequence of statuses  *)
(* indexed by id.  A process that commits a change holds the database       *)
(* exclusively for a moment, and whoever opens or reads the table then gets *)
(* SQLITE_BUSY at once, since no busy timeout is set.  Pipelines run one    *)
(* after the other, as scripts/run_autonomy.sh runs them.  An export that   *)
(* fails or dies does not keep the pipeline from indexing ("|| true"); an    *)
(* indexer that does ends the loop ("set -e"), until somebody starts it      *)
(* again.  What file operations return is not looked at, neither when the    *)
(* old files are removed nor when the new ones are written.                 *)
(***************************************************************************)
EXTENDS Integers, Sequences, FiniteSets, FiniteSetsExt

CONSTANTS
    Limit,           \* rows an export fetches at most (10000)
    MaxRows,         \* bound: submissions enqueued
    MaxModerations,  \* bound: decisions of moderators
    MaxCrashes,      \* bound: deaths of a process
    MaxFaults        \* bound: file operations that fail unnoticed

ASSUME QueueAssumption ==
    /\ Limit \in Nat \ {0}
    /\ MaxRows \in Nat
    /\ MaxModerations \in Nat
    /\ MaxCrashes \in Nat
    /\ MaxFaults \in Nat

NoChange == [row |-> 0, to |-> "pending"]

VARIABLES
    status,       \* status of each submission, by id
    change,       \* what the process that holds the database commits
    files,        \* ids whose text is in approved_dir; the name of a file has its
                  \* number in the export and its title, so that two files of one
                  \* export, or of different titles, never share a name
    published,    \* ids in index.json
    looping,      \* somebody runs the pipeline again and again
    pc,           \* where the pipeline stands
    rows,         \* what the export still has to write
    docs,         \* what the indexer has read
    exported,     \* the export of this run returned SQLITE_OK
    held,         \* history: approved ever since this run began
    barred,       \* history: not approved ever since this run began
    left,         \* history: files that this run could not remove
    lost,         \* history: texts that a file operation of this run lost
    moderations,
    crashes,
    faults

queueVars == <<status, change, moderations>>
runVars == <<pc, rows, docs, exported, looping>>
faultVars == <<left, lost, faults>>
vars == <<queueVars, runVars, files, published, held, barred, crashes, faultVars>>

Ids == 1..Len(status)
ApprovedIn(s) == {i \in 1..Len(s) : s[i] = "approved"}
Approved == ApprovedIn(status)

Init ==
    /\ status = <<>>
    /\ change = NoChange
    /\ files = {}
    /\ published = {}
    /\ pc = "idle"
    /\ rows = {}
    /\ docs = {}
    /\ exported = FALSE
    /\ looping = TRUE
    /\ held = {}
    /\ barred = {}
    /\ left = {}
    /\ lost = {}
    /\ moderations = 0
    /\ crashes = 0
    /\ faults = 0

Locked == change # NoChange

-----------------------------------------------------------------------------
\* kolibri_queue_enqueue: a row is inserted as pending.
Enqueue ==
    /\ ~Locked
    /\ Len(status) < MaxRows
    /\ change' = [row |-> Len(status) + 1, to |-> "pending"]
    /\ UNCHANGED <<status, runVars, files, published, held, barred, moderations, crashes, faultVars>>

\* kolibri_queue_moderate, of any row whatever was decided before; the tool
\* lets a moderator approve or reject, nothing else.
Moderate(i, to) ==
    /\ ~Locked
    /\ moderations < MaxModerations
    /\ change' = [row |-> i, to |-> to]
    /\ moderations' = moderations + 1
    /\ UNCHANGED <<status, runVars, files, published, held, barred, crashes, faultVars>>

\* The statement of the process that holds the database is committed.
Commit ==
    /\ Locked
    /\ status' = IF change.row > Len(status)
                 THEN Append(status, change.to)
                 ELSE [status EXCEPT ![change.row] = change.to]
    /\ change' = NoChange
    /\ held' = held \cap ApprovedIn(status')
    /\ barred' = barred \ ApprovedIn(status')
    /\ UNCHANGED <<runVars, files, published, moderations, crashes, faultVars>>

\* It dies instead, and the next process to open the database rolls it back.
RollBack ==
    /\ Locked
    /\ crashes < MaxCrashes
    /\ change' = NoChange
    /\ crashes' = crashes + 1
    /\ UNCHANGED <<status, runVars, files, published, held, barred, moderations, faultVars>>

-----------------------------------------------------------------------------
\* A file operation fails on the members of S, and nobody notices.
Failing(S) ==
    IF S = {}
    THEN UNCHANGED faults
    ELSE faults < MaxFaults /\ faults' = faults + 1

Begin(next) ==
    /\ looping
    /\ pc = "idle"
    /\ pc' = next
    /\ exported' = FALSE
    /\ held' = Approved
    /\ barred' = (1..MaxRows) \ Approved
    /\ left' = {}
    /\ lost' = {}
    /\ UNCHANGED <<queueVars, rows, docs, looping, files, published, crashes, faults>>

\* cmd_export opens the queue ...
Start == ~Locked /\ Begin("deleting")

\* ... or cannot, and the pipeline goes on with the files of an earlier run.
StartBusy == Locked /\ Begin("indexing")

\* Mutant of DeleteFiles: the files of an earlier run are left.
MutKeepFiles ==
    /\ pc = "deleting"
    /\ pc' = "fetching"
    /\ UNCHANGED <<queueVars, rows, docs, exported, looping, files, published, held, barred,
                   crashes, faultVars>>

\* delete_markdown_files, before the rows are fetched.  A directory that cannot
\* be read and a file that cannot be removed are left as they are.
DeleteFiles ==
    /\ pc = "deleting"
    /\ \E kept \in SUBSET files :
        /\ Failing(kept)
        /\ files' = kept
        /\ left' = kept
    /\ pc' = "fetching"
    /\ UNCHANGED <<queueVars, rows, docs, exported, looping, published, held, barred, crashes,
                   lost>>

\* Mutants of Fetched: the status is mixed up; it is not looked at.
MutFetchRejected == {i \in Ids : status[i] = "rejected"}
MutFetchAll == Ids

\* SELECT ... WHERE status = 'approved' ORDER BY created_at ASC LIMIT ?
Fetched == {i \in Approved : Cardinality({j \in Approved : j < i}) < Limit}

Fetch ==
    /\ pc = "fetching"
    /\ ~Locked
    /\ rows' = Fetched
    /\ pc' = "writing"
    /\ UNCHANGED <<queueVars, docs, exported, looping, files, published, held, barred, crashes,
                   faultVars>>

\* The SELECT gets SQLITE_BUSY: the export fails with the files deleted, and
\* the pipeline goes on ("|| true").
FetchBusy ==
    /\ pc = "fetching"
    /\ Locked
    /\ pc' = "indexing"
    /\ UNCHANGED <<queueVars, rows, docs, exported, looping, files, published, held, barred,
                   crashes, faultVars>>

\* The export dies, or fails for want of memory or of the directory; what it
\* wrote so far stays, and the pipeline goes on.
KillExport ==
    /\ pc \in {"deleting", "fetching", "writing"}
    /\ crashes < MaxCrashes
    /\ pc' = "indexing"
    /\ rows' = {}
    /\ crashes' = crashes + 1
    /\ UNCHANGED <<queueVars, docs, exported, looping, files, published, held, barred, faultVars>>

\* write_markdown_file, in the order of the rows, ...
WriteFile ==
    /\ pc = "writing"
    /\ rows # {}
    /\ files' = files \cup {Min(rows)}
    /\ rows' = rows \ {Min(rows)}
    /\ UNCHANGED <<queueVars, pc, docs, exported, looping, published, held, barred, crashes,
                   faultVars>>

\* ... which passes over a file that it cannot open, and does not see that what
\* it wrote was cut.  A file of the same name that was left is emptied or not.
SkipFile ==
    /\ pc = "writing"
    /\ rows # {}
    /\ Failing(rows)
    /\ files' \in {files, files \ {Min(rows)}}
    /\ rows' = rows \ {Min(rows)}
    /\ lost' = lost \cup {Min(rows)}
    /\ UNCHANGED <<queueVars, pc, docs, exported, looping, published, held, barred, crashes, left>>

EndExport ==
    /\ pc = "writing"
    /\ rows = {}
    /\ exported' = TRUE
    /\ pc' = "indexing"
    /\ UNCHANGED <<queueVars, rows, docs, looping, files, published, held, barred, crashes,
                   faultVars>>

\* kolibri_indexer build reads the files that are there, and goes on without
\* the text of a file that it cannot read, ...
ReadFiles ==
    /\ pc = "indexing"
    /\ \E unread \in SUBSET files :
        /\ Failing(unread)
        /\ docs' = files \ unread
        /\ lost' = lost \cup unread
    /\ pc' = "replacing"
    /\ UNCHANGED <<queueVars, rows, exported, looping, files, published, held, barred, crashes,
                   left>>

\* ... empties index.json (fopen "wb") ...
TruncateIndex ==
    /\ pc = "replacing"
    /\ published' = {}
    /\ pc' = "filling"
    /\ UNCHANGED <<queueVars, rows, docs, exported, looping, files, held, barred, crashes,
                   faultVars>>

\* ... and fills it, whole or, when a write fails, with a piece that nobody can
\* parse.  The run ends.
WriteIndex ==
    /\ pc = "filling"
    /\ \E cut \in {{}, docs} :
        /\ Failing(cut)
        /\ published' = docs \ cut
    /\ pc' = "idle"
    /\ docs' = {}
    /\ held' = {}
    /\ barred' = {}
    /\ left' = {}
    /\ lost' = {}
    /\ UNCHANGED <<queueVars, rows, exported, looping, files, crashes>>

\* The indexer dies or fails, or another step of the loop does: the loop ends,
\* and the files written so far stay.
EndLoop ==
    /\ looping
    /\ crashes < MaxCrashes
    /\ looping' = FALSE
    /\ pc' = "idle"
    /\ rows' = {}
    /\ docs' = {}
    /\ held' = {}
    /\ barred' = {}
    /\ left' = {}
    /\ lost' = {}
    /\ crashes' = crashes + 1
    /\ UNCHANGED <<queueVars, exported, files, published, faults>>

\* Somebody starts it again, or runs the pipeline by hand.
StartLoop ==
    /\ ~looping
    /\ looping' = TRUE
    /\ UNCHANGED <<queueVars, pc, rows, docs, exported, files, published, held, barred, crashes,
                   faultVars>>

PipelineStep ==
    \/ Start
    \/ StartBusy
    \/ DeleteFiles
    \/ Fetch
    \/ FetchBusy
    \/ WriteFile
    \/ SkipFile
    \/ EndExport
    \/ ReadFiles
    \/ TruncateIndex
    \/ WriteIndex

Next ==
    \/ Enqueue
    \/ \E i \in Ids, to \in {"approved", "rejected"} : Moderate(i, to)
    \/ Commit
    \/ RollBack
    \/ PipelineStep
    \/ KillExport
    \/ EndLoop
    \/ StartLoop

\* The loop runs the pipeline again and again as long as it is not ended, which
\* nobody need start again; a process that holds the database lets go of it.
Spec ==
    /\ Init
    /\ [][Next]_vars
    /\ WF_vars(PipelineStep)
    /\ WF_vars(Commit \/ RollBack)

-----------------------------------------------------------------------------
TypeOK ==
    /\ status \in Seq({"pending", "approved", "rejected"})
    /\ change \in [row : Nat, to : {"pending", "approved", "rejected"}]
    /\ files \subseteq Ids
    /\ published \subseteq Ids
    /\ pc \in {"idle", "deleting", "fetching", "writing", "indexing", "replacing", "filling"}
    /\ rows \subseteq Ids
    /\ docs \subseteq Ids
    /\ exported \in BOOLEAN
    /\ looping \in BOOLEAN
    /\ held \subseteq Approved
    /\ barred \subseteq 1..MaxRows
    /\ left \subseteq Ids
    /\ lost \subseteq Ids
    /\ moderations \in 0..MaxModerations
    /\ crashes \in 0..MaxCrashes
    /\ faults \in 0..MaxFaults

\* No text reaches the files or the snapshot before a moderator has decided on
\* it (docs/live_learning.md:44), whatever is moderated while an export runs
\* and wherever the export stops.
NothingUndecided == \A i \in files \cup docs \cup published : status[i] # "pending"

\* Why it holds, and with it SnapshotAgrees: a change under way is a new row, which
\* is pending, or a decision; nothing in the export's hands is pending; and what a
\* successful export has in hand is the selection it fetched.
ChangeInv ==
    Locked => \/ change = [row |-> Len(status) + 1, to |-> "pending"]
              \/ change.row \in Ids /\ change.to \in {"approved", "rejected"}

DecidedInv == NothingUndecided /\ \A i \in rows : status[i] # "pending"

\* Rows before row i that were approved at some moment of this run.
OlderApproved(i) == {j \in 1..MaxRows : j < i /\ j \notin barred}

\* S agrees with what stayed as it was since the run began: it has nothing that
\* stayed unapproved but what could not be removed, and all that stayed approved
\* but what a file operation lost and what the limit cuts off.
Agrees(S) ==
    /\ S \cap barred \subseteq left
    /\ \A i \in held \ S : i \in lost \/ Cardinality(OlderApproved(i)) >= Limit

ExportInv ==
    /\ Len(status) <= MaxRows
    /\ Locked => change.row <= MaxRows
    /\ barred \cap Approved = {}
    /\ rows # {} => pc = "writing"
    /\ exported => pc \notin {"deleting", "fetching", "writing"}
    /\ pc = "fetching" => files = left
    /\ pc = "writing" \/ (pc = "indexing" /\ exported) => Agrees(files \cup rows)
    /\ pc \in {"replacing", "filling"} /\ exported => Agrees(docs)

IInv == TypeOK /\ ChangeInv /\ DecidedInv /\ ExportInv

\* The indexer has written index.json; when writing it did not fail, it has what
\* was read.
RunEnds == pc = "filling" /\ pc' = "idle" /\ looping'
IndexWhole == faults' = faults

\* A run whose export succeeded leaves a snapshot that agrees with the queue, but
\* for what failing file operations kept in or out of it, however the queue is
\* used meanwhile: of what stayed approved since the run began it lacks only what
\* came after as many approved rows as an export fetches, and it has nothing that
\* stayed unapproved.  A decision taken during the run may be in it or not.
SnapshotAgrees == [][RunEnds /\ exported /\ IndexWhole => Agrees(published')]_vars

\* docs/developer_guide.md:144: approved submissions are exported into the
\* snapshot automatically; a run that ends has what stayed approved, whether or
\* not somebody used the queue in the meantime.
ApprovedAreExported == [][RunEnds => held \subseteq published']_vars

\* What stays approved comes back to the snapshot for good, busy databases,
\* failed exports and failed file operations notwithstanding, as long as the
\* limit suffices and the loop is kept running.
ApprovedGetPublished ==
    \A i \in 1..MaxRows :
        <>[](looping /\ i \in Approved /\ Cardinality(Approved) <= Limit) => []<>(i \in published)

\* What is rejected in the end leaves the snapshot for good, as long as the loop
\* is kept running.
RejectedGetRemoved ==
    \A i \in 1..MaxRows : <>[](looping /\ i \notin Approved) => <>[](i \notin published)

\* What the moderators decide in the end is what is published in the end.
DecisionsGetPublished == ApprovedGetPublished /\ RejectedGetRemoved
=============================================================================
