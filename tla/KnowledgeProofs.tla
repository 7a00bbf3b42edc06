--------------------------- MODULE KnowledgeProofs ---------------------------
(***************************************************************************)
(* Proofs about KnowledgeQueue, for every limit of rows and however many    *)
(* submissions, decisions, deaths and failing file operations there are;    *)
(* about KnowledgeServer, for all requests and servers; and about           *)
(* KnowledgeSearch, for all scores and every way to round them.             *)
(***************************************************************************)
EXTENDS KnowledgeQueue, KnowledgeServer, Extremes, FiniteSetTheorems, SequenceTheorems

Statuses == {"pending", "approved", "rejected"}

-----------------------------------------------------------------------------
(* The selection of an export *)

\* What is approved and not fetched comes after as many approved rows as an
\* export fetches.
LEMMA FetchedUpToLimit ==
    ASSUME TypeOK, ExportInv, NEW i \in Approved, i \notin Fetched
    PROVE  Cardinality(OlderApproved(i)) >= Limit
  <1> DEFINE older == {j \in Approved : j < i}
  <1>1. Len(status) \in Nat /\ Approved \in SUBSET (1..Len(status)) /\ Limit \in Nat
    BY QueueAssumption DEF TypeOK, Approved, ApprovedIn
  <1>2. Approved \in SUBSET (1..MaxRows) /\ MaxRows \in Nat
    BY <1>1, QueueAssumption DEF ExportInv
  <1>3. older \in SUBSET OlderApproved(i)
    BY <1>2 DEF ExportInv, OlderApproved
  <1>4. IsFiniteSet(OlderApproved(i))
    <2>1. OlderApproved(i) \in SUBSET (1..MaxRows) /\ IsFiniteSet(1..MaxRows)
      BY <1>2, FS_Interval DEF OlderApproved
    <2> QED BY <2>1, FS_Subset
  <1>5. /\ Cardinality(older) \in Nat /\ Cardinality(OlderApproved(i)) \in Nat
        /\ Cardinality(older) <= Cardinality(OlderApproved(i))
    <2>1. IsFiniteSet(older) /\ Cardinality(older) <= Cardinality(OlderApproved(i))
      BY <1>3, <1>4, FS_Subset
    <2> QED BY <1>4, <2>1, FS_CardinalityType
  <1>6. ~(Cardinality(older) < Limit)
    BY DEF Fetched
  <1> HIDE DEF older
  <1> QED BY <1>1, <1>5, <1>6

\* Of fewer rows that stayed unapproved, and as many that stayed approved or
\* fewer, a selection agrees with the rest as before.
LEMMA AgreesLater ==
    ASSUME TypeOK, NEW S, Agrees(S), held' \subseteq held, barred' \subseteq barred,
           left' = left, lost' = lost
    PROVE  Agrees(S)'
  <1>1. ASSUME NEW i \in held' \ S, i \notin lost'
        PROVE  Cardinality(OlderApproved(i)') >= Limit
    <2>1. MaxRows \in Nat /\ Limit \in Nat
      BY QueueAssumption
    <2>2. Cardinality(OlderApproved(i)) >= Limit
      BY <1>1 DEF Agrees
    <2>3. OlderApproved(i) \in SUBSET OlderApproved(i)'
      BY DEF OlderApproved
    <2>4. IsFiniteSet(OlderApproved(i)')
      <3>1. OlderApproved(i)' \in SUBSET (1..MaxRows) /\ IsFiniteSet(1..MaxRows)
        BY <2>1, FS_Interval DEF OlderApproved
      <3> QED BY <3>1, FS_Subset
    <2>5. /\ Cardinality(OlderApproved(i)) \in Nat /\ Cardinality(OlderApproved(i)') \in Nat
          /\ Cardinality(OlderApproved(i)) <= Cardinality(OlderApproved(i)')
      <3>1. /\ IsFiniteSet(OlderApproved(i))
            /\ Cardinality(OlderApproved(i)) <= Cardinality(OlderApproved(i)')
        BY <2>3, <2>4, FS_Subset
      <3> QED BY <2>4, <3>1, FS_CardinalityType
    <2> QED BY <2>1, <2>2, <2>5
  <1>2. S \cap barred' \subseteq left'
    BY DEF Agrees
  <1> QED BY <1>1, <1>2 DEF Agrees

-----------------------------------------------------------------------------
(* The rows *)

\* A row is enqueued, decided or left: no id is lost, and a row that is not
\* pending never becomes so again.
LEMMA CommitKeepsRows ==
    ASSUME TypeOK, ChangeInv, Commit
    PROVE  /\ status' \in Seq(Statuses)
           /\ Len(status) <= Len(status')
           /\ \A i \in Ids : status[i] # "pending" => status'[i] # "pending"
  <1>1. status \in Seq(Statuses)
    BY DEF TypeOK, Statuses
  <1>2. CASE change = [row |-> Len(status) + 1, to |-> "pending"]
    <2>1. status' = Append(status, "pending")
      BY <1>1, <1>2 DEF Commit
    <2> QED BY <1>1, <2>1 DEF Ids, Statuses
  <1>3. CASE change.row \in Ids /\ change.to \in {"approved", "rejected"}
    <2>1. status' = [status EXCEPT ![change.row] = change.to]
      BY <1>1, <1>3 DEF Commit, Ids
    <2> QED BY <1>1, <1>3, <2>1 DEF Ids, Statuses
  <1> QED BY <1>2, <1>3 DEF ChangeInv, Commit

\* What a run has in hand agrees with fewer rows when some are decided anew.
LEMMA CommitOK == IInv /\ Commit => IInv'
  <1> SUFFICES ASSUME IInv, Commit PROVE IInv'
    OBVIOUS
  <1>1. /\ status' \in Seq(Statuses)
        /\ Len(status) <= Len(status')
        /\ \A i \in Ids : status[i] # "pending" => status'[i] # "pending"
    BY CommitKeepsRows DEF IInv
  <1>2. Ids \subseteq Ids'
    BY <1>1 DEF IInv, TypeOK, Ids
  <1>3. TypeOK'
    BY <1>1, <1>2 DEF IInv, TypeOK, Commit, runVars, faultVars, Statuses, NoChange, Approved
  <1>4. ChangeInv'
    BY DEF Commit, ChangeInv, Locked
  <1>5. DecidedInv'
    BY <1>1 DEF IInv, TypeOK, DecidedInv, NothingUndecided, Commit, runVars
  <1>6. ExportInv'
    <2>1. Len(status') <= MaxRows
      <3>1. CASE change = [row |-> Len(status) + 1, to |-> "pending"]
        BY <1>1, <3>1 DEF Commit, IInv, ExportInv, TypeOK
      <3>2. CASE change.row \in Ids
        BY <1>1, <3>2 DEF Commit, IInv, ExportInv, TypeOK, Ids
      <3> QED BY <3>1, <3>2 DEF IInv, ChangeInv, Commit
    <2>2. ~Locked' /\ barred' \cap Approved' = {}
      BY DEF Commit, Locked, Approved
    <2>3. held' \subseteq held /\ barred' \subseteq barred /\ left' = left /\ lost' = lost
      BY DEF Commit, faultVars
    <2>4. UNCHANGED <<pc, rows, docs, exported, files, left>>
      BY DEF Commit, runVars, faultVars
    <2>5. ASSUME NEW S, Agrees(S) PROVE Agrees(S)'
      BY <2>3, <2>5, AgreesLater DEF IInv
    <2>6. pc = "writing" \/ (pc = "indexing" /\ exported) => Agrees(files \cup rows)'
      BY <2>4, <2>5 DEF IInv, ExportInv
    <2>7. pc \in {"replacing", "filling"} /\ exported => Agrees(docs)'
      BY <2>4, <2>5 DEF IInv, ExportInv
    <2> QED BY <2>1, <2>2, <2>4, <2>6, <2>7 DEF IInv, ExportInv, Agrees
  <1> QED BY <1>3, <1>4, <1>5, <1>6 DEF IInv

\* Submitting, moderating and rolling back keep the invariant.
LEMMA RowStepsOK ==
    IInv /\ (Enqueue \/ RollBack \/ \E i \in Ids, to \in {"approved", "rejected"} : Moderate(i, to))
        => IInv'
  <1> SUFFICES ASSUME IInv,
                      Enqueue \/ RollBack \/ \E i \in Ids, to \in {"approved", "rejected"} : Moderate(i, to)
               PROVE  IInv'
    OBVIOUS
  <1>1. /\ UNCHANGED <<status, runVars, files, published, held, barred, faultVars>>
        /\ moderations' \in 0..MaxModerations /\ crashes' \in 0..MaxCrashes
    BY QueueAssumption DEF Enqueue, RollBack, Moderate, IInv, TypeOK
  <1>2. TypeOK'
    <2>1. Len(status) + 1 \in Nat /\ \A i \in Ids : i \in Nat
      BY DEF IInv, TypeOK, Ids
    <2>2. change' \in [row : Nat, to : Statuses]
      BY <2>1 DEF Enqueue, RollBack, Moderate, NoChange, Statuses
    <2> QED BY <1>1, <2>2 DEF IInv, TypeOK, runVars, faultVars, Ids, Approved, Statuses
  <1>3. ChangeInv'
    BY <1>1 DEF Enqueue, RollBack, Moderate, ChangeInv, Locked, Ids
  <1>4. DecidedInv'
    BY <1>1 DEF IInv, DecidedInv, NothingUndecided, runVars
  <1>5. ExportInv'
    <2>1. Locked' => change'.row <= MaxRows
      BY QueueAssumption
      DEF Enqueue, RollBack, Moderate, Locked, IInv, TypeOK, ExportInv, Ids, ApprovedIn
    <2>2. /\ UNCHANGED <<pc, rows, docs, exported, files, left, lost, held, barred>>
          /\ UNCHANGED status
      BY <1>1 DEF runVars, faultVars
    <2>3. ASSUME NEW S, Agrees(S) PROVE Agrees(S)'
      BY <2>2, <2>3 DEF Agrees, OlderApproved
    <2>4. pc = "writing" \/ (pc = "indexing" /\ exported) => Agrees(files \cup rows)'
      BY <2>2, <2>3 DEF IInv, ExportInv
    <2>5. pc \in {"replacing", "filling"} /\ exported => Agrees(docs)'
      BY <2>2, <2>3 DEF IInv, ExportInv
    <2> QED BY <2>1, <2>2, <2>4, <2>5 DEF IInv, ExportInv, Agrees, Approved
  <1> QED BY <1>2, <1>3, <1>4, <1>5 DEF IInv

-----------------------------------------------------------------------------
(* The pipeline *)

\* What the pipeline does and what is done to it.
RunStep == PipelineStep \/ KillExport \/ EndLoop \/ StartLoop

\* Whatever a step of the pipeline does to its own state, the rows are as before.
LEMMA PipelineLeavesRows ==
    ASSUME RunStep
    PROVE  UNCHANGED <<status, change, moderations>>
  BY DEF RunStep, PipelineStep, KillExport, EndLoop, StartLoop, Start, StartBusy, Begin,
         DeleteFiles, Fetch, FetchBusy, WriteFile, SkipFile, EndExport, ReadFiles,
         TruncateIndex, WriteIndex, queueVars

\* An operation that fails is counted.
LEMMA FaultCounted ==
    ASSUME TypeOK, NEW S, Failing(S)
    PROVE  faults' \in 0..MaxFaults
  BY QueueAssumption DEF TypeOK, Failing

\* The file written next is one of those to be written.
LEMMA NextFile ==
    ASSUME TypeOK, rows # {}
    PROVE  Min(rows) \in rows
  <1>1. rows \in SUBSET Nat
    BY DEF TypeOK, Ids
  <1> QED BY <1>1, MinIsLeast

\* The pipeline keeps the types, and so does its death.
LEMMA PipelineTypeOK == TypeOK /\ RunStep => TypeOK'
  <1> SUFFICES ASSUME TypeOK, RunStep PROVE TypeOK'
    OBVIOUS
  <1> USE DEF TypeOK, queueVars, runVars, faultVars
  <1>0. Ids' = Ids /\ Approved' = Approved /\ Approved \subseteq Ids
    BY PipelineLeavesRows DEF Ids, Approved, ApprovedIn
  <1>1. ASSUME NEW next \in {"deleting", "indexing"}, Begin(next) PROVE TypeOK'
    BY <1>0, <1>1 DEF Begin
  <1>2. CASE DeleteFiles
    <2>1. PICK kept \in SUBSET files : Failing(kept) /\ files' = kept /\ left' = kept
      BY <1>2 DEF DeleteFiles
    <2>2. faults' \in 0..MaxFaults
      BY <2>1, FaultCounted
    <2> QED BY <1>0, <1>2, <2>1, <2>2 DEF DeleteFiles
  <1>3. CASE Fetch
    BY <1>0, <1>3 DEF Fetch, Fetched
  <1>4. CASE FetchBusy
    BY <1>0, <1>4 DEF FetchBusy
  <1>5. CASE WriteFile
    BY <1>0, <1>5, NextFile DEF WriteFile
  <1>6. CASE SkipFile
    <2>1. faults' \in 0..MaxFaults
      BY <1>6, FaultCounted DEF SkipFile
    <2> QED BY <1>0, <1>6, <2>1, NextFile DEF SkipFile
  <1>7. CASE EndExport
    BY <1>0, <1>7 DEF EndExport
  <1>8. CASE ReadFiles
    <2>1. PICK unread \in SUBSET files :
              Failing(unread) /\ docs' = files \ unread /\ lost' = lost \cup unread
      BY <1>8 DEF ReadFiles
    <2>2. faults' \in 0..MaxFaults
      BY <2>1, FaultCounted
    <2> QED BY <1>0, <1>8, <2>1, <2>2 DEF ReadFiles
  <1>9. CASE TruncateIndex
    BY <1>0, <1>9 DEF TruncateIndex
  <1>10. CASE WriteIndex
    <2>1. PICK cut \in {{}, docs} : Failing(cut) /\ published' = docs \ cut
      BY <1>10 DEF WriteIndex
    <2>2. faults' \in 0..MaxFaults
      BY <2>1, FaultCounted
    <2> QED BY <1>0, <1>10, <2>1, <2>2 DEF WriteIndex
  <1>11. CASE KillExport
    BY <1>0, <1>11, QueueAssumption DEF KillExport
  <1>12. CASE EndLoop
    <2>1. crashes' \in 0..MaxCrashes
      BY <1>12, QueueAssumption DEF EndLoop
    <2> QED BY <1>0, <1>12, <2>1 DEF EndLoop
  <1>13. CASE StartLoop
    BY <1>0, <1>13 DEF StartLoop
  <1> QED BY <1>1, <1>2, <1>3, <1>4, <1>5, <1>6, <1>7, <1>8, <1>9, <1>10, <1>11, <1>12, <1>13
          DEF RunStep, PipelineStep, Start, StartBusy

\* Only approved rows are fetched, and nothing else comes into the files.
LEMMA PipelineDecided == TypeOK /\ DecidedInv /\ RunStep => DecidedInv'
  <1> SUFFICES ASSUME TypeOK, DecidedInv, RunStep PROVE DecidedInv'
    OBVIOUS
  <1>1. status' = status
    BY PipelineLeavesRows
  <1>2. \A i \in files' \cup docs' \cup published' \cup rows' :
            i \in files \cup docs \cup published \cup rows \cup Fetched
    <2>1. CASE WriteFile
      BY <2>1, NextFile DEF WriteFile
    <2>2. CASE ~WriteFile
      BY <2>2 DEF RunStep, PipelineStep, KillExport, EndLoop, StartLoop, Start, StartBusy,
                  Begin, DeleteFiles, Fetch, FetchBusy, SkipFile, EndExport, ReadFiles,
                  TruncateIndex, WriteIndex, runVars
    <2> QED BY <2>1, <2>2
  <1>3. \A i \in Fetched : status[i] = "approved"
    BY DEF Fetched, Approved, ApprovedIn
  <1> QED BY <1>1, <1>2, <1>3 DEF DecidedInv, NothingUndecided

\* The selection agrees with what stayed as it was when it is fetched, and is
\* carried on but for what file operations lose.
LEMMA PipelineExport == TypeOK /\ ExportInv /\ RunStep => ExportInv'
  <1> SUFFICES ASSUME TypeOK, ExportInv, RunStep PROVE ExportInv'
    OBVIOUS
  <1>0. Approved' = Approved /\ UNCHANGED <<status, change>> /\ (Locked' <=> Locked)
    BY PipelineLeavesRows DEF Approved, Locked
  <1> USE DEF queueVars, runVars, faultVars
  <1>a. ASSUME NEW S, Agrees(S), UNCHANGED <<held, barred, left, lost>> PROVE Agrees(S)'
    BY <1>a DEF Agrees, OlderApproved
  <1>1. ASSUME NEW next \in {"deleting", "indexing"}, Begin(next) PROVE ExportInv'
    BY <1>0, <1>1 DEF Begin, ExportInv
  <1>2. CASE DeleteFiles
    BY <1>0, <1>2 DEF DeleteFiles, ExportInv
  <1>3. CASE Fetch
    <2>1. Agrees(files \cup Fetched)
      <3>1. Fetched \subseteq Approved /\ held \subseteq Approved
        BY DEF Fetched, TypeOK
      <3>2. files = left /\ barred \cap Approved = {}
        BY <1>3 DEF Fetch, ExportInv
      <3>3. \A i \in held \ (files \cup Fetched) : Cardinality(OlderApproved(i)) >= Limit
        BY <3>1, FetchedUpToLimit
      <3> QED BY <3>1, <3>2, <3>3 DEF Agrees
    <2>2. Agrees(files \cup rows)'
      BY <1>3, <1>a, <2>1 DEF Fetch
    <2> QED BY <1>0, <1>3, <2>2 DEF Fetch, ExportInv
  <1>4. CASE FetchBusy
    BY <1>0, <1>4 DEF FetchBusy, ExportInv
  <1>5. CASE WriteFile
    <2>1. files' \cup rows' = files \cup rows
      BY <1>5, NextFile DEF WriteFile
    <2>2. Agrees(files \cup rows)'
      BY <1>5, <1>a, <2>1 DEF WriteFile, ExportInv
    <2> QED BY <1>0, <1>5, <2>2 DEF WriteFile, ExportInv
  <1>6. CASE SkipFile
    <2>1. Agrees(files \cup rows)
      BY <1>6 DEF SkipFile, ExportInv
    <2>2. /\ files' \cup rows' \subseteq files \cup rows
          /\ (files \cup rows) \ {Min(rows)} \subseteq files' \cup rows'
      BY <1>6 DEF SkipFile
    <2>3. UNCHANGED <<held, barred, left>> /\ lost' = lost \cup {Min(rows)}
      BY <1>6 DEF SkipFile
    <2>4. \A i : OlderApproved(i)' = OlderApproved(i)
      BY <2>3 DEF OlderApproved
    <2>5. Agrees(files \cup rows)'
      BY <2>1, <2>2, <2>3, <2>4 DEF Agrees
    <2> QED BY <1>0, <1>6, <2>5 DEF SkipFile, ExportInv
  <1>7. CASE EndExport
    <2>1. Agrees(files \cup rows)'
      BY <1>7, <1>a DEF EndExport, ExportInv
    <2> QED BY <1>0, <1>7, <2>1 DEF EndExport, ExportInv, Agrees
  <1>8. CASE ReadFiles
    <2>1. PICK unread \in SUBSET files : docs' = files \ unread /\ lost' = lost \cup unread
      BY <1>8 DEF ReadFiles
    <2>2. UNCHANGED <<held, barred, left, exported>> /\ pc' = "replacing" /\ rows' = rows
      BY <1>8 DEF ReadFiles
    <2>3. \A i : OlderApproved(i)' = OlderApproved(i)
      BY <2>2 DEF OlderApproved
    <2>4. rows = {} /\ (exported => Agrees(files))
      <3>1. rows = {}
        BY <1>8 DEF ReadFiles, ExportInv
      <3>2. files \cup rows = files
        BY <3>1
      <3> QED BY <1>8, <3>1, <3>2 DEF ReadFiles, ExportInv
    <2>5. exported => Agrees(docs)'
      BY <2>1, <2>2, <2>3, <2>4 DEF Agrees
    <2> QED BY <1>0, <1>8, <2>2, <2>4, <2>5 DEF ReadFiles, ExportInv
  <1>9. CASE TruncateIndex
    <2>1. exported => Agrees(docs)'
      BY <1>9, <1>a DEF TruncateIndex, ExportInv
    <2> QED BY <1>0, <1>9, <2>1 DEF TruncateIndex, ExportInv, Agrees
  <1>10. CASE WriteIndex
    BY <1>0, <1>10 DEF WriteIndex, ExportInv
  <1>11. CASE KillExport
    BY <1>0, <1>11 DEF KillExport, ExportInv
  <1>12. CASE EndLoop
    BY <1>0, <1>12 DEF EndLoop, ExportInv
  <1>13. CASE StartLoop
    <2>1. pc = "writing" \/ (pc = "indexing" /\ exported) => Agrees(files \cup rows)'
      BY <1>13, <1>a DEF StartLoop, ExportInv
    <2>2. pc \in {"replacing", "filling"} /\ exported => Agrees(docs)'
      BY <1>13, <1>a DEF StartLoop, ExportInv
    <2> QED BY <1>0, <1>13, <2>1, <2>2 DEF StartLoop, ExportInv, Agrees
  <1> QED BY <1>1, <1>2, <1>3, <1>4, <1>5, <1>6, <1>7, <1>8, <1>9, <1>10, <1>11, <1>12, <1>13
          DEF RunStep, PipelineStep, Start, StartBusy

\* Every step keeps the invariant, ...
LEMMA InvariantStep == IInv /\ [Next]_vars => IInv'
  <1> SUFFICES ASSUME IInv, [Next]_vars PROVE IInv'
    OBVIOUS
  <1>1. CASE RunStep
    <2>1. ChangeInv'
      BY <1>1, PipelineLeavesRows DEF IInv, ChangeInv, Locked, Ids
    <2> QED BY <1>1, <2>1, PipelineTypeOK, PipelineDecided, PipelineExport DEF IInv
  <1>2. CASE Commit
    BY <1>2, CommitOK
  <1>3. CASE Enqueue \/ RollBack
    BY <1>3, RowStepsOK
  <1>4. ASSUME NEW i \in Ids, NEW to \in {"approved", "rejected"}, Moderate(i, to)
        PROVE  IInv'
    BY <1>4, RowStepsOK
  <1>5. CASE UNCHANGED vars
    BY <1>5 DEF vars, queueVars, runVars, faultVars, IInv, TypeOK, ChangeInv, Locked, Ids,
                Approved, DecidedInv, NothingUndecided, ExportInv, Agrees, OlderApproved
  <1> QED BY <1>1, <1>2, <1>3, <1>4, <1>5 DEF Next, RunStep

\* ... which an empty database has.
LEMMA InvariantInit == Init => IInv
  <1> SUFFICES ASSUME Init PROVE IInv
    OBVIOUS
  <1> USE DEF Init
  <1>1. TypeOK
    <2>1. status \in Seq(Statuses) /\ change \in [row : Nat, to : Statuses]
      BY DEF NoChange, Statuses
    <2>2. 0 \in 0..MaxModerations /\ 0 \in 0..MaxCrashes /\ 0 \in 0..MaxFaults
      BY QueueAssumption
    <2> QED BY <2>1, <2>2 DEF TypeOK, Statuses
  <1>2. ChangeInv
    BY DEF ChangeInv, Locked
  <1>3. DecidedInv
    BY DEF DecidedInv, NothingUndecided
  <1>4. ExportInv
    BY QueueAssumption DEF ExportInv, Locked
  <1> QED BY <1>1, <1>2, <1>3, <1>4 DEF IInv

\* The invariant that carries the two results below holds in every state: nothing
\* the export has in hand is pending, and a selection once fetched stays in
\* agreement with what the moderators leave alone.
THEOREM Inductive == Spec => []IInv
  <1>1. Init => IInv
    BY InvariantInit
  <1>2. IInv /\ [Next]_vars => IInv'
    BY InvariantStep
  <1> QED BY <1>1, <1>2, PTL DEF Spec

\* No text a moderator has not decided on is in the files or in the snapshot.
THEOREM Undecided == Spec => []NothingUndecided
  <1>1. IInv => NothingUndecided
    BY DEF IInv, DecidedInv
  <1> QED BY <1>1, Inductive, PTL

\* A run whose export succeeded publishes what stayed approved, but for what file
\* operations lost and what comes after as many approved rows as an export fetches,
\* and nothing that stayed unapproved but files that could not be removed, however
\* the queue is used meanwhile.
THEOREM SnapshotAgreement == Spec => SnapshotAgrees
  <1>1. IInv /\ [Next]_vars => [RunEnds /\ exported /\ IndexWhole => Agrees(published')]_vars
    <2> SUFFICES ASSUME IInv, Next, RunEnds, exported, IndexWhole PROVE Agrees(published')
      OBVIOUS
    <2>1. WriteIndex
      BY DEF RunEnds, Next, Enqueue, Moderate, Commit, RollBack, PipelineStep, KillExport,
             EndLoop, StartLoop, Start, StartBusy, Begin, DeleteFiles, Fetch, FetchBusy,
             WriteFile, SkipFile, EndExport, ReadFiles, TruncateIndex, queueVars, runVars
    <2>2. PICK cut \in {{}, docs} : Failing(cut) /\ published' = docs \ cut
      BY <2>1 DEF WriteIndex
    <2>3. cut = {}
      BY <2>2 DEF Failing, IndexWhole, IInv, TypeOK
    <2>4. published' = docs /\ Agrees(docs)
      BY <2>2, <2>3 DEF IInv, ExportInv, RunEnds
    <2> QED BY <2>4
  <1> QED BY <1>1, Inductive, PTL DEF Spec, SnapshotAgrees

-----------------------------------------------------------------------------
(* What requests leave *)

\* A search finds a number of documents.
LEMMA FoundIsFinite ==
    ASSUME NEW s \in Seq(Nat), NEW n \in Nat
    PROVE  \E k \in Nat : DOMAIN Ranking(s, n) = 1..k /\ Len(Ranking(s, n)) = k
  <1> DEFINE hits == {d \in DOMAIN s : s[d] > 0}
             size == IF Cardinality(hits) < n THEN Cardinality(hits) ELSE n
  <1>1. PICK l \in Nat : DOMAIN s = 1..l
    BY LenProperties
  <1>2. IsFiniteSet(1..l)
    BY FS_Interval
  <1>3. IsFiniteSet(hits) /\ Cardinality(hits) \in Nat
    BY <1>1, <1>2, FS_Subset, FS_CardinalityType
  <1>4. size \in Nat
    BY <1>3
  <1> HIDE DEF size
  <1>5. PICK f : f = [i \in 1..size |-> CHOOSE d \in hits : Cardinality({e \in hits : Before(s, e, d)}) = i - 1]
    OBVIOUS
  <1>6. Ranking(s, n) = f
    BY <1>5 DEF Ranking, size
  <1>7. DOMAIN f = 1..size
    BY <1>5
  <1>8. f \in Seq({f[i] : i \in 1..size}) /\ Len(f) = size
    <2>1. f \in [1..size -> {f[i] : i \in 1..size}]
      BY <1>5
    <2> QED BY <1>4, <1>7, <2>1
  <1> QED BY <1>4, <1>6, <1>7, <1>8

\* What a request leaves is a sequence of events, none of them an answer.
LEMMA LeavesAre ==
    ASSUME NEW r \in Requests
    PROVE  \E n \in Nat : /\ DOMAIN Leaves(r) = 1..n /\ Len(Leaves(r)) = n
                          /\ \A i \in 1..n : Leaves(r)[i].event \in {"ASK", "TEACH", "USER_FEEDBACK"}
                          /\ r.kind = "silent" => n = 0
  <1>1. CASE r.kind = "search" /\ r.size > 0
    <2> DEFINE listed == FoundDocs(r)
               taught == IF Len(listed) < Lessons THEN Len(listed) ELSE Lessons
    <2>1. Len(listed) \in Nat /\ Lessons \in Nat
      <3>1. (IF r.limit > FoundMost THEN FoundMost ELSE r.limit) \in Nat
        BY <1>1, ServerAssumption
      <3> QED BY <1>1, <3>1, ServerAssumption, FoundIsFinite DEF FoundDocs
    <2>2. taught \in Nat
      BY <2>1
    <2> DEFINE one == [event |-> "ASK", size |-> r.size]
               item(i) == [event |-> "TEACH", size |-> r.size + Previews[listed[i]]]
    <2>3. Leaves(r) = <<one>> \o [i \in 1..taught |-> item(i)]
      BY <1>1 DEF Leaves
    <2> HIDE DEF taught, listed
    <2>4. PICK f : f = [i \in 1..taught |-> item(i)]
      OBVIOUS
    <2> DEFINE T == {one} \cup {f[i] : i \in 1..taught}
    <2>5. f \in Seq(T) /\ Len(f) = taught /\ <<one>> \in Seq(T) /\ Len(<<one>>) = 1
      <3>1. f \in [1..taught -> T]
        BY <2>4
      <3>2. one \in T
        OBVIOUS
      <3> HIDE DEF T, one
      <3> QED BY <2>2, <3>1, <3>2
    <2>6. \A i \in 1..taught : f[i].event = "TEACH"
      BY <2>4
    <2>7. one.event = "ASK"
      OBVIOUS
    <2> HIDE DEF T, item, one
    <2>8. /\ <<one>> \o f \in Seq(T)
          /\ Len(<<one>> \o f) = 1 + taught
          /\ \A i \in 1..1 + taught : (<<one>> \o f)[i] = IF i <= 1 THEN <<one>>[i] ELSE f[i - 1]
      BY <2>2, <2>5, ConcatProperties
    <2>9. /\ DOMAIN (<<one>> \o f) = 1..1 + taught
      BY <2>8, LenProperties
    <2>10. \A i \in 1..1 + taught : (<<one>> \o f)[i].event \in {"ASK", "TEACH"}
      <3> TAKE i \in 1..1 + taught
      <3>1. CASE i = 1
        BY <2>7, <2>8, <3>1
      <3>2. CASE i # 1
        <4>1. i - 1 \in 1..taught /\ ~(i <= 1)
          BY <2>2, <3>2
        <4> QED BY <2>6, <2>8, <4>1
      <3> QED BY <3>1, <3>2
    <2> QED BY <1>1, <2>2, <2>3, <2>4, <2>8, <2>9, <2>10
  <1>2. CASE r.kind = "teach" /\ r.size > 0 /\ r.answer > 0
    <2>1. Leaves(r) = <<[event |-> "TEACH", size |-> r.size + r.answer]>>
      BY <1>2 DEF Leaves
    <2> QED BY <1>2, <2>1
  <1>3. CASE r.kind = "feedback"
    <2>1. Leaves(r) = <<[event |-> "USER_FEEDBACK", size |-> r.size + r.answer]>>
      BY <1>3 DEF Leaves
    <2> QED BY <1>3, <2>1
  <1>4. CASE ~(r.kind = "search" /\ r.size > 0) /\ ~(r.kind = "teach" /\ r.size > 0 /\ r.answer > 0) /\ r.kind # "feedback"
    <2>1. Leaves(r) = <<>>
      BY <1>4 DEF Leaves
    <2> QED BY <2>1
  <1> QED BY <1>1, <1>2, <1>3, <1>4

\* What a server that begins with a request has to do: to record all of that, and to
\* answer, anything but a search in the end.
LEMMA StepsAre ==
    ASSUME NEW r \in Requests
    PROVE  /\ Steps(r) \in Seq(Items)
           /\ \A i \in DOMAIN Steps(r) : Steps(r)[i].event # "reply" =>
                /\ Steps(r)[i].place \in DOMAIN Leaves(r)
                /\ Steps(r)[i].size = Leaves(r)[Steps(r)[i].place].size
                /\ \A j \in DOMAIN Steps(r) : i < j /\ Steps(r)[j].event # "reply" =>
                    Steps(r)[i].place < Steps(r)[j].place
           /\ \A p \in DOMAIN Leaves(r) : \E i \in DOMAIN Steps(r) :
                Steps(r)[i].event # "reply" /\ Steps(r)[i].place = p
           /\ r.kind # "search" =>
                \A i \in DOMAIN Steps(r) : Steps(r)[i].event = "reply" => i = Len(Steps(r))
  <1>1. PICK n \in Nat : /\ DOMAIN Leaves(r) = 1..n /\ Len(Leaves(r)) = n
                         /\ \A i \in 1..n : Leaves(r)[i].event \in {"ASK", "TEACH", "USER_FEEDBACK"}
                         /\ r.kind = "silent" => n = 0
    BY LeavesAre
  <1>2. PICK f : f = Numbered(Leaves(r))
    OBVIOUS
  <1>3. /\ DOMAIN f = 1..n
        /\ \A i \in 1..n : /\ f[i].event = Leaves(r)[i].event /\ f[i].size = Leaves(r)[i].size
                           /\ f[i].place = i /\ f[i].event # "reply"
    BY <1>1, <1>2 DEF Numbered
  <1>4. \A i \in 1..n : f[i] \in Items
    <2> SUFFICES ASSUME NEW i \in 1..n PROVE f[i] \in Items
      OBVIOUS
    <2>1. f[i] = [event |-> Leaves(r)[i].event, size |-> Leaves(r)[i].size, place |-> i]
      BY <1>1, <1>2 DEF Numbered
    <2>2. Leaves(r)[i].size \in {x.size : x \in UNION {Range(Leaves(q)) : q \in Requests}}
      <3>1. Leaves(r)[i] \in Range(Leaves(r))
        BY <1>1 DEF Range
      <3>2. Leaves(r)[i] \in UNION {Range(Leaves(q)) : q \in Requests}
        BY <3>1, Zenon
      <3> QED BY <3>2, Zenon
    <2>3. Leaves(r)[i].event \in {"ASK", "TEACH", "USER_FEEDBACK"} /\ i \in Nat
      BY <1>1
    <2> QED BY <2>1, <2>2, <2>3 DEF Items, EventNames
  <1>5. f \in Seq(Items) /\ Len(f) = n
    <2>1. f \in [1..n -> Items]
      BY <1>2, <1>3, <1>4 DEF Numbered
    <2> QED BY <1>3, <2>1
  <1>6. PICK one : one = [event |-> "reply"]
    OBVIOUS
  <1>7. one \in Items /\ one.event = "reply"
    BY <1>6 DEF Items
  <1>8. <<one>> \in Seq(Items) /\ Len(<<one>>) = 1 /\ <<one>>[1] = one
    BY <1>7
  <1>9. CASE r.kind = "silent"
    <2>1. Steps(r) = <<>>
      BY <1>9 DEF Steps
    <2>2. n = 0
      BY <1>1, <1>9
    <2> QED BY <1>1, <2>1, <2>2
  <1>10. CASE r.kind = "search"
    <2>1. Steps(r) = <<one>> \o f
      BY <1>2, <1>6, <1>10 DEF Steps
    <2>2. PICK g : g = <<one>> \o f
      OBVIOUS
    <2>3. /\ g \in Seq(Items) /\ Len(g) = 1 + n
          /\ \A i \in 1..1 + n : g[i] = IF i <= 1 THEN <<one>>[i] ELSE f[i - 1]
      BY <1>5, <1>8, <2>2, ConcatProperties
    <2>4. DOMAIN g = 1..1 + n
      BY <2>3, LenProperties
    <2>5. \A i \in 1..1 + n : IF i = 1 THEN g[i].event = "reply"
                                       ELSE i - 1 \in 1..n /\ g[i] = f[i - 1]
      BY <1>7, <1>8, <2>3
    <2>6. \A p \in 1..n : p + 1 \in 1..1 + n /\ g[p + 1].event # "reply" /\ g[p + 1].place = p
      <3> TAKE p \in 1..n
      <3>1. p + 1 \in 1..1 + n /\ p + 1 # 1 /\ (p + 1) - 1 = p
        OBVIOUS
      <3>2. g[p + 1] = f[p]
        BY <2>5, <3>1
      <3> QED BY <1>3, <3>1, <3>2
    <2>7. \A i \in 1..1 + n : g[i].event # "reply" => /\ g[i].place = i - 1 /\ i - 1 \in 1..n
                                                      /\ g[i].size = Leaves(r)[i - 1].size
      BY <1>3, <2>5
    <2>8. \A i \in 1..1 + n : g[i].event # "reply" =>
                /\ g[i].place \in 1..n
                /\ g[i].size = Leaves(r)[g[i].place].size
                /\ \A j \in 1..1 + n : i < j /\ g[j].event # "reply" => g[i].place < g[j].place
      BY <2>7
    <2>9. Steps(r) = g
      BY <2>1, <2>2
    <2>10. \A p \in 1..n : \E i \in 1..1 + n : g[i].event # "reply" /\ g[i].place = p
      BY <2>6
    <2>11. /\ g \in Seq(Items)
           /\ \A i \in DOMAIN g : g[i].event # "reply" =>
                /\ g[i].place \in DOMAIN Leaves(r)
                /\ g[i].size = Leaves(r)[g[i].place].size
                /\ \A j \in DOMAIN g : i < j /\ g[j].event # "reply" => g[i].place < g[j].place
           /\ \A p \in DOMAIN Leaves(r) : \E i \in DOMAIN g : g[i].event # "reply" /\ g[i].place = p
      BY <1>1, <2>3, <2>4, <2>8, <2>10
    <2> QED BY <1>10, <2>9, <2>11
  <1>11. CASE r.kind # "silent" /\ r.kind # "search"
    <2>1. Steps(r) = f \o <<one>>
      BY <1>2, <1>6, <1>11 DEF Steps
    <2>2. PICK g : g = f \o <<one>>
      OBVIOUS
    <2>3. /\ g \in Seq(Items) /\ Len(g) = n + 1
          /\ \A i \in 1..n + 1 : g[i] = IF i <= n THEN f[i] ELSE <<one>>[i - n]
      BY <1>5, <1>8, <2>2, ConcatProperties
    <2>4. DOMAIN g = 1..n + 1
      BY <2>3, LenProperties
    <2>5. \A i \in 1..n : i \in 1..n + 1 /\ g[i] = f[i]
      BY <2>3
    <2>6. g[n + 1].event = "reply"
      <3>1. n + 1 \in 1..n + 1 /\ ~(n + 1 <= n) /\ (n + 1) - n = 1
        OBVIOUS
      <3> QED BY <1>7, <1>8, <2>3, <3>1
    <2>7. \A i \in 1..n + 1 : i \in 1..n \/ i = n + 1
      OBVIOUS
    <2>8. \A i \in 1..n + 1 : g[i].event # "reply" => i \in 1..n /\ g[i].place = i /\ g[i].size = Leaves(r)[i].size
      BY <1>3, <2>5, <2>6, <2>7
    <2>9. \A i \in 1..n + 1 : g[i].event # "reply" =>
                /\ g[i].place \in 1..n
                /\ g[i].size = Leaves(r)[g[i].place].size
                /\ \A j \in 1..n + 1 : i < j /\ g[j].event # "reply" => g[i].place < g[j].place
      BY <2>8
    <2>10. \A p \in 1..n : g[p].event # "reply" /\ g[p].place = p /\ p \in 1..n + 1
      BY <1>3, <2>5
    <2>11. \A i \in 1..n + 1 : g[i].event = "reply" => i = n + 1
      BY <2>7, <2>10
    <2>12. Steps(r) = g
      BY <2>1, <2>2
    <2>13. \A p \in 1..n : \E i \in 1..n + 1 : g[i].event # "reply" /\ g[i].place = p
      BY <2>10
    <2>14. /\ g \in Seq(Items)
           /\ \A i \in DOMAIN g : g[i].event # "reply" =>
                /\ g[i].place \in DOMAIN Leaves(r)
                /\ g[i].size = Leaves(r)[g[i].place].size
                /\ \A j \in DOMAIN g : i < j /\ g[j].event # "reply" => g[i].place < g[j].place
           /\ \A p \in DOMAIN Leaves(r) : \E i \in DOMAIN g : g[i].event # "reply" /\ g[i].place = p
           /\ \A i \in DOMAIN g : g[i].event = "reply" => i = Len(g)
      BY <1>1, <2>3, <2>4, <2>9, <2>11, <2>13
    <2> QED BY <2>12, <2>14
  <1> QED BY <1>9, <1>10, <1>11

-----------------------------------------------------------------------------
(* What concerns one server *)

\* What it knows of the genome's end, ...
Knows(s) ==
    ~fragment /\ Up(s) =>
        /\ servers[s].next \in 1..Len(genome) + 1
        /\ trouble # "doubled" => /\ servers[s].ready
                                  /\ servers[s].next = Len(genome) + 1
                                  /\ servers[s].last = IdBefore(Len(genome) + 1)

\* ... where it begins, ...
Begins(s) ==
    trouble = "doubled" /\ taken = <<>> /\ servers[s].at = "boot" =>
        /\ servers[s].next \in {Len(genome), Len(genome) + 1}
        /\ servers[s].last = IdBefore(servers[s].next)
        /\ \A t \in Servers : servers[t].at = "boot" => servers[t].next = servers[s].next

\* ... what it has yet to do, ...
Ordered(s) ==
    \A i \in DOMAIN servers[s].todo : servers[s].todo[i].event # "reply" =>
        /\ servers[s].todo[i].place \in DOMAIN Leaves(taken[Len(taken)])
        /\ servers[s].todo[i].size = Leaves(taken[Len(taken)])[servers[s].todo[i].place].size
        /\ \A j \in DOMAIN servers[s].todo : i < j /\ servers[s].todo[j].event # "reply" =>
            servers[s].todo[i].place < servers[s].todo[j].place

AnswersLast(s) ==
    taken[Len(taken)].kind # "search" =>
        /\ \A i \in DOMAIN servers[s].todo : servers[s].todo[i].event = "reply" => i = Len(servers[s].todo)
        /\ Len(taken) \in answered => Due(s) = {}

Works(s) ==
    /\ servers[s].at # "work" => servers[s].todo = <<>>
    /\ servers[s].at = "work" =>
        /\ Len(taken) > 0 /\ Len(taken) \notin finished
        /\ Ordered(s)
        /\ AnswersLast(s)
        /\ \A i \in DOMAIN genome : genome[i].id.by = Len(taken) => i < servers[s].next
        /\ \A p \in LeftBy(Len(taken)), q \in Due(s) : p < q

\* ... what it has recorded, ...
Records(s) ==
    servers[s].at = "work" =>
        /\ trouble = "none" => Fitting(taken[Len(taken)]) \subseteq LeftBy(Len(taken)) \cup Due(s)
        /\ trouble = "write" /\ ~fragment =>
            \A p, q \in Fitting(taken[Len(taken)]) \ (LeftBy(Len(taken)) \cup Due(s)) : p = q

\* ... and what it counts.
Counts(s) ==
    /\ servers[s].since <= Len(taken)
    /\ servers[s].at \in {"boot", "bind"} =>
        servers[s].running /\ servers[s].total = 0 /\ servers[s].hits = 0 /\ servers[s].misses = 0
    /\ servers[s].at # "work" \/ servers[s].running => servers[s].late = 0
    /\ servers[s].at \in {"accept", "work"} =>
        /\ servers[s].total = Cardinality(servers[s].since + 1..Len(taken))
        /\ servers[s].hits + servers[s].misses
            = Cardinality({n \in servers[s].since + 1..Len(taken) : taken[n].kind = "search"})
        /\ servers[s].late <= 1

\* What concerns none of them.
OnlyOnes ==
    /\ \A s, t \in Servers : Serves(s) /\ Serves(t) => s = t
    /\ fragment => trouble = "write"
    /\ trouble # "doubled" => \A s, t \in Servers : Up(s) /\ Up(t) => s = t

Lost ==
    /\ \A i \in DOMAIN genome : genome[i].id.by <= Len(taken)
    /\ \A n \in finished : trouble = "write" /\ ~fragment =>
            \A p, q \in Fitting(taken[n]) \ LeftBy(n) : p = q

InOrderOf ==
    \A i, j \in DOMAIN genome :
        i < j /\ genome[i].id.by = genome[j].id.by /\ genome[j].id.by > 0 =>
            genome[i].id.place < genome[j].id.place

Chained == (\E i \in DOMAIN genome : ~Linked(i)) => trouble = "doubled" /\ taken # <<>>

Each(s) == Knows(s) /\ Begins(s) /\ Works(s) /\ Records(s) /\ Counts(s)
All == ServerOK /\ OnlyOnes /\ Lost /\ InOrderOf /\ Chained /\ RequestsAreRecorded

\* The invariant in these parts.  That at most one event is lost is what any two
\* lost ones being the same says.
LEMMA LostIsOne ==
    ASSUME ServerOK, Lost, NEW n \in finished, trouble = "write", ~fragment
    PROVE  Cardinality(Fitting(taken[n]) \ LeftBy(n)) <= 1
  <1> DEFINE S == Fitting(taken[n]) \ LeftBy(n)
  <1>1. \A p, q \in S : p = q
    BY DEF Lost
  <1> HIDE DEF S
  <1>2. CASE S = {}
    BY <1>2, FS_EmptySet DEF S
  <1>3. CASE S # {}
    <2>1. PICK p \in S : TRUE
      BY <1>3
    <2>2. S = {p}
      BY <1>1, <2>1
    <2> QED BY <2>2, FS_Singleton DEF S
  <1> QED BY <1>2, <1>3

Parts == All /\ \A s \in Servers : Each(s)

LEMMA ServerInvIs == ServerInv <=> Parts
  <1>1. ASSUME ServerInv PROVE All /\ \A s \in Servers : Each(s)
    <2>1. ServerOK /\ WritersInv /\ BootsInv /\ WorkInv /\ RecordedInv /\ CountsInv /\ RequestsAreRecorded
          /\ TroubleIsBounded /\ CountersAgree
      BY <1>1 DEF ServerInv, ServerKeepsFaith
    <2>2. All
      BY <2>1 DEF All, OnlyOnes, WritersInv, Lost, RecordedInv, InOrderOf, Chained, TroubleIsBounded
    <2>3. ASSUME NEW s \in Servers PROVE Each(s)
      <3>1. Knows(s)
        BY <2>1, <2>3 DEF WritersInv, Knows
      <3>2. Begins(s)
        BY <2>1, <2>3 DEF BootsInv, Begins
      <3>3. Works(s)
        BY <2>1, <2>3 DEF WorkInv, Works, Ordered, AnswersLast
      <3>4. Records(s)
        BY <2>1, <2>3 DEF RecordedInv, Records
      <3>5. Counts(s)
        BY <2>1, <2>3 DEF CountsInv, CountersAgree, Counts
      <3> QED BY <3>1, <3>2, <3>3, <3>4, <3>5 DEF Each
    <2> QED BY <2>2, <2>3
  <1>2. ASSUME All, \A s \in Servers : Each(s) PROVE ServerInv
    <2>0. ServerOK /\ OnlyOnes /\ Lost /\ InOrderOf /\ Chained /\ RequestsAreRecorded
      BY <1>2 DEF All
    <2>1. WritersInv
      BY <1>2, <2>0 DEF WritersInv, OnlyOnes, Each, Knows
    <2>2. BootsInv
      BY <1>2 DEF BootsInv, Each, Begins
    <2>3. WorkInv
      BY <1>2 DEF WorkInv, Each, Works, Ordered, AnswersLast
    <2>4. RecordedInv
      BY <1>2, <2>0 DEF RecordedInv, Each, Records, Lost
    <2>5. CountsInv
      BY <1>2 DEF CountsInv, Each, Counts
    <2>6. CountersAgree
      BY <1>2 DEF CountersAgree, Each, Counts
    <2>7. \A n \in finished : trouble = "write" /\ ~fragment => Cardinality(Fitting(taken[n]) \ LeftBy(n)) <= 1
      BY <2>0, LostIsOne
    <2>8. TroubleIsBounded
      BY <2>0, <2>7 DEF TroubleIsBounded, InOrderOf, Chained
    <2> QED BY <2>0, <2>1, <2>2, <2>3, <2>4, <2>5, <2>6, <2>8 DEF ServerInv, ServerKeepsFaith
  <1> QED BY <1>1, <1>2 DEF Parts

-----------------------------------------------------------------------------
(* What a step leaves alone *)

\* Where the genome stays, so does all that is read from it.
LEMMA GenomeStays ==
    ASSUME genome' = genome
    PROVE  /\ \A n : LeftBy(n)' = LeftBy(n)
           /\ \A i : IdBefore(i)' = IdBefore(i)
           /\ \A i : Linked(i)' = Linked(i)
  BY DEF LeftBy, IdBefore, Linked

\* The genome, the requests and what became of them stay; trouble may begin.
Still ==
    /\ UNCHANGED <<genome, taken, answered, finished>>
    /\ \/ trouble' = trouble /\ fragment' = fragment
       \/ trouble = "none" /\ trouble' # "none"

\* Then nothing recorded is less than it should be.
LEMMA RecordsStay ==
    ASSUME ServerOK, OnlyOnes, Lost, InOrderOf, Chained, RequestsAreRecorded, Still,
           trouble' \in {"none", "write", "doubled"}
    PROVE  Lost' /\ InOrderOf' /\ Chained' /\ RequestsAreRecorded'
  <1>0. genome' = genome /\ taken' = taken /\ answered' = answered /\ finished' = finished
    BY DEF Still
  <1>1. /\ \A n : LeftBy(n)' = LeftBy(n)
        /\ \A i : Linked(i)' = Linked(i)
    BY <1>0, GenomeStays
  <1>2. trouble' = "none" => trouble = "none" /\ fragment' = fragment
    BY DEF Still
  <1>3. Lost'
    <2>1. \A i \in DOMAIN genome' : genome'[i].id.by <= Len(taken')
      BY <1>0 DEF Lost
    <2>2. ASSUME NEW n \in finished', (trouble = "write" /\ ~fragment)'
          PROVE  \A p, q \in Fitting(taken[n]) \ LeftBy(n) : p = q
      <3>1. CASE trouble' = trouble /\ fragment' = fragment
        BY <1>0, <2>2, <3>1 DEF Lost
      <3>2. CASE trouble = "none"
        <4>1. n \in finished /\ n \in DOMAIN taken
          BY <1>0, <2>2 DEF ServerOK
        <4>2. LeftBy(n) = Fitting(taken[n])
          BY <3>2, <4>1 DEF RequestsAreRecorded
        <4> QED BY <4>2
      <3> QED BY <3>1, <3>2 DEF Still
    <2> QED BY <1>0, <1>1, <2>1, <2>2 DEF Lost
  <1>4. InOrderOf'
    BY <1>0 DEF InOrderOf
  <1>5. Chained'
    <2>1. ASSUME NEW i \in DOMAIN genome', ~Linked(i)'
          PROVE  trouble' = "doubled" /\ taken' # <<>>
      <3>1. i \in DOMAIN genome /\ ~Linked(i)
        BY <1>0, <1>1, <2>1
      <3>2. trouble = "doubled" /\ taken # <<>>
        BY <3>1 DEF Chained
      <3> QED BY <1>0, <3>2 DEF Still
    <2> QED BY <2>1 DEF Chained
  <1>6. RequestsAreRecorded'
    <2>1. CASE trouble' # "none"
      BY <2>1 DEF RequestsAreRecorded
    <2>2. CASE trouble' = "none"
      <3>1. Whole'
        BY <1>0, <1>1, <1>2, <2>2 DEF RequestsAreRecorded, Whole
      <3>2. \A i, j \in DOMAIN genome' :
              i < j /\ genome'[j].id.by > 0 => genome'[i].id.by <= genome'[j].id.by
        BY <1>0, <1>2, <2>2 DEF RequestsAreRecorded
      <3>3. ASSUME NEW n \in DOMAIN taken'
            PROVE  /\ LeftBy(n) \subseteq Fitting(taken[n])
                   /\ \A p \in Fitting(taken[n]), q \in LeftBy(n) : p <= q => p \in LeftBy(n)
                   /\ n \in finished \/ (n \in answered /\ taken[n].kind # "search") =>
                        LeftBy(n) = Fitting(taken[n])
        BY <1>0, <1>2, <2>2, <3>3 DEF RequestsAreRecorded
      <3> QED BY <1>0, <1>1, <3>1, <3>2, <3>3 DEF RequestsAreRecorded
    <2> QED BY <2>1, <2>2
  <1> QED BY <1>3, <1>4, <1>5, <1>6

\* What a server is at stays, if it does.
LEMMA ServerStays ==
    ASSUME NEW t \in Servers, OnlyOnes, Each(t), Still, servers'[t] = servers[t]
    PROVE  Knows(t)' /\ Works(t)' /\ Records(t)' /\ Counts(t)'
  <1>0. genome' = genome /\ taken' = taken /\ answered' = answered /\ finished' = finished
    BY DEF Still
  <1>1. /\ \A n : LeftBy(n)' = LeftBy(n)
        /\ \A i : IdBefore(i)' = IdBefore(i)
        /\ Due(t)' = Due(t)
    BY <1>0, GenomeStays DEF Due
  <1>2. \/ trouble' = trouble /\ fragment' = fragment
        \/ trouble = "none" /\ trouble' # "none" /\ ~fragment
    <2>1. trouble = "none" => ~fragment
      <3>1. fragment => trouble = "write"
        BY DEF OnlyOnes
      <3> QED BY <3>1
    <2> QED BY <2>1 DEF Still
  <1>3. Knows(t)'
    BY <1>0, <1>1, <1>2 DEF Each, Knows, Up
  <1>4. Works(t)'
    <2>1. Works(t)
      BY DEF Each
    <2>2. Ordered(t)' = Ordered(t)
      BY <1>0 DEF Ordered
    <2>3. AnswersLast(t)' = AnswersLast(t)
      BY <1>0, <1>1 DEF AnswersLast
    <2> QED BY <1>0, <1>1, <2>1, <2>2, <2>3 DEF Works
  <1>5. Records(t)'
    <2>1. Records(t)
      BY DEF Each
    <2>2. Due(t)' = Due(t) /\ LeftBy(Len(taken))' = LeftBy(Len(taken))
      BY <1>0, <1>1
    <2>3. CASE trouble' = trouble /\ fragment' = fragment
      BY <1>0, <2>1, <2>2, <2>3 DEF Records
    <2>4. CASE trouble = "none" /\ trouble' # "none"
      <3>1. servers[t].at = "work" => Fitting(taken[Len(taken)]) \subseteq LeftBy(Len(taken)) \cup Due(t)
        BY <2>1, <2>4 DEF Records
      <3> QED BY <1>0, <2>2, <2>4, <3>1 DEF Records
    <2> QED BY <1>2, <2>3, <2>4
  <1>6. Counts(t)'
    BY <1>0 DEF Each, Counts
  <1> QED BY <1>3, <1>4, <1>5, <1>6

\* A server that does not serve has nothing to do with what becomes of requests.
LEMMA IdleStays ==
    ASSUME NEW t \in Servers, ServerOK, Each(t), ~Serves(t), servers'[t] = servers[t],
           Len(taken') >= Len(taken), Len(taken') \in Nat
    PROVE  Works(t)' /\ Records(t)' /\ Counts(t)'
  <1>1. servers'[t].at \notin {"accept", "work"}
    BY DEF Serves
  <1>2. servers[t].since \in Nat /\ Len(taken) \in Nat
    BY DEF ServerOK, ServerStates
  <1>3. Works(t)'
    BY <1>1 DEF Each, Works
  <1>4. Records(t)'
    BY <1>1 DEF Records
  <1>5. Counts(t)'
    <2>1. Counts(t)
      BY DEF Each
    <2>2. servers[t].since <= Len(taken')
      BY <1>2, <2>1 DEF Counts
    <2> QED BY <1>1, <2>1, <2>2 DEF Counts
  <1> QED BY <1>3, <1>4, <1>5

\* No server begins that did not, and none writes.
LEMMA BeginsStays ==
    ASSUME \A t \in Servers : Each(t),
           genome' = genome,
           trouble' = "doubled" /\ taken' = <<>> => trouble = "doubled" /\ taken = <<>>,
           \A t \in Servers : servers'[t].at = "boot" => servers'[t] = servers[t]
    PROVE  \A t \in Servers : Begins(t)'
  <1>1. \A i : IdBefore(i)' = IdBefore(i)
    BY GenomeStays
  <1>2. \A t \in Servers : Begins(t)
    BY DEF Each
  <1> SUFFICES ASSUME NEW t \in Servers, (trouble = "doubled" /\ taken = <<>> /\ servers[t].at = "boot")'
               PROVE  /\ servers'[t].next \in {Len(genome'), Len(genome') + 1}
                      /\ servers'[t].last = IdBefore(servers[t].next)'
                      /\ \A u \in Servers : servers'[u].at = "boot" => servers'[u].next = servers'[t].next
    BY DEF Begins
  <1>3. servers'[t] = servers[t] /\ trouble = "doubled" /\ taken = <<>>
    OBVIOUS
  <1>4. /\ servers[t].next \in {Len(genome), Len(genome) + 1}
        /\ servers[t].last = IdBefore(servers[t].next)
        /\ \A u \in Servers : servers[u].at = "boot" => servers[u].next = servers[t].next
    BY <1>2, <1>3 DEF Begins
  <1>5. IdBefore(servers[t].next)' = IdBefore(servers[t].next)
    BY <1>3 DEF IdBefore
  <1>6. \A u \in Servers : servers'[u].at = "boot" => servers'[u].next = servers'[t].next
    BY <1>3, <1>4
  <1> QED BY <1>3, <1>4, <1>5, <1>6

\* A step in which one server changes, and the genome and the requests do not.
LEMMA MoveKeeps ==
    ASSUME Parts, Still, NEW s \in Servers, NEW w \in ServerStates,
           servers' = [servers EXCEPT ![s] = w],
           starts' \in 0..MaxStarts, trouble' \in {"none", "write", "doubled"}, fragment' \in BOOLEAN,
           OnlyOnes', Knows(s)', Works(s)', Records(s)', Counts(s)', \A t \in Servers : Begins(t)'
    PROVE  Parts'
  <1>1. All /\ \A t \in Servers : Each(t)
    BY DEF Parts
  <1>2. ServerOK /\ OnlyOnes /\ Lost /\ InOrderOf /\ Chained /\ RequestsAreRecorded
    BY <1>1 DEF All
  <1>3. ServerOK'
    <2>1. servers' \in [Servers -> ServerStates]
      BY <1>2 DEF ServerOK
    <2> QED BY <1>2, <2>1 DEF ServerOK, Still
  <1>4. Lost' /\ InOrderOf' /\ Chained' /\ RequestsAreRecorded'
    BY <1>2, RecordsStay
  <1>5. ASSUME NEW t \in Servers PROVE Each(t)'
    <2>1. CASE t = s
      BY <2>1 DEF Each
    <2>2. CASE t # s
      <3>1. servers'[t] = servers[t]
        BY <1>2, <2>2 DEF ServerOK
      <3>2. Knows(t)' /\ Works(t)' /\ Records(t)' /\ Counts(t)'
        BY <1>1, <1>2, <3>1, ServerStays
      <3> QED BY <3>2 DEF Each
    <2> QED BY <2>1, <2>2
  <1>6. All'
    BY <1>3, <1>4, <1>5 DEF All
  <1> QED BY <1>5, <1>6 DEF Parts

\* A server that is not there.
LEMMA OffIs ==
    /\ Off \in ServerStates /\ Off.at = "down" /\ Off.running /\ Off.todo = <<>> /\ Off.next = 0
    /\ Off.late = 0 /\ Off.total = 0 /\ Off.hits = 0 /\ Off.misses = 0 /\ Off.since = 0
  <1>1. NoBlock \in BlockIds
    BY DEF NoBlock, BlockIds
  <1>2. <<>> \in Seq(Items)
    OBVIOUS
  <1> QED BY <1>1, <1>2 DEF Off, ServerStates

\* It satisfies all there is to be satisfied.
LEMMA OffIsFine ==
    ASSUME NEW s \in Servers, servers'[s] = Off, Len(taken') \in Nat
    PROVE  Knows(s)' /\ Works(s)' /\ Records(s)' /\ Counts(s)'
  <1>1. servers'[s].at = "down" /\ servers'[s].todo = <<>> /\ servers'[s].late = 0 /\ servers'[s].since = 0
    BY OffIs
  <1>2. Knows(s)'
    BY <1>1 DEF Knows, Up
  <1>3. Works(s)'
    BY <1>1 DEF Works
  <1>4. Records(s)'
    BY <1>1 DEF Records
  <1>5. Counts(s)'
    BY <1>1 DEF Counts
  <1> QED BY <1>2, <1>3, <1>4, <1>5

\* At the start there is none.
LEMMA ServerStart == ServerInit => Parts
  <1> SUFFICES ASSUME ServerInit PROVE Parts
    OBVIOUS
  <1>1. \A s \in Servers : servers[s] = Off
    BY DEF ServerInit
  <1>2. genome = <<>> /\ taken = <<>> /\ answered = {} /\ finished = {} /\ trouble = "none" /\ ~fragment
        /\ starts = 0 /\ fragment \in BOOLEAN
    BY DEF ServerInit
  <1>3. ServerOK
    <2>1. servers \in [Servers -> ServerStates]
      BY OffIs DEF ServerInit
    <2>2. genome \in Seq([id : BlockIds, prev : BlockIds]) /\ taken \in Seq(Requests)
      BY <1>2
    <2>3. starts \in 0..MaxStarts
      BY <1>2, ServerAssumption
    <2> QED BY <1>2, <2>1, <2>2, <2>3 DEF ServerOK
  <1>4. DOMAIN genome = {} /\ DOMAIN taken = {}
    BY <1>2
  <1>5. ASSUME NEW s \in Servers PROVE Each(s)
    <2>1. servers[s].at = "down" /\ servers[s].todo = <<>> /\ servers[s].late = 0 /\ servers[s].since = 0
      BY <1>1, OffIs
    <2>2. 0 <= Len(taken)
      BY <1>2
    <2> QED BY <2>1, <2>2 DEF Each, Knows, Up, Begins, Works, Records, Counts
  <1>6. OnlyOnes
    BY <1>1, <1>2, OffIs DEF OnlyOnes, Serves, Up
  <1>7. Lost /\ InOrderOf /\ Chained
    BY <1>2, <1>4 DEF Lost, InOrderOf, Chained
  <1>8. RequestsAreRecorded
    BY <1>2, <1>4 DEF RequestsAreRecorded, Whole
  <1> QED BY <1>3, <1>5, <1>6, <1>7, <1>8, <1>5 DEF All, Parts

-----------------------------------------------------------------------------
(* A server's life *)

\* A signal changes nothing of it.
LEMMA SignalKeeps ==
    ASSUME Parts, NEW s \in Servers, Signal(s)
    PROVE  Parts'
  <1>0. All /\ \A t \in Servers : Each(t)
    BY DEF Parts
  <1>1. ServerOK /\ OnlyOnes /\ servers[s] \in ServerStates /\ Each(s)
    BY <1>0 DEF All, ServerOK
  <1>2. PICK w : w = [servers[s] EXCEPT !.running = FALSE]
    OBVIOUS
  <1>3. /\ w \in ServerStates
        /\ w.at = servers[s].at /\ ~w.running /\ w.next = servers[s].next /\ w.last = servers[s].last
        /\ w.ready = servers[s].ready /\ w.todo = servers[s].todo /\ w.since = servers[s].since
        /\ w.total = servers[s].total /\ w.hits = servers[s].hits /\ w.misses = servers[s].misses
        /\ w.late = servers[s].late
    BY <1>1, <1>2 DEF ServerStates
  <1>4. servers' = [servers EXCEPT ![s] = w] /\ servers'[s] = w
    BY <1>1, <1>2 DEF Signal, ServerOK
  <1>5. \A t \in Servers : t # s => servers'[t] = servers[t]
    BY <1>1, <1>4 DEF ServerOK
  <1>6. Still /\ UNCHANGED <<starts, trouble, fragment>> /\ servers[s].at \in {"accept", "work"} /\ servers[s].running
    BY DEF Signal, Still
  <1>7. OnlyOnes'
    BY <1>1, <1>3, <1>4, <1>5, <1>6 DEF OnlyOnes, Serves, Up
  <1>8. /\ \A n : LeftBy(n)' = LeftBy(n)
        /\ \A i : IdBefore(i)' = IdBefore(i)
        /\ Due(s)' = Due(s)
        /\ genome' = genome /\ taken' = taken /\ answered' = answered /\ finished' = finished
    BY <1>3, <1>4, <1>6, GenomeStays DEF Still, Due
  <1>9. Knows(s)'
    BY <1>1, <1>3, <1>4, <1>6, <1>8 DEF Each, Knows, Up
  <1>10. Works(s)'
    <2>1. Works(s)
      BY <1>1 DEF Each
    <2>2. Ordered(s)' = Ordered(s)
      <3>1. servers'[s].todo = servers[s].todo
        BY <1>3, <1>4, Zenon
      <3>2. taken' = taken
        BY <1>8
      <3> QED BY <3>1, <3>2 DEF Ordered
    <2>3. AnswersLast(s)' = AnswersLast(s)
      BY <1>3, <1>4, <1>8 DEF AnswersLast
    <2> QED BY <1>3, <1>4, <1>8, <2>1, <2>2, <2>3 DEF Works
  <1>11. Records(s)'
    BY <1>1, <1>3, <1>4, <1>6, <1>8 DEF Each, Records
  <1>12. Counts(s)'
    BY <1>1, <1>3, <1>4, <1>6, <1>8 DEF Each, Counts
  <1>13. \A t \in Servers : Begins(t)'
    <2>1. \A t \in Servers : servers'[t].at = "boot" => servers'[t] = servers[t]
      BY <1>3, <1>4, <1>5, <1>6
    <2> QED BY <1>0, <1>6, <1>8, <2>1, BeginsStays
  <1>14. starts' \in 0..MaxStarts /\ trouble' \in {"none", "write", "doubled"} /\ fragment' \in BOOLEAN
    BY <1>1, <1>6 DEF ServerOK
  <1> QED BY <1>3, <1>4, <1>6, <1>7, <1>9, <1>10, <1>11, <1>12, <1>13, <1>14, MoveKeeps

\* The port is taken by one server.
LEMMA BindKeeps ==
    ASSUME Parts, NEW s \in Servers, Bind(s)
    PROVE  Parts'
  <1>0. All /\ \A t \in Servers : Each(t)
    BY DEF Parts
  <1>1. ServerOK /\ OnlyOnes /\ servers[s] \in ServerStates /\ Each(s)
    BY <1>0 DEF All, ServerOK
  <1>6. Still /\ UNCHANGED <<starts, trouble, fragment>> /\ servers[s].at = "bind"
    BY DEF Bind, Still
  <1>8. /\ \A n : LeftBy(n)' = LeftBy(n)
        /\ \A i : IdBefore(i)' = IdBefore(i)
        /\ genome' = genome /\ taken' = taken /\ answered' = answered /\ finished' = finished
    BY <1>6, GenomeStays DEF Still
  <1>14. starts' \in 0..MaxStarts /\ trouble' \in {"none", "write", "doubled"} /\ fragment' \in BOOLEAN
    BY <1>1, <1>6 DEF ServerOK
  <1>15. Len(taken) \in Nat
    BY <1>1 DEF ServerOK
  <1>2. CASE \E t \in Servers : servers[t].at \in {"accept", "work"}
    <2>1. servers' = [servers EXCEPT ![s] = Off] /\ servers'[s] = Off
      BY <1>1, <1>2 DEF Bind, ServerOK
    <2>2. \A t \in Servers : t # s => servers'[t] = servers[t]
      BY <1>1, <2>1 DEF ServerOK
    <2>3. Knows(s)' /\ Works(s)' /\ Records(s)' /\ Counts(s)'
      BY <1>8, <1>15, <2>1, OffIsFine
    <2>4. OnlyOnes'
      BY <1>1, <1>6, <2>1, <2>2, OffIs DEF OnlyOnes, Serves, Up
    <2>5. \A t \in Servers : Begins(t)'
      <3>1. \A t \in Servers : servers'[t].at = "boot" => servers'[t] = servers[t]
        BY <2>1, <2>2, OffIs
      <3> QED BY <1>0, <1>6, <1>8, <3>1, BeginsStays
    <2> QED BY <1>6, <1>14, <2>1, <2>3, <2>4, <2>5, OffIs, MoveKeeps
  <1>3. CASE ~\E t \in Servers : servers[t].at \in {"accept", "work"}
    <2>0. PICK w : w = [servers[s] EXCEPT !.at = "accept", !.since = Len(taken)]
      OBVIOUS
    <2>1. servers' = [servers EXCEPT ![s] = w] /\ servers'[s] = w
      BY <1>1, <1>3, <2>0 DEF Bind, ServerOK
    <2>2. \A t \in Servers : t # s => servers'[t] = servers[t]
      BY <1>1, <2>1 DEF ServerOK
    <2>3. /\ w \in ServerStates
          /\ w.at = "accept" /\ w.running = servers[s].running /\ w.next = servers[s].next
          /\ w.last = servers[s].last
          /\ w.ready = servers[s].ready /\ w.todo = servers[s].todo /\ w.since = Len(taken)
          /\ w.total = servers[s].total /\ w.hits = servers[s].hits /\ w.misses = servers[s].misses
          /\ w.late = servers[s].late
      BY <1>1, <1>15, <2>0 DEF ServerStates
    <2>4. OnlyOnes'
      BY <1>1, <1>3, <1>6, <2>1, <2>2, <2>3 DEF OnlyOnes, Serves, Up
    <2>5. Knows(s)'
      BY <1>1, <1>6, <1>8, <2>1, <2>3 DEF Each, Knows, Up
    <2>6. Works(s)'
      BY <1>1, <1>6, <2>1, <2>3 DEF Each, Works
    <2>7. Records(s)'
      BY <2>1, <2>3 DEF Records
    <2>8. Counts(s)'
      <3>1. /\ w.running /\ w.total = 0 /\ w.hits = 0 /\ w.misses = 0 /\ w.late = 0
        BY <1>1, <1>6, <2>3 DEF Each, Counts
      <3>2. w.since + 1..Len(taken) = {}
        BY <1>15, <2>3
      <3>3. Cardinality(w.since + 1..Len(taken)) = 0
            /\ Cardinality({n \in w.since + 1..Len(taken) : taken[n].kind = "search"}) = 0
        <4>1. {n \in w.since + 1..Len(taken) : taken[n].kind = "search"} = {}
          BY <3>2
        <4> QED BY <3>2, <4>1, FS_EmptySet
      <3>4. /\ servers'[s].total = Cardinality(servers'[s].since + 1..Len(taken'))
            /\ servers'[s].hits + servers'[s].misses
                = Cardinality({n \in servers'[s].since + 1..Len(taken') : taken'[n].kind = "search"})
        <4>1. w.hits + w.misses = 0
          BY <3>1
        <4> QED BY <1>8, <2>1, <3>1, <3>3, <4>1
      <3>5. servers'[s].since <= Len(taken') /\ servers'[s].late = 0 /\ servers'[s].late <= 1 /\ servers'[s].at = "accept"
        BY <1>8, <1>15, <2>1, <2>3, <3>1
      <3> QED BY <3>4, <3>5 DEF Counts
    <2>9. \A t \in Servers : Begins(t)'
      <3>1. \A t \in Servers : servers'[t].at = "boot" => servers'[t] = servers[t]
        BY <2>1, <2>2, <2>3
      <3> QED BY <1>0, <1>6, <1>8, <3>1, BeginsStays
    <2> QED BY <1>6, <1>14, <2>1, <2>3, <2>4, <2>5, <2>6, <2>7, <2>8, <2>9, MoveKeeps
  <1> QED BY <1>2, <1>3

\* A process that dies leaves its request unfinished.
LEMMA DiesKeeps ==
    ASSUME Parts, NEW s \in Servers, ServerDies(s)
    PROVE  Parts'
  <1>0. All /\ \A t \in Servers : Each(t)
    BY DEF Parts
  <1>1. ServerOK /\ OnlyOnes
    BY <1>0 DEF All
  <1>2. /\ servers' = [servers EXCEPT ![s] = Off]
        /\ UNCHANGED <<genome, taken, answered, finished, starts>>
        /\ \/ trouble' = trouble /\ fragment' = fragment
           \/ trouble = "none" /\ trouble' = "write" /\ fragment' = TRUE
    BY DEF ServerDies
  <1>3. servers'[s] = Off /\ \A t \in Servers : t # s => servers'[t] = servers[t]
    BY <1>1, <1>2 DEF ServerOK
  <1>4. Still
    BY <1>2 DEF Still
  <1>5. starts' \in 0..MaxStarts /\ trouble' \in {"none", "write", "doubled"} /\ fragment' \in BOOLEAN
    BY <1>1, <1>2 DEF ServerOK
  <1>6. Knows(s)' /\ Works(s)' /\ Records(s)' /\ Counts(s)'
    <2>1. Len(taken') \in Nat
      BY <1>1, <1>2 DEF ServerOK
    <2> QED BY <1>3, <2>1, OffIsFine
  <1>7. OnlyOnes'
    <2>1. \A t \in Servers : servers'[t].at # "down" => t # s /\ servers'[t] = servers[t]
      BY <1>3, OffIs
    <2>2. \A t, u \in Servers : Serves(t)' /\ Serves(u)' => t = u
      BY <1>1, <2>1 DEF OnlyOnes, Serves
    <2>3. fragment' => trouble' = "write"
      BY <1>1, <1>2 DEF OnlyOnes
    <2>4. trouble' # "doubled" => \A t, u \in Servers : Up(t)' /\ Up(u)' => t = u
      <3>1. trouble' # "doubled" => trouble # "doubled"
        BY <1>2
      <3> QED BY <1>1, <2>1, <3>1 DEF OnlyOnes, Up
    <2> QED BY <2>2, <2>3, <2>4 DEF OnlyOnes
  <1>8. \A t \in Servers : Begins(t)'
    <2>1. \A t \in Servers : servers'[t].at = "boot" => servers'[t] = servers[t]
      BY <1>3, OffIs
    <2>2. trouble' = "doubled" /\ taken' = <<>> => trouble = "doubled" /\ taken = <<>>
      BY <1>2
    <2> QED BY <1>0, <1>2, <2>1, <2>2, BeginsStays
  <1> QED BY <1>2, <1>4, <1>5, <1>6, <1>7, <1>8, OffIs, MoveKeeps

\* A server that starts knows where the genome ends; another one may be up.
LEMMA StartServerKeeps ==
    ASSUME Parts, NEW s \in Servers, StartServer(s)
    PROVE  Parts'
  <1>0. All /\ \A t \in Servers : Each(t)
    BY DEF Parts
  <1>1. ServerOK /\ OnlyOnes /\ Chained
    BY <1>0 DEF All
  <1>2. PICK w : w = [Off EXCEPT !.at = "boot", !.nth = starts', !.ready = Whole, !.next = Len(genome) + 1,
                                 !.last = IdBefore(Len(genome) + 1)]
    OBVIOUS
  <1>3. /\ servers' = [servers EXCEPT ![s] = w]
        /\ UNCHANGED <<genome, taken, answered, finished, fragment>>
        /\ servers[s].at = "down" /\ starts < MaxStarts /\ starts' = starts + 1
        /\ \/ trouble' = trouble /\ \A t \in Servers : servers[t].at = "down"
           \/ trouble = "none" /\ trouble' = "doubled"
    BY <1>2 DEF StartServer
  <1>4. Len(genome) \in Nat /\ Len(taken) \in Nat /\ starts' \in 0..MaxStarts /\ Whole \in BOOLEAN
        /\ genome \in Seq([id : BlockIds, prev : BlockIds]) /\ starts' \in Nat
    BY <1>1, <1>3, ServerAssumption DEF ServerOK, Whole
  <1>5. IdBefore(Len(genome) + 1) \in BlockIds
    <2>1. CASE Len(genome) = 0
      BY <2>1 DEF IdBefore, NoBlock, BlockIds
    <2>2. CASE Len(genome) # 0
      <3>1. Len(genome) + 1 # 1 /\ (Len(genome) + 1) - 1 = Len(genome) /\ Len(genome) \in 1..Len(genome)
        BY <1>4, <2>2
      <3>2. genome[Len(genome)] \in [id : BlockIds, prev : BlockIds]
        BY <1>4, <3>1, ElementOfSeq
      <3>3. IdBefore(Len(genome) + 1) = genome[Len(genome)].id
        BY <3>1 DEF IdBefore
      <3> QED BY <3>2, <3>3
    <2> QED BY <2>1, <2>2
  <1>6. /\ w \in ServerStates /\ w.at = "boot" /\ w.ready = Whole /\ w.next = Len(genome) + 1
        /\ w.last = IdBefore(Len(genome) + 1) /\ w.todo = <<>> /\ w.running /\ w.late = 0 /\ w.total = 0
        /\ w.hits = 0 /\ w.misses = 0 /\ w.since = 0
    <2>1. PICK b \in BOOLEAN, n \in Nat, f \in Nat, i \in BlockIds :
            b = Whole /\ n = Len(genome) + 1 /\ f = starts' /\ i = IdBefore(Len(genome) + 1)
      BY <1>4, <1>5
    <2>2. w = [Off EXCEPT !.at = "boot", !.nth = f, !.ready = b, !.next = n, !.last = i]
      BY <1>2, <2>1
    <2>3. Off \in ServerStates
      BY OffIs
    <2>4. /\ w \in ServerStates /\ w.at = "boot" /\ w.ready = b /\ w.next = n /\ w.last = i
          /\ w.todo = Off.todo /\ w.running = Off.running /\ w.late = Off.late /\ w.total = Off.total
          /\ w.hits = Off.hits /\ w.misses = Off.misses /\ w.since = Off.since
      BY <2>2, <2>3 DEF ServerStates
    <2> QED BY <2>1, <2>4, OffIs
  <1>7. servers'[s] = w /\ \A t \in Servers : t # s => servers'[t] = servers[t]
    BY <1>1, <1>3 DEF ServerOK
  <1>8. Still
    BY <1>3 DEF Still
  <1>9. trouble' \in {"none", "write", "doubled"} /\ fragment' \in BOOLEAN
    BY <1>1, <1>3 DEF ServerOK
  <1>10. OnlyOnes'
    <2>1. \A t \in Servers : Serves(t)' => Serves(t)
      BY <1>6, <1>7 DEF Serves
    <2>2. fragment' => trouble' = "write"
      BY <1>1, <1>3 DEF OnlyOnes
    <2>3. trouble' # "doubled" => \A t, u \in Servers : Up(t)' /\ Up(u)' => t = u
      <3>1. trouble' # "doubled" => \A t \in Servers : servers[t].at = "down"
        BY <1>3
      <3> QED BY <1>7, <3>1 DEF Up
    <2> QED BY <1>1, <2>1, <2>2, <2>3 DEF OnlyOnes
  <1>11. Knows(s)'
    <2>1. IdBefore(Len(genome) + 1)' = IdBefore(Len(genome) + 1)
      BY <1>3 DEF IdBefore
    <2>2. (~fragment /\ trouble # "doubled")' => Whole
      <3>1. \A i \in DOMAIN genome : ~Linked(i) => trouble = "doubled"
        BY <1>1 DEF Chained
      <3>2. trouble' # "doubled" => trouble # "doubled"
        BY <1>3
      <3> QED BY <1>3, <3>1, <3>2 DEF Whole
    <2> QED BY <1>3, <1>4, <1>6, <1>7, <2>1, <2>2 DEF Knows, Up
  <1>12. Works(s)' /\ Records(s)' /\ Counts(s)'
    BY <1>3, <1>4, <1>6, <1>7 DEF Works, Records, Counts
  <1>13. ASSUME NEW t \in Servers PROVE Begins(t)'
    <2> SUFFICES ASSUME trouble' = "doubled", taken' = <<>>, servers'[t].at = "boot"
                 PROVE  /\ servers'[t].next \in {Len(genome), Len(genome) + 1}
                        /\ servers'[t].last = IdBefore(servers'[t].next)
                        /\ \A u \in Servers : servers'[u].at = "boot" => servers'[u].next = servers'[t].next
      BY <1>3, GenomeStays DEF Begins
    <2>1. CASE \A u \in Servers : servers[u].at = "down"
      <3>1. \A u \in Servers : servers'[u].at = "boot" => u = s
        BY <1>7, <2>1
      <3> QED BY <1>6, <1>7, <3>1
    <2>2. CASE trouble = "none"
      <3>1. ~fragment
        BY <1>1, <2>2 DEF OnlyOnes
      <3>2. ASSUME NEW u \in Servers, servers'[u].at = "boot"
            PROVE  servers'[u].next = Len(genome) + 1 /\ servers'[u].last = IdBefore(Len(genome) + 1)
        <4>1. CASE u = s
          BY <1>6, <1>7, <4>1
        <4>2. CASE u # s
          <5>1. servers'[u] = servers[u] /\ servers[u].at = "boot" /\ Knows(u)
            BY <1>0, <1>7, <3>2, <4>2 DEF Each
          <5> QED BY <2>2, <3>1, <5>1 DEF Knows, Up
        <4> QED BY <4>1, <4>2
      <3> QED BY <3>2
    <2> QED BY <1>3, <2>1, <2>2
  <1> QED BY <1>3, <1>4, <1>6, <1>8, <1>9, <1>10, <1>11, <1>12, <1>13, MoveKeeps

-----------------------------------------------------------------------------
(* Requests *)

\* The end of what there was to do.
LEMMA TailIs ==
    ASSUME NEW u \in Seq(Items), u # <<>>
    PROVE  /\ Tail(u) \in Seq(Items) /\ Len(Tail(u)) = Len(u) - 1 /\ Len(u) \in Nat \ {0}
           /\ DOMAIN u = 1..Len(u) /\ DOMAIN Tail(u) = 1..Len(u) - 1
           /\ Head(u) = u[1] /\ Head(u) \in Items
           /\ \A i \in 1..Len(u) - 1 : Tail(u)[i] = u[i + 1]
  <1>1. Len(u) \in Nat \ {0} /\ DOMAIN u = 1..Len(u)
    BY EmptySeq, LenProperties
  <1>2. Tail(u) \in Seq(Items) /\ Len(Tail(u)) = Len(u) - 1
        /\ \A i \in 1..Len(u) - 1 : Tail(u)[i] = u[i + 1]
    BY HeadTailProperties
  <1>3. DOMAIN Tail(u) = 1..Len(u) - 1
    BY <1>2, LenProperties
  <1>4. Head(u) = u[1] /\ u[1] \in Items
    BY <1>1, HeadTailProperties, ElementOfSeq
  <1> QED BY <1>1, <1>2, <1>3, <1>4

\* What is due when the first thing is done, and after an event come later ones.
LEMMA DueTail ==
    ASSUME NEW s \in Servers, servers[s].todo \in Seq(Items), servers[s].todo # <<>>,
           servers'[s].todo = Tail(servers[s].todo), taken' = taken, Ordered(s)
    PROVE  /\ Due(s)' \subseteq Due(s)
           /\ Head(servers[s].todo).event = "reply" => Due(s)' = Due(s)
           /\ Head(servers[s].todo).event # "reply" =>
                /\ Head(servers[s].todo).place \in Due(s)
                /\ Due(s) \subseteq Due(s)' \cup {Head(servers[s].todo).place}
                /\ Head(servers[s].todo).place \in DOMAIN Leaves(taken[Len(taken)])
                /\ Head(servers[s].todo).size
                    = Leaves(taken[Len(taken)])[Head(servers[s].todo).place].size
                /\ \A q \in Due(s)' : Head(servers[s].todo).place < q
           /\ Ordered(s)'
  <1>1. PICK u : u = servers[s].todo
    OBVIOUS
  <1>2. PICK v : v = Tail(u)
    OBVIOUS
  <1>3. u \in Seq(Items) /\ u # <<>> /\ servers'[s].todo = v
    BY <1>1, <1>2
  <1>4. /\ v \in Seq(Items) /\ Len(v) = Len(u) - 1 /\ Len(u) \in Nat \ {0}
        /\ DOMAIN u = 1..Len(u) /\ DOMAIN v = 1..Len(u) - 1
        /\ Head(u) = u[1]
        /\ \A i \in 1..Len(u) - 1 : v[i] = u[i + 1]
    BY <1>2, <1>3, TailIs
  <1>5. /\ \A q : q \in Due(s) <=> \E i \in DOMAIN u : u[i].event # "reply" /\ u[i].place = q
        /\ \A q : q \in Due(s)' <=> \E i \in DOMAIN v : v[i].event # "reply" /\ v[i].place = q
    BY <1>1, <1>3 DEF Due
  <1>6. \A i \in DOMAIN v : i + 1 \in DOMAIN u /\ v[i] = u[i + 1] /\ 1 < i + 1
    BY <1>4
  <1>7. Due(s)' \subseteq Due(s)
    BY <1>5, <1>6
  <1>8. \A i \in DOMAIN u : i = 1 \/ (i - 1 \in DOMAIN v /\ v[i - 1] = u[i])
    <2> TAKE i \in DOMAIN u
    <2>1. CASE i # 1
      <3>1. i - 1 \in 1..Len(u) - 1 /\ (i - 1) + 1 = i
        BY <1>4, <2>1
      <3> QED BY <1>4, <3>1
    <2> QED BY <2>1
  <1>9. u[1].event = "reply" => Due(s) \subseteq Due(s)'
    <2> SUFFICES ASSUME u[1].event = "reply", NEW q \in Due(s) PROVE q \in Due(s)'
      OBVIOUS
    <2>1. PICK i \in DOMAIN u : u[i].event # "reply" /\ u[i].place = q
      BY <1>5
    <2>2. i - 1 \in DOMAIN v /\ v[i - 1] = u[i]
      BY <1>8, <2>1
    <2> QED BY <1>5, <2>1, <2>2
  <1>10. 1 \in DOMAIN u
    BY <1>4
  <1>11. \A i \in DOMAIN u : u[i].event # "reply" =>
            /\ u[i].place \in DOMAIN Leaves(taken[Len(taken)])
            /\ u[i].size = Leaves(taken[Len(taken)])[u[i].place].size
            /\ \A j \in DOMAIN u : i < j /\ u[j].event # "reply" => u[i].place < u[j].place
    BY <1>1 DEF Ordered
  <1>12. ASSUME u[1].event # "reply"
         PROVE  /\ u[1].place \in Due(s)
                /\ Due(s) \subseteq Due(s)' \cup {u[1].place}
                /\ u[1].place \in DOMAIN Leaves(taken[Len(taken)])
                /\ u[1].size = Leaves(taken[Len(taken)])[u[1].place].size
                /\ \A q \in Due(s)' : u[1].place < q
    <2>1. u[1].place \in Due(s)
      BY <1>5, <1>10, <1>12
    <2>2. ASSUME NEW q \in Due(s), q # u[1].place PROVE q \in Due(s)'
      <3>1. PICK i \in DOMAIN u : u[i].event # "reply" /\ u[i].place = q
        BY <1>5
      <3>2. i - 1 \in DOMAIN v /\ v[i - 1] = u[i]
        BY <1>8, <2>2, <3>1
      <3> QED BY <1>5, <3>1, <3>2
    <2>3. \A q \in Due(s)' : u[1].place < q
      <3> TAKE q \in Due(s)'
      <3>1. PICK i \in DOMAIN v : v[i].event # "reply" /\ v[i].place = q
        BY <1>5
      <3>2. i + 1 \in DOMAIN u /\ v[i] = u[i + 1] /\ 1 < i + 1
        BY <1>6, <3>1
      <3> QED BY <1>10, <1>11, <1>12, <3>1, <3>2
    <2> QED BY <1>10, <1>11, <1>12, <2>1, <2>2, <2>3
  <1>13. Ordered(s)'
    <2> SUFFICES ASSUME NEW i \in DOMAIN v, v[i].event # "reply"
                 PROVE  /\ v[i].place \in DOMAIN Leaves(taken[Len(taken)])
                        /\ v[i].size = Leaves(taken[Len(taken)])[v[i].place].size
                        /\ \A j \in DOMAIN v : i < j /\ v[j].event # "reply" => v[i].place < v[j].place
      BY <1>3 DEF Ordered
    <2>1. i + 1 \in DOMAIN u /\ v[i] = u[i + 1]
      BY <1>6
    <2>2. ASSUME NEW j \in DOMAIN v, i < j, v[j].event # "reply"
          PROVE  v[i].place < v[j].place
      <3>1. j + 1 \in DOMAIN u /\ v[j] = u[j + 1] /\ i + 1 < j + 1
        BY <1>4, <1>6, <2>2
      <3> QED BY <1>11, <2>1, <2>2, <3>1
    <2> QED BY <1>11, <2>1, <2>2
  <1> QED BY <1>1, <1>4, <1>7, <1>9, <1>12, <1>13

\* The searches after the mth request.
Searches(f, m, n) == {i \in m + 1..n : f[i].kind = "search"}

\* The same requests so far.
Alike(f, g, m, n) == \A i \in m + 1..n : g[i] = f[i]

\* The requests since a server began, with one more.
LEMMA OneMore ==
    ASSUME NEW m \in Nat, NEW n \in Nat, NEW f, NEW g, m <= n, Alike(f, g, m, n)
    PROVE  /\ Cardinality(m + 1..n + 1) = Cardinality(m + 1..n) + 1
           /\ Cardinality(Searches(g, m, n + 1))
                = Cardinality(Searches(f, m, n))
                  + (IF g[n + 1].kind = "search" THEN 1 ELSE 0)
           /\ Cardinality(m + 1..n) \in Nat
           /\ Cardinality(Searches(f, m, n)) \in Nat
  <1> DEFINE A == m + 1..n
             S == Searches(f, m, n)
             T == Searches(g, m, n + 1)
  <1>1. m + 1..n + 1 = A \cup {n + 1} /\ n + 1 \notin A
    OBVIOUS
  <1>2. IsFiniteSet(A) /\ Cardinality(A) \in Nat
    BY FS_Interval, FS_CardinalityType
  <1>3. IsFiniteSet(S) /\ Cardinality(S) \in Nat /\ n + 1 \notin S
    BY <1>1, <1>2, FS_Subset, FS_CardinalityType DEF Searches
  <1>4. Cardinality(m + 1..n + 1) = Cardinality(A) + 1
    BY <1>1, <1>2, FS_AddElement
  <1>5. T = IF g[n + 1].kind = "search" THEN S \cup {n + 1} ELSE S
    BY <1>1 DEF Searches, Alike
  <1>6. Cardinality(T) = Cardinality(S) + (IF g[n + 1].kind = "search" THEN 1 ELSE 0)
    <2> HIDE DEF S, T
    <2>1. CASE g[n + 1].kind = "search"
      BY <1>3, <1>5, <2>1, FS_AddElement
    <2>2. CASE g[n + 1].kind # "search"
      BY <1>3, <1>5, <2>2
    <2> QED BY <2>1, <2>2
  <1> QED BY <1>2, <1>3, <1>4, <1>6

\* A server that takes a request has to record all that it leaves.
LEMMA TakeRequestKeeps ==
    ASSUME Parts, NEW s \in Servers, NEW r \in Requests, TakeRequest(s, r)
    PROVE  Parts'
  <1>0. All /\ \A t \in Servers : Each(t)
    BY DEF Parts
  <1>1. ServerOK /\ OnlyOnes /\ Lost /\ InOrderOf /\ Chained /\ RequestsAreRecorded
        /\ servers[s] \in ServerStates /\ Each(s)
    BY <1>0 DEF All, ServerOK
  <1> DEFINE hit == r.kind = "search" /\ r.size > 0 /\ FoundDocs(r) # <<>>
  <1>2. PICK h \in {0, 1}, m \in {0, 1}, l \in {0, 1} :
            /\ h = (IF hit THEN 1 ELSE 0) /\ m = (IF r.kind = "search" /\ ~hit THEN 1 ELSE 0)
            /\ l = (IF servers[s].running THEN 0 ELSE 1)
    OBVIOUS
  <1>3. h + m = IF r.kind = "search" THEN 1 ELSE 0
    BY <1>2
  <1>4. PICK w : w = [servers[s] EXCEPT !.at = "work", !.todo = Steps(r), !.total = servers[s].total + 1,
                                        !.hits = servers[s].hits + h, !.misses = servers[s].misses + m,
                                        !.late = servers[s].late + l]
    OBVIOUS
  <1>5. Steps(r) \in Seq(Items)
    BY StepsAre
  <1>6. /\ w \in ServerStates
        /\ w.at = "work" /\ w.todo = Steps(r) /\ w.total = servers[s].total + 1
        /\ w.hits = servers[s].hits + h /\ w.misses = servers[s].misses + m /\ w.late = servers[s].late + l
        /\ w.running = servers[s].running /\ w.next = servers[s].next /\ w.last = servers[s].last
        /\ w.ready = servers[s].ready /\ w.since = servers[s].since
    <2>1. PICK u \in Seq(Items) : u = Steps(r)
      BY <1>5
    <2>2. h \in Nat /\ m \in Nat /\ l \in Nat
      OBVIOUS
    <2>3. PICK a \in Nat, b \in Nat, c \in Nat, d \in Nat :
            a = servers[s].total + 1 /\ b = servers[s].hits + h /\ c = servers[s].misses + m
            /\ d = servers[s].late + l
      <3>1. servers[s].total \in Nat /\ servers[s].hits \in Nat /\ servers[s].misses \in Nat
            /\ servers[s].late \in Nat
        BY <1>1 DEF ServerStates
      <3>2. /\ servers[s].total + 1 \in Nat /\ servers[s].hits + h \in Nat
            /\ servers[s].misses + m \in Nat /\ servers[s].late + l \in Nat
        <4>1. \A x, y \in Nat : x + y \in Nat
          OBVIOUS
        <4>2. 1 \in Nat
          OBVIOUS
        <4> QED BY <2>2, <3>1, <4>1, <4>2, Zenon
      <3> QED BY <3>2
    <2>4. w = [servers[s] EXCEPT !.at = "work", !.todo = u, !.total = a, !.hits = b, !.misses = c, !.late = d]
      BY <1>4, <2>1, <2>3
    <2>5. /\ w \in ServerStates
          /\ w.at = "work" /\ w.todo = u /\ w.total = a /\ w.hits = b /\ w.misses = c /\ w.late = d
          /\ w.running = servers[s].running /\ w.next = servers[s].next /\ w.last = servers[s].last
          /\ w.ready = servers[s].ready /\ w.since = servers[s].since
      BY <1>1, <2>4 DEF ServerStates
    <2> QED BY <2>1, <2>3, <2>5
  <1> HIDE DEF hit
  <1>7. /\ servers' = [servers EXCEPT ![s] = w] /\ taken' = Append(taken, r)
        /\ servers[s].at = "accept"
        /\ UNCHANGED <<genome, fragment, answered, finished, starts, trouble>>
    <2> DEFINE x(i, j, k) == [servers EXCEPT
            ![s] = [@ EXCEPT !.at = "work", !.todo = Steps(r), !.total = servers[s].total + 1,
                             !.hits = servers[s].hits + i, !.misses = servers[s].misses + j,
                             !.late = servers[s].late + k]]
    <2>1. servers' = x(IF hit THEN 1 ELSE 0, IF r.kind = "search" /\ ~hit THEN 1 ELSE 0,
                       IF servers[s].running THEN 0 ELSE 1)
      BY DEF TakeRequest, hit
    <2>2. x(h, m, l) = [servers EXCEPT ![s] = w]
      BY <1>4
    <2> HIDE DEF x
    <2>3. servers' = [servers EXCEPT ![s] = w]
      BY <1>2, <2>1, <2>2
    <2> QED BY <2>3 DEF TakeRequest
  <1>8. servers'[s] = w /\ \A t \in Servers : t # s => servers'[t] = servers[t]
    BY <1>1, <1>7 DEF ServerOK
  <1>9. PICK n \in Nat : n = Len(taken) /\ DOMAIN taken = 1..n
    BY <1>1, LenProperties DEF ServerOK
  <1>10. /\ taken' \in Seq(Requests) /\ Len(taken') = n + 1 /\ DOMAIN taken' = 1..n + 1
         /\ taken'[n + 1] = r /\ \A i \in 1..n : taken'[i] = taken[i]
    <2>1. taken \in Seq(Requests)
      BY <1>1 DEF ServerOK
    <2> QED BY <1>7, <1>9, <2>1, AppendProperties
  <1>11. /\ \A q : LeftBy(q)' = LeftBy(q)
         /\ \A i : IdBefore(i)' = IdBefore(i)
         /\ \A i : Linked(i)' = Linked(i)
    BY <1>7, GenomeStays
  <1>12. ServerOK'
    <2>1. servers' \in [Servers -> ServerStates]
      BY <1>1, <1>6, <1>7 DEF ServerOK
    <2>2. answered' \cup finished' \subseteq DOMAIN taken'
      BY <1>1, <1>7, <1>9, <1>10 DEF ServerOK
    <2> QED BY <1>1, <1>7, <1>10, <2>1, <2>2 DEF ServerOK
  <1>13. OnlyOnes'
    BY <1>1, <1>6, <1>7, <1>8 DEF OnlyOnes, Serves, Up
  <1>14. \A i \in DOMAIN genome : genome[i].id.by \in Nat /\ genome[i].id.by <= n
    <2>1. \A i \in DOMAIN genome : genome[i] \in [id : BlockIds, prev : BlockIds]
      BY <1>1, ElementOfSeq, LenProperties DEF ServerOK
    <2> QED BY <1>1, <1>9, <2>1 DEF Lost, BlockIds
  <1>15. LeftBy(n + 1) = {}
    <2>1. \A i \in DOMAIN genome : genome[i].id.by # n + 1
      BY <1>14
    <2> QED BY <2>1 DEF LeftBy
  <1>16. Lost'
    <2>1. \A i \in DOMAIN genome' : genome'[i].id.by <= Len(taken')
      BY <1>7, <1>10, <1>14
    <2>2. ASSUME NEW k \in finished PROVE taken'[k] = taken[k]
      <3>1. k \in 1..n
        BY <1>1, <1>9 DEF ServerOK
      <3> QED BY <1>10, <3>1
    <2> QED BY <1>1, <1>7, <1>11, <2>1, <2>2 DEF Lost
  <1>17. InOrderOf'
    BY <1>1, <1>7 DEF InOrderOf
  <1>18. taken' # <<>>
    BY <1>10
  <1>19. Chained'
    BY <1>1, <1>7, <1>11, <1>18 DEF Chained
  <1>20. RequestsAreRecorded'
    <2> SUFFICES ASSUME trouble' = "none"
                 PROVE  /\ Whole'
                        /\ \A i, j \in DOMAIN genome' :
                            i < j /\ genome'[j].id.by > 0 => genome'[i].id.by <= genome'[j].id.by
                        /\ \A k \in DOMAIN taken' :
                            /\ LeftBy(k) \subseteq Fitting(taken'[k])
                            /\ \A p \in Fitting(taken'[k]), q \in LeftBy(k) : p <= q => p \in LeftBy(k)
                            /\ k \in finished' \/ (k \in answered' /\ taken'[k].kind # "search") =>
                                LeftBy(k) = Fitting(taken'[k])
      BY <1>11 DEF RequestsAreRecorded
    <2>1. Whole'
      BY <1>1, <1>7, <1>11 DEF RequestsAreRecorded, Whole
    <2>2. \A i, j \in DOMAIN genome' :
            i < j /\ genome'[j].id.by > 0 => genome'[i].id.by <= genome'[j].id.by
      BY <1>1, <1>7 DEF RequestsAreRecorded
    <2>3. ASSUME NEW k \in DOMAIN taken'
          PROVE  /\ LeftBy(k) \subseteq Fitting(taken'[k])
                 /\ \A p \in Fitting(taken'[k]), q \in LeftBy(k) : p <= q => p \in LeftBy(k)
                 /\ k \in finished' \/ (k \in answered' /\ taken'[k].kind # "search") =>
                        LeftBy(k) = Fitting(taken'[k])
      <3>1. CASE k = n + 1
        <4>1. k \notin finished /\ k \notin answered
          <5>1. k \notin DOMAIN taken
            BY <1>9, <3>1
          <5> QED BY <1>1, <5>1 DEF ServerOK
        <4> QED BY <1>7, <1>15, <3>1, <4>1
      <3>2. CASE k # n + 1
        <4>1. k \in 1..n
          BY <1>10, <2>3, <3>2
        <4> QED BY <1>1, <1>7, <1>9, <1>10, <4>1 DEF RequestsAreRecorded
      <3> QED BY <3>1, <3>2
    <2> QED BY <2>1, <2>2, <2>3
  <1>21. \A t \in Servers : Begins(t)'
    BY <1>18 DEF Begins
  <1>22. \A t \in Servers : Knows(t)'
    <2> TAKE t \in Servers
    <2>1. /\ servers'[t].next = servers[t].next /\ servers'[t].ready = servers[t].ready
          /\ servers'[t].last = servers[t].last /\ (servers'[t].at # "down" => servers[t].at # "down")
      BY <1>6, <1>7, <1>8
    <2> QED BY <1>0, <1>7, <1>11, <2>1 DEF Each, Knows, Up
  <1>23. ASSUME NEW t \in Servers, t # s PROVE Works(t)' /\ Records(t)' /\ Counts(t)'
    <2>1. ~Serves(t)
      BY <1>1, <1>7, <1>23 DEF OnlyOnes, Serves
    <2>2. Len(taken') >= Len(taken) /\ Len(taken') \in Nat
      BY <1>9, <1>10
    <2>3. servers'[t] = servers[t] /\ Each(t)
      BY <1>0, <1>8, <1>23
    <2> QED BY <1>1, <2>1, <2>2, <2>3, IdleStays
  <1>24. Works(s)'
    <2>1. Len(taken') > 0 /\ Len(taken') \notin finished'
      <3>1. n + 1 \notin DOMAIN taken
        BY <1>9
      <3> QED BY <1>1, <1>7, <1>9, <1>10, <3>1 DEF ServerOK
    <2>2. Ordered(s)'
      BY <1>6, <1>8, <1>10, StepsAre DEF Ordered
    <2>3. AnswersLast(s)'
      <3>1. Len(taken') \notin answered'
        <4>1. n + 1 \notin DOMAIN taken
          BY <1>9
        <4> QED BY <1>1, <1>7, <1>9, <1>10, <4>1 DEF ServerOK
      <3> QED BY <1>6, <1>8, <1>10, <3>1, StepsAre DEF AnswersLast
    <2>4. \A i \in DOMAIN genome' : genome'[i].id.by # Len(taken')
      BY <1>7, <1>10, <1>14
    <2>5. LeftBy(Len(taken))' = {}
      <3>1. LeftBy(Len(taken))' = LeftBy(Len(taken'))
        BY <1>7 DEF LeftBy
      <3> QED BY <1>10, <1>15, <3>1
    <2> QED BY <1>6, <1>8, <2>1, <2>2, <2>3, <2>4, <2>5 DEF Works
  <1>25. Records(s)'
    <2>1. \A p \in DOMAIN Leaves(r) : p \in Due(s)'
      <3> TAKE p \in DOMAIN Leaves(r)
      <3>1. PICK i \in DOMAIN Steps(r) : Steps(r)[i].event # "reply" /\ Steps(r)[i].place = p
        BY StepsAre
      <3> QED BY <1>6, <1>8, <3>1 DEF Due
    <2>2. \A p \in Fitting(taken[Len(taken)])' : p \in Due(s)'
      <3>1. Fitting(taken[Len(taken)])' = Fitting(r)
        BY <1>10 DEF Fitting
      <3> QED BY <2>1, <3>1 DEF Fitting
    <2> QED BY <2>2 DEF Records
  <1>26. Counts(s)'
    <2>1. Counts(s)
      BY <1>1 DEF Each
    <2>2. PICK c \in Nat : c = servers[s].since /\ c <= n
      BY <1>1, <1>9, <2>1 DEF Counts, ServerStates
    <2>3. /\ Cardinality(c + 1..n + 1) = Cardinality(c + 1..n) + 1
          /\ Cardinality({i \in c + 1..n + 1 : taken'[i].kind = "search"})
                = Cardinality({i \in c + 1..n : taken[i].kind = "search"})
                  + (IF taken'[n + 1].kind = "search" THEN 1 ELSE 0)
          /\ Cardinality(c + 1..n) \in Nat
          /\ Cardinality({i \in c + 1..n : taken[i].kind = "search"}) \in Nat
      <3>1. \A i \in c + 1..n : taken'[i] = taken[i]
        BY <1>10, <2>2
      <3>2. PICK f : f = taken
        OBVIOUS
      <3>3. PICK g : g = taken'
        OBVIOUS
      <3>4. Alike(f, g, c, n)
        BY <3>1, <3>2, <3>3 DEF Alike
      <3>6. c \in Nat /\ n \in Nat /\ c <= n
        BY <1>9, <1>1, <2>2, LenProperties DEF ServerOK
      <3> HIDE <3>2, <3>3
      <3>5. /\ Cardinality(c + 1..n + 1) = Cardinality(c + 1..n) + 1
            /\ Cardinality(Searches(g, c, n + 1))
                  = Cardinality(Searches(f, c, n)) + (IF g[n + 1].kind = "search" THEN 1 ELSE 0)
            /\ Cardinality(c + 1..n) \in Nat
            /\ Cardinality(Searches(f, c, n)) \in Nat
        BY <3>4, <3>6, OneMore
      <3> QED BY <3>2, <3>3, <3>5 DEF Searches
    <2>4. /\ servers[s].total = Cardinality(c + 1..n)
          /\ servers[s].hits + servers[s].misses = Cardinality({i \in c + 1..n : taken[i].kind = "search"})
          /\ servers[s].late = 0
      BY <1>7, <1>9, <2>1, <2>2 DEF Counts
    <2>5. w.total = Cardinality(c + 1..n + 1)
      BY <1>6, <2>3, <2>4
    <2>6. w.hits + w.misses = Cardinality({i \in c + 1..n + 1 : taken'[i].kind = "search"})
      <3>1. servers[s].hits \in Nat /\ servers[s].misses \in Nat
        BY <1>1 DEF ServerStates
      <3>2. w.hits + w.misses = (servers[s].hits + servers[s].misses) + (h + m)
        BY <1>6, <3>1
      <3>3. h + m = IF taken'[n + 1].kind = "search" THEN 1 ELSE 0
        BY <1>3, <1>10
      <3> QED BY <2>3, <2>4, <3>2, <3>3
    <2>7. w.late <= 1 /\ (w.running => w.late = 0) /\ w.since = c /\ c <= n + 1
      BY <1>2, <1>6, <2>2, <2>4
    <2> QED BY <1>6, <1>8, <1>10, <2>5, <2>6, <2>7 DEF Counts
  <1>27. ASSUME NEW t \in Servers PROVE Each(t)'
    BY <1>21, <1>22, <1>23, <1>24, <1>25, <1>26 DEF Each
  <1> QED BY <1>12, <1>13, <1>16, <1>17, <1>19, <1>20, <1>27 DEF Parts, All

\* A server that has a request at hand is the one that serves.
LEMMA OneWorks ==
    ASSUME Parts, NEW s \in Servers, servers[s].at = "work", NEW w \in ServerStates,
           servers' = [servers EXCEPT ![s] = w], taken' = taken, w.at \in {"work", "accept", "down"}
    PROVE  /\ servers'[s] = w
           /\ \A t \in Servers : t # s =>
                servers'[t] = servers[t] /\ Works(t)' /\ Records(t)' /\ Counts(t)'
           /\ \A t, u \in Servers : Serves(t)' /\ Serves(u)' => t = u
           /\ trouble # "doubled" => \A t, u \in Servers : Up(t)' /\ Up(u)' => t = u
           /\ \A t \in Servers : servers'[t].at = "boot" => servers'[t] = servers[t]
  <1>1. /\ ServerOK /\ OnlyOnes /\ \A t \in Servers : Each(t)
    BY DEF Parts, All
  <1>2. servers'[s] = w /\ \A t \in Servers : t # s => servers'[t] = servers[t]
    BY <1>1 DEF ServerOK
  <1>3. \A t \in Servers : t # s => ~Serves(t)
    BY <1>1 DEF OnlyOnes, Serves
  <1>4. Len(taken') >= Len(taken) /\ Len(taken') \in Nat
    BY <1>1, LenProperties DEF ServerOK
  <1>5. ASSUME NEW t \in Servers, t # s PROVE Works(t)' /\ Records(t)' /\ Counts(t)'
    BY <1>1, <1>2, <1>3, <1>4, <1>5, IdleStays
  <1>6. \A t \in Servers : (Serves(t)' => Serves(t)) /\ (Up(t)' => Up(t))
    BY <1>2 DEF Serves, Up
  <1> QED BY <1>1, <1>2, <1>5, <1>6 DEF OnlyOnes

\* The counters of a server stay, and then so does what they count.
SameCounts(s) ==
    /\ servers'[s].running = servers[s].running /\ servers'[s].since = servers[s].since
    /\ servers'[s].total = servers[s].total /\ servers'[s].hits = servers[s].hits
    /\ servers'[s].misses = servers[s].misses /\ servers'[s].late = servers[s].late

\* They stay where the server does, ...
LEMMA CountsStay ==
    ASSUME NEW s \in Servers, Counts(s), SameCounts(s), servers'[s].at = servers[s].at, taken' = taken
    PROVE  Counts(s)'
  BY DEF Counts, SameCounts

\* ... and where it goes from a request to the next client.
LEMMA CountsGoOn ==
    ASSUME NEW s \in Servers, Counts(s), SameCounts(s), servers[s].late = 0, taken' = taken,
           servers[s].at \in {"accept", "work"}, servers'[s].at \in {"accept", "work"}
    PROVE  Counts(s)'
  <1>1. /\ servers[s].since <= Len(taken)
        /\ servers[s].total = Cardinality(servers[s].since + 1..Len(taken))
        /\ servers[s].hits + servers[s].misses
            = Cardinality({n \in servers[s].since + 1..Len(taken) : taken[n].kind = "search"})
        /\ servers[s].late <= 1
    BY DEF Counts
  <1> QED BY <1>1 DEF Counts, SameCounts

\* The answer to a lesson or an opinion is sent when all of it is recorded.
LEMMA ReplyKeeps ==
    ASSUME Parts, NEW s \in Servers, Reply(s)
    PROVE  Parts'
  <1>0. All /\ \A t \in Servers : Each(t)
    BY DEF Parts
  <1>1. ServerOK /\ OnlyOnes /\ Lost /\ InOrderOf /\ Chained /\ RequestsAreRecorded
        /\ servers[s] \in ServerStates /\ Each(s)
    BY <1>0 DEF All, ServerOK
  <1>2. PICK u \in Seq(Items) : u = servers[s].todo
    BY <1>1 DEF ServerStates
  <1>3. PICK w : w = [servers[s] EXCEPT !.todo = Tail(servers[s].todo)]
    OBVIOUS
  <1>4. u # <<>> /\ Head(u).event = "reply"
    BY <1>2 DEF Reply
  <1>5. /\ Tail(u) \in Seq(Items) /\ Len(Tail(u)) = Len(u) - 1 /\ Len(u) \in Nat \ {0}
        /\ DOMAIN u = 1..Len(u) /\ DOMAIN Tail(u) = 1..Len(u) - 1 /\ Head(u) = u[1]
        /\ \A i \in 1..Len(u) - 1 : Tail(u)[i] = u[i + 1]
    BY <1>4, TailIs
  <1>6. /\ w \in ServerStates /\ w.todo = Tail(u)
        /\ w.at = servers[s].at /\ w.next = servers[s].next /\ w.ready = servers[s].ready
        /\ w.last = servers[s].last /\ w.running = servers[s].running /\ w.total = servers[s].total
        /\ w.hits = servers[s].hits /\ w.misses = servers[s].misses /\ w.late = servers[s].late
        /\ w.since = servers[s].since
    <2>1. PICK v \in Seq(Items) : v = Tail(u)
      BY <1>5
    <2>2. w = [servers[s] EXCEPT !.todo = v]
      BY <1>2, <1>3, <2>1
    <2>3. /\ w \in ServerStates /\ w.todo = v
          /\ w.at = servers[s].at /\ w.next = servers[s].next /\ w.ready = servers[s].ready
          /\ w.last = servers[s].last /\ w.running = servers[s].running /\ w.total = servers[s].total
          /\ w.hits = servers[s].hits /\ w.misses = servers[s].misses /\ w.late = servers[s].late
          /\ w.since = servers[s].since
      BY <1>1, <2>2 DEF ServerStates
    <2> QED BY <2>1, <2>3
  <1>7. servers' = [servers EXCEPT ![s] = w] /\ answered' = answered \cup {Len(taken)}
        /\ UNCHANGED <<genome, fragment, taken, finished, starts, trouble>>
    BY <1>3 DEF Reply
  <1>8. Works(s) /\ Records(s) /\ Counts(s)
    BY <1>1 DEF Each
  <1>9. servers[s].at = "work"
    BY <1>2, <1>4, <1>8 DEF Works
  <1>10. /\ Ordered(s) /\ AnswersLast(s) /\ Len(taken) > 0 /\ Len(taken) \notin finished
         /\ \A i \in DOMAIN genome : genome[i].id.by = Len(taken) => i < servers[s].next
         /\ \A p \in LeftBy(Len(taken)), q \in Due(s) : p < q
    BY <1>8, <1>9 DEF Works
  <1>11. PICK n \in Nat : n = Len(taken) /\ DOMAIN taken = 1..n /\ n \in 1..n
    BY <1>1, <1>10, LenProperties DEF ServerOK
  <1>12. /\ servers'[s] = w
         /\ \A t \in Servers : t # s =>
                servers'[t] = servers[t] /\ Works(t)' /\ Records(t)' /\ Counts(t)'
         /\ \A t, v \in Servers : Serves(t)' /\ Serves(v)' => t = v
         /\ trouble # "doubled" => \A t, v \in Servers : Up(t)' /\ Up(v)' => t = v
         /\ \A t \in Servers : servers'[t].at = "boot" => servers'[t] = servers[t]
    <2>1. w.at \in {"work", "accept", "down"} /\ taken' = taken
      BY <1>6, <1>7, <1>9
    <2> QED BY <1>6, <1>7, <1>9, <2>1, OneWorks
  <1>13. Due(s)' = Due(s) /\ Ordered(s)'
    <2>1. servers[s].todo \in Seq(Items) /\ servers[s].todo # <<>> /\ Head(servers[s].todo).event = "reply"
          /\ servers'[s].todo = Tail(servers[s].todo) /\ taken' = taken
      BY <1>2, <1>4, <1>6, <1>7, <1>12
    <2> QED BY <1>10, <2>1, DueTail
  <1>14. taken[n].kind # "search" => Len(u) = 1 /\ Due(s) = {}
    <2> SUFFICES ASSUME taken[n].kind # "search" PROVE Len(u) = 1 /\ Due(s) = {}
      OBVIOUS
    <2>1. Len(u) = 1
      <3>1. 1 \in DOMAIN u /\ u[1].event = "reply"
        BY <1>4, <1>5
      <3> QED BY <1>2, <1>10, <1>11, <3>1 DEF AnswersLast
    <2>2. \A i \in DOMAIN u : u[i].event = "reply"
      BY <1>4, <1>5, <2>1
    <2> QED BY <1>2, <2>1, <2>2 DEF Due
  <1>15. /\ \A q : LeftBy(q)' = LeftBy(q)
         /\ \A i : IdBefore(i)' = IdBefore(i)
         /\ \A i : Linked(i)' = Linked(i)
    BY <1>7, GenomeStays
  <1>16. ServerOK'
    <2>1. servers' \in [Servers -> ServerStates]
      BY <1>1, <1>6, <1>7 DEF ServerOK
    <2>2. answered' \cup finished' \subseteq DOMAIN taken'
      BY <1>1, <1>7, <1>11 DEF ServerOK
    <2> QED BY <1>1, <1>7, <2>1, <2>2 DEF ServerOK
  <1>17. OnlyOnes'
    BY <1>1, <1>7, <1>12 DEF OnlyOnes
  <1>18. Lost' /\ InOrderOf' /\ Chained'
    BY <1>1, <1>7, <1>15 DEF Lost, InOrderOf, Chained
  <1>19. RequestsAreRecorded'
    <2> SUFFICES ASSUME trouble = "none"
                 PROVE  /\ Whole
                        /\ \A i, j \in DOMAIN genome :
                            i < j /\ genome[j].id.by > 0 => genome[i].id.by <= genome[j].id.by
                        /\ \A k \in DOMAIN taken :
                            /\ LeftBy(k) \subseteq Fitting(taken[k])
                            /\ \A p \in Fitting(taken[k]), q \in LeftBy(k) : p <= q => p \in LeftBy(k)
                            /\ k \in finished \/ (k \in answered' /\ taken[k].kind # "search") =>
                                LeftBy(k) = Fitting(taken[k])
      BY <1>7, <1>15 DEF RequestsAreRecorded, Whole
    <2>1. ASSUME NEW k \in DOMAIN taken, k \in answered', taken[k].kind # "search"
          PROVE  LeftBy(k) = Fitting(taken[k])
      <3>1. CASE k \in answered
        BY <1>1, <2>1, <3>1 DEF RequestsAreRecorded
      <3>2. CASE k \notin answered
        <4>1. k = n
          BY <1>7, <1>11, <2>1, <3>2
        <4>2. Fitting(taken[n]) \subseteq LeftBy(n)
          BY <1>8, <1>9, <1>11, <1>14, <2>1, <4>1 DEF Records
        <4> QED BY <1>1, <1>11, <4>1, <4>2 DEF RequestsAreRecorded
      <3> QED BY <3>1, <3>2
    <2> QED BY <1>1, <2>1 DEF RequestsAreRecorded
  <1>20. \A t \in Servers : Begins(t)'
    BY <1>0, <1>7, <1>12, BeginsStays
  <1>21. \A t \in Servers : Knows(t)'
    <2> TAKE t \in Servers
    <2>1. /\ servers'[t].next = servers[t].next /\ servers'[t].ready = servers[t].ready
          /\ servers'[t].last = servers[t].last /\ servers'[t].at = servers[t].at
      BY <1>6, <1>12
    <2> QED BY <1>0, <1>7, <1>15, <2>1 DEF Each, Knows, Up
  <1>22. Works(s)'
    <2>1. AnswersLast(s)'
      <3> SUFFICES ASSUME taken[n].kind # "search"
                   PROVE  (\A i \in DOMAIN Tail(u) : Tail(u)[i].event = "reply" => i = Len(Tail(u)))
                          /\ Due(s)' = {}
        BY <1>6, <1>7, <1>11, <1>12 DEF AnswersLast
      <3>1. DOMAIN Tail(u) = {}
        <4>1. Len(u) - 1 = 0
          BY <1>14
        <4>2. DOMAIN Tail(u) = 1..0
          BY <1>5, <4>1
        <4> QED BY <4>2
      <3> QED BY <1>13, <1>14, <3>1
    <2>2. servers'[s].at = "work" /\ servers'[s].next = servers[s].next
      BY <1>6, <1>9, <1>12
    <2>3. \A i \in DOMAIN genome' : genome'[i].id.by = Len(taken') => i < servers'[s].next
      BY <1>7, <1>10, <2>2
    <2>4. LeftBy(Len(taken))' = LeftBy(Len(taken)) /\ Due(s)' = Due(s)
      BY <1>7, <1>13, <1>15
    <2>5. \A p \in LeftBy(Len(taken))', q \in Due(s)' : p < q
      BY <1>10, <2>4
    <2> QED BY <1>7, <1>10, <1>13, <2>1, <2>2, <2>3, <2>5 DEF Works
  <1>23. Records(s)'
    <2>1. Due(s)' = Due(s) /\ LeftBy(Len(taken))' = LeftBy(Len(taken))
      BY <1>7, <1>13, <1>15
    <2> QED BY <1>6, <1>7, <1>8, <1>9, <1>12, <2>1 DEF Records
  <1>24. Counts(s)'
    <2>1. servers'[s].at = servers[s].at /\ SameCounts(s)
      BY <1>6, <1>12 DEF SameCounts
    <2> QED BY <1>7, <1>8, <2>1, CountsStay
  <1>25. ASSUME NEW t \in Servers PROVE Each(t)'
    BY <1>12, <1>20, <1>21, <1>22, <1>23, <1>24 DEF Each
  <1> QED BY <1>16, <1>17, <1>18, <1>19, <1>25 DEF Parts, All

\* A client that is done with has left what was to be left.
LEMMA NextClientKeeps ==
    ASSUME Parts, NEW s \in Servers, NextClient(s)
    PROVE  Parts'
  <1>0. All /\ \A t \in Servers : Each(t)
    BY DEF Parts
  <1>1. ServerOK /\ OnlyOnes /\ Lost /\ InOrderOf /\ Chained /\ RequestsAreRecorded
        /\ servers[s] \in ServerStates /\ Each(s)
    BY <1>0 DEF All, ServerOK
  <1>2. PICK w : w = IF servers[s].running THEN [servers[s] EXCEPT !.at = "accept"] ELSE Off
    OBVIOUS
  <1>3. servers' = [servers EXCEPT ![s] = w] /\ finished' = finished \cup {Len(taken)}
        /\ UNCHANGED <<genome, fragment, taken, answered, starts, trouble>>
        /\ servers[s].at = "work" /\ servers[s].todo = <<>>
    <2> DEFINE x(y) == [servers EXCEPT ![s] = IF servers[s].running THEN [y EXCEPT !.at = "accept"] ELSE Off]
    <2>1. servers' = x(servers[s])
      BY <1>1 DEF NextClient, ServerOK
    <2> QED BY <1>2, <2>1 DEF NextClient
  <1>4. /\ w \in ServerStates /\ w.todo = <<>>
        /\ w.at \in {"accept", "down"}
        /\ w.at = "accept" =>
            /\ w.next = servers[s].next /\ w.ready = servers[s].ready
            /\ w.last = servers[s].last /\ w.running = servers[s].running /\ w.total = servers[s].total
            /\ w.hits = servers[s].hits /\ w.misses = servers[s].misses /\ w.late = servers[s].late
            /\ w.since = servers[s].since /\ w.running
        /\ w.at = "down" => w.late = 0 /\ w.since = 0
    <2>1. CASE servers[s].running
      <3>1. w = [servers[s] EXCEPT !.at = "accept"]
        BY <1>2, <2>1
      <3> QED BY <1>1, <1>3, <2>1, <3>1 DEF ServerStates
    <2>2. CASE ~servers[s].running
      <3>1. w = Off
        BY <1>2, <2>2
      <3> QED BY <3>1, OffIs
    <2> QED BY <2>1, <2>2
  <1>5. Works(s) /\ Records(s) /\ Counts(s)
    BY <1>1 DEF Each
  <1>6. Len(taken) > 0
    BY <1>3, <1>5 DEF Works
  <1>7. PICK n \in Nat : n = Len(taken) /\ DOMAIN taken = 1..n /\ n \in 1..n
    BY <1>1, <1>6, LenProperties DEF ServerOK
  <1>8. /\ servers'[s] = w
        /\ \A t \in Servers : t # s =>
                servers'[t] = servers[t] /\ Works(t)' /\ Records(t)' /\ Counts(t)'
        /\ \A t, v \in Servers : Serves(t)' /\ Serves(v)' => t = v
        /\ trouble # "doubled" => \A t, v \in Servers : Up(t)' /\ Up(v)' => t = v
        /\ \A t \in Servers : servers'[t].at = "boot" => servers'[t] = servers[t]
    <2>1. w.at \in {"work", "accept", "down"} /\ taken' = taken
      BY <1>3, <1>4
    <2> QED BY <1>3, <1>4, <2>1, OneWorks
  <1>9. Due(s) = {}
    <2>1. DOMAIN servers[s].todo = {}
      BY <1>3
    <2> QED BY <2>1 DEF Due
  <1>10. /\ \A q : LeftBy(q)' = LeftBy(q)
         /\ \A i : IdBefore(i)' = IdBefore(i)
         /\ \A i : Linked(i)' = Linked(i)
    BY <1>3, GenomeStays
  <1>11. ServerOK'
    <2>1. servers' \in [Servers -> ServerStates]
      BY <1>1, <1>3, <1>4 DEF ServerOK
    <2>2. answered' \cup finished' \subseteq DOMAIN taken'
      BY <1>1, <1>3, <1>7 DEF ServerOK
    <2> QED BY <1>1, <1>3, <2>1, <2>2 DEF ServerOK
  <1>12. OnlyOnes'
    BY <1>1, <1>3, <1>8 DEF OnlyOnes
  <1>13. InOrderOf' /\ Chained'
    BY <1>1, <1>3, <1>10 DEF InOrderOf, Chained
  <1>14. Lost'
    <2> SUFFICES ASSUME trouble = "write", ~fragment, NEW k \in finished'
                 PROVE  \A p, q \in Fitting(taken[k]) \ LeftBy(k) : p = q
      BY <1>1, <1>3, <1>10 DEF Lost
    <2>1. CASE k \in finished
      BY <1>1, <2>1 DEF Lost
    <2>2. CASE k = n
      BY <1>3, <1>5, <1>7, <1>9, <2>2 DEF Records
    <2> QED BY <1>3, <1>7, <2>1, <2>2
  <1>15. RequestsAreRecorded'
    <2> SUFFICES ASSUME trouble = "none"
                 PROVE  /\ Whole
                        /\ \A i, j \in DOMAIN genome :
                            i < j /\ genome[j].id.by > 0 => genome[i].id.by <= genome[j].id.by
                        /\ \A k \in DOMAIN taken :
                            /\ LeftBy(k) \subseteq Fitting(taken[k])
                            /\ \A p \in Fitting(taken[k]), q \in LeftBy(k) : p <= q => p \in LeftBy(k)
                            /\ k \in finished' \/ (k \in answered /\ taken[k].kind # "search") =>
                                LeftBy(k) = Fitting(taken[k])
      BY <1>3, <1>10 DEF RequestsAreRecorded, Whole
    <2>1. LeftBy(n) = Fitting(taken[n])
      <3>1. Fitting(taken[n]) \subseteq LeftBy(n)
        BY <1>3, <1>5, <1>7, <1>9 DEF Records
      <3> QED BY <1>1, <1>7, <3>1 DEF RequestsAreRecorded
    <2> QED BY <1>1, <1>3, <1>7, <2>1 DEF RequestsAreRecorded
  <1>16. \A t \in Servers : Begins(t)'
    BY <1>0, <1>3, <1>8, BeginsStays
  <1>17. \A t \in Servers : Knows(t)'
    <2> TAKE t \in Servers
    <2>1. servers'[t].at # "down" =>
            /\ servers'[t].next = servers[t].next /\ servers'[t].ready = servers[t].ready
            /\ servers'[t].last = servers[t].last /\ servers[t].at # "down"
      BY <1>3, <1>4, <1>8
    <2> QED BY <1>0, <1>3, <1>10, <2>1 DEF Each, Knows, Up
  <1>18. Works(s)' /\ Records(s)'
    BY <1>4, <1>8 DEF Works, Records
  <1>19. Counts(s)'
    <2>1. CASE w.at = "down"
      BY <1>3, <1>4, <1>6, <1>7, <1>8, <2>1 DEF Counts
    <2>2. CASE w.at = "accept"
      <3>1. servers[s].running => servers[s].late = 0
        BY <1>5 DEF Counts
      <3>2. servers'[s].at \in {"accept", "work"} /\ SameCounts(s) /\ servers[s].late = 0
        BY <1>3, <1>4, <1>8, <2>2, <3>1 DEF SameCounts
      <3> QED BY <1>3, <1>5, <3>2, CountsGoOn
    <2> QED BY <1>4, <2>1, <2>2
  <1>20. ASSUME NEW t \in Servers PROVE Each(t)'
    BY <1>8, <1>16, <1>17, <1>18, <1>19 DEF Each
  <1> QED BY <1>11, <1>12, <1>13, <1>14, <1>15, <1>20 DEF Parts, All

-----------------------------------------------------------------------------
(* Writing *)

\* Where a server writes, a block is put, behind the last one or over another.
LEMMA WrittenIs ==
    ASSUME ServerOK, NEW s \in Servers, ~fragment, NEW id \in BlockIds,
           servers[s].next \in 1..Len(genome) + 1, Recorded(s, id)
    PROVE  /\ genome' \in Seq([id : BlockIds, prev : BlockIds])
           /\ Len(genome) \in Nat /\ DOMAIN genome = 1..Len(genome)
           /\ Len(genome') = IF servers[s].next = Len(genome) + 1 THEN Len(genome) + 1 ELSE Len(genome)
           /\ Len(genome') \in Nat /\ DOMAIN genome' = 1..Len(genome')
           /\ servers[s].next \in DOMAIN genome'
           /\ genome'[servers[s].next].id = id
           /\ genome'[servers[s].next].prev = servers[s].last
           /\ \A i \in DOMAIN genome : i # servers[s].next => i \in DOMAIN genome' /\ genome'[i] = genome[i]
           /\ \A i \in DOMAIN genome' : i # servers[s].next => i \in DOMAIN genome /\ genome'[i] = genome[i]
  <1> DEFINE Block == [id : BlockIds, prev : BlockIds]
  <1>1. genome \in Seq(Block) /\ servers[s].last \in BlockIds
    BY DEF ServerOK, ServerStates
  <1>2. PICK b : b = [id |-> id, prev |-> servers[s].last]
    OBVIOUS
  <1>3. b \in Block /\ b.id = id /\ b.prev = servers[s].last
    BY <1>1, <1>2
  <1> HIDE DEF Block
  <1>4. PICK n \in Nat : n = Len(genome) /\ DOMAIN genome = 1..n
    BY <1>1, LenProperties
  <1>5. PICK place \in 1..n + 1 : place = servers[s].next
    BY <1>4
  <1>6. CASE place = n + 1
    <2>1. genome' = Append(genome, b)
      <3>1. ~(place <= n)
        BY <1>6
      <3> QED BY <1>2, <1>4, <1>5, <3>1 DEF Recorded
    <2>2. /\ genome' \in Seq(Block) /\ Len(genome') = n + 1 /\ DOMAIN genome' = 1..n + 1
          /\ genome'[n + 1] = b /\ \A i \in 1..n : genome'[i] = genome[i]
      BY <1>1, <1>3, <1>4, <2>1, AppendProperties
    <2> QED BY <1>3, <1>4, <1>5, <1>6, <2>2 DEF Block
  <1>7. CASE place # n + 1
    <2>1. place \in 1..n /\ place <= n
      BY <1>7
    <2>2. genome' = [genome EXCEPT ![place] = b]
      BY <1>2, <1>4, <1>5, <2>1 DEF Recorded
    <2>3. /\ genome' \in Seq(Block) /\ Len(genome') = n /\ DOMAIN genome' = 1..n
          /\ genome'[place] = b /\ \A i \in 1..n : i # place => genome'[i] = genome[i]
      <3>1. genome \in [1..n -> Block]
        BY <1>1, <1>4
      <3>2. genome' \in [1..n -> Block]
        BY <1>3, <2>2, <3>1
      <3>3. genome' \in Seq(Block) /\ Len(genome') = n
        BY <1>4, <3>2
      <3> QED BY <1>4, <2>1, <2>2, <3>2, <3>3
    <2> QED BY <1>3, <1>4, <1>5, <1>7, <2>1, <2>3 DEF Block
  <1> QED BY <1>6, <1>7

\* What is read from the genome then.
LEMMA WrittenLeaves ==
    ASSUME ServerOK, NEW s \in Servers, ~fragment, NEW id \in BlockIds,
           NEW place \in Nat, place = servers[s].next, place \in 1..Len(genome) + 1, Recorded(s, id)
    PROVE  /\ \A k, p : p \in LeftBy(k)' => p \in LeftBy(k) \/ (k = id.by /\ p = id.place)
           /\ id.place \in LeftBy(id.by)'
           /\ place = Len(genome) + 1 => \A k : LeftBy(k) \subseteq LeftBy(k)'
           /\ \A i \in 1..place : IdBefore(i)' = IdBefore(i)
           /\ IdBefore(place + 1)' = id
           /\ \A i \in DOMAIN genome' : i \notin {place, place + 1} =>
                i \in DOMAIN genome /\ Linked(i)' = Linked(i)
           /\ servers[s].last = IdBefore(place) => Linked(place)'
  <1>1. PICK n \in Nat : n = Len(genome) /\ place \in 1..n + 1
    BY WrittenIs
  <1>2. PICK m \in Nat : m = Len(genome')
    BY WrittenIs
  <1>3. /\ DOMAIN genome = 1..n
        /\ m = IF place = n + 1 THEN n + 1 ELSE n
        /\ DOMAIN genome' = 1..m
        /\ place \in 1..m
        /\ genome'[place].id = id
        /\ genome'[place].prev = servers[s].last
        /\ \A i \in 1..n : i # place => i \in 1..m /\ genome'[i] = genome[i]
        /\ \A i \in 1..m : i # place => i \in 1..n /\ genome'[i] = genome[i]
    BY <1>1, <1>2, WrittenIs
  <1>4. /\ \A k, p : p \in LeftBy(k) <=> \E i \in 1..n : genome[i].id.by = k /\ genome[i].id.place = p
        /\ \A k, p : p \in LeftBy(k)' <=> \E i \in 1..m : genome'[i].id.by = k /\ genome'[i].id.place = p
    BY <1>3 DEF LeftBy
  <1>5. \A k, p : p \in LeftBy(k)' => p \in LeftBy(k) \/ (k = id.by /\ p = id.place)
    BY <1>3, <1>4
  <1>6. id.place \in LeftBy(id.by)'
    BY <1>3, <1>4
  <1>7. place = n + 1 => \A k : LeftBy(k) \subseteq LeftBy(k)'
    <2> SUFFICES ASSUME place = n + 1, NEW k, NEW p \in LeftBy(k) PROVE p \in LeftBy(k)'
      OBVIOUS
    <2>1. PICK i \in 1..n : genome[i].id.by = k /\ genome[i].id.place = p
      BY <1>4
    <2>2. i # place
      OBVIOUS
    <2> QED BY <1>3, <1>4, <2>1, <2>2
  <1>8. ASSUME NEW i \in 1..place PROVE IdBefore(i)' = IdBefore(i)
    <2>1. CASE i = 1
      BY <2>1 DEF IdBefore
    <2>2. CASE i # 1
      <3>1. i - 1 \in 1..n /\ i - 1 # place
        BY <1>1, <2>2
      <3> QED BY <1>3, <2>2, <3>1 DEF IdBefore
    <2> QED BY <2>1, <2>2
  <1>9. IdBefore(place + 1)' = id
    <2>1. place + 1 # 1 /\ (place + 1) - 1 = place
      BY <1>1
    <2>2. IdBefore(place + 1)' = genome'[(place + 1) - 1].id
      BY <2>1 DEF IdBefore
    <2> QED BY <1>3, <2>1, <2>2
  <1>10. ASSUME NEW i \in 1..m, i # place, i # place + 1
         PROVE  i \in 1..n /\ Linked(i)' = Linked(i)
    <2>1. i \in 1..n /\ genome'[i] = genome[i]
      BY <1>3, <1>10
    <2>2. IdBefore(i)' = IdBefore(i)
      <3>1. CASE i = 1
        BY <3>1 DEF IdBefore
      <3>2. CASE i # 1
        <4>1. i - 1 \in 1..n /\ i - 1 # place
          BY <1>10, <2>1, <3>2
        <4> QED BY <1>3, <3>2, <4>1 DEF IdBefore
      <3> QED BY <3>1, <3>2
    <2> QED BY <2>1, <2>2 DEF Linked
  <1>11. servers[s].last = IdBefore(place) => Linked(place)'
    <2>1. IdBefore(place)' = IdBefore(place)
      BY <1>1, <1>8
    <2>2. Linked(place)' <=> genome'[place].prev = IdBefore(place)'
      BY DEF Linked
    <2> QED BY <1>3, <2>1, <2>2
  <1> QED BY <1>1, <1>2, <1>3, <1>5, <1>6, <1>7, <1>8, <1>9, <1>10, <1>11

\* A server that writes knows the place, and then the next one.
LEMMA WriteKeeps ==
    ASSUME Parts, NEW s \in Servers, NEW w \in ServerStates, NEW place \in Nat, NEW id \in BlockIds,
           place = servers[s].next, ~fragment, servers[s].at # "down", Recorded(s, id),
           w.next = place + 1, w.last = id, w.ready, w.at # "down",
           servers' = [servers EXCEPT ![s] = w],
           UNCHANGED <<taken, answered, finished, starts, fragment, trouble>>
    PROVE  /\ ServerOK'
           /\ \A t \in Servers : Knows(t)'
           /\ place \in 1..Len(genome) + 1
           /\ trouble # "doubled" =>
                /\ place = Len(genome) + 1
                /\ \A i \in DOMAIN genome' : Linked(i)'
                /\ \A k : k # id.by => LeftBy(k)' = LeftBy(k)
  <1>1. ServerOK /\ OnlyOnes /\ Chained /\ \A t \in Servers : Each(t)
    BY DEF Parts, All
  <1>2. /\ place \in 1..Len(genome) + 1
        /\ trouble # "doubled" => place = Len(genome) + 1 /\ servers[s].last = IdBefore(Len(genome) + 1)
    BY <1>1 DEF Each, Knows, Up
  <1>3. /\ genome' \in Seq([id : BlockIds, prev : BlockIds])
        /\ Len(genome) \in Nat /\ DOMAIN genome = 1..Len(genome)
        /\ Len(genome') = IF place = Len(genome) + 1 THEN Len(genome) + 1 ELSE Len(genome)
        /\ DOMAIN genome' = 1..Len(genome')
        /\ genome'[place].id = id
    BY <1>1, <1>2, WrittenIs
  <1>4. /\ \A k, p : p \in LeftBy(k)' => p \in LeftBy(k) \/ (k = id.by /\ p = id.place)
        /\ place = Len(genome) + 1 => \A k : LeftBy(k) \subseteq LeftBy(k)'
        /\ \A i \in DOMAIN genome' : i \notin {place, place + 1} =>
                i \in DOMAIN genome /\ Linked(i)' = Linked(i)
        /\ servers[s].last = IdBefore(place) => Linked(place)'
    BY <1>1, <1>2, WrittenLeaves
  <1>5. servers'[s] = w /\ \A t \in Servers : t # s => servers'[t] = servers[t]
    BY <1>1 DEF ServerOK
  <1>6. ServerOK'
    <2>1. servers' \in [Servers -> ServerStates]
      BY <1>1 DEF ServerOK
    <2> QED BY <1>1, <1>3, <2>1 DEF ServerOK
  <1>7. ASSUME NEW t \in Servers PROVE Knows(t)'
    <2> SUFFICES ASSUME servers'[t].at # "down"
                 PROVE  /\ servers'[t].next \in 1..Len(genome') + 1
                        /\ trouble # "doubled" => /\ servers'[t].ready
                                                  /\ servers'[t].next = Len(genome') + 1
                                                  /\ servers'[t].last = IdBefore(Len(genome) + 1)'
      BY DEF Knows, Up
    <2>1. servers[t].at # "down"
      BY <1>5
    <2>2. CASE t = s
      <3>1. servers'[t].next = place + 1 /\ servers'[t].ready /\ servers'[t].last = id
        BY <1>5, <2>2
      <3>2. place + 1 \in 1..Len(genome') + 1
        BY <1>2, <1>3
      <3>3. ASSUME trouble # "doubled"
            PROVE  place + 1 = Len(genome') + 1 /\ IdBefore(Len(genome) + 1)' = id
        <4>1. place = Len(genome')
          BY <1>2, <1>3, <3>3
        <4>2. place + 1 # 1 /\ (place + 1) - 1 = place
          BY <1>2, <1>3
        <4> QED BY <1>3, <4>1, <4>2 DEF IdBefore
      <3> QED BY <3>1, <3>2, <3>3
    <2>3. CASE t # s
      <3>1. servers[t].next \in 1..Len(genome) + 1
        BY <1>1, <2>1 DEF Each, Knows, Up
      <3>2. trouble = "doubled"
        BY <1>1, <2>1, <2>3 DEF OnlyOnes, Up
      <3>3. servers[t].next \in 1..Len(genome') + 1
        BY <1>3, <3>1
      <3> QED BY <1>5, <2>3, <3>2, <3>3
    <2> QED BY <2>2, <2>3
  <1>8. ASSUME trouble # "doubled"
        PROVE  /\ \A i \in DOMAIN genome' : Linked(i)'
               /\ \A k : k # id.by => LeftBy(k)' = LeftBy(k)
    <2>1. \A i \in DOMAIN genome : Linked(i)
      BY <1>1, <1>8 DEF Chained
    <2>2. \A i \in DOMAIN genome' : i # place + 1
      BY <1>2, <1>3, <1>8
    <2>3. Linked(place)'
      BY <1>2, <1>4, <1>8
    <2>4. ASSUME NEW i \in DOMAIN genome' PROVE Linked(i)'
      BY <1>4, <2>1, <2>2, <2>3
    <2>5. ASSUME NEW k, k # id.by PROVE LeftBy(k)' = LeftBy(k)
      <3>1. LeftBy(k) \subseteq LeftBy(k)'
        BY <1>2, <1>4, <1>8
      <3>2. \A p : p \in LeftBy(k)' => p \in LeftBy(k)
        BY <1>4, <2>5
      <3> QED BY <3>1, <3>2
    <2> QED BY <2>4, <2>5
  <1> QED BY <1>2, <1>6, <1>7, <1>8

\* A server that has written that it started, with nobody's request at hand.
LEMMA BootKeeps ==
    ASSUME Parts, NEW s \in Servers, Boot(s)
    PROVE  Parts'
  <1>0. All /\ \A t \in Servers : Each(t)
    BY DEF Parts
  <1>1. ServerOK /\ OnlyOnes /\ Lost /\ InOrderOf /\ Chained /\ RequestsAreRecorded
        /\ servers[s] \in ServerStates /\ Each(s)
    BY <1>0 DEF All, ServerOK
  <1>2. PICK id : id = [event |-> "BOOT", by |-> 0, place |-> servers[s].nth]
    OBVIOUS
  <1>3. id \in BlockIds /\ id.by = 0
    BY <1>1, <1>2 DEF ServerStates, BlockIds
  <1>4. PICK v : v = [servers[s] EXCEPT !.at = "bind"]
    OBVIOUS
  <1>5. /\ v \in ServerStates /\ v.at = "bind" /\ v.ready = servers[s].ready
        /\ v.next = servers[s].next /\ v.last = servers[s].last /\ v.todo = servers[s].todo
        /\ v.running = servers[s].running /\ v.since = servers[s].since /\ v.total = servers[s].total
        /\ v.hits = servers[s].hits /\ v.misses = servers[s].misses /\ v.late = servers[s].late
    BY <1>1, <1>4 DEF ServerStates
  <1>6. Keep(s, id, 0, v) /\ servers[s].at = "boot"
        /\ UNCHANGED <<taken, answered, finished, starts>>
    BY <1>2, <1>4 DEF Boot
  <1>7. servers[s].todo = <<>> /\ Works(s) /\ Counts(s) /\ Knows(s) /\ Begins(s)
    BY <1>1, <1>6 DEF Each, Works
  \* The server goes on as w, ...
  <1>8. ASSUME NEW w \in ServerStates, servers' = [servers EXCEPT ![s] = w],
               w.at = "bind", w.todo = <<>>, w.running = servers[s].running, w.since = servers[s].since,
               w.total = servers[s].total, w.hits = servers[s].hits, w.misses = servers[s].misses,
               w.late = servers[s].late,
               trouble' # "doubled" => trouble # "doubled", fragment' => trouble' = "write"
        PROVE  /\ servers'[s] = w /\ \A t \in Servers : t # s => servers'[t] = servers[t]
               /\ Works(s)' /\ Records(s)' /\ Counts(s)' /\ OnlyOnes'
               /\ \A t \in Servers : servers'[t].at = "boot" => servers'[t] = servers[t]
    <2>1. servers'[s] = w /\ \A t \in Servers : t # s => servers'[t] = servers[t]
      BY <1>1, <1>8 DEF ServerOK
    <2>2. Works(s)' /\ Records(s)' /\ Counts(s)'
      BY <1>6, <1>7, <1>8, <2>1 DEF Works, Records, Counts
    <2>3. \A t \in Servers : (Serves(t)' => Serves(t)) /\ (Up(t)' => Up(t))
      BY <1>6, <1>8, <2>1 DEF Serves, Up
    <2>4. OnlyOnes'
      BY <1>1, <1>8, <2>3 DEF OnlyOnes
    <2> QED BY <1>8, <2>1, <2>2, <2>4
  \* ... with the genome as it was, ...
  <1>9. ASSUME NEW w \in ServerStates, servers' = [servers EXCEPT ![s] = w],
               w.at = "bind", w.todo = <<>>, w.running = servers[s].running, w.since = servers[s].since,
               w.total = servers[s].total, w.hits = servers[s].hits, w.misses = servers[s].misses,
               w.late = servers[s].late,
               genome' = genome, trouble' \in {"none", "write", "doubled"}, fragment' \in BOOLEAN,
               \/ trouble' = trouble /\ fragment' = fragment
               \/ trouble = "none" /\ trouble' = "write",
               fragment \/ (w.next = servers[s].next /\ w.ready = servers[s].ready /\ w.last = servers[s].last)
        PROVE  Parts'
    <2>1. /\ trouble' # "doubled" => trouble # "doubled"
          /\ fragment' => trouble' = "write"
      BY <1>1, <1>9 DEF OnlyOnes
    <2>2. /\ servers'[s] = w
          /\ Works(s)' /\ Records(s)' /\ Counts(s)' /\ OnlyOnes'
          /\ \A t \in Servers : servers'[t].at = "boot" => servers'[t] = servers[t]
      BY <1>8, <1>9, <2>1
    <2>3. Knows(s)'
      <3>1. CASE fragment
        <4>1. trouble = "write" /\ fragment'
          BY <1>1, <1>9, <3>1 DEF OnlyOnes
        <4> QED BY <4>1 DEF Knows
      <3>2. CASE ~fragment
        <4>1. \A i : IdBefore(i)' = IdBefore(i)
          BY <1>9, GenomeStays
        <4> QED BY <1>6, <1>7, <1>9, <2>1, <2>2, <3>2, <4>1 DEF Knows, Up
      <3> QED BY <3>1, <3>2
    <2>4. Still /\ starts' \in 0..MaxStarts
      BY <1>1, <1>6, <1>9 DEF Still, ServerOK
    <2>5. \A t \in Servers : Begins(t)'
      <3>1. trouble' = "doubled" /\ taken' = <<>> => trouble = "doubled" /\ taken = <<>>
        BY <1>6, <1>9
      <3> QED BY <1>0, <1>9, <2>2, <3>1, BeginsStays
    <2> QED BY <1>9, <2>2, <2>3, <2>4, <2>5, MoveKeeps
  \* ... or with its block in it.
  <1>10. ASSUME ~fragment, servers[s].ready, Recorded(s, id), UNCHANGED <<fragment, trouble>>,
                servers' = [servers EXCEPT ![s] = [v EXCEPT !.next = @ + 1, !.last = id]]
         PROVE  Parts'
    <2>1. PICK place \in Nat : place = servers[s].next
      BY <1>1 DEF ServerStates
    <2>2. PICK w : w = [v EXCEPT !.next = place + 1, !.last = id]
      OBVIOUS
    <2>3. /\ w \in ServerStates /\ w.next = place + 1 /\ w.last = id /\ w.ready = v.ready
          /\ w.at = "bind" /\ w.todo = v.todo
          /\ w.running = v.running /\ w.since = v.since /\ w.total = v.total
          /\ w.hits = v.hits /\ w.misses = v.misses /\ w.late = v.late
      <3>1. PICK nx \in Nat : nx = place + 1
        OBVIOUS
      <3>2. w = [v EXCEPT !.next = nx, !.last = id]
        BY <2>2, <3>1
      <3>3. /\ w \in ServerStates /\ w.next = nx /\ w.last = id /\ w.ready = v.ready
            /\ w.at = v.at /\ w.todo = v.todo
            /\ w.running = v.running /\ w.since = v.since /\ w.total = v.total
            /\ w.hits = v.hits /\ w.misses = v.misses /\ w.late = v.late
        BY <1>3, <1>5, <3>2 DEF ServerStates
      <3> QED BY <1>5, <3>1, <3>3
    <2>4. servers' = [servers EXCEPT ![s] = w]
      BY <1>5, <1>10, <2>1, <2>2
    <2>5. /\ servers'[s] = w /\ \A t \in Servers : t # s => servers'[t] = servers[t]
          /\ Works(s)' /\ Records(s)' /\ Counts(s)' /\ OnlyOnes'
          /\ \A t \in Servers : servers'[t].at = "boot" => servers'[t] = servers[t]
      <3>1. /\ w.at = "bind" /\ w.todo = <<>> /\ w.running = servers[s].running /\ w.since = servers[s].since
            /\ w.total = servers[s].total /\ w.hits = servers[s].hits /\ w.misses = servers[s].misses
            /\ w.late = servers[s].late /\ w \in ServerStates
        BY <1>5, <1>7, <2>3
      <3>2. trouble' # "doubled" => trouble # "doubled"
        BY <1>10
      <3>3. fragment' => trouble' = "write"
        BY <1>10
      <3> QED BY <1>8, <2>4, <3>1, <3>2, <3>3
    <2>6. /\ ServerOK'
          /\ \A t \in Servers : Knows(t)'
          /\ place \in 1..Len(genome) + 1
          /\ trouble # "doubled" =>
                /\ place = Len(genome) + 1
                /\ \A i \in DOMAIN genome' : Linked(i)'
                /\ \A k : k # id.by => LeftBy(k)' = LeftBy(k)
      <3>1. w.ready /\ w.at # "down" /\ servers[s].at # "down"
        BY <1>5, <1>6, <1>10, <2>3
      <3>2. UNCHANGED <<taken, answered, finished, starts, fragment, trouble>>
        BY <1>6, <1>10
      <3>3. ~fragment /\ Recorded(s, id) /\ id \in BlockIds
        BY <1>3, <1>10
      <3>4. w \in ServerStates /\ w.next = place + 1 /\ w.last = id
        BY <2>3
      <3> QED BY <2>1, <2>4, <3>1, <3>2, <3>3, <3>4, WriteKeeps, ZenonT(60)
    <2>7. PICK n \in Nat : n = Len(taken) /\ DOMAIN taken = 1..n
      BY <1>1, LenProperties DEF ServerOK
    <2>8. /\ Len(genome) \in Nat /\ DOMAIN genome = 1..Len(genome)
          /\ Len(genome') = IF place = Len(genome) + 1 THEN Len(genome) + 1 ELSE Len(genome)
          /\ Len(genome') \in Nat /\ DOMAIN genome' = 1..Len(genome')
          /\ genome'[place].id = id
          /\ \A i \in DOMAIN genome' : i # place => i \in DOMAIN genome /\ genome'[i] = genome[i]
      BY <1>1, <1>3, <1>10, <2>1, <2>6, WrittenIs
    <2>9. /\ \A k, p : p \in LeftBy(k)' => p \in LeftBy(k) \/ (k = id.by /\ p = id.place)
          /\ \A i \in 1..place : IdBefore(i)' = IdBefore(i)
          /\ \A i \in DOMAIN genome' : i \notin {place, place + 1} =>
                i \in DOMAIN genome /\ Linked(i)' = Linked(i)
          /\ servers[s].last = IdBefore(place) => Linked(place)'
      BY <1>1, <1>3, <1>10, <2>1, <2>6, WrittenLeaves
    <2>10. trouble = "doubled" /\ taken = <<>> => place \in {Len(genome), Len(genome) + 1}
                                                  /\ servers[s].last = IdBefore(place)
      BY <1>6, <1>7, <2>1 DEF Begins
    <2>11. ASSUME NEW t \in Servers PROVE Begins(t)'
      <3> SUFFICES ASSUME trouble = "doubled", taken = <<>>, servers'[t].at = "boot"
                   PROVE  /\ servers'[t].next \in {Len(genome'), Len(genome') + 1}
                          /\ servers'[t].last = IdBefore(servers[t].next)'
                          /\ \A u \in Servers : servers'[u].at = "boot" => servers'[u].next = servers'[t].next
        BY <1>6, <1>10 DEF Begins
      <3>1. servers'[t] = servers[t] /\ t # s
        BY <2>3, <2>5
      <3>2. ASSUME NEW u \in Servers, servers'[u].at = "boot" PROVE servers'[u].next = place
        <4>1. servers'[u] = servers[u] /\ servers[u].at = "boot"
          BY <2>5, <3>2
        <4> QED BY <1>6, <1>7, <2>1, <4>1 DEF Begins
      <3>3. place = Len(genome')
        BY <2>8, <2>10
      <3>4. servers[t].last = IdBefore(place)
        <4>1. servers[t].next = place
          BY <3>1, <3>2
        <4>2. servers[t].last = IdBefore(servers[t].next)
          BY <1>0, <3>1 DEF Each, Begins
        <4> QED BY <4>1, <4>2
      <3>5. IdBefore(place)' = IdBefore(place) /\ servers'[t].next = place
        BY <2>6, <2>9, <3>2
      <3>6. IdBefore(servers[t].next)' = IdBefore(place)
        BY <3>5 DEF IdBefore
      <3> QED BY <3>1, <3>2, <3>3, <3>4, <3>6
    <2>12. \A k : k > 0 => k # id.by /\ \A p : p \in LeftBy(k)' => p \in LeftBy(k)
      BY <1>3, <2>9
    <2>13. Lost'
      <3>1. \A i \in DOMAIN genome' : genome'[i].id.by <= Len(taken')
        <4> TAKE i \in DOMAIN genome'
        <4>1. CASE i = place
          BY <1>3, <1>6, <2>7, <2>8, <4>1
        <4>2. CASE i # place
          BY <1>1, <1>6, <2>8, <4>2 DEF Lost
        <4> QED BY <4>1, <4>2
      <3>2. ASSUME NEW k \in finished, trouble = "write"
            PROVE  \A p, q \in Fitting(taken[k]) \ LeftBy(k)' : p = q
        <4>1. k > 0
          BY <1>1, <2>7 DEF ServerOK
        <4>2. LeftBy(k)' = LeftBy(k)
          BY <1>3, <2>6, <3>2, <4>1
        <4> QED BY <1>1, <1>10, <3>2, <4>2 DEF Lost
      <3>3. \A k : Fitting(taken[k])' = Fitting(taken[k])
        BY <1>6 DEF Fitting
      <3> QED BY <1>6, <1>10, <3>1, <3>2, <3>3 DEF Lost
    <2>14. InOrderOf'
      <3> SUFFICES ASSUME NEW i \in DOMAIN genome', NEW j \in DOMAIN genome', i < j,
                          genome'[i].id.by = genome'[j].id.by, genome'[j].id.by > 0
                   PROVE  genome'[i].id.place < genome'[j].id.place
        BY DEF InOrderOf
      <3>1. i # place /\ j # place
        BY <1>3, <2>8
      <3> QED BY <1>1, <2>8, <3>1 DEF InOrderOf
    <2>15. Chained'
      <3> SUFFICES ASSUME ~(trouble = "doubled" /\ taken # <<>>), NEW i \in DOMAIN genome' PROVE Linked(i)'
        BY <1>6, <1>10 DEF Chained
      <3>1. CASE trouble # "doubled"
        BY <2>6, <3>1
      <3>2. CASE trouble = "doubled" /\ taken = <<>>
        <4>1. i # place + 1
          BY <2>8, <2>10, <3>2
        <4>2. \A j \in DOMAIN genome : Linked(j)
          BY <1>1, <3>2 DEF Chained
        <4>3. CASE i = place
          BY <2>9, <2>10, <3>2, <4>3
        <4>4. CASE i # place
          BY <2>9, <4>1, <4>2, <4>4
        <4> QED BY <4>3, <4>4
      <3> QED BY <3>1, <3>2
    <2>16. RequestsAreRecorded'
      <3> SUFFICES ASSUME trouble = "none"
                   PROVE  /\ \A i \in DOMAIN genome' : Linked(i)'
                          /\ \A i, j \in DOMAIN genome' :
                              i < j /\ genome'[j].id.by > 0 => genome'[i].id.by <= genome'[j].id.by
                          /\ \A k \in DOMAIN taken :
                              /\ LeftBy(k)' \subseteq Fitting(taken[k])
                              /\ \A p \in Fitting(taken[k]), q \in LeftBy(k)' : p <= q => p \in LeftBy(k)'
                              /\ k \in finished \/ (k \in answered /\ taken[k].kind # "search") =>
                                  LeftBy(k)' = Fitting(taken[k])
        <4>1. \A k : Fitting(taken[k])' = Fitting(taken[k])
          BY <1>6 DEF Fitting
        <4> QED BY <1>6, <1>10, <4>1 DEF RequestsAreRecorded, Whole
      <3>1. \A i \in DOMAIN genome' : Linked(i)'
        BY <2>6
      <3>2. ASSUME NEW i \in DOMAIN genome', NEW j \in DOMAIN genome', i < j, genome'[j].id.by > 0
            PROVE  genome'[i].id.by <= genome'[j].id.by
        <4>1. j # place
          BY <1>3, <2>8, <3>2
        <4>2. place = Len(genome')
          BY <2>6, <2>8
        <4>3. i # place
          BY <2>8, <3>2, <4>2
        <4> QED BY <1>1, <2>8, <3>2, <4>1, <4>3 DEF RequestsAreRecorded
      <3>3. \A k \in DOMAIN taken : LeftBy(k)' = LeftBy(k)
        BY <1>3, <2>6, <2>7
      <3> QED BY <1>1, <3>1, <3>2, <3>3 DEF RequestsAreRecorded
    <2>17. ASSUME NEW t \in Servers, t # s PROVE Works(t)' /\ Records(t)' /\ Counts(t)'
      <3>1. Each(t) /\ servers'[t] = servers[t]
        BY <1>0, <2>5, <2>17
      <3>2. CASE ~Serves(t)
        <4>1. Len(taken') >= Len(taken) /\ Len(taken') \in Nat
          BY <1>6, <2>7
        <4> QED BY <1>1, <3>1, <3>2, <4>1, IdleStays
      <3>3. CASE Serves(t)
        <4>1. trouble = "doubled"
          BY <1>1, <1>6, <2>17, <3>3 DEF OnlyOnes, Serves, Up
        <4>2. Records(t)'
          BY <1>10, <4>1 DEF Records
        <4>3. Counts(t)'
          <5>1. SameCounts(t) /\ servers'[t].at = servers[t].at
            BY <3>1 DEF SameCounts
          <5> QED BY <1>6, <3>1, <5>1, CountsStay DEF Each
        <4>4. Works(t)'
          <5>1. Works(t)
            BY <3>1 DEF Each
          <5>2. Ordered(t)' = Ordered(t) /\ AnswersLast(t)' = AnswersLast(t) /\ Due(t)' = Due(t)
            BY <1>6, <3>1 DEF Ordered, AnswersLast, Due
          <5>3. CASE servers[t].at = "work"
            <6>1. /\ Len(taken) > 0 /\ Len(taken) \notin finished /\ Ordered(t) /\ AnswersLast(t)
                  /\ \A i \in DOMAIN genome : genome[i].id.by = Len(taken) => i < servers[t].next
                  /\ \A p \in LeftBy(Len(taken)), q \in Due(t) : p < q
              BY <5>1, <5>3 DEF Works
            <6>2. \A i \in DOMAIN genome' : genome'[i].id.by = Len(taken) => i < servers[t].next
              <7> SUFFICES ASSUME NEW i \in DOMAIN genome', genome'[i].id.by = Len(taken)
                           PROVE  i < servers[t].next
                OBVIOUS
              <7>1. i # place
                BY <1>3, <2>8, <6>1
              <7> QED BY <2>8, <6>1, <7>1
            <6>3. \A p : p \in LeftBy(n)' => p \in LeftBy(n)
              BY <2>7, <2>12, <6>1
            <6>4. \A p \in LeftBy(Len(taken))', q \in Due(t)' : p < q
              <7>1. LeftBy(Len(taken))' = LeftBy(n)'
                BY <1>6, <2>7 DEF LeftBy
              <7>2. \A p \in LeftBy(n), q \in Due(t) : p < q
                BY <2>7, <6>1
              <7> QED BY <5>2, <6>3, <7>1, <7>2
            <6> QED BY <1>6, <3>1, <5>2, <5>3, <6>1, <6>2, <6>4 DEF Works
          <5>4. CASE servers[t].at # "work"
            BY <3>1, <5>1, <5>4 DEF Works
          <5> QED BY <5>3, <5>4
        <4> QED BY <4>2, <4>3, <4>4
      <3> QED BY <3>2, <3>3
    <2>18. ASSUME NEW t \in Servers PROVE Each(t)'
      BY <2>5, <2>6, <2>11, <2>17 DEF Each
    <2> QED BY <2>5, <2>6, <2>13, <2>14, <2>15, <2>16, <2>18 DEF Parts, All
  <1>11. CASE servers[s].ready /\ Recorded(s, id) /\ UNCHANGED <<fragment, trouble>>
              /\ servers' = [servers EXCEPT ![s] = [v EXCEPT !.next = @ + 1, !.last = id]]
    <2>1. CASE fragment
      <3>1. genome' = genome
        BY <1>11, <2>1 DEF Recorded
      <3>2. PICK nx \in Nat : nx = v.next + 1
        BY <1>5 DEF ServerStates
      <3>3. PICK w : w = [v EXCEPT !.next = nx, !.last = id]
        OBVIOUS
      <3>4. /\ w \in ServerStates
            /\ w.at = v.at /\ w.todo = v.todo
            /\ w.running = v.running /\ w.since = v.since /\ w.total = v.total
            /\ w.hits = v.hits /\ w.misses = v.misses /\ w.late = v.late
        BY <1>3, <1>5, <3>3 DEF ServerStates
      <3>5. servers' = [servers EXCEPT ![s] = w]
        BY <1>11, <3>2, <3>3
      <3>6. trouble' \in {"none", "write", "doubled"} /\ fragment' \in BOOLEAN
        BY <1>1, <1>11 DEF ServerOK
      <3>7. /\ w.at = "bind" /\ w.todo = <<>> /\ w.running = servers[s].running
            /\ w.since = servers[s].since /\ w.total = servers[s].total /\ w.hits = servers[s].hits
            /\ w.misses = servers[s].misses /\ w.late = servers[s].late
        BY <1>5, <1>7, <3>4
      <3>8. \/ trouble' = trouble /\ fragment' = fragment
            \/ trouble = "none" /\ trouble' = "write"
        BY <1>11
      <3>9. \/ fragment
            \/ w.next = servers[s].next /\ w.ready = servers[s].ready /\ w.last = servers[s].last
        BY <2>1
      <3>10. w \in ServerStates
        BY <3>4
      <3> QED BY <1>9, <3>1, <3>5, <3>6, <3>7, <3>8, <3>9, <3>10
    <2>2. CASE ~fragment
      BY <1>10, <1>11, <2>2
    <2> QED BY <2>1, <2>2
  <1>12. CASE /\ servers' = [servers EXCEPT ![s] = v] /\ UNCHANGED genome
              /\ \/ trouble = "none" /\ trouble' = "write" /\ fragment' \in BOOLEAN
                 \/ UNCHANGED <<fragment, trouble>>
    <2>1. trouble' \in {"none", "write", "doubled"} /\ fragment' \in BOOLEAN
      BY <1>1, <1>12 DEF ServerOK
    <2>2. /\ v.at = "bind" /\ v.todo = <<>> /\ v.running = servers[s].running
          /\ v.since = servers[s].since /\ v.total = servers[s].total /\ v.hits = servers[s].hits
          /\ v.misses = servers[s].misses /\ v.late = servers[s].late
      BY <1>5, <1>7
    <2>3. \/ trouble' = trouble /\ fragment' = fragment
          \/ trouble = "none" /\ trouble' = "write"
      BY <1>12
    <2>4. \/ fragment
          \/ v.next = servers[s].next /\ v.ready = servers[s].ready /\ v.last = servers[s].last
      BY <1>5
    <2>5. v \in ServerStates /\ genome' = genome /\ servers' = [servers EXCEPT ![s] = v]
      BY <1>5, <1>12
    <2> QED BY <1>9, <2>1, <2>2, <2>3, <2>4, <2>5
  <1>13. \/ /\ servers[s].ready /\ Recorded(s, id) /\ UNCHANGED <<fragment, trouble>>
            /\ servers' = [servers EXCEPT ![s] = [v EXCEPT !.next = @ + 1, !.last = id]]
         \/ /\ servers' = [servers EXCEPT ![s] = v] /\ UNCHANGED genome
            /\ \/ trouble = "none" /\ trouble' = "write" /\ fragment' \in BOOLEAN
               \/ UNCHANGED <<fragment, trouble>>
    BY <1>6 DEF Keep
  <1> QED BY <1>11, <1>12, <1>13

\* An event of a request is recorded, or there is a reason that it is not.
LEMMA RecordEventKeeps ==
    ASSUME Parts, NEW s \in Servers, RecordEvent(s)
    PROVE  Parts'
  <1>0. All /\ \A t \in Servers : Each(t)
    BY DEF Parts
  <1>1. ServerOK /\ OnlyOnes /\ Lost /\ InOrderOf /\ Chained /\ RequestsAreRecorded
        /\ servers[s] \in ServerStates /\ Each(s)
    BY <1>0 DEF All, ServerOK
  <1>2. PICK u \in Seq(Items) : u = servers[s].todo
    BY <1>1 DEF ServerStates
  <1>3. PICK item \in Items : item = Head(u) /\ u # <<>> /\ item.event # "reply"
    <2>1. u # <<>> /\ Head(u).event # "reply"
      BY <1>2 DEF RecordEvent
    <2> QED BY <2>1, TailIs
  <1>4. Works(s) /\ Records(s) /\ Counts(s) /\ Knows(s)
    BY <1>1 DEF Each
  <1>5. servers[s].at = "work"
    BY <1>2, <1>3, <1>4 DEF Works
  <1>6. /\ Ordered(s) /\ AnswersLast(s) /\ Len(taken) > 0 /\ Len(taken) \notin finished
        /\ \A i \in DOMAIN genome : genome[i].id.by = Len(taken) => i < servers[s].next
        /\ \A p \in LeftBy(Len(taken)), q \in Due(s) : p < q
    BY <1>4, <1>5 DEF Works
  <1>7. PICK n \in Nat : n = Len(taken) /\ DOMAIN taken = 1..n /\ n > 0 /\ n \in 1..n
    BY <1>1, <1>6, LenProperties DEF ServerOK
  <1>8. item.event \in EventNames /\ item.place \in Nat
    <2>1. [event |-> "reply"].event = "reply"
      OBVIOUS
    <2> DEFINE Sizes == {x.size : x \in UNION {Range(Leaves(r)) : r \in Requests}}
    <2>2. item \in {[event |-> "reply"]} \cup [event : EventNames, size : Sizes, place : Nat]
      BY <1>3 DEF Items
    <2> HIDE DEF Sizes
    <2>3. item \in [event : EventNames, size : Sizes, place : Nat]
      BY <1>3, <2>1, <2>2
    <2> QED BY <2>3
  <1>9. PICK p \in Nat : p = item.place
    BY <1>8
  <1>10. PICK id : id = [event |-> item.event, by |-> n, place |-> p]
    OBVIOUS
  <1>11. id \in BlockIds /\ id.by = n /\ id.place = p
    BY <1>8, <1>10 DEF BlockIds
  <1>12. PICK v : v = [servers[s] EXCEPT !.todo = Tail(u)]
    OBVIOUS
  <1>13. /\ v \in ServerStates /\ v.at = "work" /\ v.ready = servers[s].ready
         /\ v.next = servers[s].next /\ v.last = servers[s].last /\ v.todo = Tail(u)
         /\ v.running = servers[s].running /\ v.since = servers[s].since /\ v.total = servers[s].total
         /\ v.hits = servers[s].hits /\ v.misses = servers[s].misses /\ v.late = servers[s].late
    <2>1. PICK x \in Seq(Items) : x = Tail(u)
      BY <1>3, TailIs
    <2>2. v = [servers[s] EXCEPT !.todo = x]
      BY <1>12, <2>1
    <2>3. /\ v \in ServerStates /\ v.at = "work" /\ v.ready = servers[s].ready
          /\ v.next = servers[s].next /\ v.last = servers[s].last /\ v.todo = x
          /\ v.running = servers[s].running /\ v.since = servers[s].since /\ v.total = servers[s].total
          /\ v.hits = servers[s].hits /\ v.misses = servers[s].misses /\ v.late = servers[s].late
      BY <1>1, <1>5, <2>2 DEF ServerStates
    <2> QED BY <2>1, <2>3
  <1>14. Keep(s, id, item.size, v) /\ UNCHANGED <<taken, answered, finished, starts>>
    BY <1>2, <1>3, <1>7, <1>9, <1>10, <1>12 DEF RecordEvent, After
  \* What is to be done is the rest, ...
  <1>15. ASSUME NEW w \in ServerStates, servers' = [servers EXCEPT ![s] = w],
                w.at = "work", w.todo = Tail(u), w.running = servers[s].running, w.since = servers[s].since,
                w.total = servers[s].total, w.hits = servers[s].hits, w.misses = servers[s].misses,
                w.late = servers[s].late,
                trouble' # "doubled" => trouble # "doubled", fragment' => trouble' = "write"
         PROVE  /\ servers'[s] = w
                /\ \A t \in Servers : t # s =>
                        servers'[t] = servers[t] /\ Works(t)' /\ Records(t)' /\ Counts(t)'
                /\ OnlyOnes' /\ Counts(s)' /\ Ordered(s)' /\ AnswersLast(s)'
                /\ Due(s)' \subseteq Due(s) /\ p \in Due(s) /\ Due(s) \subseteq Due(s)' \cup {p}
                /\ p \in DOMAIN Leaves(taken[n]) /\ item.size = Leaves(taken[n])[p].size
                /\ \A q \in Due(s)' : p < q
                /\ \A t \in Servers : Begins(t)'
    <2>1. /\ servers'[s] = w
          /\ \A t \in Servers : t # s =>
                servers'[t] = servers[t] /\ Works(t)' /\ Records(t)' /\ Counts(t)'
          /\ \A t, x \in Servers : Serves(t)' /\ Serves(x)' => t = x
          /\ trouble # "doubled" => \A t, x \in Servers : Up(t)' /\ Up(x)' => t = x
      <3>1. w.at \in {"work", "accept", "down"} /\ taken' = taken
        BY <1>14, <1>15
      <3> QED BY <1>5, <1>15, <3>1, OneWorks
    <2>2. OnlyOnes'
      BY <1>15, <2>1 DEF OnlyOnes
    <2>3. Counts(s)'
      <3>1. SameCounts(s) /\ servers'[s].at = servers[s].at
        BY <1>5, <1>15, <2>1 DEF SameCounts
      <3> QED BY <1>4, <1>14, <3>1, CountsStay
    <2>4. /\ Due(s)' \subseteq Due(s) /\ p \in Due(s) /\ Due(s) \subseteq Due(s)' \cup {p}
          /\ p \in DOMAIN Leaves(taken[n]) /\ item.size = Leaves(taken[n])[p].size
          /\ \A q \in Due(s)' : p < q
          /\ Ordered(s)'
      <3>1. servers[s].todo \in Seq(Items) /\ servers[s].todo # <<>> /\ Head(servers[s].todo) = item
            /\ servers'[s].todo = Tail(servers[s].todo) /\ taken' = taken
        BY <1>2, <1>3, <1>14, <1>15, <2>1
      <3> QED BY <1>3, <1>6, <1>7, <1>9, <3>1, DueTail
    <2>5. AnswersLast(s)'
      <3> SUFFICES ASSUME taken[n].kind # "search"
                   PROVE  /\ \A i \in DOMAIN Tail(u) : Tail(u)[i].event = "reply" => i = Len(Tail(u))
                          /\ n \in answered => Due(s)' = {}
        BY <1>7, <1>14, <1>15, <2>1 DEF AnswersLast
      <3>1. /\ \A i \in DOMAIN u : u[i].event = "reply" => i = Len(u)
            /\ n \in answered => Due(s) = {}
        BY <1>2, <1>6, <1>7 DEF AnswersLast
      <3>2. \A i \in DOMAIN Tail(u) : Tail(u)[i].event = "reply" => i = Len(Tail(u))
        <4> TAKE i \in DOMAIN Tail(u)
        <4>1. Len(u) \in Nat /\ Len(Tail(u)) = Len(u) - 1 /\ i \in Nat
              /\ i + 1 \in DOMAIN u /\ Tail(u)[i] = u[i + 1]
          BY <1>3, TailIs
        <4> QED BY <3>1, <4>1
      <3> QED BY <2>4, <3>1, <3>2
    <2>6. taken' # <<>>
      BY <1>6, <1>14
    <2>7. \A t \in Servers : Begins(t)'
      BY <2>6 DEF Begins
    <2> QED BY <2>1, <2>2, <2>3, <2>4, <2>5, <2>7
  \* ... with the genome as it was, ...
  <1>16. ASSUME NEW w \in ServerStates, servers' = [servers EXCEPT ![s] = w],
                w.at = "work", w.todo = Tail(u), w.running = servers[s].running, w.since = servers[s].since,
                w.total = servers[s].total, w.hits = servers[s].hits, w.misses = servers[s].misses,
                w.late = servers[s].late,
                genome' = genome, trouble' \in {"none", "write", "doubled"}, fragment' \in BOOLEAN,
                \/ fragment /\ fragment' = fragment /\ trouble' = trouble /\ w.next = servers[s].next + 1
                \/ /\ w.next = servers[s].next /\ w.ready = servers[s].ready /\ w.last = servers[s].last
                   /\ \/ trouble = "none" /\ trouble' = "write"
                      \/ /\ trouble' = trouble /\ fragment' = fragment
                         /\ ~(servers[s].ready /\ item.size <= Room)
         PROVE  Parts'
    <2>1. fragment => trouble = "write"
      BY <1>1 DEF OnlyOnes
    <2>2. /\ trouble' # "doubled" => trouble # "doubled"
          /\ fragment' => trouble' = "write"
      BY <1>16, <2>1
    <2>3. /\ servers'[s] = w
          /\ OnlyOnes' /\ Counts(s)' /\ Ordered(s)' /\ AnswersLast(s)'
          /\ Due(s)' \subseteq Due(s) /\ p \in Due(s) /\ Due(s) \subseteq Due(s)' \cup {p}
          /\ p \in DOMAIN Leaves(taken[n]) /\ item.size = Leaves(taken[n])[p].size
          /\ \A t \in Servers : Begins(t)'
      BY <1>15, <1>16, <2>2
    <2>4. /\ \A i : IdBefore(i)' = IdBefore(i)
          /\ \A k : LeftBy(k)' = LeftBy(k)
      BY <1>16, GenomeStays
    <2>5. Still /\ starts' \in 0..MaxStarts
      BY <1>1, <1>14, <1>16 DEF Still, ServerOK
    <2>6. Knows(s)'
      <3>1. CASE fragment /\ fragment' = fragment
        BY <3>1 DEF Knows
      <3>2. CASE ~fragment
        BY <1>4, <1>5, <1>16, <2>2, <2>3, <2>4, <3>2 DEF Knows, Up
      <3>3. CASE trouble = "none" /\ trouble' = "write"
        <4>1. ~fragment
          BY <2>1, <3>3
        <4> QED BY <3>2, <4>1
      <3> QED BY <1>16, <3>1, <3>2, <3>3
    <2>7. w.next >= servers[s].next /\ w.next \in Nat /\ servers[s].next \in Nat
      BY <1>1, <1>16 DEF ServerStates
    <2>8. Works(s)'
      <3>1. \A i \in DOMAIN genome : genome[i].id.by = n => i < w.next
        <4> TAKE i \in DOMAIN genome
        <4>1. i \in Nat
          BY <1>1, LenProperties DEF ServerOK
        <4>2. genome[i].id.by = n => i < servers[s].next
          BY <1>6, <1>7
        <4> QED BY <2>7, <4>1, <4>2
      <3>2. \A x \in LeftBy(Len(taken))', q \in Due(s)' : x < q
        <4>1. LeftBy(Len(taken))' = LeftBy(Len(taken))
          BY <1>14, <2>4
        <4> QED BY <1>6, <2>3, <4>1
      <3> QED BY <1>6, <1>7, <1>14, <1>16, <2>3, <3>1, <3>2 DEF Works
    <2>9. Records(s)'
      <3>1. LeftBy(Len(taken))' = LeftBy(n) /\ Fitting(taken[Len(taken)])' = Fitting(taken[n])
        BY <1>7, <1>14, <2>4 DEF Fitting
      <3> SUFFICES /\ trouble' = "none" => Fitting(taken[n]) \subseteq LeftBy(n) \cup Due(s)'
                   /\ trouble' = "write" /\ ~fragment' =>
                        \A x, y \in Fitting(taken[n]) \ (LeftBy(n) \cup Due(s)') : x = y
        BY <3>1 DEF Records
      <3>2. /\ trouble = "none" => Fitting(taken[n]) \subseteq LeftBy(n) \cup Due(s)
            /\ trouble = "write" /\ ~fragment =>
                    \A x, y \in Fitting(taken[n]) \ (LeftBy(n) \cup Due(s)) : x = y
        BY <1>4, <1>5, <1>7 DEF Records
      <3>3. CASE fragment /\ fragment' = fragment /\ trouble' = trouble
        BY <2>1, <3>3
      <3>4. CASE trouble = "none" /\ trouble' = "write"
        BY <2>3, <3>2, <3>4
      <3>5. CASE trouble' = trouble /\ fragment' = fragment /\ ~fragment
                 /\ ~(servers[s].ready /\ item.size <= Room)
        <4>1. CASE trouble = "doubled"
          BY <3>5, <4>1
        <4>2. CASE trouble # "doubled"
          <5>1. servers[s].ready
            BY <1>4, <1>5, <3>5, <4>2 DEF Knows, Up
          <5>2. p \notin Fitting(taken[n])
            BY <2>3, <3>5, <5>1 DEF Fitting
          <5>3. \A x \in Fitting(taken[n]) : x \in Due(s) => x \in Due(s)'
            BY <2>3, <5>2
          <5> QED BY <3>2, <3>5, <5>3
        <4> QED BY <4>1, <4>2
      <3> QED BY <1>16, <3>3, <3>4, <3>5
    <2> QED BY <1>16, <2>3, <2>5, <2>6, <2>8, <2>9, MoveKeeps
  \* ... or with the event in it.
  <1>17. ASSUME ~fragment, servers[s].ready, item.size <= Room, Recorded(s, id), UNCHANGED <<fragment, trouble>>,
                servers' = [servers EXCEPT ![s] = [v EXCEPT !.next = @ + 1, !.last = id]]
         PROVE  Parts'
    <2>1. PICK place \in Nat : place = servers[s].next
      BY <1>1 DEF ServerStates
    <2>2. PICK w : w = [v EXCEPT !.next = place + 1, !.last = id]
      OBVIOUS
    <2>3. /\ w \in ServerStates /\ w.next = place + 1 /\ w.last = id /\ w.ready = v.ready
          /\ w.at = "work" /\ w.todo = v.todo
          /\ w.running = v.running /\ w.since = v.since /\ w.total = v.total
          /\ w.hits = v.hits /\ w.misses = v.misses /\ w.late = v.late
      <3>1. PICK nx \in Nat : nx = place + 1
        OBVIOUS
      <3>2. w = [v EXCEPT !.next = nx, !.last = id]
        BY <2>2, <3>1
      <3>3. /\ w \in ServerStates /\ w.next = nx /\ w.last = id /\ w.ready = v.ready
            /\ w.at = v.at /\ w.todo = v.todo
            /\ w.running = v.running /\ w.since = v.since /\ w.total = v.total
            /\ w.hits = v.hits /\ w.misses = v.misses /\ w.late = v.late
        BY <1>11, <1>13, <3>2 DEF ServerStates
      <3> QED BY <1>13, <3>1, <3>3
    <2>4. servers' = [servers EXCEPT ![s] = w]
      BY <1>13, <1>17, <2>1, <2>2
    <2>5. /\ servers'[s] = w
          /\ \A t \in Servers : t # s =>
                servers'[t] = servers[t] /\ Works(t)' /\ Records(t)' /\ Counts(t)'
          /\ OnlyOnes' /\ Counts(s)' /\ Ordered(s)' /\ AnswersLast(s)'
          /\ Due(s)' \subseteq Due(s) /\ p \in Due(s) /\ Due(s) \subseteq Due(s)' \cup {p}
          /\ p \in DOMAIN Leaves(taken[n]) /\ item.size = Leaves(taken[n])[p].size
          /\ \A q \in Due(s)' : p < q
          /\ \A t \in Servers : Begins(t)'
      <3>1. /\ w.at = "work" /\ w.todo = Tail(u) /\ w.running = servers[s].running
            /\ w.since = servers[s].since /\ w.total = servers[s].total /\ w.hits = servers[s].hits
            /\ w.misses = servers[s].misses /\ w.late = servers[s].late
        BY <1>13, <2>3
      <3>2. /\ trouble' # "doubled" => trouble # "doubled"
            /\ fragment' => trouble' = "write"
        BY <1>17
      <3> QED BY <1>15, <2>3, <2>4, <3>1, <3>2
    <2>6. /\ ServerOK'
          /\ \A t \in Servers : Knows(t)'
          /\ place \in 1..Len(genome) + 1
          /\ trouble # "doubled" =>
                /\ place = Len(genome) + 1
                /\ \A i \in DOMAIN genome' : Linked(i)'
                /\ \A k : k # id.by => LeftBy(k)' = LeftBy(k)
      <3>1. w.ready /\ w.at # "down" /\ servers[s].at # "down"
        BY <1>5, <1>13, <1>17, <2>3
      <3>2. UNCHANGED <<taken, answered, finished, starts, fragment, trouble>>
        BY <1>14, <1>17
      <3>3. ~fragment /\ Recorded(s, id) /\ id \in BlockIds
        BY <1>11, <1>17
      <3>4. w \in ServerStates /\ w.next = place + 1 /\ w.last = id
        BY <2>3
      <3> QED BY <2>1, <2>4, <3>1, <3>2, <3>3, <3>4, WriteKeeps, ZenonT(60)
    <2>7. /\ Len(genome) \in Nat /\ DOMAIN genome = 1..Len(genome)
          /\ Len(genome') = IF place = Len(genome) + 1 THEN Len(genome) + 1 ELSE Len(genome)
          /\ Len(genome') \in Nat /\ DOMAIN genome' = 1..Len(genome') /\ place \in DOMAIN genome'
          /\ genome'[place].id = id
          /\ \A i \in DOMAIN genome' : i # place => i \in DOMAIN genome /\ genome'[i] = genome[i]
      BY <1>1, <1>11, <1>17, <2>1, <2>6, WrittenIs
    <2>8. /\ \A k, q : q \in LeftBy(k)' => q \in LeftBy(k) \/ (k = id.by /\ q = id.place)
          /\ id.place \in LeftBy(id.by)'
          /\ place = Len(genome) + 1 => \A k : LeftBy(k) \subseteq LeftBy(k)'
      BY <1>1, <1>11, <1>17, <2>1, <2>6, WrittenLeaves
    <2>9. /\ \A q : q \in LeftBy(n)' => q \in LeftBy(n) \/ q = p
          /\ p \in LeftBy(n)'
          /\ trouble # "doubled" => LeftBy(n) \subseteq LeftBy(n)'
      BY <1>11, <2>6, <2>8
    <2>10. p \in Fitting(taken[n])
      BY <1>17, <2>5 DEF Fitting
    <2>11. \A i \in DOMAIN genome : genome[i].id.by = n => i < place /\ genome[i].id.place < p
      <3> SUFFICES ASSUME NEW i \in DOMAIN genome, genome[i].id.by = n
                   PROVE  i < place /\ genome[i].id.place < p
        OBVIOUS
      <3>1. genome[i].id.place \in LeftBy(n)
        BY DEF LeftBy
      <3>2. \A q \in LeftBy(n) : q < p
        BY <1>6, <1>7, <2>5
      <3> QED BY <1>6, <1>7, <2>1, <3>1, <3>2
    <2>12. /\ \A k : Fitting(taken[k])' = Fitting(taken[k])
           /\ Fitting(taken[Len(taken)])' = Fitting(taken[n])
           /\ LeftBy(Len(taken))' = LeftBy(n)'
      BY <1>7, <1>14 DEF Fitting, LeftBy
    <2>13. Lost'
      <3>1. \A i \in DOMAIN genome' : genome'[i].id.by <= Len(taken')
        <4> TAKE i \in DOMAIN genome'
        <4>1. CASE i = place
          BY <1>7, <1>11, <1>14, <2>7, <4>1
        <4>2. CASE i # place
          BY <1>1, <1>14, <2>7, <4>2 DEF Lost
        <4> QED BY <4>1, <4>2
      <3>2. ASSUME NEW k \in finished, trouble = "write"
            PROVE  \A x, y \in Fitting(taken[k]) \ LeftBy(k)' : x = y
        <4>1. k # n
          BY <1>6, <1>7
        <4>2. LeftBy(k)' = LeftBy(k)
          BY <1>11, <2>6, <3>2, <4>1
        <4> QED BY <1>1, <1>17, <3>2, <4>2 DEF Lost
      <3> QED BY <1>14, <1>17, <2>12, <3>1, <3>2 DEF Lost
    <2>14. InOrderOf'
      <3> SUFFICES ASSUME NEW i \in DOMAIN genome', NEW j \in DOMAIN genome', i < j,
                          genome'[i].id.by = genome'[j].id.by, genome'[j].id.by > 0
                   PROVE  genome'[i].id.place < genome'[j].id.place
        BY DEF InOrderOf
      <3>1. CASE i # place /\ j # place
        BY <1>1, <2>7, <3>1 DEF InOrderOf
      <3>2. CASE j = place
        <4>1. i # place
          BY <2>7, <3>2
        <4>2. i \in DOMAIN genome /\ genome'[i] = genome[i] /\ genome[i].id.by = n
          BY <1>11, <2>7, <3>2, <4>1
        <4> QED BY <1>11, <2>7, <2>11, <3>2, <4>2
      <3>3. CASE i = place /\ j # place
        <4>1. j \in DOMAIN genome /\ genome'[j] = genome[j] /\ genome[j].id.by = n
          BY <1>11, <2>7, <3>3
        <4>2. j < place
          BY <2>11, <4>1
        <4> QED BY <2>7, <3>3, <4>2
      <3> QED BY <3>1, <3>2, <3>3
    <2>15. Chained'
      <3>1. taken' # <<>>
        BY <1>6, <1>14
      <3> QED BY <1>17, <2>6, <3>1 DEF Chained
    <2>16. RequestsAreRecorded'
      <3> SUFFICES ASSUME trouble = "none"
                   PROVE  /\ \A i \in DOMAIN genome' : Linked(i)'
                          /\ \A i, j \in DOMAIN genome' :
                              i < j /\ genome'[j].id.by > 0 => genome'[i].id.by <= genome'[j].id.by
                          /\ \A k \in DOMAIN taken :
                              /\ LeftBy(k)' \subseteq Fitting(taken[k])
                              /\ \A x \in Fitting(taken[k]), q \in LeftBy(k)' : x <= q => x \in LeftBy(k)'
                              /\ k \in finished \/ (k \in answered /\ taken[k].kind # "search") =>
                                  LeftBy(k)' = Fitting(taken[k])
        BY <1>14, <1>17, <2>12 DEF RequestsAreRecorded, Whole
      <3>1. \A i \in DOMAIN genome' : Linked(i)'
        BY <2>6
      <3>2. ASSUME NEW i \in DOMAIN genome', NEW j \in DOMAIN genome', i < j, genome'[j].id.by > 0
            PROVE  genome'[i].id.by <= genome'[j].id.by
        <4>1. place = Len(genome')
          BY <2>6, <2>7
        <4>2. i # place
          BY <2>7, <3>2, <4>1
        <4>3. i \in DOMAIN genome /\ genome'[i] = genome[i] /\ genome[i].id.by <= n
          BY <1>1, <1>7, <2>7, <4>2 DEF Lost
        <4>4. CASE j = place
          BY <1>11, <2>7, <4>3, <4>4
        <4>5. CASE j # place
          BY <1>1, <2>7, <3>2, <4>3, <4>5 DEF RequestsAreRecorded
        <4> QED BY <4>4, <4>5
      <3>3. ASSUME NEW k \in DOMAIN taken, k # n
            PROVE  LeftBy(k)' = LeftBy(k)
        BY <1>11, <2>6, <3>3
      <3>4. /\ LeftBy(n) \subseteq Fitting(taken[n])
            /\ \A x \in Fitting(taken[n]), q \in LeftBy(n) : x <= q => x \in LeftBy(n)
            /\ Fitting(taken[n]) \subseteq LeftBy(n) \cup Due(s)
        BY <1>1, <1>4, <1>5, <1>7 DEF RequestsAreRecorded, Records
      <3>5. LeftBy(n)' \subseteq Fitting(taken[n])
        BY <2>9, <2>10, <3>4
      <3>6. ASSUME NEW x \in Fitting(taken[n]), NEW q \in LeftBy(n)', x <= q
            PROVE  x \in LeftBy(n)'
        <4>1. CASE q \in LeftBy(n)
          BY <2>9, <3>4, <3>6, <4>1
        <4>2. CASE q = p
          <5>1. x \in LeftBy(n) \/ x \in Due(s)' \/ x = p
            BY <2>5, <3>4
          <5>2. x \in Nat
            <6>1. PICK l \in Nat : DOMAIN Leaves(taken[n]) = 1..l
              <7>1. taken[n] \in Requests
                BY <1>1, <1>7, ElementOfSeq DEF ServerOK
              <7> QED BY <7>1, LeavesAre
            <6> QED BY <6>1 DEF Fitting
          <5>3. x \notin Due(s)'
            BY <2>5, <3>6, <4>2, <5>2
          <5> QED BY <2>9, <5>1, <5>3
        <4> QED BY <2>9, <4>1, <4>2
      <3>7. ~(n \in finished) /\ ~(n \in answered /\ taken[n].kind # "search")
        <4>1. Due(s) # {}
          BY <2>5
        <4> QED BY <1>6, <1>7, <4>1 DEF AnswersLast
      <3>8. ASSUME NEW k \in DOMAIN taken
            PROVE  /\ LeftBy(k)' \subseteq Fitting(taken[k])
                   /\ \A x \in Fitting(taken[k]), q \in LeftBy(k)' : x <= q => x \in LeftBy(k)'
                   /\ k \in finished \/ (k \in answered /\ taken[k].kind # "search") =>
                        LeftBy(k)' = Fitting(taken[k])
        <4>1. CASE k = n
          BY <3>5, <3>6, <3>7, <4>1
        <4>2. CASE k # n
          BY <1>1, <3>3, <4>2 DEF RequestsAreRecorded
        <4> QED BY <4>1, <4>2
      <3> QED BY <3>1, <3>2, <3>8
    <2>17. Works(s)'
      <3>1. \A i \in DOMAIN genome' : genome'[i].id.by = n => i < place + 1
        <4> SUFFICES ASSUME NEW i \in DOMAIN genome', genome'[i].id.by = n PROVE i < place + 1
          OBVIOUS
        <4>1. CASE i = place
          BY <4>1
        <4>2. CASE i # place
          <5>1. i < place
            BY <2>7, <2>11, <4>2
          <5> QED BY <2>7, <5>1
        <4> QED BY <4>1, <4>2
      <3>2. \A x \in LeftBy(n)', q \in Due(s)' : x < q
        BY <1>6, <1>7, <2>5, <2>9
      <3>3. servers'[s].at = "work" /\ servers'[s].next = place + 1
        BY <2>3, <2>5
      <3> QED BY <1>6, <1>7, <1>14, <2>5, <2>12, <3>1, <3>2, <3>3 DEF Works
    <2>18. Records(s)'
      <3> SUFFICES /\ trouble = "none" => Fitting(taken[n]) \subseteq LeftBy(n)' \cup Due(s)'
                   /\ trouble = "write" =>
                        \A x, y \in Fitting(taken[n]) \ (LeftBy(n)' \cup Due(s)') : x = y
        BY <1>17, <2>12 DEF Records
      <3>1. /\ trouble = "none" => Fitting(taken[n]) \subseteq LeftBy(n) \cup Due(s)
            /\ trouble = "write" =>
                    \A x, y \in Fitting(taken[n]) \ (LeftBy(n) \cup Due(s)) : x = y
        BY <1>4, <1>5, <1>7, <1>17 DEF Records
      <3>2. trouble # "doubled" => LeftBy(n) \cup Due(s) \subseteq LeftBy(n)' \cup Due(s)'
        BY <2>5, <2>9
      <3> QED BY <3>1, <3>2
    <2>19. ASSUME NEW t \in Servers PROVE Each(t)'
      BY <2>5, <2>6, <2>17, <2>18 DEF Each
    <2> QED BY <2>5, <2>6, <2>13, <2>14, <2>15, <2>16, <2>19 DEF Parts, All
  <1>18. CASE servers[s].ready /\ item.size <= Room /\ Recorded(s, id) /\ UNCHANGED <<fragment, trouble>>
              /\ servers' = [servers EXCEPT ![s] = [v EXCEPT !.next = @ + 1, !.last = id]]
    <2>1. CASE fragment
      <3>1. genome' = genome
        BY <1>18, <2>1 DEF Recorded
      <3>2. PICK nx \in Nat : nx = v.next + 1
        BY <1>13 DEF ServerStates
      <3>3. PICK w : w = [v EXCEPT !.next = nx, !.last = id]
        OBVIOUS
      <3>4. /\ w \in ServerStates /\ w.next = nx
            /\ w.at = v.at /\ w.todo = v.todo
            /\ w.running = v.running /\ w.since = v.since /\ w.total = v.total
            /\ w.hits = v.hits /\ w.misses = v.misses /\ w.late = v.late
        BY <1>11, <1>13, <3>3 DEF ServerStates
      <3>5. servers' = [servers EXCEPT ![s] = w]
        BY <1>18, <3>2, <3>3
      <3>6. trouble' \in {"none", "write", "doubled"} /\ fragment' \in BOOLEAN
        BY <1>1, <1>18 DEF ServerOK
      <3>7. /\ w.at = "work" /\ w.todo = Tail(u) /\ w.running = servers[s].running
            /\ w.since = servers[s].since /\ w.total = servers[s].total /\ w.hits = servers[s].hits
            /\ w.misses = servers[s].misses /\ w.late = servers[s].late
        BY <1>13, <3>4
      <3>8. fragment /\ fragment' = fragment /\ trouble' = trouble /\ w.next = servers[s].next + 1
        BY <1>13, <1>18, <2>1, <3>2, <3>4
      <3>9. w \in ServerStates
        BY <3>4
      <3> QED BY <1>16, <3>1, <3>5, <3>6, <3>7, <3>8, <3>9
    <2>2. CASE ~fragment
      BY <1>17, <1>18, <2>2
    <2> QED BY <2>1, <2>2
  <1>19. CASE /\ servers' = [servers EXCEPT ![s] = v] /\ UNCHANGED genome
              /\ \/ trouble = "none" /\ trouble' = "write" /\ fragment' \in BOOLEAN
                 \/ UNCHANGED <<fragment, trouble>> /\ ~(servers[s].ready /\ item.size <= Room)
    <2>1. trouble' \in {"none", "write", "doubled"} /\ fragment' \in BOOLEAN
      BY <1>1, <1>19 DEF ServerOK
    <2>2. /\ v.next = servers[s].next /\ v.ready = servers[s].ready /\ v.last = servers[s].last
          /\ \/ trouble = "none" /\ trouble' = "write"
             \/ /\ trouble' = trouble /\ fragment' = fragment
                /\ ~(servers[s].ready /\ item.size <= Room)
      BY <1>13, <1>19
    <2>3. v \in ServerStates /\ genome' = genome /\ servers' = [servers EXCEPT ![s] = v]
      BY <1>13, <1>19
    <2> QED BY <1>13, <1>16, <2>1, <2>2, <2>3
  <1>20. \/ /\ servers[s].ready /\ item.size <= Room /\ Recorded(s, id) /\ UNCHANGED <<fragment, trouble>>
            /\ servers' = [servers EXCEPT ![s] = [v EXCEPT !.next = @ + 1, !.last = id]]
         \/ /\ servers' = [servers EXCEPT ![s] = v] /\ UNCHANGED genome
            /\ \/ trouble = "none" /\ trouble' = "write" /\ fragment' \in BOOLEAN
               \/ UNCHANGED <<fragment, trouble>> /\ ~(servers[s].ready /\ item.size <= Room)
    BY <1>14 DEF Keep
  <1> QED BY <1>18, <1>19, <1>20

-----------------------------------------------------------------------------
(* The whole *)

\* Each step of a server keeps the invariant.
LEMMA ServerStep ==
    ASSUME Parts, [ServerNext]_serverVars
    PROVE  Parts'
  <1>1. ASSUME NEW s \in Servers, StartServer(s) PROVE Parts'
    BY <1>1, StartServerKeeps
  <1>2. ASSUME NEW s \in Servers, Boot(s) PROVE Parts'
    BY <1>2, BootKeeps
  <1>3. ASSUME NEW s \in Servers, Bind(s) PROVE Parts'
    BY <1>3, BindKeeps
  <1>4. ASSUME NEW s \in Servers, Signal(s) PROVE Parts'
    BY <1>4, SignalKeeps
  <1>5. ASSUME NEW s \in Servers, ServerDies(s) PROVE Parts'
    BY <1>5, DiesKeeps
  <1>6. ASSUME NEW s \in Servers, NEW r \in Requests, TakeRequest(s, r) PROVE Parts'
    BY <1>6, TakeRequestKeeps
  <1>7. ASSUME NEW s \in Servers, Reply(s) PROVE Parts'
    BY <1>7, ReplyKeeps
  <1>8. ASSUME NEW s \in Servers, RecordEvent(s) PROVE Parts'
    BY <1>8, RecordEventKeeps
  <1>9. ASSUME NEW s \in Servers, NextClient(s) PROVE Parts'
    BY <1>9, NextClientKeeps
  <1>10. CASE UNCHANGED serverVars
    <2>1. /\ servers' = servers /\ genome' = genome /\ fragment' = fragment /\ taken' = taken
          /\ answered' = answered /\ finished' = finished /\ starts' = starts /\ trouble' = trouble
      BY <1>10 DEF serverVars
    <2>2. All /\ \A t \in Servers : Each(t)
      BY DEF Parts
    <2>3. Still /\ trouble' \in {"none", "write", "doubled"}
      BY <2>1, <2>2 DEF Still, All, ServerOK
    <2>4. All'
      <3>1. ServerOK' /\ OnlyOnes'
        BY <2>1, <2>2 DEF All, ServerOK, OnlyOnes, Serves, Up
      <3>2. Lost' /\ InOrderOf' /\ Chained' /\ RequestsAreRecorded'
        BY <2>2, <2>3, RecordsStay DEF All
      <3> QED BY <3>1, <3>2 DEF All
    <2>5. \A t \in Servers : Begins(t)'
      BY <2>1, <2>2, BeginsStays
    <2>6. ASSUME NEW t \in Servers PROVE Each(t)'
      <3>1. Knows(t)' /\ Works(t)' /\ Records(t)' /\ Counts(t)'
        BY <2>1, <2>2, <2>3, ServerStays DEF All
      <3> QED BY <2>5, <3>1 DEF Each
    <2> QED BY <2>4, <2>6 DEF Parts
  <1> QED BY <1>1, <1>2, <1>3, <1>4, <1>5, <1>6, <1>7, <1>8, <1>9, <1>10 DEF ServerNext

\* What the servers do is what ServerInv says, and with it what its readers rely on.
THEOREM ServersKeepFaith == ServerSpec => [](ServerInv /\ ServerKeepsFaith)
  <1>1. ServerInit => Parts
    BY ServerStart
  <1>2. Parts /\ [ServerNext]_serverVars => Parts'
    BY ServerStep
  <1>3. Parts => ServerInv /\ ServerKeepsFaith
    BY ServerInvIs DEF ServerInv
  <1> QED BY <1>1, <1>2, <1>3, PTL DEF ServerSpec

-----------------------------------------------------------------------------
(* Sorting *)

\* What a document is sorted by.
Worth(d) == AsFloat[scores[d]]

\* b has the first places of a, and behind them the rest of it in another order.
Shuffled(a, b, n, first) ==
    /\ \A x \in 1..n : x < first => b[x] = a[x]
    /\ \A y \in first..n : \E z \in first..n : b[y] = a[z]
    /\ \A z \in first..n : \E y \in first..n : b[y] = a[z]

\* No document is in it twice.
OneToOne(a, n) == \A x, y \in 1..n : a[x] = a[y] => x = y

\* Two places of d have been exchanged, if that was due.
Exchanges(d, e, n, i, j) ==
    /\ \/ Worth(d[j]) > Worth(d[i]) /\ e[i] = d[j] /\ e[j] = d[i]
       \/ ~(Worth(d[j]) > Worth(d[i])) /\ e[i] = d[i] /\ e[j] = d[j]
    /\ \A x \in 1..n : x # i /\ x # j => e[x] = d[x]

\* An exchange, or none.
LEMMA ExchangedIs ==
    ASSUME NEW n \in Nat, NEW D, NEW d \in [1..n -> D], NEW i \in 1..n, NEW j \in 1..n, i < j
    PROVE  Swapped(d, i, j) \in [1..n -> D] /\ Exchanges(d, Swapped(d, i, j), n, i, j)
  <1>1. i # j
    OBVIOUS
  <1>2. CASE Worth(d[j]) > Worth(d[i])
    <2>1. PICK e : e = [d EXCEPT ![i] = d[j], ![j] = d[i]]
      OBVIOUS
    <2>2. e = Swapped(d, i, j)
      BY <1>2, <2>1 DEF Swapped, Worth
    <2>3. /\ e \in [1..n -> D] /\ e[i] = d[j] /\ e[j] = d[i]
          /\ \A x \in 1..n : x # i /\ x # j => e[x] = d[x]
      BY <1>1, <2>1
    <2> QED BY <1>2, <2>2, <2>3 DEF Exchanges
  <1>3. CASE ~(Worth(d[j]) > Worth(d[i]))
    <2>1. Swapped(d, i, j) = d
      BY <1>3 DEF Swapped, Worth
    <2> QED BY <1>3, <2>1 DEF Exchanges
  <1> QED BY <1>2, <1>3

\* A sequence of n documents.
LEMMA LengthIs ==
    ASSUME NEW n \in Nat, NEW D, NEW d \in [1..n -> D]
    PROVE  d \in Seq(D) /\ Len(d) = n
  OBVIOUS

\* After a pass, the best of the places behind is in front of them.
LEMMA PassIs ==
    ASSUME NEW n \in Nat, NEW D, \A x \in D : Worth(x) \in Int,
           NEW d \in [1..n -> D], NEW i \in 1..n
    PROVE  /\ Pass(d, i) \in [1..n -> D]
           /\ Shuffled(d, Pass(d, i), n, i)
           /\ OneToOne(d, n) => OneToOne(Pass(d, i), n)
           /\ \A y \in i..n : Worth(Pass(d, i)[i]) >= Worth(Pass(d, i)[y])
  <1> DEFINE S == [1..n -> D]
             IsPass(h) == h = [j \in i..n |-> IF j = i THEN d ELSE Swapped(h[j - 1], i, j)]
  <1>1. Len(d) = n
    BY LengthIs
  <1>2. \E h : IsPass(h)
    <2> DEFINE step == [p \in Nat \X S |-> IF i + p[1] + 1 <= n THEN Swapped(p[2], i, i + p[1] + 1) ELSE p[2]]
    <2>1. step \in [Nat \X S -> S]
      <3> SUFFICES ASSUME NEW k \in Nat, NEW e \in S
                   PROVE  (IF i + k + 1 <= n THEN Swapped(e, i, i + k + 1) ELSE e) \in S
        OBVIOUS
      <3>1. CASE i + k + 1 <= n
        <4>1. i + k + 1 \in 1..n /\ i < i + k + 1
          BY <3>1
        <4>2. Swapped(e, i, i + k + 1) \in S
          BY <4>1, ExchangedIs
        <4> QED BY <3>1, <4>2
      <3>2. CASE ~(i + k + 1 <= n)
        BY <3>2
      <3> QED BY <3>1, <3>2
    <2>2. PICK m \in Nat : m = n - i
      OBVIOUS
    <2> HIDE DEF S
    <2>3. d \in S
      BY DEF S
    <2>4. \A k \in Nat, e \in S : i + k + 1 <= n => step[<<k, e>>] = Swapped(e, i, i + k + 1)
      OBVIOUS
    <2> HIDE DEF step
    <2>9. PICK f \in [0..m -> S] : GoesBy(f, d, step, m)
      BY <2>1, <2>2, <2>3, Iterates
    <2>5. f \in [0..m -> S] /\ f[0] = d /\ \A k \in 0..m : k # m => f[k + 1] = step[<<k, f[k]>>]
      BY <2>9 DEF GoesBy
    <2>6. PICK h : h = [j \in i..n |-> f[j - i]]
      OBVIOUS
    <2>7. ASSUME NEW j \in i..n PROVE h[j] = IF j = i THEN d ELSE Swapped(h[j - 1], i, j)
      <3>1. CASE j = i
        <4>1. h[j] = f[j - i] /\ j - i = 0
          BY <2>6, <3>1
        <4> QED BY <2>5, <3>1, <4>1
      <3>2. CASE j # i
        <4>1. PICK k \in 0..m : k = (j - 1) - i
          BY <2>2, <3>2
        <4>2. /\ k # m /\ k + 1 = j - i /\ j - 1 \in i..n /\ i + k + 1 = j /\ i + k + 1 <= n
              /\ k \in Nat
          BY <2>2, <3>2, <4>1
        <4>3. f[k] \in S
          BY <2>5
        <4>4. h[j] = f[k + 1]
          BY <2>6, <4>2
        <4>5. h[j - 1] = f[k]
          BY <2>6, <4>1, <4>2
        <4>6. f[k + 1] = step[<<k, f[k]>>]
          BY <2>5, <4>2
        <4>7. step[<<k, f[k]>>] = Swapped(f[k], i, j)
          BY <2>4, <4>2, <4>3
        <4> QED BY <3>2, <4>4, <4>5, <4>6, <4>7
      <3> QED BY <3>1, <3>2
    <2>8. h = [j \in i..n |-> IF j = i THEN d ELSE Swapped(h[j - 1], i, j)]
      <3>1. h = [j \in i..n |-> h[j]]
        BY <2>6
      <3> QED BY <2>7, <3>1
    <2> QED BY <2>8
  <1>3. PICK h : h = CHOOSE g : IsPass(g)
    OBVIOUS
  <1>4. IsPass(h)
    BY <1>2, <1>3
  <1>5. Pass(d, i) = h[n]
    BY <1>1, <1>3 DEF Pass
  <1>6. \A j \in i..n : h[j] = IF j = i THEN d ELSE Swapped(h[j - 1], i, j)
    BY <1>4
  <1> HIDE DEF IsPass
  <1> DEFINE Good(b, j) == /\ b \in S /\ Shuffled(d, b, n, i)
                           /\ OneToOne(d, n) => OneToOne(b, n)
                           /\ \A y \in i..j : Worth(b[i]) >= Worth(b[y])
             G == {k \in Nat : Good(h[i + k], i + k)}
  <1>7. 0 \in G
    <2>1. h[i + 0] = d
      BY <1>6
    <2>2. Good(d, i + 0)
      <3>1. Worth(d[i]) \in Int
        OBVIOUS
      <3> QED BY <3>1 DEF Shuffled
    <2> QED BY <2>1, <2>2
  <1>8. ASSUME NEW k \in 0..n - i, k # n - i, k \in G PROVE k + 1 \in G
    <2>1. PICK j \in 1..n : j = i + (k + 1) /\ j \in i..n /\ i < j /\ j - 1 = i + k
      <3>1. k # n - i
        BY <1>8, Zenon
      <3>2. i + (k + 1) \in 1..n /\ i + (k + 1) \in i..n /\ i < i + (k + 1)
        BY <3>1
      <3> QED BY <3>2
    <2>2. PICK b : b = h[i + k]
      OBVIOUS
    <2>3. Good(b, i + k)
      BY <1>8, <2>2
    <2>4. PICK e : e = Swapped(b, i, j)
      OBVIOUS
    <2>5. h[j] = e
      <3>1. h[j] = IF j = i THEN d ELSE Swapped(h[j - 1], i, j)
        BY <1>6, <2>1, Zenon
      <3>2. j # i
        BY <2>1
      <3>3. h[j - 1] = b
        BY <2>1, <2>2, Zenon
      <3> QED BY <2>4, <3>1, <3>2, <3>3, Zenon
    <2>6. /\ e \in S
          /\ \/ Worth(b[j]) > Worth(b[i]) /\ e[i] = b[j] /\ e[j] = b[i]
             \/ ~(Worth(b[j]) > Worth(b[i])) /\ e[i] = b[i] /\ e[j] = b[j]
          /\ \A x \in 1..n : x # i /\ x # j => e[x] = b[x]
      <3>1. b \in [1..n -> D] /\ j \in 1..n /\ i < j
        BY <2>1, <2>3
      <3>2. Swapped(b, i, j) \in [1..n -> D] /\ Exchanges(b, Swapped(b, i, j), n, i, j)
        BY <3>1, ExchangedIs
      <3> QED BY <2>4, <3>2 DEF Exchanges
    <2>7. /\ b \in S
          /\ \A x \in 1..n : x < i => b[x] = d[x]
          /\ \A y \in i..n : \E z \in i..n : b[y] = d[z]
          /\ \A z \in i..n : \E y \in i..n : b[y] = d[z]
          /\ OneToOne(d, n) => \A x, y \in 1..n : b[x] = b[y] => x = y
          /\ \A y \in i..i + k : Worth(b[i]) >= Worth(b[y])
      BY <2>3 DEF Shuffled, OneToOne
    <2>8. i \in i..n /\ j \in i..n /\ i # j /\ \A y \in i..n : y \in 1..n
      BY <2>1
    <2>9. /\ \A y \in i..n : \E x \in i..n : e[y] = b[x]
          /\ \A x \in i..n : \E y \in i..n : e[y] = b[x]
      BY <2>6, <2>8
    <2>10. Shuffled(d, e, n, i)
      <3>1. \A x \in 1..n : x < i => e[x] = d[x]
        BY <2>1, <2>6, <2>7
      <3>2. \A y \in i..n : \E z \in i..n : e[y] = d[z]
        <4> TAKE y \in i..n
        <4>1. PICK x \in i..n : e[y] = b[x]
          BY <2>9
        <4>2. PICK z \in i..n : b[x] = d[z]
          BY <2>7
        <4> QED BY <4>1, <4>2
      <3>3. \A z \in i..n : \E y \in i..n : e[y] = d[z]
        <4> TAKE z \in i..n
        <4>1. PICK x \in i..n : b[x] = d[z]
          BY <2>7
        <4>2. PICK y \in i..n : e[y] = b[x]
          BY <2>9
        <4> QED BY <4>1, <4>2
      <3> QED BY <3>1, <3>2, <3>3 DEF Shuffled
    <2>11. OneToOne(d, n) => OneToOne(e, n)
      <3> SUFFICES ASSUME OneToOne(d, n), NEW x \in 1..n, NEW y \in 1..n, e[x] = e[y] PROVE x = y
        BY DEF OneToOne
      <3>1. \A v, w \in 1..n : b[v] = b[w] => v = w
        BY <2>7
      <3>2. CASE e[i] = b[j] /\ e[j] = b[i]
        <4>1. CASE x # i /\ x # j /\ y # i /\ y # j
          BY <2>6, <3>1, <4>1
        <4>2. CASE x = i \/ x = j
          <5>1. CASE y = i \/ y = j
            BY <2>1, <3>1, <3>2, <4>2, <5>1
          <5>2. CASE y # i /\ y # j
            <6>1. e[y] = b[y]
              BY <2>6, <5>2
            <6> QED BY <2>1, <3>1, <3>2, <4>2, <5>2, <6>1
          <5> QED BY <5>1, <5>2
        <4>3. CASE y = i \/ y = j
          <5>1. CASE x # i /\ x # j
            <6>1. e[x] = b[x]
              BY <2>6, <5>1
            <6> QED BY <2>1, <3>1, <3>2, <4>3, <5>1, <6>1
          <5> QED BY <4>2, <5>1
        <4> QED BY <4>1, <4>2, <4>3
      <3>3. CASE e[i] = b[i] /\ e[j] = b[j]
        <4>1. \A z \in 1..n : e[z] = b[z]
          BY <2>6, <3>3
        <4> QED BY <3>1, <4>1
      <3> QED BY <2>6, <3>2, <3>3
    <2>12. \A y \in i..j : Worth(e[i]) >= Worth(e[y])
      <3> TAKE y \in i..j
      <3>1. \A x \in 1..n : Worth(b[x]) \in Int
        BY <2>7
      <3>2. Worth(b[i]) \in Int /\ Worth(b[j]) \in Int
        BY <3>1
      <3>3. CASE y = i
        <4>1. Worth(e[i]) \in Int
          BY <2>6
        <4> QED BY <3>3, <4>1
      <3>4. CASE y = j
        BY <2>6, <3>2, <3>4
      <3>5. CASE y # i /\ y # j
        <4>1. y \in i..i + k /\ y \in 1..n
          BY <2>1, <3>5
        <4>2. Worth(b[i]) >= Worth(b[y]) /\ Worth(b[y]) \in Int /\ e[y] = b[y]
          BY <2>6, <2>7, <3>1, <3>5, <4>1
        <4> QED BY <2>6, <3>2, <4>2
      <3> QED BY <3>3, <3>4, <3>5
    <2>13. Good(e, i + (k + 1))
      BY <2>1, <2>6, <2>10, <2>11, <2>12
    <2>14. k + 1 \in Nat
      OBVIOUS
    <2>15. h[i + (k + 1)] = e
      BY <2>1, <2>5, Zenon
    <2> QED BY <2>13, <2>14, <2>15, Zenon
  <1>9. n - i \in Nat /\ n - i \in 0..n - i /\ i + (n - i) = n
    OBVIOUS
  <1> HIDE DEF G
  <1>10. n - i \in G
    BY <1>7, <1>8, <1>9, CountingUp
  <1>11. Good(h[n], n)
    BY <1>9, <1>10 DEF G
  <1> QED BY <1>5, <1>11

\* A rearrangement of one is one.
LEMMA ShuffledTwice ==
    ASSUME NEW n \in Nat, NEW i \in 1..n, NEW a, NEW b, NEW c, Shuffled(a, b, n, 1), Shuffled(b, c, n, i)
    PROVE  Shuffled(a, c, n, 1)
  <1>1. \A y \in 1..n : \E z \in 1..n : c[y] = b[z]
    <2> TAKE y \in 1..n
    <2>1. CASE y < i
      <3>1. c[y] = b[y]
        BY <2>1 DEF Shuffled
      <3> QED BY <3>1
    <2>2. CASE ~(y < i)
      <3>1. y \in i..n
        BY <2>2
      <3>2. PICK z \in i..n : c[y] = b[z]
        BY <3>1 DEF Shuffled
      <3>3. z \in 1..n
        OBVIOUS
      <3> QED BY <3>2, <3>3
    <2> QED BY <2>1, <2>2
  <1>2. \A z \in 1..n : \E y \in 1..n : c[y] = b[z]
    <2> TAKE z \in 1..n
    <2>1. CASE z < i
      <3>1. c[z] = b[z]
        BY <2>1 DEF Shuffled
      <3> QED BY <3>1
    <2>2. CASE ~(z < i)
      <3>1. z \in i..n
        BY <2>2
      <3>2. PICK y \in i..n : c[y] = b[z]
        BY <3>1 DEF Shuffled
      <3>3. y \in 1..n
        OBVIOUS
      <3> QED BY <3>2, <3>3
    <2> QED BY <2>1, <2>2
  <1>3. \A y \in 1..n : \E z \in 1..n : b[y] = a[z]
    BY DEF Shuffled
  <1>4. \A z \in 1..n : \E y \in 1..n : b[y] = a[z]
    BY DEF Shuffled
  <1>5. \A y \in 1..n : \E z \in 1..n : c[y] = a[z]
    BY <1>1, <1>3
  <1>6. \A z \in 1..n : \E y \in 1..n : c[y] = a[z]
    BY <1>2, <1>4
  <1>7. \A x \in 1..n : ~(x < 1)
    OBVIOUS
  <1> QED BY <1>5, <1>6, <1>7 DEF Shuffled

\* The documents end up sorted, each of them once.
LEMMA InOrderIs ==
    ASSUME NEW n \in Nat, NEW D, \A x \in D : Worth(x) \in Int, NEW d \in [1..n -> D]
    PROVE  /\ InOrder(d) \in [1..n -> D]
           /\ Shuffled(d, InOrder(d), n, 1)
           /\ OneToOne(d, n) => OneToOne(InOrder(d), n)
           /\ \A x \in 1..n, y \in 1..n : x < y => Worth(InOrder(d)[x]) >= Worth(InOrder(d)[y])
  <1> DEFINE S == [1..n -> D]
             IsOrder(h) == h = [i \in 0..n |-> IF i = 0 THEN d ELSE Pass(h[i - 1], i)]
  <1>1. Len(d) = n
    BY LengthIs
  <1>2. \E h : IsOrder(h)
    <2> DEFINE step == [p \in Nat \X S |-> IF p[1] + 1 <= n THEN Pass(p[2], p[1] + 1) ELSE p[2]]
    <2>1. step \in [Nat \X S -> S]
      <3> SUFFICES ASSUME NEW k \in Nat, NEW e \in S
                   PROVE  (IF k + 1 <= n THEN Pass(e, k + 1) ELSE e) \in S
        OBVIOUS
      <3>1. CASE k + 1 <= n
        <4>1. k + 1 \in 1..n
          BY <3>1
        <4>2. Pass(e, k + 1) \in S
          BY <4>1, PassIs
        <4> QED BY <3>1, <4>2
      <3>2. CASE ~(k + 1 <= n)
        BY <3>2
      <3> QED BY <3>1, <3>2
    <2> HIDE DEF S
    <2>3. d \in S
      BY DEF S
    <2>4. \A k \in Nat, e \in S : k + 1 <= n => step[<<k, e>>] = Pass(e, k + 1)
      OBVIOUS
    <2> HIDE DEF step
    <2>8. PICK f \in [0..n -> S] : GoesBy(f, d, step, n)
      BY <2>1, <2>3, Iterates
    <2>5. f \in [0..n -> S] /\ f[0] = d /\ \A k \in 0..n : k # n => f[k + 1] = step[<<k, f[k]>>]
      BY <2>8 DEF GoesBy
    <2>6. ASSUME NEW i \in 0..n PROVE f[i] = IF i = 0 THEN d ELSE Pass(f[i - 1], i)
      <3>1. CASE i = 0
        BY <2>5, <3>1
      <3>2. CASE i # 0
        <4>1. PICK k \in 0..n : k = i - 1 /\ k # n /\ k + 1 = i /\ k \in Nat /\ k + 1 <= n
          BY <3>2
        <4>2. f[k] \in S
          BY <2>5
        <4>3. f[i] = step[<<k, f[k]>>]
          BY <2>5, <4>1
        <4>4. step[<<k, f[k]>>] = Pass(f[k], i)
          BY <2>4, <4>1, <4>2
        <4> QED BY <3>2, <4>1, <4>3, <4>4
      <3> QED BY <3>1, <3>2
    <2>7. f = [i \in 0..n |-> IF i = 0 THEN d ELSE Pass(f[i - 1], i)]
      <3>1. f = [i \in 0..n |-> f[i]]
        BY <2>5
      <3> QED BY <2>6, <3>1
    <2> QED BY <2>7
  <1>3. PICK h : h = CHOOSE g : IsOrder(g)
    OBVIOUS
  <1>4. IsOrder(h)
    BY <1>2, <1>3
  <1>5. InOrder(d) = h[n]
    BY <1>1, <1>3 DEF InOrder
  <1>6. \A i \in 0..n : h[i] = IF i = 0 THEN d ELSE Pass(h[i - 1], i)
    BY <1>4
  <1> HIDE DEF IsOrder
  <1> DEFINE Good(b, i) == /\ b \in S /\ Shuffled(d, b, n, 1)
                           /\ OneToOne(d, n) => OneToOne(b, n)
                           /\ \A x \in 1..i, y \in 1..n : x < y => Worth(b[x]) >= Worth(b[y])
             G == {i \in Nat : Good(h[i], i)}
  <1>7. 0 \in G
    <2>1. h[0] = d
      BY <1>6
    <2>2. Good(d, 0)
      BY DEF Shuffled
    <2> QED BY <2>1, <2>2
  <1>8. ASSUME NEW k \in 0..n, k # n, k \in G PROVE k + 1 \in G
    <2>1. PICK i \in 1..n : i = k + 1 /\ i - 1 = k /\ i \in 0..n /\ i # 0
      BY <1>8
    <2>2. PICK b \in S : b = h[k] /\ Good(b, k)
      BY <1>8
    <2>3. PICK e : e = Pass(b, i)
      OBVIOUS
    <2>4. h[i] = e
      BY <1>6, <2>1, <2>2, <2>3
    <2>5. /\ e \in S
          /\ Shuffled(b, e, n, i)
          /\ OneToOne(b, n) => OneToOne(e, n)
          /\ \A y \in i..n : Worth(e[i]) >= Worth(e[y])
      BY <2>3, PassIs
    <2>6. Shuffled(d, e, n, 1)
      BY <2>2, <2>5, ShuffledTwice
    <2>7. ASSUME NEW x \in 1..i, NEW y \in 1..n, x < y PROVE Worth(e[x]) >= Worth(e[y])
      <3>1. CASE x = i
        <4>1. y \in i..n
          BY <2>7, <3>1
        <4> QED BY <2>5, <3>1, <4>1
      <3>2. CASE x # i
        <4>1. x \in 1..k /\ x < i /\ x \in 1..n
          BY <2>1, <3>2
        <4>2. e[x] = b[x]
          BY <2>5, <4>1 DEF Shuffled
        <4>3. CASE y < i
          <5>1. e[y] = b[y]
            BY <2>5, <4>3 DEF Shuffled
          <5> QED BY <2>2, <2>7, <4>1, <4>2, <5>1
        <4>4. CASE ~(y < i)
          <5>1. y \in i..n
            BY <4>4
          <5>2. PICK z \in i..n : e[y] = b[z]
            BY <2>5, <5>1 DEF Shuffled
          <5>3. z \in 1..n /\ x < z
            BY <4>1
          <5> QED BY <2>2, <4>1, <4>2, <5>2, <5>3
        <4> QED BY <4>3, <4>4
      <3> QED BY <3>1, <3>2
    <2>8. Good(e, k + 1)
      BY <2>1, <2>2, <2>5, <2>6, <2>7
    <2>9. h[k + 1] = e /\ k + 1 \in Nat
      BY <2>1, <2>4
    <2> QED BY <2>8, <2>9
  <1> HIDE DEF G
  <1>9. n \in G
    <2>1. \A k \in 0..n : k \in G
      BY <1>7, <1>8, CountingUp
    <2> QED BY <2>1
  <1>10. Good(h[n], n)
    BY <1>9 DEF G
  <1> QED BY <1>5, <1>10

-----------------------------------------------------------------------------
(* The two searches *)

\* best has m of H, each before those that it is better than by s, and those that are
\* left out after all of them.
FirstOf(best, m, H, s) ==
    /\ best \in [1..m -> H]
    /\ \A i, j \in 1..m : i < j => best[i] # best[j] /\ Before(s, best[i], best[j])
    /\ \A d \in H : (\A i \in 1..m : best[i] # d) => \A i \in 1..m : Before(s, best[i], d)

\* Sorting all that match puts each before those that it is better than, and those
\* that are left out after all of them.
LEMMA RankedIs ==
    ASSUME NEW l \in Nat, NEW s \in [1..l -> Nat], NEW n \in Nat
    PROVE  LET H == {d \in 1..l : s[d] > 0}
               m == IF Cardinality(H) < n THEN Cardinality(H) ELSE n
           IN  FirstOf(Ranking(s, n), m, H, s)
  <1> DEFINE H == {d \in 1..l : s[d] > 0}
             Ahead(d) == {e \in H : Before(s, e, d)}
  <1>1. IsFiniteSet(1..l)
    BY FS_Interval
  <1>2. IsFiniteSet(H)
    BY <1>1, FS_Subset
  <1>3. PICK h \in Nat : h = Cardinality(H)
    BY <1>2, FS_CardinalityType
  <1>4. \A d \in H : d \in 1..l /\ s[d] \in Nat
    OBVIOUS
  <1>5. \A d, e \in H : d # e => Before(s, d, e) \/ Before(s, e, d)
    BY <1>4 DEF Before
  <1>6. \A d, e, f \in H : Before(s, d, e) /\ Before(s, e, f) => Before(s, d, f)
    BY <1>4 DEF Before
  <1>7. \A d \in H : ~Before(s, d, d)
    BY <1>4 DEF Before
  <1> HIDE DEF H
  <1>8. PICK r : r = [d \in H |-> Cardinality(Ahead(d))]
    OBVIOUS
  <1>9. ASSUME NEW d \in H
        PROVE  /\ IsFiniteSet(Ahead(d)) /\ Cardinality(Ahead(d)) \in Nat
               /\ Cardinality(Ahead(d)) < h
    <2>1. Ahead(d) \subseteq H \ {d}
      BY <1>7
    <2>2. IsFiniteSet(H \ {d}) /\ Cardinality(H \ {d}) = h - 1
      BY <1>2, <1>3, FS_RemoveElement
    <2> HIDE DEF Ahead
    <2>3. IsFiniteSet(Ahead(d)) /\ Cardinality(Ahead(d)) <= h - 1
      BY <2>1, <2>2, FS_Subset
    <2>4. Cardinality(Ahead(d)) \in Nat
      BY <2>3, FS_CardinalityType
    <2> QED BY <2>3, <2>4
  <1>10. ASSUME NEW d \in H, NEW e \in H, Before(s, d, e)
         PROVE  r[d] < r[e]
    <2>1. Ahead(d) \cup {d} \subseteq Ahead(e) /\ d \notin Ahead(d)
      BY <1>6, <1>7, <1>10
    <2> HIDE DEF Ahead
    <2>2. Cardinality(Ahead(d) \cup {d}) = Cardinality(Ahead(d)) + 1
      BY <1>9, <2>1, FS_AddElement
    <2>3. Cardinality(Ahead(d) \cup {d}) <= Cardinality(Ahead(e))
      BY <1>9, <2>1, FS_Subset
    <2>4. r[d] = Cardinality(Ahead(d)) /\ r[e] = Cardinality(Ahead(e))
      BY <1>8
    <2>5. Cardinality(Ahead(d)) \in Nat /\ Cardinality(Ahead(e)) \in Nat
      BY <1>9
    <2> QED BY <2>2, <2>3, <2>4, <2>5
  <1>11. r \in [H -> 0..h - 1]
    <2> SUFFICES ASSUME NEW d \in H PROVE r[d] \in 0..h - 1
      BY <1>8
    <2> HIDE DEF Ahead
    <2>1. r[d] = Cardinality(Ahead(d))
      BY <1>8
    <2>2. r[d] \in Nat /\ r[d] < h
      BY <1>9, <2>1
    <2> QED BY <2>2
  <1>12. \A d, e \in H : r[d] = r[e] => d = e
    <2> SUFFICES ASSUME NEW d \in H, NEW e \in H, r[d] = r[e], d # e PROVE FALSE
      OBVIOUS
    <2>1. r[d] \in 0..h - 1 /\ r[e] \in 0..h - 1
      BY <1>11
    <2>2. r[d] < r[e] \/ r[e] < r[d]
      BY <1>5, <1>10
    <2> QED BY <2>1, <2>2
  <1>13. \A k \in 0..h - 1 : \E d \in H : r[d] = k
    <2>1. r \in Injection(H, 0..h - 1)
      BY <1>11, <1>12 DEF Injection, IsInjective
    <2>2. IsFiniteSet(0..h - 1) /\ Cardinality(0..h - 1) = h
      BY FS_Interval
    <2>3. r \in Surjection(H, 0..h - 1)
      BY <1>3, <2>1, <2>2, FS_Injection
    <2> QED BY <2>3 DEF Surjection
  <1>14. PICK m \in Nat : m = IF h < n THEN h ELSE n
    OBVIOUS
  <1>15. m <= h
    BY <1>14
  <1>16. PICK best : best = [i \in 1..m |-> CHOOSE d \in H : Cardinality({e \in H : Before(s, e, d)}) = i - 1]
    OBVIOUS
  <1>17. best = Ranking(s, n)
    <2>1. DOMAIN s = 1..l
      OBVIOUS
    <2> QED BY <1>3, <1>14, <1>16, <2>1 DEF Ranking, H
  <1>18. ASSUME NEW i \in 1..m PROVE best[i] \in H /\ r[best[i]] = i - 1
    <2>1. i - 1 \in 0..h - 1
      BY <1>15
    <2>2. PICK d \in H : r[d] = i - 1
      BY <1>13, <2>1
    <2>3. Cardinality({e \in H : Before(s, e, d)}) = i - 1
      BY <1>8, <2>2
    <2>4. best[i] = CHOOSE x \in H : Cardinality({e \in H : Before(s, e, x)}) = i - 1
      BY <1>16
    <2>5. best[i] \in H /\ Cardinality({e \in H : Before(s, e, best[i])}) = i - 1
      BY <2>3, <2>4
    <2> QED BY <1>8, <2>5
  <1>19. best \in [1..m -> H]
    BY <1>16, <1>18
  <1>20. ASSUME NEW i \in 1..m, NEW d \in H, r[d] > i - 1 PROVE best[i] # d /\ Before(s, best[i], d)
    <2>1. best[i] \in H /\ r[best[i]] = i - 1 /\ r[d] \in 0..h - 1
      BY <1>11, <1>18
    <2>2. best[i] # d
      BY <1>20, <2>1
    <2>3. ASSUME Before(s, d, best[i]) PROVE FALSE
      <3>1. r[d] < i - 1
        BY <1>10, <2>1, <2>3
      <3> QED BY <1>20, <2>1, <3>1
    <2> QED BY <1>5, <2>1, <2>2, <2>3
  <1>21. ASSUME NEW i \in 1..m, NEW j \in 1..m, i < j
         PROVE  best[i] # best[j] /\ Before(s, best[i], best[j])
    <2>1. best[j] \in H /\ r[best[j]] = j - 1 /\ j - 1 > i - 1
      BY <1>18, <1>21
    <2> QED BY <1>20, <2>1
  <1>22. ASSUME NEW d \in H, \A i \in 1..m : best[i] # d, NEW i \in 1..m
         PROVE  Before(s, best[i], d)
    <2>1. r[d] \in 0..h - 1
      BY <1>11
    <2>2. r[d] >= m
      <3> SUFFICES ASSUME r[d] < m PROVE FALSE
        BY <2>1
      <3>1. r[d] + 1 \in 1..m /\ (r[d] + 1) - 1 = r[d]
        BY <2>1
      <3>2. best[r[d] + 1] \in H /\ r[best[r[d] + 1]] = r[d]
        BY <1>18, <3>1
      <3> QED BY <1>12, <1>22, <3>1, <3>2
    <2>3. r[d] > i - 1
      BY <2>1, <2>2
    <2> QED BY <1>20, <2>3
  <1>23. FirstOf(best, m, H, s)
    BY <1>19, <1>21, <1>22 DEF FirstOf
  <1> QED BY <1>3, <1>14, <1>17, <1>23 DEF H

\* a has m of H, none twice, the worthier first, and none that is left out above it.
Tops(a, m, H) ==
    /\ a \in [1..m -> H] /\ OneToOne(a, m)
    /\ \A x, y \in 1..m : x < y => Worth(a[x]) >= Worth(a[y])
    /\ \A d \in H : (\A x \in 1..m : a[x] # d) => \A x \in 1..m : Worth(d) <= Worth(a[x])

\* Of two such, neither is worth more in any place: there are too few places before it
\* for the better ones.
LEMMA TopsAgree ==
    ASSUME NEW m \in Nat, NEW H, \A d \in H : Worth(d) \in Int, NEW a, NEW b,
           Tops(a, m, H), Tops(b, m, H), NEW i \in 1..m
    PROVE  Worth(a[i]) <= Worth(b[i])
  <1>1. /\ a \in [1..m -> H] /\ b \in [1..m -> H]
        /\ \A x, y \in 1..m : a[x] = a[y] => x = y
        /\ \A x, y \in 1..m : x < y => Worth(a[x]) >= Worth(a[y])
        /\ \A x, y \in 1..m : x < y => Worth(b[x]) >= Worth(b[y])
        /\ \A d \in H : (\A x \in 1..m : b[x] # d) => \A x \in 1..m : Worth(d) <= Worth(b[x])
    BY DEF Tops, OneToOne
  <1>2. \A x \in 1..m : Worth(a[x]) \in Int /\ Worth(b[x]) \in Int
    BY <1>1
  <1> SUFFICES ASSUME Worth(a[i]) > Worth(b[i]) PROVE FALSE
    BY <1>2
  <1>3. PICK j \in 1..i : \A x \in 1..i - 1 : b[x] # a[j]
    <2> SUFFICES ASSUME \A j \in 1..i : \E x \in 1..i - 1 : b[x] = a[j] PROVE FALSE
      OBVIOUS
    <2>1. PICK f : f = [j \in 1..i |-> CHOOSE x \in 1..i - 1 : b[x] = a[j]]
      OBVIOUS
    <2>2. \A j \in 1..i : f[j] \in 1..i - 1 /\ b[f[j]] = a[j]
      BY <2>1
    <2>3. f \in [1..i -> 1..i - 1]
      BY <2>1, <2>2
    <2>4. /\ IsFiniteSet(1..i) /\ Cardinality(1..i) = i
          /\ IsFiniteSet(1..i - 1) /\ Cardinality(1..i - 1) = i - 1
      <3>1. PICK k \in Nat : k = i - 1
        OBVIOUS
      <3>2. IsFiniteSet(1..i) /\ Cardinality(1..i) = i
        <4>1. i \in Int /\ 1 \in Int
          OBVIOUS
        <4>2. IsFiniteSet(1..i) /\ Cardinality(1..i) = IF 1 > i THEN 0 ELSE i - 1 + 1
          BY <4>1, FS_Interval, Zenon
        <4>3. (IF 1 > i THEN 0 ELSE i - 1 + 1) = i
          OBVIOUS
        <4> QED BY <4>2, <4>3
      <3>3. IsFiniteSet(1..k) /\ Cardinality(1..k) = k
        <4>1. k \in Int /\ 1 \in Int
          OBVIOUS
        <4>2. IsFiniteSet(1..k) /\ Cardinality(1..k) = IF 1 > k THEN 0 ELSE k - 1 + 1
          BY <4>1, FS_Interval, Zenon
        <4>3. (IF 1 > k THEN 0 ELSE k - 1 + 1) = k
          OBVIOUS
        <4> QED BY <4>2, <4>3
      <3> QED BY <3>1, <3>2, <3>3
    <2>5. PICK x, y \in 1..i : x # y /\ f[x] = f[y]
      <3>1. PICK S, T : S = 1..i /\ T = 1..i - 1
        OBVIOUS
      <3>2. IsFiniteSet(S) /\ IsFiniteSet(T) /\ Cardinality(T) < Cardinality(S) /\ f \in [S -> T]
        <4>1. /\ IsFiniteSet(S) /\ Cardinality(S) = i
              /\ IsFiniteSet(T) /\ Cardinality(T) = i - 1
          BY <2>4, <3>1
        <4>2. f \in [S -> T]
          BY <2>3, <3>1, Zenon
        <4>3. i - 1 < i
          OBVIOUS
        <4> QED BY <4>1, <4>2, <4>3
      <3>3. \E x, y \in S : x # y /\ f[x] = f[y]
        BY <3>2, FS_PigeonHole
      <3> QED BY <3>1, <3>3
    <2>6. a[x] = a[y] /\ x \in 1..m /\ y \in 1..m
      BY <2>2, <2>5
    <2> QED BY <1>1, <2>5, <2>6
  <1>4. j \in 1..m /\ Worth(a[j]) >= Worth(a[i]) /\ a[j] \in H
    <2>1. j \in 1..m /\ (j = i \/ j < i)
      OBVIOUS
    <2> QED BY <1>1, <1>2, <2>1
  <1>5. Worth(a[j]) > Worth(b[i])
    BY <1>2, <1>4
  <1>6. CASE \A x \in 1..m : b[x] # a[j]
    <2>1. Worth(a[j]) <= Worth(b[i])
      BY <1>1, <1>4, <1>6
    <2> QED BY <1>2, <1>4, <1>5, <2>1
  <1>7. CASE \E x \in 1..m : b[x] = a[j]
    <2>1. PICK x \in 1..m : b[x] = a[j]
      BY <1>7
    <2>2. x = i \/ i < x
      BY <1>3, <2>1
    <2>3. Worth(b[i]) >= Worth(a[j])
      BY <1>1, <1>2, <2>1, <2>2
    <2> QED BY <1>2, <1>4, <1>5, <2>3
  <1> QED BY <1>6, <1>7

-----------------------------------------------------------------------------
(* What is kept *)

\* The documents up to k that match.
Matching(k) == {d \in 1..k : scores[d] > 0}

\* What BestAreFound says of f, kept after k documents for a caller who asked for l.
BestAre(f, k, l) ==
    LET hits == {d \in 1..k : scores[d] > 0}
        kept == {f[i] : i \in DOMAIN f}
    IN  /\ kept \subseteq hits
        /\ Cardinality(kept) = Len(f)
        /\ Len(f) < l => kept = hits
        /\ \A d \in hits \ kept, e \in kept : AsFloat[scores[d]] <= AsFloat[scores[e]]

\* The same, place by place.
Chosen(f, k, l) ==
    /\ f \in [1..Len(f) -> Matching(k)]
    /\ OneToOne(f, Len(f))
    /\ Len(f) < l => \A d \in Matching(k) : \E i \in 1..Len(f) : f[i] = d
    /\ \A d \in Matching(k) :
        (\A i \in 1..Len(f) : f[i] # d) => \A i \in 1..Len(f) : Worth(d) <= Worth(f[i])

\* As many documents are kept as there are places if and only if none is kept twice.
LEMMA KeptOnce ==
    ASSUME NEW f, NEW n \in Nat, f = [i \in 1..n |-> f[i]]
    PROVE  Cardinality({f[i] : i \in 1..n}) = n <=> OneToOne(f, n)
  <1> DEFINE kept == {f[i] : i \in 1..n}
  <1>1. \A i \in 1..n : f[i] \in kept
    OBVIOUS
  <1>2. \A e \in kept : \E i \in 1..n : f[i] = e
    OBVIOUS
  <1> HIDE DEF kept
  <1>3. PICK S : S = 1..n
    OBVIOUS
  <1>4. f \in [S -> kept]
    BY <1>1, <1>3
  <1>5. f \in Surjection(S, kept)
    BY <1>2, <1>3, <1>4 DEF Surjection
  <1>6. IsFiniteSet(S) /\ Cardinality(S) = n
    <2>1. IsFiniteSet(1..n) /\ Cardinality(1..n) = n
      BY FS_Interval
    <2> QED BY <1>3, <2>1
  <1>7. Cardinality(kept) = n <=> f \in Injection(S, kept)
    BY <1>5, <1>6, FS_Surjection
  <1>8. f \in Injection(S, kept) <=> OneToOne(f, n)
    BY <1>3, <1>4 DEF Injection, IsInjective, OneToOne
  <1> QED BY <1>7, <1>8 DEF kept

\* The two ways to say it.
LEMMA BestIsChosen ==
    ASSUME NEW k \in Nat, NEW l \in Nat, NEW f \in Seq(1..k)
    PROVE  BestAre(f, k, l) <=> Chosen(f, k, l)
  <1>1. PICK n \in Nat : n = Len(f)
    OBVIOUS
  <1>2. DOMAIN f = 1..n /\ f \in [1..n -> 1..k] /\ f = [i \in 1..n |-> f[i]]
    BY <1>1
  <1> DEFINE hits == Matching(k)
             kept == {f[i] : i \in 1..n}
  <1>3. Cardinality(kept) = n <=> OneToOne(f, n)
    BY <1>2, KeptOnce
  <1>4. kept \subseteq hits <=> f \in [1..n -> hits]
    <2> HIDE DEF hits
    <2>1. kept \subseteq hits <=> \A i \in 1..n : f[i] \in hits
      OBVIOUS
    <2>2. f \in [1..n -> hits] <=> \A i \in 1..n : f[i] \in hits
      BY <1>2
    <2> QED BY <2>1, <2>2
  <1>5. \A d : d \in kept <=> \E i \in 1..n : f[i] = d
    OBVIOUS
  <1>6. \A d : d \notin kept <=> \A i \in 1..n : f[i] # d
    BY <1>5
  <1>7. BestAre(f, k, l)
        <=> /\ kept \subseteq hits
            /\ Cardinality(kept) = n
            /\ n < l => kept = hits
            /\ \A d \in hits \ kept, e \in kept : Worth(d) <= Worth(e)
    BY <1>1, <1>2 DEF BestAre, Matching, Worth
  <1> HIDE DEF hits, kept
  <1>8. ASSUME kept \subseteq hits
        PROVE  kept = hits <=> \A d \in hits : \E i \in 1..n : f[i] = d
    BY <1>5, <1>8
  <1>9. (\A d \in hits \ kept, e \in kept : Worth(d) <= Worth(e))
        <=> \A d \in hits : (\A i \in 1..n : f[i] # d) => \A i \in 1..n : Worth(d) <= Worth(f[i])
    <2>1. ASSUME \A d \in hits \ kept, e \in kept : Worth(d) <= Worth(e),
                 NEW d \in hits, \A i \in 1..n : f[i] # d, NEW i \in 1..n
          PROVE  Worth(d) <= Worth(f[i])
      <3>1. d \notin kept /\ f[i] \in kept
        BY <1>5, <1>6, <2>1
      <3> QED BY <2>1, <3>1
    <2>2. ASSUME \A d \in hits : (\A i \in 1..n : f[i] # d) => \A i \in 1..n : Worth(d) <= Worth(f[i]),
                 NEW d \in hits \ kept, NEW e \in kept
          PROVE  Worth(d) <= Worth(e)
      <3>1. PICK i \in 1..n : f[i] = e
        BY <1>5
      <3>2. \A j \in 1..n : f[j] # d
        BY <1>6
      <3> QED BY <2>2, <3>1, <3>2
    <2> QED BY <2>1, <2>2
  <1>10. Chosen(f, k, l)
         <=> /\ f \in [1..n -> hits]
             /\ OneToOne(f, n)
             /\ n < l => \A d \in hits : \E i \in 1..n : f[i] = d
             /\ \A d \in hits : (\A i \in 1..n : f[i] # d) => \A i \in 1..n : Worth(d) <= Worth(f[i])
    BY <1>1 DEF Chosen, hits
  <1> QED BY <1>3, <1>4, <1>7, <1>8, <1>9, <1>10

\* The first of the places up to n with the least value.
Least(v, i, n) == \A k \in 1..n : v[i] < v[k] \/ (v[i] = v[k] /\ i <= k)

\* There is one.
LEMMA LeastPlace ==
    ASSUME NEW n \in Nat, n # 0, NEW v \in [1..n -> Int]
    PROVE  \E i \in 1..n : Least(v, i, n)
  <1> DEFINE G == {k \in Nat : k = 0 \/ \E i \in 1..k : Least(v, i, k)}
  <1>1. 0 \in G
    OBVIOUS
  <1>2. ASSUME NEW k \in 0..n, k # n, k \in G PROVE k + 1 \in G
    <2>1. /\ k + 1 \in 1..n /\ k + 1 \in Nat /\ k + 1 \in 1..k + 1
          /\ \A j \in 1..k + 1 : j = k + 1 \/ j \in 1..k
          /\ \A j \in 1..k : j \in 1..n /\ j \in 1..k + 1 /\ j < k + 1
      BY <1>2
    <2>2. \A j \in 1..n : v[j] \in Int
      OBVIOUS
    <2>3. CASE k = 0
      <3>1. Least(v, 1, 1)
        BY <2>1, <2>2, <2>3 DEF Least
      <3> QED BY <2>3, <3>1
    <2>4. CASE k # 0
      <3>1. PICK i \in 1..k : Least(v, i, k)
        BY <1>2, <2>4
      <3>2. i \in 1..n /\ i \in 1..k + 1 /\ i < k + 1
        BY <2>1
      <3>3. CASE v[k + 1] < v[i]
        <4>1. ASSUME NEW j \in 1..k PROVE v[k + 1] < v[j]
          BY <2>1, <2>2, <3>1, <3>2, <3>3 DEF Least
        <4>2. Least(v, k + 1, k + 1)
          <5> SUFFICES ASSUME NEW j \in 1..k + 1
                       PROVE  v[k + 1] < v[j] \/ (v[k + 1] = v[j] /\ k + 1 <= j)
            BY DEF Least
          <5> QED BY <2>1, <4>1
        <4> QED BY <2>1, <4>2
      <3>4. CASE ~(v[k + 1] < v[i])
        <4>1. Least(v, i, k + 1)
          <5> SUFFICES ASSUME NEW j \in 1..k + 1
                       PROVE  v[i] < v[j] \/ (v[i] = v[j] /\ i <= j)
            BY DEF Least
          <5>1. CASE j = k + 1
            BY <2>1, <2>2, <3>2, <3>4, <5>1
          <5>2. CASE j \in 1..k
            BY <3>1, <5>2 DEF Least
          <5> QED BY <2>1, <5>1, <5>2
        <4> QED BY <2>1, <3>2, <4>1
      <3> QED BY <3>3, <3>4
    <2> QED BY <2>3, <2>4
  <1> HIDE DEF G
  <1>3. \A k \in 0..n : k \in G
    BY <1>1, <1>2, CountingUp
  <1>4. n \in G
    BY <1>3
  <1> QED BY <1>4 DEF G

-----------------------------------------------------------------------------
(* The search keeps the best *)

\* What the next document, d, makes of what is kept.
Considers(d, g) ==
    \/ scores[d] = 0 /\ g = found
    \/ scores[d] > 0 /\ Len(found) < limit /\ g = Append(found, d)
    \/ /\ scores[d] > 0 /\ Len(found) = limit
       /\ g = IF scores[d] > Kept(Weakest) THEN [found EXCEPT ![Weakest] = d] ELSE found

\* The scores of documents that match are kept as whole numbers.
LEMMA WorthIs ==
    ASSUME SearchOK, NEW k \in 0..DocCount
    PROVE  /\ \A d \in Matching(k) : d \in 1..k /\ d \in SearchDocs /\ scores[d] \in 1..MaxScore
           /\ \A d \in Matching(k) : Worth(d) \in Int
  <1>1. DocCount \in Nat /\ MaxScore \in Nat /\ AsFloat \in [1..MaxScore -> Int]
    BY SearchAssumption
  <1>2. scores \in [1..DocCount -> 0..MaxScore]
    BY DEF SearchOK, SearchDocs
  <1>3. ASSUME NEW d \in Matching(k)
        PROVE  d \in 1..k /\ d \in SearchDocs /\ scores[d] \in 1..MaxScore
    <2>1. d \in 1..k /\ scores[d] > 0
      BY DEF Matching
    <2>2. d \in 1..DocCount
      BY <1>1, <2>1
    <2>3. scores[d] \in 0..MaxScore
      BY <1>2, <2>2
    <2>4. scores[d] \in 1..MaxScore
      BY <1>1, <2>1, <2>3
    <2> QED BY <2>1, <2>2, <2>4 DEF SearchDocs
  <1> QED BY <1>1, <1>3 DEF Worth

\* When all places are taken, one of them has the least score.
LEMMA WeakestIs ==
    ASSUME SearchOK, Chosen(found, seen, limit), Len(found) = limit
    PROVE  /\ Weakest \in 1..limit
           /\ \A k \in 1..limit : Worth(found[Weakest]) <= Worth(found[k])
  <1>1. limit \in Nat /\ limit # 0
    BY SearchAssumption DEF SearchOK
  <1>2. \A i \in 1..limit : Worth(found[i]) \in Int
    <2>1. seen \in 0..DocCount
      BY DEF SearchOK
    <2>2. \A i \in 1..limit : found[i] \in Matching(seen)
      BY DEF Chosen
    <2> QED BY <2>1, <2>2, WorthIs
  <1>3. PICK v : v = [i \in 1..limit |-> Worth(found[i])]
    OBVIOUS
  <1>4. v \in [1..limit -> Int]
    BY <1>2, <1>3
  <1>5. PICK i \in 1..limit : Least(v, i, limit)
    BY <1>1, <1>4, LeastPlace
  <1>6. Weakest = CHOOSE x \in 1..limit :
                      \A k \in 1..limit : v[x] < v[k] \/ (v[x] = v[k] /\ x <= k)
    BY <1>3 DEF Weakest, Kept, Worth
  <1>7. Weakest \in 1..limit /\ \A k \in 1..limit : v[Weakest] < v[k] \/ v[Weakest] = v[k]
    BY <1>5, <1>6 DEF Least
  <1>8. \A x \in 1..limit : v[x] = Worth(found[x]) /\ v[x] \in Int
    BY <1>3, <1>4
  <1>9. \A x, y \in Int : x < y \/ x = y => x <= y
    OBVIOUS
  <1> QED BY <1>7, <1>8, <1>9

\* None of the documents up to k that f leaves out is worth more than one of its n.
NoneAbove(f, n, k) ==
    \A d \in Matching(k) : (\A i \in 1..n : f[i] # d) => \A i \in 1..n : Worth(d) <= Worth(f[i])

\* One document more, and what is kept is still the best of those gone through.
LEMMA ConsideredIs ==
    ASSUME SearchOK, Chosen(found, seen, limit), NEW d \in SearchDocs, d = seen + 1,
           NEW g, Considers(d, g)
    PROVE  g \in Seq(1..d) /\ Len(g) <= limit /\ Chosen(g, d, limit)
  <1>1. PICK m \in Nat : m = Len(found)
    BY DEF SearchOK
  <1>2. /\ DocCount \in Nat /\ limit \in Nat /\ limit # 0 /\ seen \in 0..DocCount /\ m <= limit
        /\ d \in 0..DocCount /\ d \in 1..DocCount /\ d \in 1..d /\ d \notin 1..seen
        /\ \A x \in 1..d : x = d \/ x \in 1..seen
        /\ \A x \in 1..seen : x \in 1..d
    <2>1. DocCount \in Nat /\ SearchLimits \subseteq Nat \ {0}
      BY SearchAssumption
    <2>2. limit \in SearchLimits /\ seen \in 0..DocCount /\ m <= limit /\ d \in 1..DocCount
      BY <1>1 DEF SearchOK, SearchDocs
    <2> QED BY <2>1, <2>2
  <1>3. /\ found \in [1..m -> Matching(seen)]
        /\ OneToOne(found, m)
        /\ m < limit => \A x \in Matching(seen) : \E i \in 1..m : found[i] = x
        /\ \A x \in Matching(seen) :
              (\A i \in 1..m : found[i] # x) => \A i \in 1..m : Worth(x) <= Worth(found[i])
    BY <1>1 DEF Chosen
  <1>4. \A x \in Matching(seen) : x \in Matching(d) /\ x # d
    BY <1>2 DEF Matching
  <1>5. \A x \in Matching(d) : x = d \/ x \in Matching(seen)
    BY <1>2 DEF Matching
  <1>6. scores[d] > 0 <=> d \in Matching(d)
    BY <1>2 DEF Matching
  <1>7. \A x \in Matching(d) : x \in 1..d /\ scores[x] \in 1..MaxScore /\ Worth(x) \in Int
    BY <1>2, WorthIs
  <1>8. ASSUME NEW n \in Nat, n <= limit, g \in [1..n -> Matching(d)], OneToOne(g, n),
               n < limit => \A x \in Matching(d) : \E i \in 1..n : g[i] = x,
               NoneAbove(g, n, d)
        PROVE  g \in Seq(1..d) /\ Len(g) <= limit /\ Chosen(g, d, limit)
    <2>1. Len(g) = n
      BY <1>8, LengthIs
    <2>2. g \in [1..n -> 1..d]
      BY <1>7, <1>8
    <2>3. g \in Seq(1..d)
      BY <2>2, LengthIs
    <2> QED BY <1>8, <2>1, <2>3 DEF Chosen, NoneAbove
  <1>9. CASE scores[d] = 0 /\ g = found
    <2>1. \A x \in Matching(d) : x \in Matching(seen)
      BY <1>5, <1>6, <1>9
    <2>2. g \in [1..m -> Matching(d)]
      BY <1>3, <1>4, <1>9
    <2>3. NoneAbove(g, m, d)
      BY <1>3, <1>9, <2>1 DEF NoneAbove
    <2> QED BY <1>2, <1>3, <1>8, <1>9, <2>1, <2>2, <2>3
  <1>10. CASE scores[d] > 0 /\ m < limit /\ g = Append(found, d)
    <2>1. PICK n \in Nat : n = m + 1
      OBVIOUS
    <2>2. /\ n <= limit /\ n \in 1..n
          /\ \A i \in 1..n : i = n \/ i \in 1..m
          /\ \A i \in 1..m : i \in 1..n /\ i # n
      BY <1>2, <1>10, <2>1
    <2>3. g = [i \in 1..n |-> IF i = n THEN d ELSE found[i]]
      <3>1. found \in Seq(1..seen) /\ Len(found) = m
        BY <1>1 DEF SearchOK
      <3> QED BY <1>10, <2>1, <3>1
    <2>4. g[n] = d /\ \A i \in 1..m : g[i] = found[i]
      BY <2>2, <2>3
    <2>5. d \in Matching(d)
      BY <1>6, <1>10
    <2>6. \A i \in 1..n : g[i] \in Matching(d)
      BY <1>3, <1>4, <2>2, <2>4, <2>5
    <2>7. g \in [1..n -> Matching(d)]
      BY <2>3, <2>6
    <2>8. OneToOne(g, n)
      <3> SUFFICES ASSUME NEW i \in 1..n, NEW j \in 1..n, g[i] = g[j] PROVE i = j
        BY DEF OneToOne
      <3>1. \A x \in 1..m : found[x] # d
        BY <1>3, <1>4
      <3>2. CASE i = n \/ j = n
        BY <2>2, <2>4, <3>1, <3>2
      <3>3. CASE i \in 1..m /\ j \in 1..m
        BY <1>3, <2>4, <3>3 DEF OneToOne
      <3> QED BY <2>2, <3>2, <3>3
    <2>9. ASSUME NEW x \in Matching(d) PROVE \E i \in 1..n : g[i] = x
      <3>1. CASE x = d
        BY <2>2, <2>4, <3>1
      <3>2. CASE x \in Matching(seen)
        <4>1. PICK i \in 1..m : found[i] = x
          BY <1>3, <1>10, <3>2
        <4> QED BY <2>2, <2>4, <4>1
      <3> QED BY <1>5, <3>1, <3>2
    <2>10. NoneAbove(g, n, d)
      BY <2>9 DEF NoneAbove
    <2> QED BY <1>8, <2>2, <2>7, <2>8, <2>9, <2>10
  <1>11. CASE scores[d] > 0 /\ m = limit
              /\ g = IF scores[d] > Kept(Weakest) THEN [found EXCEPT ![Weakest] = d] ELSE found
    <2>1. d \in Matching(d) /\ Worth(d) \in Int /\ scores[d] \in 1..MaxScore
      BY <1>6, <1>7, <1>11
    <2>2. PICK w \in 1..m : w = Weakest /\ \A i \in 1..m : Worth(found[w]) <= Worth(found[i])
      BY <1>1, <1>11, WeakestIs
    <2>3. PICK t \in 1..MaxScore : t = scores[found[w]]
      BY <1>3, <1>4, <1>7
    <2>4. Kept(Weakest) = AsFloat[t] /\ Worth(found[w]) = AsFloat[t] /\ Worth(d) = AsFloat[scores[d]]
      BY <2>2, <2>3 DEF Kept, Worth
    <2>5. \A i \in 1..m : Worth(found[i]) \in Int
      BY <1>3, <1>4, <1>7
    <2>6. IF scores[d] > AsFloat[t] THEN Worth(d) >= AsFloat[t] ELSE Worth(d) <= AsFloat[t]
      BY <2>1, <2>4, SearchAssumption
    <2>7. CASE scores[d] > AsFloat[t]
      <3>1. g = [found EXCEPT ![w] = d]
        BY <1>11, <2>2, <2>4, <2>7
      <3>2. Worth(d) >= Worth(found[w])
        BY <2>4, <2>6, <2>7
      <3>3. g \in [1..m -> Matching(d)] /\ g[w] = d /\ \A i \in 1..m : i # w => g[i] = found[i]
        BY <1>3, <1>4, <2>1, <3>1
      <3>4. OneToOne(g, m)
        BY <1>3, <1>4, <3>3 DEF OneToOne
      <3>5. ASSUME NEW x \in Matching(d), \A i \in 1..m : g[i] # x, NEW i \in 1..m
            PROVE  Worth(x) <= Worth(g[i])
        <4>1. x # d /\ x \in Matching(seen)
          BY <1>5, <3>3, <3>5
        <4>2. Worth(x) <= Worth(found[w]) /\ Worth(x) <= Worth(found[i])
          <5>1. CASE x = found[w]
            BY <2>2, <2>5, <5>1
          <5>2. CASE x # found[w]
            <6>1. \A j \in 1..m : found[j] # x
              BY <3>3, <3>5, <5>2
            <6> QED BY <1>3, <4>1, <6>1
          <5> QED BY <5>1, <5>2
        <4>3. Worth(x) \in Int /\ Worth(found[w]) \in Int
          BY <1>7, <2>5
        <4>4. Worth(x) <= Worth(d)
          BY <2>1, <3>2, <4>2, <4>3
        <4> QED BY <3>3, <4>2, <4>4
      <3>6. NoneAbove(g, m, d)
        BY <3>5 DEF NoneAbove
      <3>7. ~(m < limit)
        BY <1>2, <1>11
      <3> QED BY <1>2, <1>8, <3>3, <3>4, <3>6, <3>7
    <2>8. CASE ~(scores[d] > AsFloat[t])
      <3>1. g = found
        BY <1>11, <2>4, <2>8
      <3>2. Worth(d) <= Worth(found[w]) /\ Worth(found[w]) \in Int
        BY <2>4, <2>5, <2>6, <2>8
      <3>3. g \in [1..m -> Matching(d)]
        BY <1>3, <1>4, <3>1
      <3>4. ASSUME NEW x \in Matching(d), \A i \in 1..m : g[i] # x, NEW i \in 1..m
            PROVE  Worth(x) <= Worth(g[i])
        <4>1. CASE x = d
          BY <2>1, <2>2, <2>5, <3>1, <3>2, <4>1
        <4>2. CASE x \in Matching(seen)
          BY <1>3, <3>1, <3>4, <4>2
        <4> QED BY <1>5, <4>1, <4>2
      <3>5. NoneAbove(g, m, d)
        BY <3>4 DEF NoneAbove
      <3>6. ~(m < limit)
        BY <1>2, <1>11
      <3> QED BY <1>2, <1>3, <1>8, <3>1, <3>3, <3>5, <3>6
    <2> QED BY <2>7, <2>8
  <1> QED BY <1>1, <1>9, <1>10, <1>11 DEF Considers

\* a and b are worth the same in each of n places.
EquallyWorth(a, b, n) == \A i \in 1..n : Worth(a[i]) = Worth(b[i])

\* Sorted in the end, the documents kept are worth what those are that the other search
\* puts first, place by place.
LEMMA SettledIs ==
    ASSUME SearchOK, Chosen(found, DocCount, limit), NEW g, g = InOrder(found)
    PROVE  LET n == Len(found)
               best == Ranking(scores, limit)
           IN  /\ g \in Seq(1..DocCount) /\ Len(g) = n /\ n <= limit /\ Chosen(g, DocCount, limit)
               /\ DOMAIN best = 1..n /\ EquallyWorth(g, best, n)
  <1> DEFINE H == Matching(DocCount)
  <1>1. PICK m \in Nat : m = Len(found)
    BY DEF SearchOK
  <1>2. /\ DocCount \in Nat /\ MaxScore \in Nat /\ limit \in Nat /\ m <= limit
        /\ scores \in [1..DocCount -> Nat] /\ DocCount \in 0..DocCount
    <2>1. DocCount \in Nat /\ MaxScore \in Nat /\ SearchLimits \subseteq Nat \ {0}
      BY SearchAssumption
    <2>2. limit \in SearchLimits /\ m <= limit /\ scores \in [1..DocCount -> 0..MaxScore]
      BY <1>1 DEF SearchOK, SearchDocs
    <2>3. \A x \in 0..MaxScore : x \in Nat
      BY <2>1
    <2> QED BY <2>1, <2>2, <2>3
  <1>3. \A d \in H : d \in 1..DocCount /\ scores[d] \in 1..MaxScore /\ Worth(d) \in Int
    BY <1>2, WorthIs
  <1>4. /\ found \in [1..m -> H] /\ OneToOne(found, m)
        /\ m < limit => \A d \in H : \E i \in 1..m : found[i] = d
        /\ \A d \in H : (\A i \in 1..m : found[i] # d) => \A i \in 1..m : Worth(d) <= Worth(found[i])
    BY <1>1 DEF Chosen
  <1>5. IsFiniteSet(H)
    <2>1. IsFiniteSet(1..DocCount)
      BY <1>2, FS_Interval
    <2>2. H \subseteq 1..DocCount
      BY <1>3
    <2> HIDE DEF H
    <2> QED BY <2>1, <2>2, FS_Subset
  <1> HIDE DEF H
  <1>6. /\ g \in [1..m -> H] /\ Shuffled(found, g, m, 1) /\ OneToOne(g, m)
        /\ \A x, y \in 1..m : x < y => Worth(g[x]) >= Worth(g[y])
    BY <1>3, <1>4, InOrderIs
  <1>7. /\ \A y \in 1..m : \E z \in 1..m : g[y] = found[z]
        /\ \A z \in 1..m : \E y \in 1..m : g[y] = found[z]
    BY <1>6 DEF Shuffled
  <1>8. ASSUME NEW d \in H, \A x \in 1..m : g[x] # d, NEW x \in 1..m
        PROVE  Worth(d) <= Worth(g[x])
    <2>1. \A z \in 1..m : found[z] # d
      BY <1>7, <1>8
    <2> QED BY <1>4, <1>7, <2>1
  <1>9. Tops(g, m, H)
    BY <1>6, <1>8 DEF Tops
  <1>10. g \in Seq(1..DocCount) /\ Len(g) = m
    <2>1. g \in [1..m -> 1..DocCount]
      BY <1>3, <1>6
    <2> QED BY <2>1, LengthIs
  <1>11. m < limit => \A d \in H : \E i \in 1..m : g[i] = d
    <2> SUFFICES ASSUME m < limit, NEW d \in H PROVE \E i \in 1..m : g[i] = d
      OBVIOUS
    <2>1. PICK z \in 1..m : found[z] = d
      BY <1>4
    <2>2. PICK y \in 1..m : g[y] = found[z]
      BY <1>7
    <2> QED BY <2>1, <2>2
  <1>12. Chosen(g, DocCount, limit)
    BY <1>6, <1>8, <1>10, <1>11 DEF Chosen, H
  <1>13. PICK h \in Nat : h = Cardinality(H)
    BY <1>5, FS_CardinalityType
  <1>14. m = IF h < limit THEN h ELSE limit
    <2>1. PICK S : S = 1..m
      OBVIOUS
    <2>2. found \in Injection(S, H)
      BY <1>4, <2>1 DEF Injection, IsInjective, OneToOne
    <2>3. Cardinality(S) = m
      <3>1. Cardinality(1..m) = m
        BY FS_Interval
      <3> QED BY <2>1, <3>1
    <2>4. m <= h /\ (m = h <=> found \in Surjection(S, H))
      BY <1>5, <1>13, <2>2, <2>3, FS_Injection
    <2>5. ASSUME m < limit PROVE m = h
      <3>1. found \in Surjection(S, H)
        BY <1>4, <2>1, <2>5 DEF Surjection
      <3> QED BY <2>4, <3>1
    <2> QED BY <1>2, <2>4, <2>5
  <1>15. PICK best : best = Ranking(scores, limit)
    OBVIOUS
  <1>16. /\ best \in [1..m -> H]
         /\ \A i, j \in 1..m : i < j => best[i] # best[j] /\ Before(scores, best[i], best[j])
         /\ \A d \in H : (\A i \in 1..m : best[i] # d) => \A i \in 1..m : Before(scores, best[i], d)
    <2>1. LET K == {d \in 1..DocCount : scores[d] > 0}
              n == IF Cardinality(K) < limit THEN Cardinality(K) ELSE limit
          IN  FirstOf(Ranking(scores, limit), n, K, scores)
      BY <1>2, RankedIs
    <2>2. H = {d \in 1..DocCount : scores[d] > 0}
      BY DEF H, Matching
    <2>3. FirstOf(best, m, H, scores)
      BY <1>13, <1>14, <1>15, <2>1, <2>2
    <2> QED BY <2>3 DEF FirstOf
  <1>17. ASSUME NEW d \in H, NEW e \in H, Before(scores, d, e)
         PROVE  Worth(d) >= Worth(e)
    <2>1. PICK s \in 1..MaxScore, t \in 1..MaxScore : s = scores[d] /\ t = scores[e]
      BY <1>3
    <2>2. t <= s
      BY <1>2, <1>17, <2>1 DEF Before
    <2>3. AsFloat[t] <= AsFloat[s]
      BY <2>2, SearchAssumption
    <2>4. Worth(d) = AsFloat[s] /\ Worth(e) = AsFloat[t]
      BY <2>1 DEF Worth
    <2> QED BY <1>3, <2>3, <2>4
  <1>18. Tops(best, m, H)
    <2>1. OneToOne(best, m)
      <3> SUFFICES ASSUME NEW x \in 1..m, NEW y \in 1..m, best[x] = best[y], x # y PROVE FALSE
        BY DEF OneToOne
      <3>1. x < y \/ y < x
        OBVIOUS
      <3> QED BY <1>16, <3>1
    <2>2. \A x, y \in 1..m : x < y => Worth(best[x]) >= Worth(best[y])
      BY <1>16, <1>17
    <2>3. ASSUME NEW d \in H, \A x \in 1..m : best[x] # d, NEW x \in 1..m
          PROVE  Worth(d) <= Worth(best[x])
      <3>1. best[x] \in H /\ Before(scores, best[x], d)
        BY <1>16, <2>3
      <3>2. Worth(best[x]) >= Worth(d)
        BY <1>17, <3>1
      <3> QED BY <1>3, <3>1, <3>2
    <2> QED BY <1>16, <2>1, <2>2, <2>3 DEF Tops
  <1>19. EquallyWorth(g, best, m)
    <2> SUFFICES ASSUME NEW i \in 1..m PROVE Worth(g[i]) = Worth(best[i])
      BY DEF EquallyWorth
    <2>1. Worth(g[i]) \in Int /\ Worth(best[i]) \in Int
      BY <1>3, <1>6, <1>16
    <2>2. Worth(g[i]) <= Worth(best[i])
      BY <1>3, <1>9, <1>18, TopsAgree
    <2>3. Worth(best[i]) <= Worth(g[i])
      BY <1>3, <1>9, <1>18, TopsAgree
    <2> QED BY <2>1, <2>2, <2>3
  <1>20. DOMAIN best = 1..m
    BY <1>16
  <1> QED BY <1>1, <1>2, <1>10, <1>12, <1>15, <1>19, <1>20

\* The invariant holds at first.
LEMMA SearchStarts == SearchInit => SearchInv
  <1> SUFFICES ASSUME SearchInit PROVE SearchInv
    OBVIOUS
  <1>1. DocCount \in Nat /\ SearchLimits \subseteq Nat \ {0}
    BY SearchAssumption
  <1>2. /\ scores \in [SearchDocs -> 0..MaxScore] /\ limit \in SearchLimits
        /\ seen = 0 /\ found = <<>> /\ settled = FALSE
    BY DEF SearchInit
  <1>3. found \in Seq(1..seen) /\ Len(found) = 0 /\ limit \in Nat /\ 0 <= limit
    BY <1>1, <1>2
  <1>4. SearchOK
    <2>1. seen \in 0..DocCount
      BY <1>1, <1>2
    <2>2. Len(found) <= limit
      BY <1>3
    <2>3. settled \in BOOLEAN /\ ~settled
      BY <1>2
    <2> QED BY <1>2, <1>3, <2>1, <2>2, <2>3 DEF SearchOK
  <1>5. Chosen(found, 0, limit)
    <2>1. Matching(0) = {}
      BY DEF Matching
    <2>2. found \in [1..0 -> Matching(0)] /\ OneToOne(found, 0)
      BY <1>2 DEF OneToOne
    <2> QED BY <1>3, <2>1, <2>2 DEF Chosen
  <1>6. BestAre(found, 0, limit)
    <2>1. 0 \in Nat /\ found \in Seq(1..0)
      BY <1>2, <1>3
    <2> QED BY <1>3, <1>5, <2>1, BestIsChosen
  <1>7. BestAreFound
    BY <1>2, <1>6 DEF BestAre, BestAreFound
  <1> QED BY <1>4, <1>7 DEF SearchInv

\* What the invariant says of what is kept.
LEMMA InvIsChosen ==
    ASSUME SearchInv
    PROVE  SearchOK /\ Chosen(found, seen, limit)
  <1>1. SearchOK /\ BestAreFound
    BY DEF SearchInv
  <1>2. seen \in Nat /\ limit \in Nat /\ found \in Seq(1..seen)
    BY <1>1, SearchAssumption DEF SearchOK
  <1>3. BestAre(found, seen, limit)
    BY <1>1 DEF BestAreFound, BestAre
  <1> QED BY <1>1, <1>2, <1>3, BestIsChosen

\* Going through one document keeps the invariant.
LEMMA ConsiderKeeps == SearchInv /\ Consider => SearchInv'
  <1> SUFFICES ASSUME SearchInv, Consider PROVE SearchInv'
    OBVIOUS
  <1>1. SearchOK /\ Chosen(found, seen, limit)
    BY InvIsChosen
  <1>2. DocCount \in Nat /\ SearchLimits \subseteq Nat \ {0}
    BY SearchAssumption
  <1>3. PICK d, g : d = seen' /\ g = found'
    OBVIOUS
  <1>4. /\ seen < DocCount /\ d = seen + 1 /\ Considers(d, g)
        /\ scores' = scores /\ limit' = limit /\ settled' = settled
    BY <1>3 DEF Consider, Considers
  <1>5. /\ scores \in [SearchDocs -> 0..MaxScore] /\ limit \in SearchLimits /\ seen \in 0..DocCount
        /\ settled = FALSE
    BY <1>1, <1>2, <1>4 DEF SearchOK
  <1>6. d \in SearchDocs /\ d \in 0..DocCount /\ d \in Nat /\ limit \in Nat
    BY <1>2, <1>4, <1>5 DEF SearchDocs
  <1>7. g \in Seq(1..d) /\ Len(g) <= limit /\ Chosen(g, d, limit)
    BY <1>1, <1>4, <1>6, ConsideredIs
  <1>8. BestAre(g, d, limit)
    BY <1>6, <1>7, BestIsChosen
  <1>9. SearchOK'
    BY <1>3, <1>4, <1>5, <1>6, <1>7 DEF SearchOK, SearchDocs
  <1>10. BestAreFound'
    BY <1>3, <1>4, <1>5, <1>8 DEF BestAreFound, BestAre
  <1> QED BY <1>9, <1>10 DEF SearchInv

\* Sorting in the end keeps the invariant.
LEMMA SettleKeeps == SearchInv /\ Settle => SearchInv'
  <1> SUFFICES ASSUME SearchInv, Settle PROVE SearchInv'
    OBVIOUS
  <1>1. SearchOK /\ Chosen(found, seen, limit)
    BY InvIsChosen
  <1>2. DocCount \in Nat /\ SearchLimits \subseteq Nat \ {0}
    BY SearchAssumption
  <1>3. PICK g : g = found'
    OBVIOUS
  <1>4. /\ seen = DocCount /\ seen' = DocCount /\ g = InOrder(found) /\ settled' = TRUE
        /\ scores' = scores /\ limit' = limit
    BY <1>3 DEF Settle
  <1>5. scores \in [SearchDocs -> 0..MaxScore] /\ limit \in SearchLimits
    BY <1>1 DEF SearchOK
  <1>6. PICK n, best : n = Len(found) /\ best = Ranking(scores, limit)
    OBVIOUS
  <1>7. /\ g \in Seq(1..DocCount) /\ Len(g) = n /\ n <= limit /\ Chosen(g, DocCount, limit)
        /\ DOMAIN best = 1..n /\ EquallyWorth(g, best, n)
    BY <1>1, <1>4, <1>6, SettledIs
  <1>8. BestAre(g, DocCount, limit)
    BY <1>2, <1>5, <1>7, BestIsChosen
  <1>9. SearchOK'
    BY <1>2, <1>3, <1>4, <1>5, <1>7 DEF SearchOK, SearchDocs
  <1>10. DOMAIN g = 1..n
    BY <1>7
  <1>11. [i \in DOMAIN g |-> AsFloat[scores[g[i]]]] = [i \in DOMAIN best |-> AsFloat[scores[best[i]]]]
    BY <1>7, <1>10 DEF EquallyWorth, Worth
  <1>12. Ranking(scores', limit') = best
    BY <1>4, <1>6
  <1>13. BestAreFound'
    BY <1>3, <1>4, <1>8, <1>11, <1>12 DEF BestAreFound, BestAre, Kept
  <1> QED BY <1>9, <1>13 DEF SearchInv

\* kolibri_knowledge_search keeps, at every moment, the best documents it has gone
\* through, and in the end has found what sorting all that match finds, as far as the
\* floats it keeps tell their scores apart.
THEOREM SearchFindsTheBest == SearchSpec => []SearchInv
  <1>1. SearchInv /\ UNCHANGED searchVars => SearchInv'
    <2> SUFFICES ASSUME SearchInv, UNCHANGED searchVars PROVE SearchInv'
      OBVIOUS
    <2>1. scores' = scores /\ limit' = limit /\ seen' = seen /\ found' = found /\ settled' = settled
      BY DEF searchVars
    <2>2. SearchOK'
      BY <2>1 DEF SearchInv, SearchOK, SearchDocs
    <2>3. BestAreFound'
      BY <2>1 DEF SearchInv, BestAreFound, Kept
    <2> QED BY <2>2, <2>3 DEF SearchInv
  <1>2. SearchInv /\ [SearchNext]_searchVars => SearchInv'
    BY <1>1, ConsiderKeeps, SettleKeeps DEF SearchNext
  <1> QED BY <1>2, SearchStarts, PTL DEF SearchSpec

\* What is searched for is found, the best of it, and what the server has answered is in
\* its genome: the two of them together, whatever steps of theirs come in between.
THEOREM KnowledgeServed == SearchSpec /\ ServerSpec => []KnowledgeIsServed
  <1>1. SearchInv /\ ServerKeepsFaith => KnowledgeIsServed
    BY DEF SearchInv, KnowledgeIsServed
  <1> QED BY <1>1, SearchFindsTheBest, ServersKeepFaith, PTL
=============================================================================
