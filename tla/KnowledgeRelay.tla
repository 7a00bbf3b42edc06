--------------------------- MODULE KnowledgeRelay ---------------------------
(***************************************************************************)
(* apps/kolibri_knowledge_relay.c: a program run periodically that copies   *)
(* the TEACH and USER_FEEDBACK events of the knowledge server's journal to  *)
(* the journals of the nodes, and keeps in an offset file how far it got.  *)
(* Journals are the logs of module Journal: a node's journal is the list of *)
(* source indices whose events were appended to it.                        *)
(***************************************************************************)
EXTENDS Integers, Sequences, FiniteSets, Functions

CONSTANTS
    Targets,        \* the *.dat journals of targets_dir
    Kinds,          \* event types the server records
    Relayed,        \* those the relay forwards: TEACH and USER_FEEDBACK
    MaxSource,      \* bound: events the server records
    MaxFailures,    \* bound: failures of all kinds together
    Failures        \* which of AllFailures the environment may produce

AllFailures == {"crash", "refusal", "no_directory", "unsaved"}

ASSUME RelayAssumption ==
    /\ Relayed \subseteq Kinds
    /\ MaxSource \in Nat
    /\ MaxFailures \in Nat
    /\ Failures \subseteq AllFailures

\* An offset file that holds no number.
NoOffset == -1

VARIABLES
    source,       \* kinds of the events in the server's journal
    target,       \* source indices appended to each node's journal, in order
    offset,       \* the offset file: a number, or NoOffset (absent or empty)
    stage,        \* where the pass stands
    pos,          \* blocks read from the source in this pass
    startIndex,   \* start_index
    todo,         \* targets the event just read was not offered to yet
    failures,     \* history: failures so far, of each kind
    refused       \* history: the events that journals refused

relayVars == <<source, target, offset, stage, pos, startIndex, todo, failures, refused>>

\* The block at pos, whose index is pos because the source is a journal.
Index == pos

RelayInit ==
    /\ source = <<>>
    /\ target = [t \in Targets |-> <<>>]
    /\ offset = NoOffset
    /\ stage = "idle"
    /\ pos = 0
    /\ startIndex = 0
    /\ todo = {}
    /\ failures = [f \in AllFailures |-> 0]
    /\ refused = {}

\* The environment produces a failure of kind f.
Fail(f) ==
    /\ f \in Failures
    /\ FoldFunction(+, 0, failures) < MaxFailures
    /\ failures' = [failures EXCEPT ![f] = @ + 1]

\* The knowledge server appends an event, at any time.
ServerRecords(k) ==
    /\ Len(source) < MaxSource
    /\ source' = Append(source, k)
    /\ UNCHANGED <<target, offset, stage, pos, startIndex, todo, failures, refused>>

\* Mutants of StartPass: the offset is not read; its absence is not noticed.
MutStartAtZero ==
    /\ stage = "idle"
    /\ stage' = "reading"
    /\ pos' = 0
    /\ startIndex' = 0
    /\ UNCHANGED <<source, target, offset, todo, failures, refused>>

\* main: the source is opened, the offset file read; 0 if it cannot be.
StartPass ==
    /\ stage = "idle"
    /\ stage' = "reading"
    /\ pos' = 0
    /\ startIndex' = IF offset = NoOffset THEN 0 ELSE offset
    /\ UNCHANGED <<source, target, offset, todo, failures, refused>>

More == stage = "reading" /\ pos < Len(source)

\* Mutant of SkipDone: the event at the offset is passed over too.
MutSkipOneMore ==
    /\ More
    /\ Index <= startIndex
    /\ pos' = pos + 1
    /\ UNCHANGED <<source, target, offset, stage, startIndex, todo, failures, refused>>

\* A block below the offset is read and passed over.
SkipDone ==
    /\ More
    /\ Index < startIndex
    /\ pos' = pos + 1
    /\ UNCHANGED <<source, target, offset, stage, startIndex, todo, failures, refused>>

\* An event of another kind only moves the offset.
SkipKind ==
    /\ More
    /\ Index >= startIndex
    /\ source[pos + 1] \notin Relayed
    /\ startIndex' = Index + 1
    /\ pos' = pos + 1
    /\ UNCHANGED <<source, target, offset, stage, todo, failures, refused>>

\* An event to forward: the directory is opened and listed.
Broadcast ==
    /\ More
    /\ Index >= startIndex
    /\ source[pos + 1] \in Relayed
    /\ todo' = Targets
    /\ stage' = "broadcasting"
    /\ UNCHANGED <<source, target, offset, pos, startIndex, failures, refused>>

\* opendir fails: the loop is left, the offset is saved as it stands.
NoDirectory ==
    /\ Fail("no_directory")
    /\ More
    /\ Index >= startIndex
    /\ source[pos + 1] \in Relayed
    /\ stage' = "saving"
    /\ UNCHANGED <<source, target, offset, pos, startIndex, todo, refused>>

\* relay_event_to_target: kg_open, kg_append under the node's key, kg_close.
Deliver(t) ==
    /\ stage = "broadcasting"
    /\ t \in todo
    /\ target' = [target EXCEPT ![t] = Append(@, Index)]
    /\ todo' = todo \ {t}
    /\ UNCHANGED <<source, offset, stage, pos, startIndex, failures, refused>>

\* kg_open or kg_append fails: a message is printed and the pass goes on.
Refused(t) ==
    /\ Fail("refusal")
    /\ stage = "broadcasting"
    /\ t \in todo
    /\ todo' = todo \ {t}
    /\ refused' = refused \cup {<<Index, t>>}
    /\ UNCHANGED <<source, target, offset, stage, pos, startIndex>>

\* Mutant of EndBroadcast: the offset is moved before every target is served.
MutEndBroadcastEarly ==
    /\ stage = "broadcasting"
    /\ startIndex' = Index + 1
    /\ pos' = pos + 1
    /\ stage' = "reading"
    /\ UNCHANGED <<source, target, offset, todo, failures, refused>>

EndBroadcast ==
    /\ stage = "broadcasting"
    /\ todo = {}
    /\ startIndex' = Index + 1
    /\ pos' = pos + 1
    /\ stage' = "reading"
    /\ UNCHANGED <<source, target, offset, todo, failures, refused>>

\* End of the source.
EndOfSource ==
    /\ stage = "reading"
    /\ pos = Len(source)
    /\ stage' = "saving"
    /\ UNCHANGED <<source, target, offset, pos, startIndex, todo, failures, refused>>

\* fopen(offset_path, "w") empties the offset file ...
TruncateOffset ==
    /\ stage = "saving"
    /\ offset' = NoOffset
    /\ stage' = "writing"
    /\ UNCHANGED <<source, target, pos, startIndex, todo, failures, refused>>

\* Mutant of WriteOffset: the number of events read is saved, one too many.
MutWriteOffsetPastEnd ==
    /\ stage = "writing"
    /\ offset' = startIndex + 1
    /\ stage' = "idle"
    /\ UNCHANGED <<source, target, pos, startIndex, todo, failures, refused>>

\* ... and fprintf and fclose fill it.  The pass ends.
WriteOffset ==
    /\ stage = "writing"
    /\ offset' = startIndex
    /\ stage' = "idle"
    /\ UNCHANGED <<source, target, pos, startIndex, todo, failures, refused>>

\* The offset file cannot be opened for writing: the pass ends without it.
LeaveOffset ==
    /\ Fail("unsaved")
    /\ stage = "saving"
    /\ stage' = "idle"
    /\ UNCHANGED <<source, target, offset, pos, startIndex, todo, refused>>

\* The relay dies; its memory is gone, the files stay.
Crash ==
    /\ Fail("crash")
    /\ stage # "idle"
    /\ stage' = "idle"
    /\ todo' = {}
    /\ UNCHANGED <<source, target, offset, pos, startIndex, refused>>

RelayStep ==
    \/ StartPass
    \/ SkipDone
    \/ SkipKind
    \/ Broadcast
    \/ \E t \in Targets : Deliver(t)
    \/ EndBroadcast
    \/ EndOfSource
    \/ TruncateOffset
    \/ WriteOffset

RelayNext ==
    \/ \E k \in Kinds : ServerRecords(k)
    \/ RelayStep
    \/ NoDirectory
    \/ \E t \in Targets : Refused(t)
    \/ LeaveOffset
    \/ Crash

\* The relay is started again and again, and a started relay keeps running.
RelaySpec == RelayInit /\ [][RelayNext]_relayVars /\ WF_relayVars(RelayStep)

-----------------------------------------------------------------------------
RelayTypeOK ==
    /\ source \in Seq(Kinds)
    /\ target \in [Targets -> Seq(Nat)]
    /\ offset \in Nat \cup {NoOffset}
    /\ stage \in {"idle", "reading", "broadcasting", "saving", "writing"}
    /\ pos \in Nat
    /\ startIndex \in Nat
    /\ todo \subseteq Targets
    /\ failures \in [AllFailures -> Nat]
    /\ refused \subseteq Nat \X Targets
    /\ offset <= Len(source)

Forwarded == {i \in 0..Len(source) - 1 : source[i + 1] \in Relayed}

Delivered(i, t) == i \in Range(target[t])

\* What the offset file vouches for is in every node's journal that did not
\* refuse it, in spite of failures at any point of a pass: the offset is only
\* written after the events below it were sent.
OffsetMeansDelivered ==
    \A i \in Forwarded : i < offset =>
        \A t \in Targets : Delivered(i, t) \/ <<i, t>> \in refused

\* docs/russian_response_steps.md:10: new teach and feedback events reach the
\* journals of all nodes; an event the offset has passed is never sent again,
\* so by then it must be there.
ReachesAllNodes ==
    \A i \in Forwarded : i < offset => \A t \in Targets : Delivered(i, t)

\* Where the journal of t starts over.
Restarts(t) == {n \in 2..Len(target[t]) : target[t][n] <= target[t][n - 1]}

\* A node's journal starts over at most once for each pass that ended without
\* saving its offset; between two such passes it gets the events in order and
\* each of them once.
RestartsAccountedFor ==
    \A t \in Targets :
        Cardinality(Restarts(t)) <= failures["crash"] + failures["unsaved"]

\* Failures make the relay repeat itself and nothing else: whatever a node
\* gets, it has got, or has refused, every earlier event to forward before.
NoGaps ==
    \A t \in Targets : \A n \in 1..Len(target[t]) :
        \A i \in Forwarded : i < target[t][n] =>
            \/ \E m \in 1..n - 1 : target[t][m] = i
            \/ <<i, t>> \in refused

\* However passes ended: neither the offset nor what a node has got is ahead of an
\* event that the node has not.
NoneIsPassedOver == OffsetMeansDelivered /\ NoGaps

\* Why they hold.  The relay's start_index never falls behind what it has read and
\* is what every node has been offered; while an event is offered it is its index.
Offered(n, t) == \A i \in Forwarded : i < n => Delivered(i, t) \/ <<i, t>> \in refused

CursorInv ==
    /\ startIndex <= Len(source)
    /\ stage = "reading" => pos <= startIndex
    /\ stage = "broadcasting" => pos < Len(source) /\ startIndex = pos

OfferedInv ==
    /\ stage # "idle" => \A t \in Targets : Offered(startIndex, t)
    /\ stage = "broadcasting" =>
          \A t \in Targets \ todo : Delivered(pos, t) \/ <<pos, t>> \in refused

\* A journal holds nothing the source has not.
WithinSource == \A t \in Targets : \A n \in 1..Len(target[t]) : target[t][n] < Len(source)

\* Nothing below it is sent to t before a pass fails again.
Cursor(t) ==
    IF stage = "idle" THEN offset
    ELSE IF stage = "broadcasting" /\ t \notin todo THEN pos + 1
    ELSE startIndex

\* A journal that will start over has a failure it was not charged for yet.
RestartInv ==
    \A t \in Targets :
        \/ \A n \in 1..Len(target[t]) : n = Len(target[t]) => target[t][n] < Cursor(t)
        \/ Cardinality(Restarts(t)) < failures["crash"] + failures["unsaved"]

RelayInv ==
    /\ RelayTypeOK
    /\ CursorInv
    /\ OfferedInv
    /\ WithinSource
    /\ RestartInv
    /\ NoneIsPassedOver
    /\ RestartsAccountedFor

\* Every event to forward is eventually in every node's journal, or was refused
\* by it, although passes may fail in other ways (a bounded number of times).
EventuallyForwarded ==
    \A i \in 0..MaxSource - 1 : \A t \in Targets :
        i \in Forwarded ~> Delivered(i, t) \/ <<i, t>> \in refused
=============================================================================
