---------------------------- MODULE KolibriNode ----------------------------
(***************************************************************************)
(* The interactive node of apps/kolibri_node.c: one thread that polls its   *)
(* listener, reads commands and evolves by itself when nobody types.  It    *)
(* composes the pool of FormulaPool, a genome that it records events in,   *)
(* and the last answer, to which :good and :bad refer.                     *)
(*                                                                         *)
(* A command is the steps between two times the node waits; the pool        *)
(* evolves generation by generation inside it.  Of the genome the number    *)
(* of events of each kind is kept (Journal has their order); an append may  *)
(* fail, as on a full disk.                                                *)
(***************************************************************************)
EXTENDS FormulaPool

CONSTANTS
    Inputs,         \* numbers that may be asked
    Reply,          \* Reply[g][x]: what gene g makes of x
    PeerGenes,      \* genes a neighbour may send
    MaxOthers,      \* bound: events that go with no change of the pool
    MaxLost,        \* bound: appends that fail
    MaxBoots        \* bound: times the node is started

ASSUME NodeAssumption ==
    /\ Reply \in [Genes -> [Inputs -> Int]]
    /\ PeerGenes \subseteq Genes
    /\ MaxLost \in Nat
    /\ MaxBoots \in Nat \ {0}

VARIABLES
    doing,          \* the command at work, or "waiting"
    lastAnswer,     \* last_gene, last_question, last_answer; <<>> if not valid
    journal,        \* how many events of each kind the genome holds
    lost,           \* how many of each kind it could not take
    seen,           \* history: the answer the user may judge; <<>> once he went on
    unlogged,       \* history: ticks of scripts, and ticks the process did not survive
    boots

nodeVars == <<vars, doing, lastAnswer, journal, lost, seen, unlogged, boots>>

\* BOOT, ASK, NOTE, SYNC and SCRIPT are "OTHER".
Kinds == {"TEACH", "EVOLVE", "IMPORT", "USER_FEEDBACK", "OTHER"}

Logged(kind) == journal[kind] + lost[kind]

AllLost == lost["TEACH"] + lost["EVOLVE"] + lost["IMPORT"] + lost["USER_FEEDBACK"]
    + lost["OTHER"]

\* node_record_event: its callers go on whatever it returns.
Record(kind) ==
    /\ kind = "OTHER" => Logged(kind) < MaxOthers
    /\ \/ journal' = [journal EXCEPT ![kind] = @ + 1] /\ UNCHANGED lost
       \/ AllLost < MaxLost /\ lost' = [lost EXCEPT ![kind] = @ + 1] /\ UNCHANGED journal

Waiting == doing = "waiting" /\ phase = "idle"

\* node_init.  (Its BOOT event is the first of the journal.)
NodeInit ==
    /\ Init
    /\ doing = "waiting"
    /\ lastAnswer = <<>>
    /\ journal = [[kind \in Kinds |-> 0] EXCEPT !["OTHER"] = 1]
    /\ lost = [kind \in Kinds |-> 0]
    /\ seen = <<>>
    /\ unlogged = 0
    /\ boots = 1

\* The process ends, by :quit or by force, between any two steps, and is started
\* again: the pool is drawn anew, nothing of the former one was kept.
Restart ==
    /\ boots < MaxBoots
    /\ boots' = boots + 1
    /\ \E s \in Seeds : formulas' = [i \in 1..Count |-> NewFormula(s[i])]
    /\ examples' = 0
    /\ associations' = <<>>
    /\ phase' = "idle"
    /\ left' = 0
    /\ lastAnswer' = <<>>
    /\ seen' = <<>>
    /\ doing' = "waiting"
    /\ unlogged' = IF doing \in {"tick", "auto", "import"} THEN unlogged + 1 ELSE unlogged
    /\ Record("OTHER")
    /\ UNCHANGED <<told, ticks, marks>>

-----------------------------------------------------------------------------
(* Commands *)

\* node_handle_ask: the first formula answers, and is remembered.
Ask(x) ==
    /\ Waiting
    /\ lastAnswer' = [gene |-> formulas[1].gene, q |-> x, a |-> Reply[formulas[1].gene][x]]
    /\ seen' = lastAnswer'
    /\ Record("OTHER")
    /\ UNCHANGED <<vars, doing, unlogged, boots>>

\* Mutant of Rated: the formula that is best now is rated.
MutRatedBest == formulas[1].gene

\* node_apply_feedback: the formula with the gene that answered is rated.
Rated == lastAnswer.gene

Rate(delta) ==
    /\ Waiting
    /\ lastAnswer # <<>>
    /\ Feedback(Rated, delta)
    /\ Record("USER_FEEDBACK")
    /\ UNCHANGED <<doing, lastAnswer, seen, unlogged, boots>>

\* The gene is gone from the pool.
RateGone ==
    /\ Waiting
    /\ lastAnswer # <<>>
    /\ \A i \in 1..Count : formulas[i].gene # Rated
    /\ lastAnswer' = <<>>
    /\ UNCHANGED <<vars, doing, journal, lost, seen, unlogged, boots>>

\* node_handle_teach of a pair; the pool's 8 generations follow.
Teach ==
    /\ Waiting
    /\ AddExample
    /\ Record("TEACH")
    /\ doing' = "teach"
    /\ seen' = <<>>
    /\ UNCHANGED <<lastAnswer, unlogged, boots>>

TeachTick ==
    /\ doing = "teach"
    /\ StartTick(1)
    /\ doing' = "tick"
    /\ UNCHANGED <<lastAnswer, journal, lost, seen, unlogged, boots>>

\* A text becomes a note; :sync, by hand or by the clock, sends the best gene.
TakeNoteOrShare ==
    /\ Waiting
    /\ Record("OTHER")
    /\ UNCHANGED <<vars, doing, lastAnswer, seen, unlogged, boots>>

\* node_handle_tick, and the cycle that runs when nobody types.
Evolve(kind) ==
    /\ Waiting
    /\ examples > 0
    /\ StartTick(1)
    /\ doing' = kind
    /\ seen' = IF kind = "tick" THEN <<>> ELSE seen
    /\ UNCHANGED <<lastAnswer, journal, lost, unlogged, boots>>

\* node_poll_listener: a neighbour's gene takes the last formula's place, and a
\* tick follows.  Its associations are never set: none, or what the memory held.
Import(g, fitness) ==
    /\ Waiting
    /\ ticks < MaxTicks
    /\ ticks' = ticks + 1
    /\ \E junk \in {<<>>} \cup {<<a>> : a \in [q: Questions, a: Answers, at: {0}]} :
        formulas' = [formulas EXCEPT ![Count] =
            [gene |-> g, fitness |-> fitness, feedback |-> 0, assocs |-> junk]]
    /\ phase' = "evolving"
    /\ left' = 1
    /\ doing' = "import"
    /\ UNCHANGED <<examples, associations, told, marks, lastAnswer, journal, lost, seen,
                   unlogged, boots>>

PoolStep ==
    /\ Generation
    /\ UNCHANGED <<doing, lastAnswer, journal, lost, seen, unlogged, boots>>

\* Mutant of EventOf: the cycle nobody asked for leaves no event.
MutEventOf(kind) == IF kind = "tick" THEN "EVOLVE" ELSE "OTHER"

EventOf(kind) == IF kind = "import" THEN "IMPORT" ELSE "EVOLVE"

\* The answer outlives a cycle nobody asked for, and an import.
Kept(kind) == IF kind \in {"auto", "import"} THEN lastAnswer ELSE <<>>

\* The end of a cycle.
Evolved ==
    /\ doing \in {"tick", "auto", "import"}
    /\ EndTick
    /\ Record(EventOf(doing))
    /\ lastAnswer' = Kept(doing)
    /\ doing' = "waiting"
    /\ UNCHANGED <<seen, unlogged, boots>>

-----------------------------------------------------------------------------
(* Scripts: calls of the pool, then success or failure *)

StartScript ==
    /\ Waiting
    /\ doing' = "script"
    /\ UNCHANGED <<vars, lastAnswer, journal, lost, seen, unlogged, boots>>

ScriptStep ==
    /\ doing = "script"
    /\ \/ \E q \in Questions, a \in Answers : AddAssociation(q, a) /\ UNCHANGED unlogged
       \/ StartTick(1) /\ unlogged' = unlogged + 1
       \/ EndTick /\ UNCHANGED unlogged
    /\ UNCHANGED <<doing, lastAnswer, journal, lost, seen, boots>>

ScriptDone ==
    /\ doing = "script" /\ phase = "idle"
    /\ Record("OTHER")
    /\ lastAnswer' = <<>>
    /\ seen' = <<>>
    /\ doing' = "waiting"
    /\ UNCHANGED <<vars, unlogged, boots>>

\* What a script did before it failed stays, and so does the last answer.
ScriptFailed ==
    /\ doing = "script" /\ phase = "idle"
    /\ doing' = "waiting"
    /\ UNCHANGED <<vars, lastAnswer, journal, lost, seen, unlogged, boots>>

NodeNext ==
    \/ Restart
    \/ \E x \in Inputs : Ask(x)
    \/ \E delta \in {-1, 1} : Rate(delta)
    \/ RateGone \/ Teach \/ TeachTick \/ TakeNoteOrShare
    \/ \E kind \in {"tick", "auto"} : Evolve(kind)
    \/ \E g \in PeerGenes, fitness \in 0..Scale : Import(g, fitness)
    \/ PoolStep \/ Evolved
    \/ StartScript \/ ScriptStep \/ ScriptDone \/ ScriptFailed

NodeSpec == NodeInit /\ [][NodeNext]_nodeVars

-----------------------------------------------------------------------------
NodeOK ==
    /\ TypeOK
    /\ doing \in {"waiting", "teach", "tick", "auto", "import", "script"}
    /\ lastAnswer # <<>> => lastAnswer.gene \in Genes /\ lastAnswer.q \in Inputs
    /\ lastAnswer \in {<<>>, seen} \/ doing \in {"teach", "tick"}
    /\ journal \in [Kinds -> Nat] /\ lost \in [Kinds -> Nat]
    /\ AllLost <= MaxLost
    /\ unlogged \in Nat /\ boots \in 0..MaxBoots
    /\ phase = "evolving" => doing \in {"tick", "auto", "import", "script"}

Ticking == IF doing \in {"tick", "auto", "import"} THEN 1 ELSE 0

\* The journal tells what became of the pool: whatever commands, imports and the
\* clock do between each other, each tick and each mark has its event, but for
\* failed appends, scripts, and a cycle that is running or was cut off.
ChangesAreRecorded ==
    /\ ticks = Logged("EVOLVE") + Logged("IMPORT") + unlogged + Ticking
    /\ marks = Logged("USER_FEEDBACK")

\* A mark is about the answer the user saw last, with no lesson, cycle or script
\* of his since, and hits a formula with the gene that gave it although automatic
\* cycles and imports have reordered the pool: no other formula changes, nor passes
\* another.
MarkHitsAnswerer ==
    [][marks' # marks =>
        /\ seen # <<>>
        /\ \E i, j \in 1..Count, delta \in {-1, 1} :
            /\ formulas[i].gene = seen.gene
            /\ formulas' = InsertAt(RemoveAt(formulas, i), j, Adjusted(formulas[i], delta))]_nodeVars

\* Associations an import left unset are never bred into other formulas: there
\* are no more such formulas than imports.
Junk == {i \in 1..Count : \E k \in DOMAIN formulas[i].assocs : formulas[i].assocs[k].at = 0}

JunkIsNotBred ==
    Cardinality(Junk) <= Logged("IMPORT") + IF doing = "import" THEN 1 ELSE 0

\* What the pool was taught has a time; only what an import left unset has none.
Dated == \A k \in DOMAIN associations : associations[k].at > 0

\* The formulas are ranked whenever somebody may ask for the best one, and when the
\* last generation of a cycle has run.  An imported one may stand where it does not
\* belong in between.
RankedWhenAsked == phase = "idle" \/ left = 0 => Ranked(formulas)

\* The inductive invariant.
NodeIInv ==
    /\ NodeOK
    /\ RankedWhenAsked
    /\ OneAnswerPerQuestion
    /\ Dated
    /\ ChangesAreRecorded
    /\ JunkIsNotBred
=============================================================================
