----------------------------- MODULE PythonSwarm -----------------------------
(***************************************************************************)
(* The simulators of core/kolibri_sim.py and their swarm (zapustit_roj).     *)
(* Each has answers to stimuli, formulas under names, a population (the      *)
(* names it breeds from), a journal of its last events, and a genome of      *)
(* all of them.  In a swarm each in turn is the source of all others; the    *)
(* whole runs in one thread, but a target whose ledger or tracer cannot      *)
(* write raises, and the swarm ends there.                                  *)
(*                                                                         *)
(* A formula is a number; its name is that of F<n> and the suffixes that     *)
(* imports gave it, <<n, s1, ...>>.  formuly and populyaciya keep the order   *)
(* of insertion.                                                            *)
(***************************************************************************)
EXTENDS Integers, Sequences, FiniteSets, SequencesExt, FiniteSetsExt

CONSTANTS
    Sims,
    Stimuli,
    Replies,
    NoReply,
    PopulationLimit,    \* predel_populyacii, 24 in the code
    FirstLimit,         \* predel_zhurnala of a new sim, 256
    LogLimits,          \* values it may be set to
    MaxMade,            \* bound: formulas made by evolution
    MaxLessonsGiven,    \* bound: lessons and questions
    MaxSwarms           \* bound: swarms

ASSUME SwarmAssumption ==
    /\ IsFiniteSet(Sims) /\ NoReply \notin Replies
    /\ PopulationLimit \in Nat \ {0} /\ FirstLimit \in Nat \ {0} /\ LogLimits \subseteq Nat \ {0}

VARIABLES
    znanija,        \* znanija[s][q]: what s answers to q
    formuly,        \* formuly[s]: sequence of [name, id]
    populyaciya,    \* populyaciya[s]: sequence of names
    zhurnal,        \* zhurnal[s]: [limit, offset, length]
    genom,          \* genom[s]: number of blocks
    roj,            \* the swarm at work: exchanges still to come; <<>> if none
    made, heard, swarms,
    taught,         \* history: what each was taught itself
    atStart,        \* history: stimuli and formulas known in the swarm as it began
    owned           \* history: formulas each sim ever had

pyVars == <<znanija, formuly, populyaciya, zhurnal, genom, roj, made, heard, swarms,
            taught, atStart, owned>>

NamesIn(fs) == {fs[i].name : i \in DOMAIN fs}
Ids(fs) == {fs[i].id : i \in DOMAIN fs}
Known(s) == {q \in Stimuli : znanija[s][q] # NoReply}

PyInit ==
    /\ znanija = [s \in Sims |-> [q \in Stimuli |-> NoReply]]
    /\ formuly = [s \in Sims |-> <<>>]
    /\ populyaciya = [s \in Sims |-> <<>>]
    /\ zhurnal = [s \in Sims |-> [limit |-> FirstLimit, offset |-> 0, length |-> 0]]
    /\ genom = [s \in Sims |-> 1]
    /\ roj = <<>>
    /\ made = 0 /\ heard = 0 /\ swarms = 0
    /\ taught = znanija
    /\ atStart = [stimuli |-> {}, ids |-> {}]
    /\ owned = [s \in Sims |-> {}]

\* The journal with n more entries, of which it drops what is over the limit.
Trimmed(z, n) ==
    LET over == Max({0, z.length + n - z.limit})
    IN  [z EXCEPT !.length = @ + n - over, !.offset = @ + over]

\* _registrirovat, n times.
RegisterEvent(s, n) ==
    /\ zhurnal' = [zhurnal EXCEPT ![s] = Trimmed(@, n)]
    /\ genom' = [genom EXCEPT ![s] = @ + n]

Resting == roj = <<>>

\* obuchit_svjaz.
TeachSim(s, q, a) ==
    /\ Resting /\ heard < MaxLessonsGiven
    /\ heard' = heard + 1
    /\ znanija' = [znanija EXCEPT ![s][q] = a]
    /\ taught' = [taught EXCEPT ![s][q] = a]
    /\ RegisterEvent(s, 1)
    /\ UNCHANGED <<formuly, populyaciya, roj, made, swarms, atStart, owned>>

\* sprosit, the commands of dobrovolnaya_otpravka, ocenit_formulu: an event only.
AskSim(s) ==
    /\ Resting /\ heard < MaxLessonsGiven
    /\ heard' = heard + 1
    /\ RegisterEvent(s, 1)
    /\ UNCHANGED <<znanija, formuly, populyaciya, roj, made, swarms, taught, atStart, owned>>

\* ustanovit_predel_zhurnala.
SetLimit(s, limit) ==
    /\ Resting /\ limit # zhurnal[s].limit
    /\ zhurnal' = [zhurnal EXCEPT ![s] = Trimmed([@ EXCEPT !.limit = limit], 0)]
    /\ UNCHANGED <<znanija, formuly, populyaciya, genom, roj, made, heard, swarms, taught,
                   atStart, owned>>

\* A dictionary with one more entry, or with the entry of that name replaced.
Put(fs, name, id) ==
    IF name \in NamesIn(fs)
    THEN [i \in DOMAIN fs |-> IF fs[i].name = name THEN [name |-> name, id |-> id] ELSE fs[i]]
    ELSE Append(fs, [name |-> name, id |-> id])

LastOf(seq) == SubSeq(seq, Max({1, Len(seq) - PopulationLimit + 1}), Len(seq))

\* evolyuciya_formul: named by the number of formulas there are.
EvolveSim(s) ==
    LET name == <<Len(formuly[s]) + 1>> IN
    /\ Resting /\ made < MaxMade
    /\ made' = made + 1
    /\ formuly' = [formuly EXCEPT ![s] = Put(@, name, made')]
    /\ populyaciya' = [populyaciya EXCEPT ![s] = LastOf(Append(@, name))]
    /\ owned' = [owned EXCEPT ![s] = @ \cup {made'}]
    /\ RegisterEvent(s, 1)
    /\ UNCHANGED <<znanija, roj, heard, swarms, taught, atStart>>

-----------------------------------------------------------------------------
(* The swarm *)

\* Mutant of WithLesson: what the source answers goes over what the target does.
MutWithLesson(source, target) == [q \in Stimuli |->
    IF znanija[source][q] # NoReply THEN znanija[source][q] ELSE znanija[target][q]]

\* sinhronizaciya.
WithLesson(source, target) == [q \in Stimuli |->
    IF znanija[target][q] # NoReply THEN znanija[target][q] ELSE znanija[source][q]]

\* The name an imported formula gets.
FreeName(fs, name) ==
    IF name \notin NamesIn(fs) THEN name
    ELSE Append(name, Min({n \in 1..Len(fs) + 1 : Append(name, n) \notin NamesIn(fs)}))

\* import_formuly, formula by formula, before the population is cut.
WithFormula(acc, f) ==
    LET name == FreeName(acc.formuly, f.name)
    IN  [formuly |-> Put(acc.formuly, name, f.id),
         names |-> IF name \in Range(acc.names) THEN acc.names ELSE Append(acc.names, name)]

Imported(source, target) ==
    FoldLeft(WithFormula, [formuly |-> formuly[target], names |-> populyaciya[target]],
             formuly[source])

\* zapustit_roj: all pairs, source by source, the peers in the order they came.
FromOne(order, i) ==
    LET others == RemoveAt(order, i)
    IN  [j \in DOMAIN others |-> [source |-> order[i], target |-> others[j], by |-> order[1]]]

Pairs(order) == FlattenSeq([i \in DOMAIN order |-> FromOne(order, i)])

StartSwarm(order) ==
    /\ Resting /\ swarms < MaxSwarms
    /\ swarms' = swarms + 1
    /\ roj' = Pairs(order)
    /\ atStart' = [stimuli |-> UNION {Known(s) : s \in Range(order)},
                   ids |-> UNION {Ids(formuly[s]) : s \in Range(order)}]
    /\ UNCHANGED <<znanija, formuly, populyaciya, zhurnal, genom, made, heard, taught, owned>>

\* One source and one target, whose events are SYNC and, if it got any, FORMULA_SYNC.
\* After the last pair, the sim that called adds a SWARM.
Exchanged(events) ==
    LET s == Head(roj).source
        t == Head(roj).target
        import == Imported(s, t)
    IN  /\ znanija' = [znanija EXCEPT ![t] = WithLesson(s, t)]
        /\ formuly' = [formuly EXCEPT ![t] = import.formuly]
        /\ populyaciya' = [populyaciya EXCEPT
            ![t] = IF formuly[s] = <<>> THEN @ ELSE LastOf(import.names)]
        /\ owned' = [owned EXCEPT ![t] = @ \cup Ids(formuly[s])]
        /\ LET logged == [p \in Sims |->
                   (IF p = t THEN events ELSE 0)
                   + (IF Len(roj) = 1 /\ p = Head(roj).by THEN 1 ELSE 0)]
           IN  /\ zhurnal' = [p \in Sims |-> Trimmed(zhurnal[p], logged[p])]
               /\ genom' = [p \in Sims |-> genom[p] + logged[p]]
        /\ UNCHANGED <<made, heard, swarms, taught>>

Exchange ==
    /\ roj # <<>>
    /\ Exchanged(IF formuly[Head(roj).source] = <<>> THEN 1 ELSE 2)
    /\ roj' = Tail(roj)
    /\ UNCHANGED atStart

\* The target raises when it registers the second of its events,
ExchangeRaises ==
    /\ Len(roj) > 1
    /\ formuly[Head(roj).source] # <<>>
    /\ Exchanged(2)
    /\ roj' = <<>>
    /\ atStart' = [stimuli |-> {}, ids |-> {}]

\* or the first, when it has learned the answers only.
SyncRaises ==
    LET s == Head(roj).source
        t == Head(roj).target
    IN  /\ roj # <<>>
        /\ znanija' = [znanija EXCEPT ![t] = WithLesson(s, t)]
        /\ RegisterEvent(t, 1)
        /\ roj' = <<>>
        /\ atStart' = [stimuli |-> {}, ids |-> {}]
        /\ UNCHANGED <<formuly, populyaciya, made, heard, swarms, taught, owned>>

PyNext ==
    \/ \E s \in Sims :
        \/ \E q \in Stimuli, a \in Replies : TeachSim(s, q, a)
        \/ AskSim(s) \/ EvolveSim(s)
        \/ \E limit \in LogLimits : SetLimit(s, limit)
    \/ \E order \in SetToSeqs(Sims) : StartSwarm(order)
    \/ Exchange \/ ExchangeRaises \/ SyncRaises

PySpec == PyInit /\ [][PyNext]_pyVars

-----------------------------------------------------------------------------
\* Names are given by the number of formulas and by suffixes, independently in each
\* sim, and imports bring in names of others: no formula is ever replaced by another,
\* and the population holds formulas that are there, each once.
NoFormulaIsReplaced ==
    \A s \in Sims :
        /\ Ids(formuly[s]) = owned[s]
        /\ Cardinality(NamesIn(formuly[s])) = Len(formuly[s])
        /\ Range(populyaciya[s]) \subseteq NamesIn(formuly[s])
        /\ Cardinality(Range(populyaciya[s])) = Len(populyaciya[s])
        /\ Len(populyaciya[s]) <= PopulationLimit

\* What a sim was taught it answers, whatever swarms it was in.
OwnAnswersStay ==
    \A s \in Sims, q \in Stimuli : taught[s][q] # NoReply => znanija[s][q] = taught[s][q]

\* A swarm that ended without an exception has spread to all what any of them knew
\* before, though each exchange sees the source as the ones before have left it.
SwarmSpreadsAll ==
    roj = <<>> => \A s \in Sims :
        atStart.stimuli \subseteq Known(s) /\ atStart.ids \subseteq owned[s]

\* Journal and genome tell of the same events, but for the genome's first block, and
\* whatever the limit has been, the journal is as long as it may.
JournalIsWindow ==
    \A s \in Sims :
        /\ zhurnal[s].offset + zhurnal[s].length = genom[s] - 1
        /\ zhurnal[s].length <= zhurnal[s].limit

SwarmKeepsAndSpreads ==
    NoFormulaIsReplaced /\ OwnAnswersStay /\ SwarmSpreadsAll /\ JournalIsWindow

-----------------------------------------------------------------------------
(* Why: the inductive invariant *)

PyFormulas == [name : Seq(Nat) \ {<<>>}, id : Nat]
PyJournals == [limit : Nat, offset : Nat, length : Nat]
PyExchanges == [source : Sims, target : Sims, by : Sims]
PyAnswers == [Stimuli -> Replies \cup {NoReply}]

\* No name is there twice, and one without a suffix is no more than there are formulas.
NamesDiffer(fs) ==
    /\ \A i, j \in DOMAIN fs : fs[i].name = fs[j].name => i = j
    /\ \A i \in DOMAIN fs : Len(fs[i].name) = 1 => fs[i].name[1] <= Len(fs)

\* A population is a selection of the formulas there are.
Selection(names, fs) ==
    /\ \A i, j \in DOMAIN names : names[i] = names[j] => i = j
    /\ Range(names) \subseteq NamesIn(fs)

\* What a sim does not have yet, an exchange to come will bring from one that has it.
StillToSpread ==
    \A t \in Sims :
        /\ \A q \in atStart.stimuli :
            q \in Known(t) \/ \E i \in DOMAIN roj : roj[i].target = t /\ q \in Known(roj[i].source)
        /\ \A id \in atStart.ids :
            id \in owned[t] \/ \E i \in DOMAIN roj : roj[i].target = t /\ id \in owned[roj[i].source]

\* Each sim by itself, whatever swarm is at work;
SimsInv ==
    /\ znanija \in [Sims -> PyAnswers] /\ taught \in [Sims -> PyAnswers]
    /\ formuly \in [Sims -> Seq(PyFormulas)] /\ populyaciya \in [Sims -> Seq(Seq(Nat))]
    /\ zhurnal \in [Sims -> PyJournals] /\ genom \in [Sims -> Nat] /\ made \in Nat
    /\ owned = [s \in Sims |-> Ids(formuly[s])]
    /\ \A s \in Sims :
        /\ NamesDiffer(formuly[s]) /\ Selection(populyaciya[s], formuly[s])
        /\ Len(populyaciya[s]) <= PopulationLimit
    /\ OwnAnswersStay /\ JournalIsWindow

\* and the swarm.
PyInv == SimsInv /\ roj \in Seq(PyExchanges) /\ StillToSpread
=============================================================================
