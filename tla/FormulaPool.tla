---------------------------- MODULE FormulaPool ----------------------------
(***************************************************************************)
(* The pool of formulas of backend/src/formula.c: examples and question-    *)
(* answer associations are taught, generations score, sort and breed the    *)
(* formulas, a user's feedback moves one formula up or down.               *)
(*                                                                         *)
(* A gene is a tuple of digits.  Its numeric score on the examples taught   *)
(* is a constant function; fitness, feedback and scores are integers in     *)
(* steps of 1/Scale.  qsort leaves the order of equal formulas open.       *)
(***************************************************************************)
EXTENDS Integers, Sequences, FiniteSets, SequencesExt

CONSTANTS
    Digits,         \* what a position of a gene may hold
    GeneLength,     \* gene.length, 32 in the code
    Count,          \* pool->count, 24 in the code
    AssocTop,       \* formulas that get the associations, 3 in the code
    Scale,          \* the fitness 1.0
    Score,          \* Score[n][g]: 1/(1+error+penalty) of g on n examples
    Seeds,          \* the genes kf_pool_init may draw, one sequence per seed
    Questions,
    Answers,
    MaxExamples,    \* entries of inputs[] and targets[], 64 in the code
    PoolLimit,      \* KOLIBRI_POOL_MAX_ASSOCIATIONS, 10000 in the code
    FormulaLimit,   \* KOLIBRI_FORMULA_MAX_ASSOCIATIONS, 320 in the code
    MaxTicks,       \* bound: calls of kf_pool_tick
    MaxGenerations, \* bound: generations asked of one call
    MaxTold,        \* bound: calls of kf_pool_add_association
    MaxFeedback     \* bound: calls of kf_pool_feedback

Genes == [1..GeneLength -> Digits]
Elite == IF Count \div 3 = 0 THEN 1 ELSE Count \div 3

ASSUME PoolAssumption ==
    /\ GeneLength \in Nat \ {0} /\ Count \in Nat \ {0}
    /\ AssocTop \in 1..Count
    /\ Scale \in Nat
    /\ MaxExamples \in Nat
    /\ Score \in [0..MaxExamples -> [Genes -> 0..Scale]]
    /\ \A g \in Genes : Score[0][g] = 0
    /\ Seeds \subseteq [1..Count -> Genes]
    /\ PoolLimit \in Nat \ {0} /\ FormulaLimit \in Nat \ {0}

VARIABLES
    formulas,       \* the formulas, best first
    examples,       \* number of examples held
    associations,   \* the pool's question-answer pairs, in array order
    phase,          \* "idle", or where kf_pool_tick stands
    left,           \* generations kf_pool_tick still has to run
    told,           \* calls of kf_pool_add_association so far: its timestamps
    ticks,          \* calls of kf_pool_tick so far
    marks           \* calls of kf_pool_feedback so far

vars == <<formulas, examples, associations, phase, left, told, ticks, marks>>

Association == [q: Questions, a: Answers, at: Nat]
Formula == [gene: Genes, fitness: Int, feedback: -Scale..Scale, assocs: Seq(Association)]

NewFormula(g) == [gene |-> g, fitness |-> 0, feedback |-> 0, assocs |-> <<>>]

\* kf_pool_init under one of the seeds.
Init ==
    /\ \E s \in Seeds : formulas = [i \in 1..Count |-> NewFormula(s[i])]
    /\ examples = 0
    /\ associations = <<>>
    /\ phase = "idle"
    /\ left = 0
    /\ told = 0
    /\ ticks = 0
    /\ marks = 0

-----------------------------------------------------------------------------
(* Teaching *)

\* kf_pool_add_example keeps what fits and refuses the rest.
OneMoreExample == IF examples < MaxExamples THEN examples + 1 ELSE examples

AddExample ==
    /\ phase = "idle"
    /\ examples < MaxExamples
    /\ examples' = examples + 1
    /\ UNCHANGED <<formulas, associations, phase, left, told, ticks, marks>>

\* Mutant of Stored: the answer to a known question is added once more.
MutStoredTwice(s, new) ==
    IF Len(s) < PoolLimit THEN Append(s, new) ELSE Append(Tail(s), new)

\* kf_pool_add_association: a known question is answered anew where it stands;
\* a new one is appended, if need be in place of the first entry.
Stored(s, new) ==
    LET known == {i \in DOMAIN s : s[i].q = new.q}
    IN  IF known # {} THEN [s EXCEPT ![Min(known)] = new]
        ELSE IF Len(s) < PoolLimit THEN Append(s, new)
        ELSE Append(Tail(s), new)

AddAssociation(q, a) ==
    /\ phase = "idle"
    /\ told < MaxTold
    /\ told' = told + 1
    /\ associations' = Stored(associations, [q |-> q, a |-> a, at |-> told'])
    /\ examples' = OneMoreExample
    /\ UNCHANGED <<formulas, phase, left, ticks, marks>>

\* kf_pool_clear_examples leaves what the formulas learnt.
ClearExamples ==
    /\ phase = "idle"
    /\ examples' = 0
    /\ associations' = <<>>
    /\ UNCHANGED <<formulas, phase, left, told, ticks, marks>>

-----------------------------------------------------------------------------
(* Evolution *)

Clamp(n) == IF n < 0 THEN 0 ELSE IF n > Scale THEN Scale ELSE n

\* evaluate_formula_numeric and apply_feedback_bonus.
Evaluated(f) == Clamp(Score[examples][f.gene] + f.feedback)

Ranked(s) == \A i \in 1..Len(s) - 1 : s[i].fitness >= s[i + 1].fitness

\* t holds the entries of s, each as often.
Rearranges(t, s) ==
    \A x \in Range(s) : Cardinality({i \in DOMAIN t : t[i] = x}) = Cardinality({i \in DOMAIN s : s[i] = x})

\* qsort: s arranged by falling fitness, equals anyhow.
Sorted(s) == {t \in [DOMAIN s -> Range(s)] : Ranked(t) /\ Rearranges(t, s)}

\* crossover of genes a and b, then mutate_gene at position at.
Child(a, b, at, digit) ==
    [i \in 1..GeneLength |->
        IF i = at THEN digit ELSE IF i <= GeneLength \div 2 THEN a[i] ELSE b[i]]

\* reproduce: what may stand at place i >= Elite, which the code counts from 0.
Children(elite, i) ==
    LET a == elite[((i - 1) % Elite) + 1].gene
        b == elite[(i % Elite) + 1].gene
    IN  {Child(a, b, at, digit) : at \in 1..GeneLength, digit \in Digits}

\* Mutant of Bred: a child starts as a copy of its first parent.
MutBredWhole(elite) ==
    {[i \in 1..Count |->
        IF i <= Elite THEN elite[i]
        ELSE [NewFormula(c[i]) EXCEPT !.assocs = elite[((i - 1) % Elite) + 1].assocs]] :
        c \in {c \in [Elite + 1..Count -> Genes] : \A i \in DOMAIN c : c[i] \in Children(elite, i)}}

Bred(elite) ==
    {[i \in 1..Count |-> IF i <= Elite THEN elite[i] ELSE NewFormula(c[i])] :
        c \in {c \in [Elite + 1..Count -> Genes] : \A i \in DOMAIN c : c[i] \in Children(elite, i)}}

\* kf_pool_tick is called; 0 generations count as one.
StartTick(n) ==
    /\ phase = "idle"
    /\ ticks < MaxTicks
    /\ phase' = "evolving"
    /\ left' = IF n = 0 THEN 1 ELSE n
    /\ ticks' = ticks + 1
    /\ UNCHANGED <<formulas, examples, associations, told, marks>>

Scored == [i \in 1..Count |-> [formulas[i] EXCEPT !.fitness = Evaluated(formulas[i])]]

\* Mutant of Generation: the formulas are bred in the order they stood in.
MutGenerationUnsorted ==
    /\ phase = "evolving"
    /\ left > 0
    /\ formulas' \in Bred(SubSeq(Scored, 1, Elite))
    /\ left' = left - 1
    /\ UNCHANGED <<examples, associations, phase, told, ticks, marks>>

Generation ==
    /\ phase = "evolving"
    /\ left > 0
    /\ \E s \in Sorted(Scored) : formulas' \in Bred(SubSeq(s, 1, Elite))
    /\ left' = left - 1
    /\ UNCHANGED <<examples, associations, phase, told, ticks, marks>>

\* copy_dataset_into_formula
Dataset == SubSeq(associations, 1, Min({FormulaLimit, Len(associations)}))

\* Mutant of WithDataset: one formula too few gets them.
MutWithDatasetOneLess ==
    [i \in 1..Count |->
        IF i < AssocTop THEN [formulas[i] EXCEPT !.assocs = Dataset, !.fitness = Scale]
        ELSE formulas[i]]

\* The first formulas get the associations, and with them full fitness.
WithDataset ==
    [i \in 1..Count |->
        IF i <= AssocTop THEN [formulas[i] EXCEPT !.assocs = Dataset, !.fitness = Scale]
        ELSE formulas[i]]

EndTick ==
    /\ phase = "evolving"
    /\ left = 0
    /\ IF associations = <<>> THEN UNCHANGED formulas
       ELSE formulas' \in Sorted(WithDataset)
    /\ phase' = "idle"
    /\ UNCHANGED <<examples, associations, left, told, ticks, marks>>

-----------------------------------------------------------------------------
(* Feedback *)

Within(n) == IF n > Scale THEN Scale ELSE IF n < -Scale THEN -Scale ELSE n

\* adjust_feedback: the fitness has a floor and no ceiling.
Adjusted(f, delta) ==
    [f EXCEPT !.feedback = Within(@ + delta), !.fitness = IF @ + delta < 0 THEN 0 ELSE @ + delta]

\* The formula at place i moves past its neighbours while they are worse (a
\* reward) or better (a penalty).
Target(s, i, delta) ==
    IF delta > 0
    THEN Min({j \in 1..i : \A k \in j..i - 1 : s[k].fitness < s[i].fitness})
    ELSE Max({j \in i..Count : \A k \in i + 1..j : s[k].fitness > s[i].fitness})

\* Mutant of Moved: a rewarded formula moves up one place only.
MutMovedOnce(s, i, delta) ==
    LET j == IF Target(s, i, delta) < i THEN i - 1 ELSE Target(s, i, delta)
    IN  InsertAt(RemoveAt(s, i), j, s[i])

Moved(s, i, delta) == InsertAt(RemoveAt(s, i), Target(s, i, delta), s[i])

\* kf_pool_feedback on a gene: its first formula is adjusted and moved.
Feedback(g, delta) ==
    /\ phase = "idle"
    /\ marks < MaxFeedback
    /\ marks' = marks + 1
    /\ \E i \in 1..Count :
        /\ formulas[i].gene = g
        /\ \A k \in 1..i - 1 : formulas[k].gene # g
        /\ formulas' = Moved([formulas EXCEPT ![i] = Adjusted(@, delta)], i, delta)
    /\ UNCHANGED <<examples, associations, phase, left, told, ticks>>

Next ==
    \/ AddExample
    \/ \E q \in Questions, a \in Answers : AddAssociation(q, a)
    \/ ClearExamples
    \/ \E n \in 0..MaxGenerations : StartTick(n)
    \/ Generation
    \/ EndTick
    \/ \E g \in Genes, delta \in {-1, 1} : Feedback(g, delta)

Spec == Init /\ [][Next]_vars

-----------------------------------------------------------------------------
TypeOK ==
    /\ formulas \in [1..Count -> Formula]
    /\ \A i \in 1..Count : formulas[i].fitness >= 0 /\ Len(formulas[i].assocs) <= FormulaLimit
    /\ examples \in 0..MaxExamples
    /\ associations \in Seq(Association)
    /\ Len(associations) <= PoolLimit
    /\ phase \in {"idle", "evolving"}
    /\ left \in Nat
    /\ told \in Nat /\ ticks \in Nat /\ marks \in Nat

\* kf_pool_best takes the first formula: it is one of the fittest whatever
\* mixture of ticks and feedback came before.
BestFirst == phase = "idle" => Ranked(formulas)

\* Through updates and evictions no question is ever held twice: a second
\* entry would hide the newer answer behind the older one.
OneAnswerPerQuestion ==
    \A i, j \in DOMAIN associations : associations[i].q = associations[j].q => i = j

\* Once a generation has run, no fitness is above 1.0, although feedback may have
\* raised one further before.
Settled == phase = "evolving" /\ left = 0 => \A i \in 1..Count : formulas[i].fitness <= Scale

\* The formulas are ranked in the middle of a tick as well: children, who come in
\* with no fitness, stand behind the elite.
IInv == TypeOK /\ Ranked(formulas) /\ Settled /\ OneAnswerPerQuestion

MaxOf(s) == CHOOSE m \in {Evaluated(s[i]) : i \in 1..Count} :
    \A i \in 1..Count : Evaluated(s[i]) <= m

\* A generation never loses ground: as long as the examples and the feedback
\* stay, the best a formula of the pool achieves does not get worse, although
\* two thirds of the pool are overwritten.
NeverWorse ==
    [][examples' = examples /\ marks' = marks => MaxOf(formulas)' >= MaxOf(formulas)]_vars

\* After a tick one of the formulas kf_pool_best may name knows the pool's
\* associations, up to the number a formula holds.
BestLearns ==
    [][phase = "evolving" /\ phase' = "idle" /\ associations # <<>> =>
        \E i \in 1..Count :
            /\ formulas'[i].assocs = Dataset
            /\ formulas'[i].fitness = formulas'[1].fitness]_vars
=============================================================================
