----------------------------- MODULE KolibriScript -----------------------------
(***************************************************************************)
(* backend/src/script.c: the interpreter of KolibriScript, over the          *)
(* associations of a formula pool.  A script is statements statement by           *)
(* statement, since nothing in it looks ahead; todo holds what is left of the *)
(* statement at work: the rest of a branch or of a loop.                     *)
(*                                                                         *)
(* A text is a sequence of words, none of them part of another.  A literal in  *)
(* quotes keeps its doubled spaces: a word in Spaced has more than one behind   *)
(* it.  Texts fit their buffers, memory suffices, and letters are those that   *)
(* toupper leaves alone, the Cyrillic ones.  Which formula comes first, and its  *)
(* fitness, is FormulaPool's matter: here it is any that the pool has had       *)
(* copied associations into.                                                 *)
(***************************************************************************)
EXTENDS Integers, Sequences

CONSTANTS
    Statements,     \* what scripts are made of, as the parser builds them
    AllStatements,  \* these, those of their blocks, and loops at work
    Numerals,       \* words that are numbers, and their numbers
    Spaced,         \* words with doubled spaces behind them, and the bare words
    Sums,           \* questions the calculator can answer, and its answers
    Generated,      \* the text made of a gene
    Fitness,        \* numbers a formula's fitness may be
    LoopLimit,      \* KOLIBRI_MAX_LOOP_ITERATIONS, 1024
    PoolRoom,       \* KOLIBRI_POOL_MAX_ASSOCIATIONS, 512
    CopyRoom,       \* associations a formula takes, 320
    TokenRoom,      \* words of a question that n-grams are made of, 32
    MaxGiven, MaxScripts    \* bounds: statements of all scripts, scripts

\* Texts are sequences of whatever words there are.
IsText(s) == s \in Seq({s[i] : i \in DOMAIN s})

\* What the parser makes sure of.
WellFormed(s) ==
    /\ s.do \in {"let", "mode", "evaluate", "verify"} => IsText(s.value)
    /\ s.do = "teach" => IsText(s.left) /\ IsText(s.right)
    /\ s.do = "if" => s.then \in Seq(AllStatements) /\ s.else \in Seq(AllStatements)
    /\ s.do = "while" => s.body \in Seq(AllStatements)
    /\ s.do = "while" /\ s.times < LoopLimit => [s EXCEPT !.times = @ + 1] \in AllStatements

ASSUME ScriptAssumption ==
    /\ Statements \subseteq AllStatements /\ \A s \in AllStatements : WellFormed(s)
    /\ IsText(Generated) /\ \A q \in DOMAIN Sums : IsText(Sums[q])
    /\ LoopLimit \in Nat \ {0} /\ PoolRoom \in Nat \ {0} /\ CopyRoom \in Nat /\ TokenRoom \in Nat
    /\ \E w \in DOMAIN Numerals : Numerals[w] = 0
    /\ MaxGiven \in Nat /\ MaxScripts \in Nat

VARIABLES
    status,         \* "idle", "running", "done" or "failed"
    todo,           \* statements still to do, before the next one of the script
    statements,          \* statements so far
    scripts,        \* scripts so far
    values,         \* the variables: a function from the names there are
    bound,          \* last_fitness, by the names of formulas
    mode,
    crystal,        \* the hashes, and the answer to verify
    known,          \* associations of the pool: [question, answer, source]
    copies,         \* what formulas hold: sequences of associations
    best,           \* what formulas[0] holds
    fit,            \* and its fitness
    chain,          \* history: what this run taught, evaluated and verified
    lessons,        \* history: questions taught and still in the pool
    misread         \* history: n-grams of doubly spaced questions guessed since they were taught

scriptVars == <<status, todo, statements, scripts, values, bound, mode, crystal,
                known, copies, best, fit, chain, lessons, misread>>
ofRun == <<values, bound, mode, crystal, chain>>
ofPool == <<known, copies, best, fit, lessons, misread>>

NoHash == <<>>
Blank == [taught |-> NoHash, evaluated |-> NoHash, answer |-> <<>>]
None == [x \in {} |-> 0]
With(f, x, v) == [y \in DOMAIN f \cup {x} |-> IF y = x THEN v ELSE f[y]]
Without(f, x) == [y \in DOMAIN f \ {x} |-> f[y]]

Number(n) == [is |-> "number", n |-> n]
Text(words) == [is |-> "text", words |-> words]

\* kolibri_evaluate_expression: the quotes of a literal are gone by now, so that it may
\* name a variable, or be a fitness or a number, of which the empty text is one.
Value(words) ==
    IF Len(words) = 1 /\ words[1] \in DOMAIN values THEN values[words[1]]
    ELSE IF words # <<>> /\ words[1] = "fitness"
    THEN Number(IF Len(words) = 2 /\ words[2] \in DOMAIN bound THEN bound[words[2]] ELSE 0)
    ELSE IF words = <<>> THEN Number(0)
    ELSE IF Len(words) = 1 /\ words[1] \in DOMAIN Numerals THEN Number(Numerals[words[1]])
    ELSE Text(words)

\* kolibri_value_to_string, kolibri_value_to_number.
AsText(v) ==
    IF v.is = "text" THEN v.words
    ELSE <<CHOOSE w \in DOMAIN Numerals : Numerals[w] = v.n>>

IsNumber(v) ==
    v.is = "number" \/ (v.is = "text" /\ Len(v.words) = 1 /\ v.words[1] \in DOMAIN Numerals)

AsNumber(v) == IF v.is = "number" THEN v.n ELSE Numerals[v.words[1]]

\* kolibri_evaluate_condition: the first of these that occurs, where it first occurs.
Comparators == <<">=", "<=", "==", "!=", ">", "<">>

Compared(cond) ==
    LET occurring == {k \in DOMAIN Comparators : \E i \in DOMAIN cond : cond[i] = Comparators[k]}
        op == Comparators[CHOOSE k \in occurring : \A j \in occurring : k <= j]
        at == CHOOSE i \in DOMAIN cond : cond[i] = op /\ \A j \in 1..i - 1 : cond[j] # op
    IN  IF occurring = {} THEN <<>>
        ELSE <<Value(SubSeq(cond, 1, at - 1)), op, Value(SubSeq(cond, at + 1, Len(cond)))>>

HasTruth(cond) ==
    LET c == Compared(cond) IN c # <<>> /\ IsNumber(c[1]) /\ IsNumber(c[3])

IsTrue(cond) ==
    LET op == Compared(cond)[2]
        l == AsNumber(Compared(cond)[1])
        r == AsNumber(Compared(cond)[3])
    IN  CASE op = ">=" -> l >= r [] op = "<=" -> l <= r [] op = "==" -> l = r
          [] op = "!=" -> l # r  [] op = ">" -> l > r   [] op = "<" -> l < r

-----------------------------------------------------------------------------
\* The pool.

At(pool, q) == {i \in DOMAIN pool : pool[i].question = q}

\* kf_pool_add_association.
Learned(pool, a) ==
    IF At(pool, a.question) # {}
    THEN [i \in DOMAIN pool |-> IF pool[i].question = a.question THEN a ELSE pool[i]]
    ELSE IF Len(pool) >= PoolRoom THEN Append(Tail(pool), a) ELSE Append(pool, a)

\* kolibri_trim_spaces: one space between words.
Unspaced(w) == IF w \in DOMAIN Spaced THEN Spaced[w] ELSE w
Squeezed(q) == [i \in 1..Len(q) |-> Unspaced(q[i])]

\* kolibri_record_ngrams: every two and every three words in a row, of the first TokenRoom
\* and without doubled spaces.
Runs(q, n) == [i \in 1..(IF Len(q) < n THEN 0 ELSE Len(q) - n + 1) |-> SubSeq(q, i, i + n - 1)]
Tokens(q) == SubSeq(Squeezed(q), 1, IF Len(q) < TokenRoom THEN Len(q) ELSE TokenRoom)
NGrams(q) == IF Len(Tokens(q)) < 2 THEN <<>> ELSE Runs(Tokens(q), 2) \o Runs(Tokens(q), 3)

\* The question, then its n-grams, all with the same answer.
Entry(q, answer, source) == [question |-> q, answer |-> answer, source |-> source]

LearnedWithNGrams(pool, q, answer, source) ==
    LET all == <<q>> \o NGrams(q)
        upto[i \in 0..Len(all)] ==
            IF i = 0 THEN pool ELSE Learned(upto[i - 1], Entry(all[i], answer, source))
    IN  upto[Len(all)]

\* strstr: p occurs in q, spaces and all, but for those behind its last word.
Inside(p, q) ==
    \E i \in 1..Len(q) + 1 - Len(p) :
        LET part == SubSeq(q, i, i + Len(p) - 1)
        IN  part = p \/ [part EXCEPT ![Len(p)] = Unspaced(@)] = p

\* kolibri_find_partial_association: the longest, and of those the first.
Near(pool, q) == {i \in DOMAIN pool : Inside(pool[i].question, q) \/ Inside(q, pool[i].question)}

Partial(pool, q) ==
    {i \in Near(pool, q) : \A j \in Near(pool, q) :
        \/ Len(pool[j].question) < Len(pool[i].question)
        \/ Len(pool[j].question) = Len(pool[i].question) /\ j >= i}

\* kf_pool_tick copies the associations into the best formulas; which one comes first
\* then is not told here.
Copy(pool) == SubSeq(pool, 1, IF Len(pool) < CopyRoom THEN Len(pool) ELSE CopyRoom)

\* kolibri_clean_answer, kolibri_apply_mode.
Said(words) ==
    LET bare == Squeezed(words)
        clean == IF bare = <<>> \/ bare[Len(bare)] = "." THEN bare ELSE Append(bare, ".")
    IN  IF mode = "journal" /\ clean # <<>> THEN <<"Journal:">> \o clean ELSE clean

-----------------------------------------------------------------------------
ScriptInit ==
    /\ status = "idle" /\ todo = <<>> /\ statements = 0 /\ scripts = 0
    /\ values = None /\ bound = None /\ mode = "neutral" /\ crystal = Blank
    /\ known = <<>> /\ copies = {<<>>} /\ best = <<>> /\ fit \in Fitness
    /\ chain = <<>> /\ lessons = {} /\ misread = {}

\* ks_execute resets the interpreter, whatever the source is like.
StartScript ==
    /\ status # "running" /\ scripts < MaxScripts
    /\ scripts' = scripts + 1
    /\ values' = None /\ bound' = None /\ mode' = "neutral" /\ crystal' = Blank
    /\ chain' = <<>>
    /\ status' \in {"running", "failed"}    \* "failed": a diagnostic of the lexer or parser
    /\ UNCHANGED <<todo, statements, ofPool>>

EndScript ==
    /\ status = "running" /\ todo = <<>>
    /\ status' = "done"
    /\ UNCHANGED <<todo, statements, scripts, ofRun, ofPool>>

\* Statement s comes up, from the script or from what was begun.
ComesUp(s) ==
    /\ status = "running"
    /\ \/ todo # <<>> /\ s = Head(todo) /\ statements' = statements
       \/ todo = <<>> /\ statements < MaxGiven /\ s \in Statements /\ statements' = statements + 1
    /\ UNCHANGED scripts

Rest == IF todo = <<>> THEN <<>> ELSE Tail(todo)
Goes == todo' = Rest /\ status' = status
Fails == todo' = <<>> /\ status' = "failed"

\* show, print the canvas, send to the swarm: they change nothing here.
Say(s) ==
    /\ s.do \in {"show", "canvas", "swarm"} /\ ComesUp(s) /\ Goes
    /\ UNCHANGED <<ofRun, ofPool>>

SetVariable(s) ==
    /\ s.do = "let" /\ ComesUp(s) /\ Goes
    /\ values' = With(values, s.name, Value(s.value))
    /\ UNCHANGED <<bound, mode, crystal, chain, ofPool>>

\* A mode is one word here.
SetMode(s) ==
    /\ s.do = "mode" /\ ComesUp(s) /\ Goes
    /\ LET words == AsText(Value(s.value))
       IN  mode' = words[1]
    /\ UNCHANGED <<values, bound, crystal, chain, ofPool>>

\* kolibri_script_log: an event whose payload three digits to the byte and the zero at the
\* end do not fit in KOLIBRI_PAYLOAD_SIZE is not recorded, and no one is told.
PayloadSize == 256
StageBytes == [teach |-> 81, evaluate |-> 84, verify |-> 92]    \* 94 if it fails
HasRoom(stage) == 3 * StageBytes[stage] + 1 <= PayloadSize

QuestionsOf(pool) == {pool[i].question : i \in DOMAIN pool}

\* Mutant of AfterLesson: a lesson leaves the last answer to be verified.
MutAfterLesson(hash) == [crystal EXCEPT !.taught = hash]

AfterLesson(hash) == [crystal EXCEPT !.taught = hash, !.evaluated = NoHash]

Grams(q) == {NGrams(q)[i] : i \in DOMAIN NGrams(q)}

TeachLink(s) ==
    LET q == AsText(Value(s.left))
        a == AsText(Value(s.right))
        hash == <<"teach", q, a>>
    IN  /\ s.do = "teach" /\ ComesUp(s) /\ Goes
        /\ crystal' = AfterLesson(hash)
        /\ chain' = Append(chain, [stage |-> "teach", hash |-> hash, recorded |-> HasRoom("teach")])
        /\ known' = LearnedWithNGrams(known, q, a, "teach")
        /\ lessons' = (lessons \cup {q} \cup Grams(q)) \cap QuestionsOf(known')
        /\ misread' = misread \ ({q} \cup Grams(q))
        /\ UNCHANGED <<values, bound, mode, copies, best, fit>>

\* kolibri_script_bind_formula; a name that is bound is bound anew.
CreateFormula(s) ==
    /\ s.do = "create" /\ ComesUp(s) /\ Goes
    /\ bound' = With(bound, s.name, 0)
    /\ UNCHANGED <<values, mode, crystal, chain, ofPool>>

\* What the first formula answers: its own copy, else the nearest association of the
\* pool, else the calculator, else text made of the gene.  "made" is learned.
Answer(q) ==
    IF At(best, q) # {} THEN [words |-> best[CHOOSE i \in At(best, q) : TRUE].answer, made |-> FALSE]
    ELSE IF Partial(known, q) # {}
    THEN [words |-> known[CHOOSE i \in Partial(known, q) : TRUE].answer, made |-> FALSE]
    ELSE IF q \in DOMAIN Sums THEN [words |-> Sums[q], made |-> FALSE]
    ELSE [words |-> Generated, made |-> TRUE]

EvaluateFormula(s) ==
    LET q == AsText(Value(s.value))
        a == Answer(q)
        hash == <<"evaluate", crystal.taught, q, Said(a.words)>>
    IN  /\ s.do = "evaluate" /\ s.name \in DOMAIN bound /\ ComesUp(s) /\ Goes
        /\ known' = IF a.made THEN LearnedWithNGrams(known, q, a.words, "auto") ELSE known
        /\ lessons' = lessons \cap QuestionsOf(known')
        /\ misread' = IF a.made /\ q # Squeezed(q) THEN misread \cup Grams(q) ELSE misread
        /\ bound' = With(bound, s.name, fit)
        /\ crystal' = [crystal EXCEPT !.evaluated = hash, !.answer = Said(a.words)]
        /\ chain' = Append(chain, [stage |-> "evaluate", hash |-> hash, recorded |-> HasRoom("evaluate")])
        /\ values' = With(values, "itog", Text(Said(a.words)))
        /\ UNCHANGED <<mode, copies, best, fit>>

SaveFormula(s) ==
    /\ s.do = "save" /\ s.name \in DOMAIN bound /\ ComesUp(s) /\ Goes
    /\ UNCHANGED <<ofRun, ofPool>>

DropFormula(s) ==
    /\ s.do = "drop" /\ s.name \in DOMAIN bound /\ ComesUp(s) /\ Goes
    /\ bound' = Without(bound, s.name)
    /\ UNCHANGED <<values, mode, crystal, chain, ofPool>>

\* Those three know no other name.
UnknownFormula(s) ==
    /\ s.do \in {"evaluate", "save", "drop"} /\ s.name \notin DOMAIN bound /\ ComesUp(s) /\ Fails
    /\ UNCHANGED <<ofRun, ofPool>>

CallEvolution(s) ==
    /\ s.do = "evolve" /\ ComesUp(s) /\ Goes
    /\ copies' = IF known = <<>> THEN copies ELSE copies \cup {Copy(known)}
    /\ best' \in copies' /\ fit' \in Fitness
    /\ UNCHANGED <<known, lessons, misread, ofRun>>

\* verify: the answer is compared, and its crystal closed.
Verified(s) == AsText(Value(s.value)) = crystal.answer

VerifyAnswer(s) ==
    /\ s.do = "verify" /\ crystal.evaluated # NoHash /\ ComesUp(s)
    /\ chain' = Append(chain, [stage |-> "verify", ok |-> Verified(s),
                               hash |-> crystal.evaluated, said |-> AsText(Value(s.value)),
                               recorded |-> HasRoom("verify")])
    /\ IF Verified(s) THEN Goes /\ crystal' = Blank ELSE Fails /\ UNCHANGED crystal
    /\ UNCHANGED <<values, bound, mode, ofPool>>

NothingToVerify(s) ==
    /\ s.do = "verify" /\ crystal.evaluated = NoHash /\ ComesUp(s) /\ Fails
    /\ UNCHANGED <<ofRun, ofPool>>

Branch(s) ==
    /\ s.do = "if" /\ HasTruth(s.cond) /\ ComesUp(s)
    /\ todo' = (IF IsTrue(s.cond) THEN s.then ELSE s.else) \o Rest
    /\ UNCHANGED <<status, ofRun, ofPool>>

\* while: times counts the iterations; a loop that comes to the limit fails, even when
\* its condition has just turned false.
Loop(s) ==
    /\ s.do = "while" /\ s.times < LoopLimit /\ HasTruth(s.cond) /\ ComesUp(s)
    /\ todo' = IF IsTrue(s.cond) THEN s.body \o <<[s EXCEPT !.times = @ + 1]>> \o Rest ELSE Rest
    /\ UNCHANGED <<status, ofRun, ofPool>>

TooManyLoops(s) ==
    /\ s.do = "while" /\ s.times >= LoopLimit /\ ComesUp(s) /\ Fails
    /\ UNCHANGED <<ofRun, ofPool>>

NoTruth(s) ==
    /\ s.do = "if" \/ (s.do = "while" /\ s.times < LoopLimit)
    /\ ~HasTruth(s.cond) /\ ComesUp(s) /\ Fails
    /\ UNCHANGED <<ofRun, ofPool>>

Execute(s) ==
    \/ Say(s) \/ SetVariable(s) \/ SetMode(s) \/ TeachLink(s)
    \/ CreateFormula(s) \/ EvaluateFormula(s) \/ SaveFormula(s) \/ DropFormula(s)
    \/ UnknownFormula(s) \/ CallEvolution(s) \/ VerifyAnswer(s) \/ NothingToVerify(s)
    \/ Branch(s) \/ Loop(s) \/ TooManyLoops(s) \/ NoTruth(s)

ScriptNext ==
    \/ StartScript \/ EndScript
    \/ \E s \in Statements \cup {todo[i] : i \in DOMAIN todo} : Execute(s)

ScriptSpec == ScriptInit /\ [][ScriptNext]_scriptVars

-----------------------------------------------------------------------------
\* The hash of the lesson that was the last one before event i, if no answer has been
\* verified since.
LessonBefore(events, i) ==
    LET before == {j \in 1..i - 1 : events[j].stage # "evaluate"}
        last == CHOOSE j \in before : \A k \in before : k <= j
    IN  IF before = {} \/ events[last].stage = "verify" THEN NoHash ELSE events[last].hash

\* A verification that succeeds confirms the answer of what the script did just before of
\* the three, an evaluation, word for word, and nothing else is ever confirmed: no
\* answer twice, none from before a lesson or from another script.  The hash of each
\* evaluation is linked to the last lesson of its script, unless a verification has
\* closed that one's crystal.
CrystalIsLinked ==
    \A i \in DOMAIN chain :
        CASE chain[i].stage = "verify" ->
                /\ i > 1 /\ chain[i - 1].stage = "evaluate"
                /\ chain[i].hash = chain[i - 1].hash
                /\ chain[i].ok <=> chain[i].said = chain[i].hash[4]
          [] chain[i].stage = "evaluate" -> chain[i].hash[2] = LessonBefore(chain, i)
          [] OTHER -> TRUE

\* Text that the interpreter makes up is learned like a lesson, under all n-grams of the
\* question, and takes the place of a lesson only where the question was written with
\* doubled spaces, so that what was taught was not found in it: whatever scripts ran, a
\* question that was taught and is in the pool has a lesson's answer, or is an n-gram of
\* such a question, guessed since.
OnlySpacingLosesLessons ==
    \A i \in DOMAIN known :
        known[i].question \in lessons \ misread => known[i].source = "teach"

ScriptsKeepFaith == CrystalIsLinked /\ OnlySpacingLosesLessons

\* What tests/test_script.c:115 asserts: a verification that succeeds is in the genome.
VerificationsAreRecorded ==
    \A i \in DOMAIN chain : chain[i].stage = "verify" /\ chain[i].ok => chain[i].recorded

-----------------------------------------------------------------------------
(* Why: the inductive invariant *)

\* An association's texts.
IsEntry(a) == IsText(a.question) /\ IsText(a.answer)
PoolIsFine(pool) == IsText(pool) /\ \A i \in DOMAIN pool : IsEntry(pool[i])

\* While a script runs its crystal is that of the last lesson, and an answer that waits to
\* be verified is that of the last event.
CrystalOfScript ==
    /\ crystal = [taught |-> crystal.taught, evaluated |-> crystal.evaluated, answer |-> crystal.answer]
    /\ status = "running" =>
        /\ crystal.taught = LessonBefore(chain, Len(chain) + 1)
        /\ crystal.evaluated # NoHash =>
            /\ chain # <<>> /\ chain[Len(chain)].stage = "evaluate"
            /\ chain[Len(chain)].hash = crystal.evaluated /\ crystal.answer = crystal.evaluated[4]

CrystalInv == IsText(chain) /\ CrystalOfScript /\ CrystalIsLinked

\* A question that is a lesson's is in the pool, which is what keeps guesses from it.
PoolInv ==
    /\ PoolIsFine(known) /\ best \in copies /\ \A c \in copies : PoolIsFine(c)
    /\ lessons \subseteq QuestionsOf(known) /\ OnlySpacingLosesLessons

TextsInv ==
    /\ todo \in Seq(AllStatements)
    /\ \A x \in DOMAIN values : values[x].is = "text" => IsText(values[x].words)

ScriptInv == TextsInv /\ PoolInv /\ CrystalInv
=============================================================================
