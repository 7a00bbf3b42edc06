----------------------------- MODULE MCServices -----------------------------
(* Instances, for TLC, of parts that share no state with each other: the     *)
(* pool of formulas, the event queue of a swarm node, the archiver, the      *)
(* symbol table, the journals of the simulation, the cloud storage, the      *)
(* Python swarm and its ledger, the parser and the interpreter of scripts,   *)
(* the search of the index, the knowledge server and the feedback service.   *)
(* The first state chooses which of them runs; the others rest in one        *)
(* initial state.                                                            *)
EXTENDS FormulaPool, RoyQueue, Archiver, SymbolTable, SimLog, CloudStorage, PythonSwarm, Ledger,
        ScriptParser, KolibriScript, KnowledgeServer, FeedbackService, TLC

CONSTANTS e1, e2, none, w1, w2, torn, nouser, s1, s2, k1, k2, p1, p2

VARIABLE part

Parts == {"pool", "queue", "archiver", "symbols", "sim", "cloud", "swarm", "ledger",
          "parser", "script", "search", "server", "feedback"}

ServicesInit ==
    /\ part \in Parts
    /\ Init /\ QueueInit /\ ArchiverInit /\ SymbolInit /\ SimInit /\ CloudInit /\ PyInit
    /\ LedgerInit /\ ParserInit /\ ScriptInit /\ SearchInit /\ ServerInit /\ FeedbackInit
    /\ part # "symbols" => former = <<>>
    /\ part # "parser" => program = <<>>
    /\ part # "script" => fit = CHOOSE n \in Fitness : TRUE
    /\ part # "search" => (\A d \in SearchDocs : scores[d] = 0) /\ limit = CHOOSE n \in SearchLimits : TRUE

ServicesNext ==
    \/ part = "pool" /\ Next
       /\ UNCHANGED <<part, queueVars, archiverVars, symbolVars, simVars, cloudVars, pyVars, ledgerVars,
                      parserVars, scriptVars, searchVars, serverVars, feedbackVars>>
    \/ part = "queue" /\ QueueNext
       /\ UNCHANGED <<part, vars, archiverVars, symbolVars, simVars, cloudVars, pyVars, ledgerVars,
                      parserVars, scriptVars, searchVars, serverVars, feedbackVars>>
    \/ part = "archiver" /\ ArchiverNext
       /\ UNCHANGED <<part, vars, queueVars, symbolVars, simVars, cloudVars, pyVars, ledgerVars,
                      parserVars, scriptVars, searchVars, serverVars, feedbackVars>>
    \/ part = "symbols" /\ SymbolNext
       /\ UNCHANGED <<part, vars, queueVars, archiverVars, simVars, cloudVars, pyVars, ledgerVars,
                      parserVars, scriptVars, searchVars, serverVars, feedbackVars>>
    \/ part = "sim" /\ SimNext
       /\ UNCHANGED <<part, vars, queueVars, archiverVars, symbolVars, cloudVars, pyVars, ledgerVars,
                      parserVars, scriptVars, searchVars, serverVars, feedbackVars>>
    \/ part = "cloud" /\ CloudNext
       /\ UNCHANGED <<part, vars, queueVars, archiverVars, symbolVars, simVars, pyVars, ledgerVars,
                      parserVars, scriptVars, searchVars, serverVars, feedbackVars>>
    \/ part = "swarm" /\ PyNext
       /\ UNCHANGED <<part, vars, queueVars, archiverVars, symbolVars, simVars, cloudVars, ledgerVars,
                      parserVars, scriptVars, searchVars, serverVars, feedbackVars>>
    \/ part = "ledger" /\ LedgerNext
       /\ UNCHANGED <<part, vars, queueVars, archiverVars, symbolVars, simVars, cloudVars, pyVars,
                      parserVars, scriptVars, searchVars, serverVars, feedbackVars>>
    \/ part = "parser" /\ ParserNext
       /\ UNCHANGED <<part, vars, queueVars, archiverVars, symbolVars, simVars, cloudVars, pyVars,
                      ledgerVars, scriptVars, searchVars, serverVars, feedbackVars>>
    \/ part = "script" /\ ScriptNext
       /\ UNCHANGED <<part, vars, queueVars, archiverVars, symbolVars, simVars, cloudVars, pyVars,
                      ledgerVars, parserVars, searchVars, serverVars, feedbackVars>>
    \/ part = "search" /\ SearchNext
       /\ UNCHANGED <<part, vars, queueVars, archiverVars, symbolVars, simVars, cloudVars, pyVars,
                      ledgerVars, parserVars, scriptVars, serverVars, feedbackVars>>
    \/ part = "server" /\ ServerNext
       /\ UNCHANGED <<part, vars, queueVars, archiverVars, symbolVars, simVars, cloudVars, pyVars,
                      ledgerVars, parserVars, scriptVars, searchVars, feedbackVars>>
    \/ part = "feedback" /\ FeedbackNext
       /\ UNCHANGED <<part, vars, queueVars, archiverVars, symbolVars, simVars, cloudVars, pyVars,
                      ledgerVars, parserVars, scriptVars, searchVars, serverVars>>

ServicesSpec ==
    ServicesInit
    /\ [][ServicesNext]_<<part, vars, queueVars, archiverVars, symbolVars, simVars, cloudVars,
                          pyVars, ledgerVars, parserVars, scriptVars, searchVars, serverVars,
                          feedbackVars>>

-----------------------------------------------------------------------------
(* Values of the constants *)

BinaryDigits == {0, 1}

\* No part tells the pool's questions apart.
QuestionSymmetry == Permutations(Questions)

\* Genes that fit the examples differently, and differently as they grow.
AnyScore ==
    [n \in 0..MaxExamples |->
        [g \in Genes |-> IF n = 0 THEN 0 ELSE (2 * g[1] + n) % Scale]]

\* One seed: one gene drawn many times, the better one last.
OneSeed == {[i \in 1..Count |-> <<IF i = Count THEN 0 ELSE 1>>]}

ShortFiles == UNION {[1..n -> {0, 2, 3}] : n \in 0..6}
SomeFiles == {<<>>, <<1>>, <<0, 1, 2, 3, 0, 1>>, <<1, 1, 1>>}

SomeDefaults == <<"a", "b">>
SomeFormers == {<<>>, <<"c">>, <<"b", "c">>, <<"c", "d", "e">>, <<"e", "d", "c", "b">>}

NumeralWords == "0" :> 0 @@ "1" :> 1
Doubled == "a_" :> "a"
OneSum == <<"1", "+", "1">> :> <<"2">>
GeneText == <<"g">>

\* What scripts say: lessons of one and two words, one of them with the last answer,
\* and the questions, the loops and the branch of docs/kolibri_script.md.
SomeStatements ==
    {[do |-> "show", value |-> <<"itog">>],
     [do |-> "let", name |-> "x", value |-> <<"itog">>],
     [do |-> "mode", value |-> <<"journal">>],
     [do |-> "create", name |-> "f", value |-> <<"a">>],
     [do |-> "teach", left |-> <<"a", "b">>, right |-> <<"c">>],
     [do |-> "teach", left |-> <<"d", "e">>, right |-> <<"c">>],
     [do |-> "teach", left |-> <<"b">>, right |-> <<"x">>],
     [do |-> "verify", value |-> <<"c", ".">>],
     [do |-> "verify", value |-> <<"itog">>],
     [do |-> "while", times |-> 0, cond |-> <<"fitness", "f", "<", "1">>,
      body |-> <<[do |-> "evolve"], [do |-> "evaluate", name |-> "f", value |-> <<"b">>]>>],
     [do |-> "while", times |-> 0, cond |-> <<"x", "<", "1">>, body |-> <<[do |-> "evolve"]>>],
     [do |-> "if", cond |-> <<"fitness", "f", ">=", "1">>,
      then |-> <<[do |-> "save", name |-> "f"]>>, else |-> <<[do |-> "drop", name |-> "f"]>>]}
    \cup {[do |-> "evaluate", name |-> "f", value |-> q] :
            q \in {<<"a", "b">>, <<"d", "e">>, <<"a_", "b", "d", "e">>, <<"1", "+", "1">>}}

\* And what is in their blocks, and loops that have begun.
SomeBlocks ==
    SomeStatements
    \cup {[do |-> "evolve"], [do |-> "evaluate", name |-> "f", value |-> <<"b">>],
          [do |-> "save", name |-> "f"], [do |-> "drop", name |-> "f"]}
    \cup {[s EXCEPT !.times = n] : s \in {t \in SomeStatements : t.do = "while"}, n \in 1..LoopLimit}

\* Each form of statement, and nesting with and without an else.
SomePrograms ==
    {<<>>,
     <<[do |-> "show", value |-> <<"a", "b">>], [do |-> "canvas"],
       [do |-> "let", name |-> "x", value |-> <<"a", "b">>], [do |-> "mode", value |-> <<"x">>],
       [do |-> "swarm", name |-> "f"]>>,
     <<[do |-> "teach", left |-> <<"a", "b">>, right |-> <<"c">>],
       [do |-> "create", name |-> "f", value |-> <<"c">>],
       [do |-> "evaluate", name |-> "f", value |-> <<"a", "b">>],
       [do |-> "verify", value |-> <<"c", ".">>]>>,
     <<[do |-> "while", cond |-> <<"x", "<", "1">>,
        body |-> <<[do |-> "evolve"],
                   [do |-> "if", cond |-> <<"x", ">", "1">>, then |-> <<[do |-> "save", name |-> "f"]>>,
                    else |-> <<>>]>>],
       [do |-> "if", cond |-> <<"x", "<", "1">>, then |-> <<>>, else |-> <<[do |-> "drop", name |-> "f"]>>]>>}

TwoWords == "'a b'" :> <<"a", "b">>

\* The scores 2 and 3 are one float.
Floats == <<1, 2, 2>>

\* The second document is the best match of all, and its preview is long.
SomePreviews == <<1, 3, 1, 1>>
NothingLike == <<0, 0, 0, 0>>
AllAlike == <<1, 2, 1, 1>>

SomeRequests ==
    {[kind |-> "search", size |-> 1, limit |-> 9, scores |-> AllAlike],
     [kind |-> "search", size |-> 4, limit |-> 3, scores |-> AllAlike],
     [kind |-> "search", size |-> 0, limit |-> 3, scores |-> NothingLike],
     [kind |-> "search", size |-> 1, limit |-> 3, scores |-> NothingLike],
     [kind |-> "teach", size |-> 1, answer |-> 1], [kind |-> "teach", size |-> 2, answer |-> 2],
     [kind |-> "teach", size |-> 0, answer |-> 1],
     [kind |-> "feedback", size |-> 1, answer |-> 0],
     [kind |-> "other"], [kind |-> "silent"]}
=============================================================================
