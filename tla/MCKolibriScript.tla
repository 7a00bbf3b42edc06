--------------------------- MODULE MCKolibriScript ---------------------------
(* The statements of test_script_crystal_cycle in tests/test_script.c: a lesson, *)
(* a formula, the question of the lesson and its verification.               *)
EXTENDS KolibriScript, TLC

CycleStatements ==
    {[do |-> "teach", left |-> <<"hello">>, right |-> <<"greetings">>],
     [do |-> "create", name |-> "answer", value |-> <<"association">>],
     [do |-> "evaluate", name |-> "answer", value |-> <<"hello">>],
     [do |-> "verify", value |-> <<"greetings", ".">>]}

NumeralWords == "0" :> 0 @@ "1" :> 1
SingleSpaces == [w \in {} |-> w]
NoSums == [q \in {} |-> q]
GeneText == <<"gene">>
=============================================================================
