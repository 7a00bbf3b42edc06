--------------------------- MODULE MCKolibriNode ---------------------------
(* Instances, for TLC, of a node and of the exchange of genes between nodes  *)
(* and coordinator.  The first state chooses which of the two runs; the     *)
(* other one rests.                                                         *)
EXTENDS KolibriNode, GeneExchange

CONSTANTS n1, n2

VARIABLE part

allVars == <<nodeVars, exchangeVars, part>>

PartInit == part \in {"node", "exchange"} /\ NodeInit /\ ExchangeInit

PartNext ==
    \/ part = "node" /\ NodeNext /\ UNCHANGED <<exchangeVars, part>>
    \/ part = "exchange" /\ ExchangeNext /\ UNCHANGED <<nodeVars, part>>

InExchange(A) == part = "exchange" /\ A /\ UNCHANGED <<nodeVars, part>>

\* ExchangeFairness, of the exchange while it is the part that runs.
PartFairness ==
    /\ \A p \in Processes : WF_allVars(InExchange(Step(p)))
    /\ WF_allVars(InExchange(CoordinatorStep)) /\ WF_allVars(InExchange(Broadcast))
    /\ \A n \in Nodes : WF_allVars(InExchange(ImportRule(n)))

PartSpec == PartInit /\ [][PartNext]_allVars /\ PartFairness

-----------------------------------------------------------------------------
(* Values of the constants *)

BinaryDigits == {0, 1}

\* <<1>> is the better gene.
OneBetter == [n \in 0..MaxExamples |-> [g \in Genes |-> IF n = 0 THEN 0 ELSE g[1]]]

OneSeed == {[i \in 1..Count |-> <<IF i = 1 THEN 0 ELSE 1>>]}

\* A gene answers with its own digit.
OwnDigit == [g \in Genes |-> [x \in Inputs |-> g[1]]]

BetterGene == {<<1>>}

\* Every node is a target and shares with the coordinator, as scripts/run_cluster.sh
\* starts them.
BothNodes == <<n1, n2>>
Star == [n \in Nodes |-> Coordinator]

\* The second node claims to have the better gene.
EachItsOwn == [n \in Nodes |-> IF n = n1 THEN {[gene |-> 1, fitness |-> 1]}
                                         ELSE {[gene |-> 2, fitness |-> 2]}]
=============================================================================
