---------------------------- MODULE MCKnowledge ----------------------------
(* Instances, for TLC, of the two programs that carry knowledge on: the     *)
(* pipeline of moderated texts and the relay of events.  The first state     *)
(* chooses which of the two runs; the other one rests.                      *)
EXTENDS KnowledgeQueue, KnowledgeRelay

CONSTANTS t1, t2

VARIABLE part

allVars == <<vars, relayVars, part>>

PartInit == part \in {"queue", "relay"} /\ Init /\ RelayInit

PartNext ==
    \/ part = "queue" /\ Next /\ UNCHANGED <<relayVars, part>>
    \/ part = "relay" /\ RelayNext /\ UNCHANGED <<vars, part>>

PartFairness ==
    /\ WF_allVars(part = "queue" /\ PipelineStep /\ UNCHANGED <<relayVars, part>>)
    /\ WF_allVars(part = "queue" /\ (Commit \/ RollBack) /\ UNCHANGED <<relayVars, part>>)
    /\ WF_allVars(part = "relay" /\ RelayStep /\ UNCHANGED <<vars, part>>)

PartSpec == PartInit /\ [][PartNext]_allVars /\ PartFairness
=============================================================================
