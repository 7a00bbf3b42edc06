-------------------------- MODULE MCKnowledgeRelay --------------------------
(* Instances of KnowledgeRelay for TLC. *)
EXTENDS KnowledgeRelay

CONSTANTS t1, t2
=============================================================================
