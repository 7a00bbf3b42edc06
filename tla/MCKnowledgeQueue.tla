-------------------------- MODULE MCKnowledgeQueue --------------------------
(* Instances of KnowledgeQueue for TLC. *)
EXTENDS KnowledgeQueue
=============================================================================
