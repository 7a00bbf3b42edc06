------------------------------ MODULE MCGenome ------------------------------
(* Instances of Genome for TLC. *)
EXTENDS GenomeRefinement

CONSTANTS h1, h2, k1, k2

\* Both contexts sign with one key, as the nodes of one cluster do.
OneKey == [h \in Handles |-> k1]

\* A second process was given another key.
TwoKeys == [h \in Handles |-> IF h = h1 THEN k1 ELSE k2]
=============================================================================
