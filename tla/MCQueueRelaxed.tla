-------------------------- MODULE MCQueueRelaxed --------------------------
EXTENDS OPA_QueueRelaxed, TLC
Symmetry == Permutations(Producers) \cup Permutations(Elements)
===========================================================================
