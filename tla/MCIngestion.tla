---------------------------- MODULE MCIngestion ----------------------------
EXTENDS Ingestion, TLC

\* Processes, message ids and chunk batches are interchangeable.
Symmetry ==
    Permutations(Workers) \cup Permutations(Requests) \cup Permutations(Tasks)
    \cup Permutations(Batches)
=============================================================================
