---------------------------- MODULE MCCollections ----------------------------
EXTENDS Collections, TLC

\* The processes that serve write requests are interchangeable.
Symmetry == Permutations(Editors)
=============================================================================
