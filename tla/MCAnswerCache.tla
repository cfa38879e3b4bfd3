---------------------------- MODULE MCAnswerCache ----------------------------
EXTENDS AnswerCache, TLC

CONSTANTS r1, r2, hr

\* One row in General and one in the collection hr; a member who sees General, and
\* a publishable key scoped to hr.
CollOf == [r \in Rows |-> IF r = r1 THEN General ELSE hr]
Callers == {Narrow(Everything, {General}), Narrow(Everything, {hr})}

Symmetry == Permutations(Queries) \cup Permutations(Changes)
=============================================================================
