----------------------------- MODULE MCMetering -----------------------------
(* Plans of one and two queries per window, two requests at a time.          *)
EXTENDS Metering, TLC

MCRate == [p \in AllPlans |-> IF p = "free" THEN 1 ELSE 2]
MCTokens == [p \in AllPlans |-> IF p = "free" THEN 1 ELSE 2]
MCStorage == [p \in AllPlans |-> 1]

Symmetry == Permutations(Slots) \cup Permutations(Hooks) \cup Permutations(Req)
=============================================================================
