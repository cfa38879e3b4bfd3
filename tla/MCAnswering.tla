---------------------------- MODULE MCAnswering ----------------------------
(* Three configured providers of which two are set up; the number no passage *)
(* has stands for ordinary text as well.                                     *)
EXTENDS Answering, TLC

MCConfigured == <<"openai", "gemini", "openai", "ollama">>

Symmetry == Permutations(Req) \cup Permutations(Owners)

Begun == {r \in Req : ask[r] # Idle}

\* One text may outgrow what is held back; texts side by side are short.
ShortTexts == produced <= IF Cardinality(Begun) > 1 THEN 2 ELSE 5
=============================================================================
