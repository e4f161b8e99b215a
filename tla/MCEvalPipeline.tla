--------------------------- MODULE MCEvalPipeline ---------------------------
(* Instances of EvalPipeline for TLC. *)
EXTENDS EvalPipeline, TLC

\* Each payload brings one advisory of its own: evaluating old data shows.
MCReport(j, y) == {j, y}

MCSymmetry == Permutations(Readers) \union Permutations(Evaluators)
=============================================================================
