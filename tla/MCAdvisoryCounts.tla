-------------------------- MODULE MCAdvisoryCounts --------------------------
(* Instances of AdvisoryCounts for TLC. *)
EXTENDS AdvisoryCounts, TLC

MCSymmetry == Permutations(Evaluators) \union Permutations(Systems)
=============================================================================
