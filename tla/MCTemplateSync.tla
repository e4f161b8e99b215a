--------------------------- MODULE MCTemplateSync ---------------------------
EXTENDS TemplateSync, TLC

MCSymmetry == Permutations(Requests) \union Permutations(Readers) \union Permutations(Evaluators)
=============================================================================
