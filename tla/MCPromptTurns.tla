--------------------------- MODULE MCPromptTurns ---------------------------
\* Instances of PromptTurns for TLC.
EXTENDS PromptTurns, TLC

\* No prompt differs from another: for runs of invariants.
PromptSymmetry == Permutations(Prompts)
=============================================================================
