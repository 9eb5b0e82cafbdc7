--------------------------- MODULE MCProviderPool ---------------------------
\* Instances of ProviderPool for TLC. The callers of one kind are
\* interchangeable; a symmetry set is used in the safety runs only.
EXTENDS ProviderPool, TLC

CallerSymmetry == Permutations(Removers) \cup Permutations(Adders)
=============================================================================
