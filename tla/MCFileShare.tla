----------------------------- MODULE MCFileShare ----------------------------
EXTENDS FileShare, TLC

Symmetry == Permutations(Slots) \cup Permutations(Tokens)

=============================================================================
