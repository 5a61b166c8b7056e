---------------------------- MODULE MCHousehold -----------------------------
EXTENDS Household, TLC
CONSTANTS s1, s2, g1, g2, n1, n2
Alike == Permutations(Shutters) \cup Permutations(Groups) \cup Permutations(GroupNames)
=============================================================================
