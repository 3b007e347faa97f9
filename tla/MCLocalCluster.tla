--------------------------- MODULE MCLocalCluster ---------------------------
EXTENDS LocalCluster, TLC
CONSTANTS p1, p2, p3
Two == {p1, p2}
Three == {p1, p2, p3}
Later == {p1}
Swap == Permutations(Members) \cup Permutations(Procs \ Members)
=============================================================================
