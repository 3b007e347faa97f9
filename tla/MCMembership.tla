---------------------------- MODULE MCMembership ----------------------------
EXTENDS Membership, TLC
CONSTANTS n1, n2, n3
Two == {n1, n2}
Three == {n1, n2, n3}
One == {n1}
Last == {n3}
Swap == Permutations(Founders) \cup Permutations(Nodes \ Founders)
=============================================================================
