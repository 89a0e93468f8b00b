------------------------------ MODULE MCMultiRPC ------------------------------
EXTENDS MultiRPC, TLC

MCAffinities == {1}

MCSymmetry == Permutations(Servers)

=============================================================================
