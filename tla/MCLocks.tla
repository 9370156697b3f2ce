------------------------------ MODULE MCLocks ------------------------------
EXTENDS RowLocks, TLC

MCAdded == [o \in Orders |-> IF o = 1 THEN <<1, 2>> ELSE <<2, 1>>]

MCListed == [o \in Orders |-> <<2, 1>>]

Symmetry == Permutations(Txs)

=============================================================================
