------------------------------ MODULE MCIntake ------------------------------
EXTENDS OrderIntake

MCOwner == [c \in Carts |-> CHOOSE u \in Customers : TRUE]
MCStock == [p \in Products |-> 1]
MCPoints == [u \in Customers |-> 1]

=============================================================================
