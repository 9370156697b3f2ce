-------------------------------- MODULE Sums --------------------------------
(***************************************************************************)
(* Sums of amounts over the rows of a table, and the two roundings at zero *)
(* the code uses.  A sum is the size of a set: amounts[i] units for each   *)
(* row i.  That makes sums provable from the theorems about cardinality.   *)
(***************************************************************************)
EXTENDS Integers, FiniteSets

UnitsOf(amounts, S) == UNION {{i} \X (1..amounts[i]) : i \in S}

SumOver(amounts, S) == Cardinality(UnitsOf(amounts, S))

Least(m, n) == IF m <= n THEN m ELSE n

(* max(0, m - n), Greatest(F(..) - n, 0) *)
Monus(m, n) == IF m >= n THEN m - n ELSE 0

=============================================================================
