----------------------------- MODULE MCReturns -----------------------------
EXTENDS ReturnFlow

(* After a lapse only RefundMovesOnce still says something, and it is the  *)
(* stale PATCH that it is about.                                           *)
OnlyPatchLapses == lapses \subseteq {"patch"}

=============================================================================
