------------------------------ MODULE MCPoints ------------------------------
(***************************************************************************)
(* The point ledger for TLC, and the two loops of PointService written as  *)
(* the code runs them, against the closed forms PointLedger uses.          *)
(***************************************************************************)
EXTENDS PointLedger, SequencesExt

MCEarlier == <<[points |-> 3, expires |-> 2]>>

Symmetry == Permutations(Orders) \cup Permutations(Batches)

(* The properties say nothing of an account after a lapse. *)
BeforeLapse == lapses = {}

-----------------------------------------------------------------------------
(* for row in rows: use_from_this = min(available, remaining_to_use) ...    *)
RECURSIVE Loop(_, _, _)
Loop(rows, avail, rest) ==
  IF rows = <<>> \/ rest = 0 THEN [i \in DOMAIN avail |-> 0]
  ELSE LET taken == Least(avail[Head(rows)], rest)
       IN  [Loop(Tail(rows), avail, rest - taken) EXCEPT ![Head(rows)] = taken]

SlotSeq == [i \in Slots |-> i]

ASSUME LoopsAgree ==
  \A avail \in [Slots -> 0..2], amount \in 0..(2 * MaxRows + 1) :
    /\ TakeFifo(avail, amount) = Loop(SlotSeq, avail, amount)
    /\ GiveBackLifo(avail, amount) = Loop(Reverse(SlotSeq), avail, amount)

=============================================================================
