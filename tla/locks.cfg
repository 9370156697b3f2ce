CONSTANTS
  Txs = {t1, t2, t3}
  Orders = {1, 2}
  Added <- MCAdded
  Listed <- MCListed
SPECIFICATION Spec
INVARIANTS
  FamiliesNeverDeadlock
  RingsNeedAnInversion
  EarnRowsMeetOnlyTheNotice
SYMMETRY Symmetry
CHECK_DEADLOCK FALSE
