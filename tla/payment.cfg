CONSTANTS
  Orders = {o1}
  ConfirmRetries = 1
  FinalizeRetries = 1
  MaxRows = 1
  MaxFaults = 2
  Environments = {{}, {"sync_confirm", "unanswered"}}
SPECIFICATION FairSpec
INVARIANTS TypeOK StockFollowsOrder SoldFollowsPaid PaidWasCharged NoCrossPurpose
PROPERTIES ImplementsLifecycle AbortedIsRolledBack ChargeIsSettled OrderEnds
CHECK_DEADLOCK FALSE
