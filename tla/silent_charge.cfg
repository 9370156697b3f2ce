CONSTANTS
  Orders = {o1}
  ConfirmRetries = 0
  FinalizeRetries = 0
  MaxRows = 1
  MaxFaults = 0
  Environments = {{"unanswered"}}
SPECIFICATION Spec
INVARIANT ChargeNeverSilent
CHECK_DEADLOCK FALSE
