CONSTANTS
  Orders = {o1}
  ConfirmRetries = 1
  FinalizeRetries = 0
  MaxRows = 1
  MaxFaults = 0
  Environments = {{}}
SPECIFICATION Spec
INVARIANT RefundReachesOrder
CHECK_DEADLOCK FALSE
