CONSTANTS
  Orders = {o1}
  ConfirmRetries = 0
  FinalizeRetries = 0
  MaxRows = 2
  MaxFaults = 1
  Environments = {{}, {"late_points", "deposit_revert", "slow_webhook", "slow_queue"},
                  {"sync_confirm"}, {"unanswered"}, {"late_create"}, {"second_window"}, {"redeliver"}}
SPECIFICATION Spec
INVARIANTS CanceledChargeAlerted EarnedAtMostOnce PaidWasApproved ChargeStands
CHECK_DEADLOCK FALSE
