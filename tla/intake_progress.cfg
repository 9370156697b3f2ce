CONSTANTS
  Customers = {u1}
  Carts = {1, 2}
  Orders = {1, 2}
  Products = {1}
  Owner <- MCOwner
  InitialStock <- MCStock
  InitialPoints <- MCPoints
  Quantities = {1}
  PointAmounts = {0, 1}
  MaxLine = 2
  MaxFaults = 1
  MaxOpen = 1
  Environments = {{}, {"edit", "order"}}
SPECIFICATION FairSpec
  
PROPERTY PendingIsDecided
CHECK_DEADLOCK FALSE
