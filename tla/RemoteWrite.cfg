SPECIFICATION FairSpec
CONSTANTS
  x1 = x1
  x2 = x2
  Transfer <- MCTransfer
  Plan <- MCPlan
  MaxXferSize = 4
INVARIANT FenceInv
INVARIANT AckAfterWrites
PROPERTY FenceReached
CHECK_DEADLOCK FALSE
INVARIANT TransferRight
