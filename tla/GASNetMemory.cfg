CONSTANTS
  Size = 12
  Alignment = 2
  Stride = 2
  NumNodes = 2
  Requests <- Sizes
  Callers = {c1}
SPECIFICATION FairSpec
INVARIANT BlocksTile
INVARIANT FailureIsReal
PROPERTY EveryCallReturns
INVARIANT MemoryInv
INVARIANT AddressingRight
