SPECIFICATION FairSpec
CONSTANTS
  q1 = q1
  q2 = q2
  whole = whole
  half = half
  odd = odd
  pair = pair
  tiny = tiny
  reg = reg
  Endpoint <- MCEndpoint
  Msg <- MCMsg
  EpOf <- MCEpOf
  PayloadSize <- MCPayloadSize
  Mode <- MCMode
  Contiguous <- MCContiguous
  Registered <- MCRegistered
  Null = Null
  Exempt <- MCExempt
  TotalSize = 8
  BlockSize = 2
  MaxSpillBytes = 3
  StaleReads = {0, 7}
CHECK_DEADLOCK FALSE
INVARIANT NoHolderBehindPending
INVARIANT PayloadKept
PROPERTY EveryMessageSent
INVARIANT PoolInv
