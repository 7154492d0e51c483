SPECIFICATION PathFairSpec
CONSTANTS
  even = even
  odd = odd
  single = single
  short = short
  h1 = h1
  h2 = h2
  s1 = s1
  Nodes = 2
  Thread <- MCThreads
  Msg <- MCMsg
  SenderOf <- MCSenderOf
  LongMsg <- MCLongMsg
  SendThread <- MCSendThread
  DestPtr <- MCDestPtr
  PayloadSize <- MCPayloadSize
  InPool <- MCInPool
  MaxLongReq = 2
INVARIANT PathInv
INVARIANT HandledWhole
PROPERTY EveryMessageArrives
