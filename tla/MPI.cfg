CONSTANTS
  a = a
  b = b
  t1 = t1
  t2 = t2
  None = None
  Nodes <- MCNodes
  Threads <- MCThreads
  HomeOf <- MCHomeOf
  MaxSends <- MCMaxSends
  KindsOf <- MCKindsOf
  SlotCount = 2
  TagRange = 2
SPECIFICATION FairSpec
CHECK_DEADLOCK FALSE
INVARIANT OwnPayload
PROPERTY EveryNodeFinalizes
INVARIANT ReceiveInv
