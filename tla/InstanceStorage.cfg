CONSTANTS
  o = o
  r = r
  o1 = o1
  o2 = o2
  o3 = o3
  o4 = o4
  o5 = o5
  r1 = r1
  Nodes <- MCNodes
  Owner = o
  Threads <- MCThreads
  NodeOf <- MCNodeOf
  ChunkSize = 2
  IndexLimit = 4
  Capacity = 2
SPECIFICATION Spec
SYMMETRY OwnerThreads
CHECK_DEADLOCK FALSE
INVARIANT StorageAccounted
INVARIANT InstanceInv
