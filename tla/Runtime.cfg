CONSTANTS
  p1 = p1
  q2 = q2
  q1 = q1
  Unset = Unset
  Nodes <- MCNodes
  Procs <- MCProcs
  Callers = {0, 1}
  CodeOf <- MCCodeOf
SPECIFICATION FairSpec
CHECK_DEADLOCK FALSE
INVARIANT MainAfterInit
INVARIANT ShutdownOrderly
INVARIANT ResultAgreed
PROPERTY EveryNodeExits
INVARIANT RuntimeInv
