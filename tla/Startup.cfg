SPECIFICATION FairSpec
CONSTANTS
  NumNodes = 3
  Addr <- MCAddr
  Commands <- MCCommands
  Pads = {1}
  Unset = Unset
CHECK_DEADLOCK FALSE
INVARIANT StartupInv
INVARIANT LayoutRight
INVARIANT MachineAgreed
PROPERTY EveryNodeReady
PROPERTY ImplementsLifecycle
