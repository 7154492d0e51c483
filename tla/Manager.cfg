CONSTANTS
  t1 = t1
  t2 = t2
  Msg = {m1, m2, m3}
  To1 = {m1, m2}
  Target <- MCTarget
  Dest <- MCDest
  Poller = {p1, p2}
  Helper = {h1}
  MaxToSend = 1
SPECIFICATION FairSpec
PROPERTY EverySent
INVARIANT ManagerInv
INVARIANT NothingStranded
CHECK_DEADLOCK FALSE
