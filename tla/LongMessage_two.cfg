CONSTANTS
  Msg = {m1, m2}
  Even = {m1, m2}
  Odd = {}
  Sender = {s1, s2}
  InPool = {m1}
  MaxLongReq = 2
  DestPtr <- MCDestPtr
  PayloadSize <- MCPayloadSize
SPECIFICATION Spec
INVARIANT DispatchedWhole
CHECK_DEADLOCK FALSE
