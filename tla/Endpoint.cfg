SPECIFICATION FairSpec
CONSTANTS
  epA = epA
  epB = epB
  EP = {epA, epB}
  Msg = {m1, m2, m3, m4, m5}
  FromA = {m1, m2, m3}
  Small = {m1, m2}
  Large = {m3, m4}
  HasDstPtr = {}
  Peer <- MCPeer
  EpOf <- MCEpOf
  PayloadSize <- MCPayloadSize
  NumLmbs = 1
  LmbSize = 256
INVARIANT EndpointInv
INVARIANT UnreadDisjoint
PROPERTY ImplementsHandoff
PROPERTY EveryMessageHandled
