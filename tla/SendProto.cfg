\* Safety of sendProtoMessage and its promise: three concurrent calls, two peers.
CONSTANTS
  c1 = c1
  c2 = c2
  c3 = c3
  p1 = p1
  p2 = p2
  Call <- MCThreeCalls
  Peer <- MCPeer
  Target <- MCTarget
SPECIFICATION FairSpec
INVARIANTS SendInv AtMostOnce
PROPERTIES Promise CallsReturn
