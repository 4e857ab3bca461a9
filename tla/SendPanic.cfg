\* A call that is only to check a connection stops the process.
CONSTANTS
  c1 = c1
  c2 = c2
  c3 = c3
  p1 = p1
  p2 = p2
  Call <- MCTwoCalls
  Peer <- MCPeer
  Target <- MCTarget
SPECIFICATION FairSpec
INVARIANT NoPanic
