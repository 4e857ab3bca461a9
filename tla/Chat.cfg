\* Two clients that find each other; two pings of one at a time; one fault, and
\* one of them starts again once.
CONSTANTS
  a = a
  b = b
  Relay = Relay
  Chatter <- MCChatter
  Pings <- MCPings
  MaxFault = 1
  MaxRestart = 1
SPECIFICATION FairSpec
INVARIANTS ChatInv
PROPERTIES Promise DiesOnlyOfMap StartupEnds PingsEnd MarkedInTheEnd
CHECK_DEADLOCK FALSE
