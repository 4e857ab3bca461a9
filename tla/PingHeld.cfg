\* Handlers stay blocked after the exchange.
CONSTANTS
  runner = runner
  runner2 = runner2
  client = client
  Node <- MCNode
  Script <- PingStart
  Rounds <- ClientAsks
  MaxRound = 1
  MaxFault = 0
SPECIFICATION FairSpec
INVARIANT NoHandlerHeld
