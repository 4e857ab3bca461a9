\* An exchange completes on a token that is not its own.
CONSTANTS
  runner = runner
  runner2 = runner2
  client = client
  Node <- MCNode
  Script <- PingOnly
  Rounds <- AllAsk
  MaxRound = 1
  MaxFault = 0
SPECIFICATION FairSpec
PROPERTY CompletedMeansAnswered
