\* A client with two runners, three faults: what an exchange ends with.
CONSTANTS
  runner = runner
  runner2 = runner2
  client = client
  Node <- MCThreeNodes
  Script <- PingOnly
  Rounds <- ClientAsks
  MaxRound = 1
  MaxFault = 3
SPECIFICATION FairSpec
PROPERTIES Answers TokensArePast LoopEnds
