\* Both nodes ask; one fault anywhere.
CONSTANTS
  runner = runner
  runner2 = runner2
  client = client
  Node <- MCNode
  Script <- PingStart
  Rounds <- AllAsk
  MaxRound = 1
  MaxFault = 1
SPECIFICATION Spec
INVARIANTS PingInv RepliesFollowRequests StreamsWereAsked ScriptInOrder HandlersPileUp
