\* When the answers about a stream can be wrong: six concurrent requests.
CONSTANTS
  n1 = n1
  n2 = n2
  start1 = start1
  start2 = start2
  stop1 = stop1
  stop2 = stop2
  status1 = status1
  start3 = start3
  Node <- MCNode
  Call <- MCCall
  Home <- MCHome
  Op <- MCOp
SPECIFICATION HistorySpec
INVARIANTS HistoryInv TornOnlyByOverlap TwoWritersOverlap StopUndoneOnlyByAnotherStart LeftOnOnlyIfOvertaken
