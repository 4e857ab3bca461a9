\* Two requests of one process to another, and one back; two faults.
CONSTANTS
  a = a
  b = b
  q1 = q1
  q2 = q2
  q3 = q3
  Node <- MCNode
  Request <- MCRequest
  From <- MCFrom
  To <- MCTo
  MaxFault = 2
SPECIFICATION FairSpec
INVARIANTS SignedInv FailedStayPending
PROPERTIES Promise AnsweredUnlessFault
CHECK_DEADLOCK FALSE
