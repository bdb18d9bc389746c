SPECIFICATION Spec
CONSTANTS
  Requests = {q1, q2}
  Unlucky = {}
  MaxExpiries = 0
  NoRecord = NoRecord
INVARIANT AtMostOneEffect
CHECK_DEADLOCK FALSE
