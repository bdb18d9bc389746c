SPECIFICATION Spec
CONSTANTS
  Requests = {q1, q2}
  Ids = {1, 2, 3}
  Skew = 0
INVARIANT ReusedFamilyIsDead
