SPECIFICATION Spec
CONSTANTS
  Users = {u1, u2}
  FlushAfter = 2
  MaxEvents = 2
  MaxFailures = 0
  MaxReconciles = 0
  None = None
INVARIANT HotCountSettles
CHECK_DEADLOCK FALSE
