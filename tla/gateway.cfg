SPECIFICATION GatewaySpec
CONSTANTS
  Requests = {q1, q2, q3}
  Unlucky = {q1, q2}
  MaxExpiries = 3
  NoRecord = NoRecord
  Pods = {p1, p2}
  Limit = 2
  Window = 4
  Skew = 1
  MaxNow = 8
  MaxCalls = 5
  Callers = {g1, g2, g3}
  NoCaller = NoCaller
  MinTTL = 2
  MaxTTL = 3
  MaxClock = 4
  Emails = {"x", "z"}
  Subjects <- MCSubjects
  Flows = {f1, f2}
  Unlinkers = {u1, u2}
  MaxAccounts = 2
  Tries = {t1, t2}
  NumLogicalShards = 3
  Configs <- MCConfigs
  Processes = {"all", "fan"}
  RolesOf <- MCRolesOf
  MaxOutages = 2
  MaxStops = 1
INVARIANT OverlapNeedsExpiry
INVARIANT WindowBound
INVARIANT StrandedNeedsRace
INVARIANT LinkedByOwner
INVARIANT EffectsNeedCauses
INVARIANT GapsKnown
INVARIANT ShardsServed
PROPERTY LoadsSpaced
PROPERTY RolesRecover
CHECK_DEADLOCK FALSE
