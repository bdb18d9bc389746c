SPECIFICATION IdentitySpec
CONSTANTS
  Requests = {q1, q2, q3}
  Ids = {1, 2, 3}
  Skew = 0
  Processes = {"p1", "p2", "p3"}
  Silent = {"p3"}
  Nodes <- MCNodes
  HostOf <- MCHostOf
  MaxIds <- MCMaxIds
  MaxSeq = 1
  TTL = 5
  Every = 1
  Drift = 1
  Ahead = 1
  MaxTime = 7
INVARIANT OneHeir
INVARIANT RevocationIsFinal
INVARIANT ReplayDetected
INVARIANT LeaseExclusive
INVARIANT IdsIncrease
INVARIANT UniqueIds
CHECK_DEADLOCK FALSE
