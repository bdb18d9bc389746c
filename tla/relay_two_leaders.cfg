SPECIFICATION Spec
CONSTANTS
  Pool = {s1}
  Relays = {r1, r2}
  Ids = {1}
  Skew = 0
  BatchSize = 1
  DeleteBatch = 1
  MaxErrors = 0
  MaxLosses = 0
  Keys = {"k1", "k2"}
  None = None
  Dead = Dead
  KeyOf <- MCKeyOf
INVARIANT OneLeader
