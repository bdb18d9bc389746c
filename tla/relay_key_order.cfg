SPECIFICATION Spec
CONSTANTS
  Pool = {}
  Relays = {r1}
  Ids = {1, 2}
  Skew = 0
  BatchSize = 2
  DeleteBatch = 1
  MaxErrors = 0
  MaxLosses = 0
  Keys = {"k1", "k2"}
  None = None
  Dead = Dead
  KeyOf <- MCKeyOf
INVARIANT KeyOrder
