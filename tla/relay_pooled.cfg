SPECIFICATION FairSpec
CONSTANTS
  Pool = {s1, s2}
  Relays = {r1, r2}
  Ids = {1, 2}
  Skew = 1
  BatchSize = 1
  DeleteBatch = 1
  MaxErrors = 1
  MaxLosses = 1
  Keys = {"k1", "k2"}
  None = None
  Dead = Dead
  KeyOf <- MCKeyOf
PROPERTY EveryEventPublished
