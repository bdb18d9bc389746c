SPECIFICATION FairSpec
CONSTANTS
  Pool = {}
  Relays = {r1, r2}
  Ids = {1, 2, 3}
  Skew = 1
  BatchSize = 2
  DeleteBatch = 1
  MaxErrors = 1
  MaxLosses = 1
  Keys = {"k1", "k2"}
  None = None
  Dead = Dead
  KeyOf <- MCKeyOf
INVARIANT RowsOwnedOnce
INVARIANT DuplicatesNeedFailures
INVARIANT SingleActiveRelay
INVARIANT CommittedKeyOrder
PROPERTY DeliverySpec
PROPERTY EveryEventPublished
