SPECIFICATION ConsumersSpec
CONSTANTS
  Users = {u1, u2}
  FlushAfter = 2
  MaxEvents = 3
  MaxFailures = 1
  MaxReconciles = 1
  None = None
  Requests = {r1, r2}
  Workers = {w1, w2}
  Names = {"thumb", "feed"}
  Uploads = {photo, other, short}
  Images = {photo, other}
  Mismatched = {short}
  MaxMoves = 1
  MaxSkips = 1
  NoImage = NoImage
INVARIANT LedgerBalances
INVARIANT CountedOnce
INVARIANT ShownHaveVariants
INVARIANT VariantsMatch
PROPERTY CountSettles
PROPERTY FinalStatus
PROPERTY UploadedSettles
CHECK_DEADLOCK FALSE
