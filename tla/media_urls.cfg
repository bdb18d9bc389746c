SPECIFICATION MediaSpec
CONSTANTS
  Requests = {r1}
  Workers = {w1}
  Names = {"thumb", "feed", "orig"}
  Uploads = {photo}
  Images = {photo}
  Mismatched = {}
  MaxMoves = 0
  MaxSkips = 0
  NoImage = NoImage
INVARIANT LinksNameVariants
CHECK_DEADLOCK FALSE
