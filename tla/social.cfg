SPECIFICATION SocialSpec
CONSTANTS
  Authors = {"a"}
  Ids = {1, 2}
  AuthorOf <- MCAuthorOf
  Threshold = 2
  MaxOthers = 1
  MaxChanges = 1
  MaxFailures = 1
  None = None
  Users = {"a", "b", "c"}
  MaxRequests = 3
  Asks <- MCAsks
  NoAsk = NoAsk
  Edges0 <- MCEdges0
  Workers = {w1, w2}
  Events <- MCEvents
  MaxNote = 3
  Writers = {"a", "b"}
  MaxPosts = 3
  MaxErasers = 2
  Plain = 0
  MaxRow = 4
  MaxLimit = 2
INVARIANT Complete
INVARIANT GraphConsistent
INVARIANT ChangesReplay
INVARIANT DeadlocksAreMutual
INVARIANT NotifiedOnce
INVARIANT HiddenNeedsTwoWorkers
INVARIANT RetweetsNameOriginals
INVARIANT RetweetsBalance
INVARIANT PagesComplete
PROPERTY EventuallyComplete
PROPERTY RequestsEnd
CHECK_DEADLOCK FALSE
