SPECIFICATION Spec
CONSTANTS
  Watched = Watched
  Other = Other
  Runs <- TwoRuns
  Clients = {c1}
  Capacity = 2
  MaxLines <- LinesOf
  None = None
INVARIANTS InOrderAndOnce NoHole FinishedMeansComplete
PROPERTIES AttachedStreamsEnd
CHECK_DEADLOCK FALSE
