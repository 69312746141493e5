SPECIFICATION Spec
CONSTANTS
  f1 = f1
  f2 = f2
  f3 = f3
  banned = banned
  p1 = p1
  Ids = {1, 2, 3, 4}
  MaxPurges = 1
  Facts = {f1, f2, f3, banned}
  ScopeOf <- OneScope
  Forbidden = {banned}
  Passes = {p1}
  SessionOf <- OneSession
  RetryLimit = 1
  Extractions <- Lists
  None = None
SYMMETRY Interchangeable
INVARIANTS LinksAreHistories FailedGraphsAreMarked NothingIsDropped
CHECK_DEADLOCK FALSE
