SPECIFICATION Safety
CONSTANTS
  Runs = {r1, r2, r3}
  Tasks = {t1}
  PerHarness = 1
  QueueCap = 1
  MaxEvents = 0
  FailingRuns = {}
  None = None
SYMMETRY GateSymmetry
INVARIANT NobodySleepsOnAFreePermit
PROPERTY KeepsTheContract
CHECK_DEADLOCK FALSE
