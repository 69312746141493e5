SPECIFICATION Spec
CONSTANTS
  Runs = {r1, r2, r3}
  Steps = 2
  Members = 2
  None = None
INVARIANTS StepsFollowTheirUpstream BrokenChainsAreClosed WinnersDelivered TreesAreKept
PROPERTIES PipelinesEnd
CHECK_DEADLOCK FALSE
