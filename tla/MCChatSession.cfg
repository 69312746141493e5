CONSTANTS
    MaxPrompts = 3
    MaxStops = 1
SPECIFICATION SessionSpec
INVARIANTS CommandsInArrivalOrder GeneratingIsEarned
PROPERTIES ClosedAgentsAreReclaimed AbandonedSessionsEnd
CHECK_DEADLOCK FALSE
