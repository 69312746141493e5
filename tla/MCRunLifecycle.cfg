SPECIFICATION Spec
CONSTANTS
  Runs = {r1, r2}
  Tasks = {t1}
  PerHarness = 1
  QueueCap = 1
  MaxEvents = 1
  FailingRuns = {r1}
  None = None
INVARIANTS
  AgentsBehindTheGate
  NoAgentUnderATerminalRow
  CompletedWasDelivered
  DoneTaskWasDelivered
PROPERTIES
  EndedRunsAreReleased
  QueuedRunsAreAdmitted
CHECK_DEADLOCK FALSE
