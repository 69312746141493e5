SPECIFICATION FairSpec
CONSTANTS
  Runs = {w1, w2}
  Chats = {c1}
  Approving = {}
  HasApprover = TRUE
  ToolCalls = {t1}
  plain = plain
  risky = risky
  ruled = ruled
  banned = banned
  Titles = {plain}
  Rules <- NoRules
  Default = "Ask"
  HighRisk = {}
  Asks = {a1, a2}
  Offers <- BothOptions
  Humans = {}
  PerHarness = 2
  UniqueToolCalls = TRUE
  Reliable = TRUE
  None = None
PROPERTIES
  UnattendedAsksAreSettled
  AsksEndWithTheRun
CHECK_DEADLOCK FALSE
