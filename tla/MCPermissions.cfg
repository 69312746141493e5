SPECIFICATION Spec
CONSTANTS
  Runs = {w1, w2}
  Chats = {}
  Approving = {w2}
  HasApprover = TRUE
  ToolCalls = {t1}
  plain = plain
  risky = risky
  ruled = ruled
  banned = banned
  Titles <- AllTitles
  Rules <- TwoRules
  Default = "Ask"
  HighRisk = {risky}
  Asks = {a1, a2}
  Offers <- SomeOptions
  Humans = {h1}
  PerHarness = 2
  UniqueToolCalls = TRUE
  Reliable = FALSE
  None = None
SYMMETRY AskSymmetry
INVARIANTS
  OneHolder
  AnswersAreTraced
PROPERTY KeepsTheContract
CHECK_DEADLOCK FALSE
