SPECIFICATION LiveSpec
CONSTANTS
  text = text
  blank = blank
  torn = torn
  Docs = {1, 2}
  Texts = {text, blank, torn}
  Blank = blank
  Torn = torn
  Scanner = scanner
  Users = {u}
  ByHand = TRUE
  MaxId = 6
  MaxOps = 2
  MaxFaults = 1
  None = None
INVARIANT OneRowPerName
PROPERTIES RowsFollowFiles RebuildRestores
CHECK_DEADLOCK FALSE
