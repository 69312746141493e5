CONSTANTS
    Convs = {a, b}
    Sessions = {s1, s2}
    NoSession = NoSession
    NoConv = NoConv
SPECIFICATION Spec
INVARIANTS OnlyClosedChatsAreReclaimed
CHECK_DEADLOCK FALSE
