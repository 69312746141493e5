SPECIFICATION WriterSpec
CONSTANTS
  Callers = {c1, c2}
  MaxCalls = 3
INVARIANT PanicIsOnRecord
PROPERTIES CallsAreAnswered ShutdownCompletes
CHECK_DEADLOCK FALSE
