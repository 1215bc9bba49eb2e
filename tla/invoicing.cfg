CONSTANTS
  Entities = {e1, e2, e3}
  Calls = {x1, x2, x3}
  LastYear = 2
  None = None
  Recipients = {1, 2, 3}
  Batch = 2
  Runs = {y1, y2}
  MaxFailures = 1
SPECIFICATION SendingSpec
CHECK_DEADLOCK FALSE
INVARIANTS
  NumbersAreSequential
  OneMailEach
PROPERTIES
  ImplementsBook
  SendingEnds
