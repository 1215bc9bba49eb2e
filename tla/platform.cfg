CONSTANTS
  Steps = {r1, r2, r3}
  Calls = {x1, x2}
  MaxFailures = 1
  Tokens = {r1, r2, r3}
  Lifetime = 2
  LastTime = 4
  Readers = {y1, y2, y3}
  Users = {r1, r2, r3}
  MaxFields = 2
  Logos = {l1, l2}
  Assets = {a1}
  Elsewhere = none
  MaxCount = 1
SPECIFICATION PlatformSpec
SYMMETRY Symmetric
CHECK_DEADLOCK FALSE
INVARIANTS
  LinksAreSafe
  ConnectionIsSound
  RefreshIsShared
  FilesMatchRows
PROPERTIES
  SequenceIsKept
  SeniorityIsSafe
