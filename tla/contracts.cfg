CONSTANTS
  Tests = {t1}
  AutoTasks = {a1}
  ManualTasks = {m1, m2}
  DisputeIds = {r1, r2, r3}
  LastDay = 2
  Calls = {x1, x2, x3}
SPECIFICATION ContractsSpec
SYMMETRY Symmetric
CHECK_DEADLOCK FALSE
INVARIANTS
  RecordsAgree
  VerificationIsEarned
  ContractIsMirrored
PROPERTIES
  HistoryStands
  MeetingsAreFinal
  DocumentIsFinal
  DisputeLifecycle
