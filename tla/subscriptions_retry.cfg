CONSTANTS
  Plans = {basic}
  Codes = {none}
  NoCoupon = none
  Requests = {r1}
  Deliveries = {h1}
  MaxFailures = 0
SPECIFICATION Spec
CHECK_DEADLOCK FALSE
INVARIANTS
  CompensationSparesRecorded
