CONSTANTS
  Plans = {basic}
  Codes = {c1}
  NoCoupon = none
  Requests = {r1, r2}
  Deliveries = {h1, h2}
  MaxFailures = 2
SPECIFICATION Spec
SYMMETRY Symmetric
CHECK_DEADLOCK FALSE
INVARIANTS
  StatusCameFromStripe
  CanceledRowIsOver
  NoOrphanedSubscription
