CONSTANTS
  Milestones = {m1}
  Coupons = {}
  NoCoupon = none
  Requests = {r1}
  Deliveries = {h1}
  AdminRefunds = FALSE
  RequestsMayFail = TRUE
SPECIFICATION HistorySpec
CHECK_DEADLOCK FALSE
INVARIANTS
  PaidOrReturned
