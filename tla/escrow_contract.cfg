CONSTANTS
  Milestones = {m1, m2}
  Coupons = {}
  NoCoupon = none
  Requests = {r1, r2}
  Deliveries = {h1}
  AdminRefunds = FALSE
  RequestsMayFail = FALSE
SPECIFICATION HistorySpec
SYMMETRY Symmetric
CHECK_DEADLOCK FALSE
INVARIANTS
  SettledMeansCompleted
