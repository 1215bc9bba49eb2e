CONSTANTS
  Milestones = {m1}
  Coupons = {}
  NoCoupon = none
  Requests = {r1, r2}
  Deliveries = {h1}
  AdminRefunds = TRUE
  RequestsMayFail = TRUE
SPECIFICATION FairHistorySpec
CHECK_DEADLOCK FALSE
PROPERTIES
  ChargeFundsMilestone
