CONSTANTS
  Milestones = {m1, m2}
  Coupons = {}
  NoCoupon = none
  Requests = {r1}
  Deliveries = {}
  AdminRefunds = FALSE
  RequestsMayFail = TRUE
  DisputeIds = {d1, d2}
  Calls = {u1}
SPECIFICATION Spec
SYMMETRY Symmetric
CHECK_DEADLOCK FALSE
INVARIANTS
  CompletedMeansSettled
PROPERTIES
  ImplementsDisputes
