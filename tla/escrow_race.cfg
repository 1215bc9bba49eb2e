CONSTANTS
  Milestones = {m1}
  Coupons = {c1}
  NoCoupon = none
  Requests = {r1, r2}
  Deliveries = {h1}
  AdminRefunds = FALSE
  RequestsMayFail = TRUE
SPECIFICATION HistorySpec
SYMMETRY Symmetric
CHECK_DEADLOCK FALSE
INVARIANTS
  TypeOK
  MoneyOutNeedsMoneyIn
  StatusBackedByStripe
  SucceededRowIsCharged
  AcknowledgedMeansFunded
PROPERTIES
  MilestoneOrder
  ImplementsLedger
