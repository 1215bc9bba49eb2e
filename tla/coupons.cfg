CONSTANTS
  alice = alice
  bob = bob
  m1 = m1
  m2 = m2
  None = None
  CouponIds = {c1, c2}
  Users = {alice, bob}
  Milestones = {m1, m2}
  Subscriptions = {s1}
  Owner <- TwoUsers
  Limits = {0, 1}
  MaxRows = 3
  Calls = {x1, x2}
SPECIFICATION Spec
SYMMETRY Symmetric
CHECK_DEADLOCK FALSE
INVARIANTS
  CounterCountsRedemptions
PROPERTIES
  RedeemsWithinCaps
  ImplementsSlots
