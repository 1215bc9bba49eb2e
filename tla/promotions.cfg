CONSTANTS
  Topups = {t1}
  Amount = 1
  Grants = {g1}
  Checkouts = {p1}
  EditStatuses = {"PAUSED"}
  MaxTime = 2
  Skills = {k1, k2}
  MinYears = 2
  MaxMoney = 2
  MaxCount = 2
  Weights = {1, 50}
  MaxEdits = 2
  Calls = {x1, x2}
  MaxFailures = 1
SPECIFICATION PromotionsSpec
SYMMETRY Symmetric
CONSTRAINT PlacementBound
CHECK_DEADLOCK FALSE
INVARIANTS
  CreditIsExact
  OverspendBounded
  MirrorIsExact
  BoostIsPaid
  RankingIsFair
PROPERTIES
  PausesStand
