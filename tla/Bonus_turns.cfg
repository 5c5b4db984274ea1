SPECIFICATION BarsRoutesSpec
CONSTANTS
  a1 = a1
  a2 = a2
  t1 = t1
  t2 = t2
  t3 = t3
  p1 = p1
  p2 = p2
  g1 = g1
  g2 = g2
  Accounts = {a1}
  Turns = {t1, t2}
  Owner <- MCOneOwner
  PoolOrder <- MCTwoPools
  GrantOrder <- MCTwoGrants
  Holder <- MCHolder
  Expires <- MCExpires
  Mode <- MCModeOnly
  SwitchedOn = {g1}
  Opening <- MCOpening
  ResetAmount <- MCResetAmount
  Period <- MCOneDaily
  NewPeriods = {1, 2}
  DailyCap <- MCOneCap
  Adjustments = {2}
  Wants = {2}
  Bills = {1, 2}
  MaxUnit = 2
  MaxTime = 3
  RouteEditors = {"e1", "e2"}
  IdOrder <- MCIdOrder
  OwnerOf <- MCOwnerOf
SYMMETRY TurnSymmetry
INVARIANTS SourcesExact WithinBalance RoutesStand
PROPERTIES RevokedStaysSpent HoldsFollowPeriods WritesAreAtomic
CHECK_DEADLOCK FALSE
ACTION_CONSTRAINTS WhileHeld OneChange LongPeriods
