SPECIFICATION Spec
CONSTANTS
  a1 = a1
  a2 = a2
  t1 = t1
  t2 = t2
  t3 = t3
  p1 = p1
  p2 = p2
  g1 = g1
  g2 = g2
  Accounts = {a1}
  Turns = {t1}
  Owner <- MCOneOwner
  PoolOrder <- MCOnePool
  GrantOrder <- MCNone
  Holder <- MCHolder
  Expires <- MCExpires
  Mode <- MCModeOn
  SwitchedOn = {}
  Opening <- MCOpening
  ResetAmount <- MCResetAmount
  Period <- MCDaily
  NewPeriods = {0}
  DailyCap <- MCCap
  Adjustments = {1}
  Wants = {1, 2}
  Bills = {0, 1, 2}
  MaxUnit = 2
  MaxTime = 2
SYMMETRY TurnSymmetry
PROPERTIES HoldsGivenBack
CHECK_DEADLOCK FALSE
