SPECIFICATION Spec
CONSTANTS
  a1 = a1
  a2 = a2
  t1 = t1
  t2 = t2
  t3 = t3
  p1 = p1
  p2 = p2
  g1 = g1
  g2 = g2
  c1 = c1
  c2 = c2
  Txns = {t1, t2}
  Accounts = {a1}
  Kinds <- MCKinds
  Allowance <- MCAllowance
  Moments <- MCOneMoment
  PoolOrder <- MCNone
  GrantOrder <- MCTwoGrants
  SweepOrder <- MCGrantsReversed
  SourceSets = {{g1, g2}}
  CardOrder <- MCNone
  Admin = a1
  NoRow = NoRow
SYMMETRY TxnSymmetry
INVARIANTS NoDeadlock
CHECK_DEADLOCK FALSE
