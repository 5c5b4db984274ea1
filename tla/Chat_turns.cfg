SPECIFICATION TurnsLocksSpec
CONSTANTS
  a1 = a1
  a2 = a2
  t1 = t1
  t2 = t2
  t3 = t3
  p1 = p1
  p2 = p2
  g1 = g1
  g2 = g2
  c1 = c1
  c2 = c2
  Txns = {t1, t2}
  Accounts = {a1, a2}
  Kinds <- MCKinds
  Allowance <- MCAllowance
  Moments <- MCOneMoment
  PoolOrder <- MCTwoPools
  GrantOrder <- MCTwoGrants
  SweepOrder <- MCTwoGrants
  SourceSets = {{p1, p2, g1, g2}}
  CardOrder <- MCTwoCards
  Admin = a2
  NoRow = NoRow
  Turns = {t1, t2}
  Pictures = {p1}
  Caps = {0, 1}
  HistoryLimit = 2
  Retain = FALSE
  Sweeps = TRUE
  Crashes = TRUE
  MaxVersion = 1
SYMMETRY TxnSymmetry
INVARIANTS PicturesKept EveryTurnRecorded NoDeadlock
PROPERTIES AnswerMatchesTranscript
CHECK_DEADLOCK FALSE
