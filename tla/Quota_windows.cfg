SPECIFICATION Spec
CONSTANTS
  a1 = a1
  a2 = a2
  t1 = t1
  t2 = t2
  t3 = t3
  c1 = c1
  c2 = c2
  Accounts = {a1}
  Turns = {t1, t2}
  Owner <- MCOneOwner
  Exempt = {}
  Allowance <- MCAllowance
  Length <- MCLength
  Minute = 1
  Keep <- MCKeepNone
  RequestLimit <- MCRequestLimit
  AmountLimit <- MCOneUnit
  RpmLimit = 0
  TpmLimit = 2
  Created <- MCCreated
  Cards = {c1}
  Holder <- MCHolder
  Covers <- MCCovers
  Estimates = {1}
  Bills = {1}
  ResetKinds = {}
  MaxCost = 1
  MaxTime = 1
  MaxResets = 1
SYMMETRY TurnSymmetry
INVARIANTS RowsExact
PROPERTIES CardBuysAdmission
CHECK_DEADLOCK FALSE
