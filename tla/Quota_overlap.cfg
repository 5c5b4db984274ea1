SPECIFICATION Spec
CONSTANTS
  a1 = a1
  a2 = a2
  t1 = t1
  t2 = t2
  t3 = t3
  c1 = c1
  c2 = c2
  Accounts = {a1}
  Turns = {t1}
  Owner <- MCOneOwner
  Exempt = {}
  Allowance <- MCAllowance
  Length <- MCLength
  Minute = 1
  Keep <- MCKeep
  RequestLimit <- MCRequestLimit
  AmountLimit <- MCAmountLimit
  RpmLimit = 0
  TpmLimit = 3
  Created <- MCCreated
  Cards = {}
  Holder <- MCHolder
  Covers <- MCCovers
  Estimates = {1}
  Bills = {1}
  ResetKinds = {}
  MaxCost = 2
  MaxTime = 1
  MaxResets = 1
PROPERTIES ResetIgnoresOverlappingSettlement
CHECK_DEADLOCK FALSE
