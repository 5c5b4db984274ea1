SPECIFICATION BurstSpec
CONSTANTS
  a1 = a1
  a2 = a2
  t1 = t1
  t2 = t2
  t3 = t3
  c1 = c1
  c2 = c2
  Accounts = {a1}
  Turns = {t1, t2, t3}
  Owner <- MCOneOwner
  Exempt = {t3}
  Allowance <- MCAllowance
  Length <- MCLength
  Minute = 1
  Keep <- MCKeep
  RequestLimit <- MCRequestLimit
  AmountLimit <- MCAmountLimit
  RpmLimit = 2
  TpmLimit = 3
  Created <- MCCreated
  Cards = {}
  Holder <- MCHolder
  Covers <- MCCovers
  Estimates = {1, 2}
  Bills = {1}
  ResetKinds <- MCAllKinds
  MaxCost = 2
  MaxTime = 0
  MaxResets = 1
  KeyEditors = {"e1", "e2"}
  Original = "p1"
  Duplicate = "p2"
  Urls = {"u1", "u2"}
  Hints = {"h1", "h2"}
  MaxAPIKeys = 2
  Places = {"x", "y"}
  Senders = {"s"}
  Processes = {"p1", "p2"}
  MostRuns = 2
  MaxRun = 1
  Lease = 2
  RetryAfter = 1
  Interval = 2
  Retentions = {1, 2}
  LastBackupHour = 3
  Savers = {"s1", "s2"}
  MostPackages = 2
  MostSettings = 2
  Checkers = {"k1", "k2"}
  ListOrder <- mcListOrder
  HostOf <- mcHostOf
  RouteOf <- mcRouteOf
  DisableAfter = 1
  DisableBelow = 60
  MinSamples = 2
  MostSamples = 1
  MostResets = 1
SYMMETRY BurstSymmetry
INVARIANTS RunningWithinLimit KeysHold SwitchesHold BackupsHold CredentialsStay PluginsHold CopiesFollowRows
PROPERTIES ReleaseSparesNewRows OperatorStands
CHECK_DEADLOCK FALSE
