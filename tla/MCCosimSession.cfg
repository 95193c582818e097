SPECIFICATION FairSpec
CONSTANTS
  NANOS_PER_SECOND = 3
  cpu_hz = 2
  StepNs <- Periods
  step_ns = 2
  Monitors <- Chips
  Routings = {TRUE, FALSE}
  Volts = {3, 4, 5}
  NaN = NaN
  None = None
  Requests <- Budgets
  max_step_cycles = 2
  MaxStart = 4
  MaxCycle = 30
  MaxFixtures = 1
INVARIANTS
  SupplyFollowsVdd
  ReleasesActedOn
  PinsOfTheBoundary
  NoModelAhead
  BudgetAccounts
PROPERTIES
  BudgetReturns
CHECK_DEADLOCK FALSE
