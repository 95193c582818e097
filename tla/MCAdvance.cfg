SPECIFICATION MCFairSpec
CONSTANTS
  peripheral_tick_interval = 5
  max_step_cycles = 3
  secondary_awaits_boot_addr = FALSE
  LegacyActive = FALSE
  SupplyRouted = TRUE
  SecondaryStates = {"none"}
  Pcs = {0}
  breakpoints = {}
  None = none
  Requests <- BudgetRequests
  ParkedWindow = 4
  U32Max = 99
  MaxDelay = 2
  MaxCost = 1
  MaxCycle = 5
INVARIANTS
  LimitsHeld
  ReportBalances
  WindowMeetsDeadlines
  MachineActsOnBootAddr
  MachinesTickOnGrid
  MachineObservesBreakpoints
PROPERTY AdvanceReturns
