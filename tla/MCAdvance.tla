----------------------------- MODULE MCAdvance -----------------------------
(***************************************************************************)
(* The machines Advance is model-checked on, and the requests of callers.  *)
(* The module's own constants are those of an AVR: one core, steps of up   *)
(* to three cycles, tick costs, a routed supply.  Three machines with a    *)
(* second core and single-cycle steps stand beside it: one that ticks its  *)
(* peripherals on a grid of three cycles, one with such a grid whose       *)
(* second core parks, and one that ticks them every cycle and carries      *)
(* breakpoints.                                                            *)
(***************************************************************************)
EXTENDS Advance

Run(fuel, cycles) ==
  [fuel |-> fuel, simulated_cycles |-> cycles, cap |-> None, single |-> FALSE,
   honor |-> TRUE, idle |-> TRUE]
Single ==
  [fuel |-> 1, simulated_cycles |-> None, cap |-> 1, single |-> TRUE, honor |-> FALSE,
   idle |-> FALSE]

\* Fuel alone, cycles alone, both, a batch cap, and the single step.
BudgetRequests ==
  {Run(4, None), Run(None, 5), Run(3, 4), [Run(4, None) EXCEPT !.cap = 2], Single}

\* Runs that honour breakpoints, which cut every window to one instruction,
\* and runs that do not, which step past them.
DebugRequests ==
  {Run(4, None), Single}
    \cup {[r EXCEPT !.honor = FALSE] : r \in {Run(None, 4), [Run(4, None) EXCEPT !.cap = 2]}}

Grid == INSTANCE Advance WITH
  peripheral_tick_interval <- 3, max_step_cycles <- 1, secondary_awaits_boot_addr <- FALSE,
  LegacyActive <- TRUE, SupplyRouted <- FALSE, SecondaryStates <- {"held", "active"},
  Pcs <- {0}, breakpoints <- {}, Requests <- BudgetRequests,
  MaxDelay <- 2, MaxCost <- 0, MaxCycle <- 8

PerCycle == INSTANCE Advance WITH
  peripheral_tick_interval <- 1, max_step_cycles <- 1, secondary_awaits_boot_addr <- TRUE,
  LegacyActive <- TRUE, SupplyRouted <- FALSE, SecondaryStates <- {"held", "parked", "active"},
  Pcs <- {0, 4}, breakpoints <- {4}, Requests <- DebugRequests,
  MaxDelay <- 1, MaxCost <- 0, MaxCycle <- 3

Parking == INSTANCE Advance WITH
  peripheral_tick_interval <- 3, max_step_cycles <- 1, secondary_awaits_boot_addr <- TRUE,
  LegacyActive <- FALSE, SupplyRouted <- FALSE, SecondaryStates <- {"parked", "active"},
  Pcs <- {0}, breakpoints <- {}, Requests <- {Run(4, None), Run(None, 5)},
  MaxDelay <- 1, MaxCost <- 0, MaxCycle <- 4

ASSUME MachinesAssumption ==
  Grid!AdvanceAssumption /\ PerCycle!AdvanceAssumption /\ Parking!AdvanceAssumption

VARIABLE machine    \* which of the four the run is about

MCInit ==
  \/ machine = "timed" /\ AdvanceInit
  \/ machine = "grid" /\ Grid!AdvanceInit
  \/ machine = "per-cycle" /\ PerCycle!AdvanceInit
  \/ machine = "parking" /\ Parking!AdvanceInit

MCNext ==
  \/ machine = "timed" /\ AdvanceNext /\ UNCHANGED machine
  \/ machine = "grid" /\ Grid!AdvanceNext /\ UNCHANGED machine
  \/ machine = "per-cycle" /\ PerCycle!AdvanceNext /\ UNCHANGED machine
  \/ machine = "parking" /\ Parking!AdvanceNext /\ UNCHANGED machine

MCFairSpec == MCInit /\ [][MCNext]_<<advVars, machine>> /\ KeepsStepping

(* The tick walk delivers peripheral time on the grid (GridTicked) on the  *)
(* machines without tick costs, of a three-cycle and of a one-cycle grid.  *)
MachinesTickOnGrid ==
  /\ machine = "grid" => Grid!GridTicked
  /\ machine = "per-cycle" => PerCycle!GridTicked

(* On the machine with breakpoints no instruction at one of them runs      *)
(* unreported (BreakpointsObserved).                                       *)
MachineObservesBreakpoints == machine = "per-cycle" => PerCycle!BreakpointsObserved

(* The machine that ticks every cycle acts on a boot address before        *)
(* another instruction (BootAddrActedOn); one with a longer interval       *)
(* leaves it to the next single step.                                      *)
MachineActsOnBootAddr == machine = "per-cycle" => PerCycle!BootAddrActedOn
=============================================================================
