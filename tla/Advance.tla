------------------------------ MODULE Advance ------------------------------
(***************************************************************************)
(* Machine::advance, the one loop through which every front end runs a     *)
(* machine: check the stop conditions, try to skip an idle wait, plan a    *)
(* CPU window, execute it on one of four paths, commit the boundary, and   *)
(* account for the work in the report.                                     *)
(*                                                                         *)
(* The firmware is arbitrary: a window retires any number of instructions  *)
(* the plan allows, each taking any of its legal cycle counts, and leaves  *)
(* the cores at any pc.  The scheduler heap is its next deadline, which    *)
(* SchedulerDrain models in full.                                          *)
(***************************************************************************)
EXTENDS Integers, FiniteSetsExt

CONSTANTS
  peripheral_tick_interval, \* SimulationConfig, the same value on the bus
  max_step_cycles,          \* Cpu::max_step_cycles; above 1 cycles are clock time
  secondary_awaits_boot_addr,
  LegacyActive,             \* some peripheral still needs the legacy tick walk
  SupplyRouted,             \* a circuit drives VDD
  SecondaryStates,          \* {"none"}, or the states the second core can be in
  Pcs, breakpoints,
  None,                     \* Option::None
  Requests,                 \* the AdvanceRequests callers issue
  ParkedWindow,             \* 1024 in the code
  U32Max,                   \* u32::MAX: wider than any window of the model
  MaxDelay, MaxCost,        \* bounds of a re-arm's delay and of a tick's cost
  MaxCycle                  \* no advance starts at or after this cycle, and no
                            \* single skip or batch is longer

Limits == Nat \cup {None}
AdvanceRequest ==
  [fuel : Limits, simulated_cycles : Limits, cap : Limits, single : BOOLEAN,
   honor : BOOLEAN, idle : BOOLEAN]

ASSUME AdvanceAssumption ==
  /\ peripheral_tick_interval \in Nat \ {0}
  /\ max_step_cycles \in Nat \ {0}
  /\ max_step_cycles > 1 => SecondaryStates = {"none"}   \* AVR, one core
  /\ secondary_awaits_boot_addr \in BOOLEAN
  /\ LegacyActive \in BOOLEAN
  /\ SupplyRouted \in BOOLEAN
  /\ SupplyRouted => SecondaryStates = {"none"}
  /\ SecondaryStates \subseteq {"none", "active", "parked", "held"}
  /\ "none" \in SecondaryStates => SecondaryStates = {"none"}
  /\ breakpoints \subseteq Pcs
  /\ None \notin Nat \cup Pcs \cup {"boot_addr", "reset_edge"}
  /\ Requests \subseteq AdvanceRequest
  /\ {ParkedWindow, U32Max} \subseteq Nat \ {0}
  /\ {MaxDelay, MaxCost, MaxCycle} \subseteq Nat

VARIABLES
  total_cycles,
  next_event,       \* sched.next_event_deadline()
  service,          \* bus.next_motor_service_deadline_cycle()
  secondary,        \* cpu_secondary's SecondaryExecutionState, or "none"
  boot_addr,        \* APPCPU_BOOT_ADDR is set
  reset_released,   \* APPCPU_RESET_RELEASED is set
  pc, secondary_pc, last_breakpoint, last_breakpoint_secondary,
  supply_held,
  request, start_cycles,
  state,            \* AdvanceState, the accounts of the current request
  window,           \* CpuWindow, with the fill of a timed core
  progress,         \* CoreProgress of the window being executed
  phase, stop,
  ticked,           \* history: cycles of peripheral time the tick walk delivered
  costs             \* history: peripheral costs charged since the last plan

clock == <<total_cycles, next_event, service>>
cores == <<secondary, boot_addr, reset_released, pc, secondary_pc>>
sticky == <<last_breakpoint, last_breakpoint_secondary>>
call == <<request, start_cycles, supply_held>>
advVars == <<clock, cores, sticky, call, state, window, progress, phase, stop,
             ticked, costs>>

NoWork == [fuel_consumed |-> 0, primary_steps |-> 0, secondary_steps |-> 0,
           idle_cycles |-> 0]
NoWindow == [start |-> 0, steps |-> 0, to_cycles |-> 0, max_steps |-> 0]
NoProgressYet == [primary_steps |-> 0, secondary_steps |-> 0, cycles |-> 0,
                  mode |-> "direct"]

AdvanceInit ==
  /\ total_cycles = 0
  /\ next_event = None
  /\ service \in {None, MaxDelay}
  /\ secondary \in SecondaryStates
  /\ boot_addr = FALSE /\ reset_released = FALSE
  /\ pc \in Pcs /\ secondary_pc \in Pcs
  /\ last_breakpoint = None /\ last_breakpoint_secondary = None
  /\ request \in Requests /\ start_cycles = 0
  /\ supply_held = SupplyRouted
  /\ state = NoWork /\ window = NoWindow /\ progress = NoProgressYet
  /\ phase = "stopped" /\ stop = "NoProgress"
  /\ ticked = 0 /\ costs = 0

SaturatingSub(a, b) == IF a > b THEN a - b ELSE 0
Least(S) == Min(S \ {None})     \* the tightest of some optional limits
elapsed == total_cycles - start_cycles

-----------------------------------------------------------------------------
(***************************************************************************)
(* The scheduler drain and the motor service, as far as the loop sees      *)
(* them: what may be due next once cycle `at` has been served.  A handler  *)
(* may arm a wake for `at` itself, which the next drain delivers.          *)
(***************************************************************************)
AfterDrain(at) ==
  IF next_event # None /\ next_event > at
  THEN at .. next_event
  ELSE {None} \cup (at .. at + MaxDelay)

AfterService(at) ==
  IF service # None /\ at >= service
  THEN {None, at + 1 + MaxDelay}
  ELSE {service}

-----------------------------------------------------------------------------
(***************************************************************************)
(* The caller.                                                             *)
(***************************************************************************)
StopWith(reason) ==
  /\ phase' = "stopped"
  /\ stop' = reason

\* The model follows a machine up to its first Err.
Begin(r) ==
  /\ phase = "stopped" /\ stop # "Err"
  /\ total_cycles < MaxCycle
  /\ request' = r
  /\ start_cycles' = total_cycles
  /\ window' = NoWindow
  /\ progress' = NoProgressYet
  /\ costs' = 0

Advance(r) ==
  /\ Begin(r)
  /\ ~supply_held
  /\ state' = NoWork
  /\ phase' = "loop"
  /\ UNCHANGED <<clock, cores, sticky, supply_held, stop, ticked>>

\* supply_boundary: the core is held in reset, so the whole budget is idle time.
AdvanceHeld(r) ==
  /\ Begin(r)
  /\ supply_held
  /\ LET budget == {r.fuel, r.simulated_cycles} \ {None}
         skip == IF budget = {} THEN 0 ELSE Least(budget)
     IN /\ total_cycles' = total_cycles + skip
        /\ state' = [NoWork EXCEPT !.fuel_consumed = skip, !.idle_cycles = skip]
        /\ StopWith(CASE budget = {}                                    -> "NoProgress"
                      [] budget # {} /\ r.simulated_cycles = skip        -> "CycleLimit"
                      [] OTHER                                           -> "FuelLimit")
  /\ UNCHANGED <<next_event, service, cores, sticky, supply_held, ticked>>

\* The circuit moves VDD between two advances; a release restarts the core.
SupplyMoves ==
  /\ phase = "stopped" /\ stop # "Err"
  /\ SupplyRouted
  /\ supply_held' = ~supply_held
  /\ pc' \in Pcs
  /\ supply_held \/ pc' = pc
  /\ UNCHANGED <<clock, secondary, boot_addr, reset_released, secondary_pc, sticky,
                 request, start_cycles, state, window, progress, phase, stop,
                 ticked, costs>>

-----------------------------------------------------------------------------
(***************************************************************************)
(* The top of the loop: release the second core on the reset edge, then    *)
(* breakpoint, fuel and cycle limit in that order.                         *)
(***************************************************************************)
ReleaseOnResetEdge ==
  /\ reset_released' = FALSE
  /\ secondary' = IF reset_released /\ ~secondary_awaits_boot_addr /\ secondary = "held"
                  THEN "active" ELSE secondary
  /\ UNCHANGED <<boot_addr, pc, secondary_pc>>

PrimaryHit ==
  request.honor /\ pc \in breakpoints /\ last_breakpoint # pc

SecondaryHit ==
  /\ request.honor /\ ~PrimaryHit
  /\ secondary # "none"
  /\ secondary_pc \in breakpoints
  /\ last_breakpoint_secondary # secondary_pc

StopAtPrimary ==
  /\ phase = "loop"
  /\ PrimaryHit
  /\ ReleaseOnResetEdge
  /\ last_breakpoint' = pc
  /\ StopWith("Breakpoint")
  /\ UNCHANGED <<clock, last_breakpoint_secondary, call, state, window, progress,
                 ticked, costs>>

StopAtSecondary ==
  /\ phase = "loop"
  /\ SecondaryHit
  /\ ReleaseOnResetEdge
  /\ last_breakpoint' = None
  /\ last_breakpoint_secondary' = secondary_pc
  /\ StopWith("Breakpoint")
  /\ UNCHANGED <<clock, call, state, window, progress, ticked, costs>>

FuelSpent == request.fuel # None /\ state.fuel_consumed >= request.fuel
CyclesSpent == request.simulated_cycles # None /\ elapsed >= request.simulated_cycles

CheckLimits ==
  /\ phase = "loop"
  /\ ~PrimaryHit /\ ~SecondaryHit
  /\ ReleaseOnResetEdge
  /\ IF request.honor
     THEN last_breakpoint' = None /\ last_breakpoint_secondary' = None
     ELSE UNCHANGED sticky
  /\ CASE FuelSpent                    -> StopWith("FuelLimit")
       [] ~FuelSpent /\ CyclesSpent    -> StopWith("CycleLimit")
       [] OTHER -> /\ phase' = IF request.idle /\ ~LegacyActive THEN "idle" ELSE "plan"
                   /\ stop' = stop
  /\ UNCHANGED <<clock, call, state, window, progress, ticked, costs>>

-----------------------------------------------------------------------------
(***************************************************************************)
(* try_idle_fast_forward: drain what is due, then skip while the primary   *)
(* core waits, up to the next deadline and the remaining budget.  Whether  *)
(* the core waits is the firmware's choice.  A window that retired nothing *)
(* tries the same skip again before it gives up.                           *)
(***************************************************************************)
IdleDrain ==
  /\ \/ phase = "idle" /\ phase' = "skip"
     \/ phase = "stuck" /\ request.idle /\ ~LegacyActive /\ phase' = "retry"
  /\ next_event' \in AfterDrain(total_cycles)
  /\ UNCHANGED <<total_cycles, service, cores, sticky, call, state, window, progress,
                 stop, ticked, costs>>

SkipAllowed(n) ==
  /\ request.fuel # None => n <= SaturatingSub(request.fuel, state.fuel_consumed)
  /\ request.simulated_cycles # None =>
       n <= SaturatingSub(request.simulated_cycles, elapsed)
  /\ service # None => n <= Max({SaturatingSub(service, total_cycles), 1})
  /\ next_event # None => n <= next_event - total_cycles

Skip(n) ==
  /\ phase \in {"skip", "retry"}
  /\ n > 0
  /\ SkipAllowed(n)
  /\ total_cycles' = total_cycles + n
  /\ next_event' \in AfterDrain(total_cycles')
  /\ service' \in AfterService(total_cycles')
  /\ state' = [state EXCEPT !.fuel_consumed = @ + n, !.idle_cycles = @ + n]
  /\ phase' = "loop"
  /\ UNCHANGED <<cores, sticky, call, window, progress, stop, ticked, costs>>

SkipNothing ==
  /\ phase = "skip"
  /\ phase' = "plan"
  /\ UNCHANGED <<clock, cores, sticky, call, state, window, progress, stop, ticked,
                 costs>>

\* Mutant: a window that retired nothing is planned again.
StopNoProgressRetries ==
  /\ phase \in {"stuck", "retry"}
  /\ phase' = "loop"
  /\ UNCHANGED <<clock, cores, sticky, call, state, window, progress, stop, ticked, costs>>

StopNoProgress ==
  /\ phase \in {"stuck", "retry"}
  /\ StopWith("NoProgress")
  /\ UNCHANGED <<clock, cores, sticky, call, state, window, progress, ticked, costs>>

-----------------------------------------------------------------------------
(***************************************************************************)
(* plan_cpu_window: the narrowest of the clauses.  A clause measured in    *)
(* cycles is divided by the longest step.  The fill ceiling max_steps is   *)
(* the same minimum without the tick boundary.                             *)
(***************************************************************************)
StepsWithin(cycles) == Max({cycles \div max_step_cycles, 1})
UntilTick == peripheral_tick_interval - (total_cycles % peripheral_tick_interval)

Parked == ~request.single /\ secondary = "parked"
ResetHeld == ~request.single /\ secondary = "held"
\* Mutant: breakpoints do not narrow the window.
PinnedByLockstep == secondary # "none" /\ ~Parked /\ ~ResetHeld

Pinned ==
  \/ secondary # "none" /\ ~Parked /\ ~ResetHeld
  \/ request.honor /\ breakpoints # {}

\* Mutant: a window may run past the motor service deadline.
BudgetClausesWithoutService ==
  {U32Max}
    \cup (IF request.fuel = None THEN {}
          ELSE {SaturatingSub(request.fuel, state.fuel_consumed)})
    \cup (IF request.simulated_cycles = None THEN {}
          ELSE {StepsWithin(SaturatingSub(request.simulated_cycles, elapsed))})
    \cup ({request.cap} \ {None})

BudgetClauses ==
  {U32Max}
    \cup (IF request.fuel = None THEN {}
          ELSE {SaturatingSub(request.fuel, state.fuel_consumed)})
    \cup (IF request.simulated_cycles = None THEN {}
          ELSE {StepsWithin(SaturatingSub(request.simulated_cycles, elapsed))})
    \cup ({request.cap} \ {None})
    \cup (IF service = None THEN {}
          ELSE {StepsWithin(SaturatingSub(service, total_cycles))})

CoreClauses ==
  CASE Pinned                          -> {1}
    [] ~Pinned /\ (Parked \/ ResetHeld) -> {ParkedWindow}
    [] OTHER                           -> {}

\* Mutant: a held second core lifts the tick clamp as a parked one does.
TickClausesHeldUnclamped ==
  IF Pinned \/ Parked \/ ResetHeld THEN {} ELSE {StepsWithin(UntilTick)}

TickClauses ==
  CASE Pinned                              -> {}
    [] ~Pinned /\ Parked                   -> {}
    [] ~Pinned /\ ResetHeld                ->
         IF peripheral_tick_interval > 1 THEN {StepsWithin(UntilTick)} ELSE {}
    [] OTHER                               -> {StepsWithin(UntilTick)}

DeadlineClauses(count) ==
  IF peripheral_tick_interval > 1 /\ count > 1 /\ next_event # None
  THEN {StepsWithin(Max({SaturatingSub(next_event, total_cycles), 1}))}
  ELSE {}

PlannedWindow ==
  LET hard == BudgetClauses \cup CoreClauses
      deadline == DeadlineClauses(Min(hard \cup TickClauses))
      steps == Max({Min(hard \cup TickClauses \cup deadline), 1})
      ceiling == Max({Min(hard \cup deadline), steps})
  IN [start |-> total_cycles, steps |-> steps, to_cycles |-> UntilTick,
      max_steps |-> IF max_step_cycles > 1 THEN ceiling ELSE steps]

\* Mutant: a held core has no per-cycle window.
ModeBatchesHeld ==
  CASE request.single \/ secondary = "active" -> "direct"
    [] ~request.single /\ secondary = "parked"
         /\ peripheral_tick_interval = 1      -> "per-cycle"
    [] OTHER                                  -> "batch"

Mode ==
  CASE request.single \/ secondary = "active" -> "direct"
    [] ~request.single /\ secondary \in {"parked", "held"}
         /\ peripheral_tick_interval = 1      -> "per-cycle"
    [] OTHER                                  -> "batch"

Plan ==
  /\ phase = "plan"
  /\ window' = PlannedWindow
  /\ progress' = [NoProgressYet EXCEPT !.mode = Mode]
  /\ costs' = 0
  /\ phase' = "run"
  /\ UNCHANGED <<clock, cores, sticky, call, state, stop, ticked>>

-----------------------------------------------------------------------------
(***************************************************************************)
(* execute_cpu_window.  An instruction of the primary core may release a   *)
(* second core still held in reset: by its boot address, which the window  *)
(* acts on, or by the reset edge, which the top of the loop acts on.       *)
(***************************************************************************)
Releases == {None, "boot_addr", "reset_edge"}
MayPublish(release) ==
  release # None => secondary = "held" /\ ~boot_addr /\ ~reset_released
BootAddr(release) == boot_addr \/ release = "boot_addr"
ResetEdge(release) == reset_released \/ release = "reset_edge"

\* Cpu::step on the second core: an interrupt unparks it, WAITI parks it.
AfterSecondaryStep(s) ==
  SecondaryStates \cap (IF s \in {"parked", "active"} THEN {"parked", "active"} ELSE {s})

SecondaryMoves(s) ==
  /\ secondary' \in AfterSecondaryStep(s)
  /\ secondary_pc' \in IF "parked" \in {s, secondary'} \/ s = "held" THEN {secondary_pc}
                       ELSE Pcs

RunDirectAlone(cycles) ==
  /\ phase = "run" /\ progress.mode = "direct"
  /\ secondary = "none"
  /\ cycles \in 0 .. max_step_cycles
  /\ total_cycles' = total_cycles + cycles
  /\ progress' = [progress EXCEPT !.primary_steps = IF cycles = 0 THEN 0 ELSE 1,
                                  !.cycles = cycles]
  /\ phase' = IF cycles = 0 THEN "stuck" ELSE "commit"
  /\ pc' \in IF cycles = 0 THEN {pc} ELSE Pcs
  /\ UNCHANGED <<next_event, service, secondary, boot_addr, reset_released, secondary_pc,
                 sticky, call, state, window, stop, ticked, costs>>

RunDirectDual(release) ==
  /\ phase = "run" /\ progress.mode = "direct"
  /\ secondary # "none"
  /\ MayPublish(release)
  /\ total_cycles' = total_cycles + 1
  /\ pc' \in Pcs
  /\ boot_addr' = FALSE
  /\ reset_released' = ResetEdge(release)
  /\ SecondaryMoves(IF BootAddr(release) /\ secondary = "held" THEN "active" ELSE secondary)
  /\ progress' = [progress EXCEPT !.primary_steps = 1, !.secondary_steps = 1, !.cycles = 1]
  /\ phase' = "commit"
  /\ UNCHANGED <<next_event, service, sticky, call, state, window, stop, ticked, costs>>

RunBatch(n, cycles, release) ==
  /\ phase = "run" /\ progress.mode = "batch"
  /\ n <= window.steps
  /\ cycles \in n .. n * max_step_cycles
  /\ MayPublish(release) /\ (release # None => n > 0)
  /\ boot_addr' = BootAddr(release)
  /\ reset_released' = ResetEdge(release)
  /\ pc' \in IF n = 0 THEN {pc} ELSE Pcs
  /\ progress' = [progress EXCEPT !.primary_steps = n, !.cycles = cycles]
  /\ phase' = IF n = 0 THEN "stuck" ELSE "fill"
  /\ UNCHANGED <<clock, secondary, secondary_pc, sticky, call, state, window, stop,
                 ticked, costs>>

\* A timed core that stopped short of the tick boundary keeps filling the window.
FillLeft == SaturatingSub(window.to_cycles, progress.cycles)
FillRoom ==
  Min({Max({FillLeft \div max_step_cycles, 1}), window.max_steps - progress.primary_steps})

\* Mutant: bounded by the cycles left to the tick boundary alone.
FillMoreByCycles(n, cycles) ==
  /\ phase = "fill"
  /\ max_step_cycles > 1
  /\ FillLeft >= max_step_cycles
  /\ n \in 1 .. Max({FillLeft \div max_step_cycles, 1})
  /\ cycles \in n .. n * max_step_cycles
  /\ progress' = [progress EXCEPT !.primary_steps = @ + n, !.cycles = @ + cycles]
  /\ pc' \in Pcs
  /\ UNCHANGED <<clock, secondary, boot_addr, reset_released, secondary_pc, sticky, call,
                 state, window, phase, stop, ticked, costs>>

FillMore(n, cycles) ==
  /\ phase = "fill"
  /\ max_step_cycles > 1
  /\ progress.primary_steps < window.max_steps
  /\ FillLeft >= max_step_cycles
  /\ n \in 1 .. FillRoom
  /\ cycles \in n .. n * max_step_cycles
  /\ progress' = [progress EXCEPT !.primary_steps = @ + n, !.cycles = @ + cycles]
  /\ pc' \in Pcs
  /\ UNCHANGED <<clock, secondary, boot_addr, reset_released, secondary_pc, sticky, call,
                 state, window, phase, stop, ticked, costs>>

\* A batch that retired nothing more ends the fill; a parked second core is
\* carried over the window and takes its one real step.
EndBatch ==
  /\ phase = "fill"
  /\ IF secondary = "parked"
     THEN /\ SecondaryMoves("parked")
          /\ progress' = [progress EXCEPT !.secondary_steps = progress.primary_steps]
     ELSE UNCHANGED <<secondary, secondary_pc, progress>>
  /\ phase' = "commit"
  /\ UNCHANGED <<clock, boot_addr, reset_released, pc, sticky, call, state, window, stop,
                 ticked, costs>>

\* One instruction of the interval-1 window beside a parked or held core, with
\* its own release, peripheral tick and drain.
RunCycle(release, cost) ==
  /\ phase = "run" /\ progress.mode = "per-cycle"
  /\ progress.primary_steps < window.steps
  /\ MayPublish(release)
  /\ LET released == secondary = "held" /\ BootAddr(release)
         stepped == secondary = "parked" \/ released
     IN /\ IF stepped
           THEN SecondaryMoves(IF released THEN "active" ELSE "parked")
           ELSE UNCHANGED <<secondary, secondary_pc>>
        /\ progress' = [progress EXCEPT !.primary_steps = @ + 1, !.cycles = @ + 1,
                                        !.secondary_steps = @ + IF stepped THEN 1 ELSE 0]
        /\ phase' = IF released \/ progress.primary_steps + 1 = window.steps
                    THEN "commit" ELSE "run"
  /\ boot_addr' = FALSE
  /\ reset_released' = ResetEdge(release)
  /\ pc' \in Pcs
  /\ total_cycles' = total_cycles + 1 + cost
  /\ ticked' = ticked + peripheral_tick_interval
  /\ costs' = costs + cost
  /\ next_event' \in AfterDrain(total_cycles')
  /\ UNCHANGED <<service, sticky, call, state, window, stop>>

RunCycleNothing ==
  /\ phase = "run" /\ progress.mode = "per-cycle"
  /\ phase' = IF progress.primary_steps = 0 THEN "stuck" ELSE "commit"
  /\ UNCHANGED <<clock, cores, sticky, call, state, window, progress, stop, ticked, costs>>

\* A core returns Err: no rollback, and a direct step has charged its cycle.
CpuFails ==
  /\ phase \in {"run", "fill"}
  /\ total_cycles' \in CASE progress.mode = "direct"    -> {total_cycles + 1}
                         [] progress.mode = "batch"     -> {total_cycles}
                         [] progress.mode = "per-cycle" -> {total_cycles, total_cycles + 1}
  /\ StopWith("Err")
  /\ UNCHANGED <<next_event, service, cores, sticky, call, state, window, progress,
                 ticked, costs>>

-----------------------------------------------------------------------------
(***************************************************************************)
(* commit_advance_boundary: charge the window, tick the peripherals when   *)
(* the window is due for it, drain, and account for the work.  A timed     *)
(* core ticks on crossing a grid point, any other on landing on one.       *)
(***************************************************************************)
\* Mutant: cycles a window committed itself are charged again.
WindowEndChargedTwice == total_cycles + progress.cycles

WindowEnd ==
  total_cycles + IF progress.mode = "batch" THEN progress.cycles ELSE 0

Coalesced ==
  progress.mode = "batch" /\ progress.secondary_steps > 0 /\ progress.primary_steps > 1

OnGrid ==
  IF max_step_cycles > 1
  THEN WindowEnd \div peripheral_tick_interval # window.start \div peripheral_tick_interval
  ELSE WindowEnd % peripheral_tick_interval = 0

TickElapsed ==
  CASE progress.mode = "per-cycle" -> 0
    [] progress.mode # "per-cycle" /\ Coalesced -> progress.primary_steps
    [] OTHER -> IF OnGrid THEN peripheral_tick_interval ELSE 0

Commit(cost, exits) ==
  /\ phase = "commit"
  /\ cost > 0 => TickElapsed > 0
  /\ total_cycles' = WindowEnd + cost
  /\ ticked' = ticked + TickElapsed
  /\ costs' = costs + cost
  /\ next_event' \in AfterDrain(total_cycles')
  /\ service' \in AfterService(WindowEnd)
  /\ state' = [state EXCEPT !.fuel_consumed = @ + progress.primary_steps,
                            !.primary_steps = @ + progress.primary_steps,
                            !.secondary_steps = @ + progress.secondary_steps]
  /\ progress' = NoProgressYet
  /\ IF exits THEN StopWith("FirmwareExit") ELSE phase' = "loop" /\ stop' = stop
  /\ UNCHANGED <<cores, sticky, call, window>>

-----------------------------------------------------------------------------
Steps == 0 .. MaxCycle

LoopNext ==
  \/ StopAtPrimary
  \/ StopAtSecondary
  \/ CheckLimits
  \/ IdleDrain
  \/ \E n \in Steps : Skip(n)
  \/ SkipNothing
  \/ StopNoProgress
  \/ Plan
  \/ \E cycles \in 0 .. max_step_cycles : RunDirectAlone(cycles)
  \/ \E release \in Releases : RunDirectDual(release)
  \/ \E n, cycles \in Steps, release \in Releases : RunBatch(n, cycles, release)
  \/ \E n, cycles \in Steps : FillMore(n, cycles)
  \/ EndBatch
  \/ \E release \in Releases, cost \in 0 .. MaxCost : RunCycle(release, cost)
  \/ RunCycleNothing
  \/ CpuFails
  \/ \E cost \in 0 .. MaxCost, exits \in BOOLEAN : Commit(cost, exits)

\* The callers of the model stop at its horizon.
CallerDone ==
  /\ phase = "stopped"
  /\ total_cycles >= MaxCycle \/ stop = "Err"
  /\ UNCHANGED advVars

AdvanceNext ==
  \/ CallerDone
  \/ \E r \in Requests : Advance(r) \/ AdvanceHeld(r)
  \/ SupplyMoves
  \/ LoopNext

AdvanceSpec == AdvanceInit /\ [][AdvanceNext]_advVars

(* The loop runs on one host thread and no step of it waits for anything:  *)
(* a call in progress keeps taking steps.  While one is in progress every  *)
(* step is one of LoopNext and one is always possible (the runs check for  *)
(* deadlock), so this is weak fairness of LoopNext.                        *)
KeepsStepping == []<>(phase = "stopped") \/ []<><<TRUE>>_advVars

-----------------------------------------------------------------------------
(***************************************************************************)
(* Properties.                                                             *)
(***************************************************************************)

(* The budgets of advance: fuel is never exceeded, not even by the fill of *)
(* a timed core, and a cycle limit is passed by less than one step plus    *)
(* the peripheral costs of the last boundary, whatever mix of windows,     *)
(* skips and supply-held time the request was spent on.                    *)
LimitsHeld ==
  /\ request.fuel # None =>
       state.fuel_consumed + progress.primary_steps <= request.fuel
  /\ request.simulated_cycles # None =>
       WindowEnd - start_cycles < request.simulated_cycles + max_step_cycles + costs

(* The report of an advance balances: fuel is instructions plus skipped    *)
(* cycles, and the elapsed time is what those took, each charged once on   *)
(* whichever path it ran, plus at most one cost per instruction.           *)
ReportBalances ==
  phase = "stopped" /\ stop # "Err" =>
    /\ state.fuel_consumed = state.primary_steps + state.idle_cycles
    /\ state.secondary_steps <= state.primary_steps
    /\ elapsed >= state.fuel_consumed
    /\ elapsed <= state.primary_steps * (max_step_cycles + MaxCost) + state.idle_cycles

\* How far a window ran past a deadline, or past its first cycle if that was overdue.
Overrun(deadline) == WindowEnd - Max({deadline, window.start + 1})

(* As planned, a window runs less than one step past the scheduler         *)
(* deadline that was due next, so a core of one cycle per step is exact,   *)
(* and however it is filled, less than one step past the motor service.    *)
WindowMeetsDeadlines ==
  phase = "commit" /\ progress.mode # "per-cycle" =>
    /\ next_event # None /\ progress.primary_steps <= window.steps =>
         Overrun(next_event) < max_step_cycles
    /\ service # None => Overrun(service) < max_step_cycles

(* The promise of the planner for every window, filled ones included: the  *)
(* fill of a timed core "can never run past a scheduler deadline", and no  *)
(* window runs more than one step past one.                                *)
FillMeetsDeadline ==
  phase = "commit" /\ progress.mode # "per-cycle" /\ next_event # None =>
    Overrun(next_event) < max_step_cycles

(* The tick walk delivers peripheral time on the grid: no grid point is    *)
(* lost or served twice, whatever cut the windows short and however the    *)
(* path changes with the second core's state (no tick costs, no idle skip, *)
(* no parked core above interval 1).                                       *)
GridTicked ==
  phase = "loop" =>
    ticked = peripheral_tick_interval * (total_cycles \div peripheral_tick_interval)

(* A run that honours breakpoints executes an instruction at a breakpoint, *)
(* on either core, only as its first one: the caller already saw that pc.  *)
(* No window, filled or coalesced, passes a pc between two checks.         *)
BreakpointsObserved ==
  request.honor /\ breakpoints # {} =>
    /\ progress.primary_steps <= 1
    /\ phase = "run" /\ state.primary_steps > 0 =>
         /\ pc \notin breakpoints
         /\ secondary \in {"active", "parked"} => secondary_pc \notin breakpoints

(* A boot address the firmware published for the held second core is acted *)
(* on before the primary core runs another window, or another instruction  *)
(* of the same one.                                                        *)
BootAddrActedOn == secondary = "held" /\ boot_addr => phase # "run"

(* A bounded request returns: every iteration of the loop spends budget or *)
(* stops.                                                                  *)
AdvanceReturns == phase # "stopped" ~> phase = "stopped"

=============================================================================
