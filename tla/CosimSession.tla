--------------------------- MODULE CosimSession ---------------------------
(***************************************************************************)
(* A machine in lockstep with its co-simulation models: CosimSession chops *)
(* Machine::advance at the models' boundaries, samples the pins, steps     *)
(* every model that is due, and applies their outputs to the board.  One   *)
(* of the outputs may be VDD, through which the supply supervisor holds    *)
(* the core in reset and releases it.                                      *)
(*                                                                         *)
(* A pin level is its age: what a model is handed is the global cycle at   *)
(* which the pins were sampled.  The circuit is arbitrary: a step of the   *)
(* model that drives VDD delivers any voltage, or fails.  Machine::advance *)
(* is what Advance shows of it: it keeps its limits, overrunning the       *)
(* cycles by less than one step, and it may stop early or fail.            *)
(***************************************************************************)
EXTENDS Integers, Sequences, FiniteSets

CONSTANTS
  NANOS_PER_SECOND, cpu_hz,
  StepNs,        \* step_ns of each model, in manifest order; the first drives VDD
  step_ns,       \* the session's: the finest of them
  Monitors,      \* the SupplyMonitors of the chips
  Routings,      \* whether board.power.vdd_volts is routed
  Volts, NaN,    \* what the circuit may deliver
  None,          \* Option::None
  Requests,      \* the budgets callers ask for
  max_step_cycles,
  MaxStart,      \* no call begins at or after this global cycle
  MaxCycle,      \* no chunk begins at or after this global cycle
  MaxFixtures    \* bound on rebind_fixture_epoch calls

Limits == Nat \cup {None}
Request == [fuel : Limits, cycles : Limits, once : BOOLEAN]
Causes == {"PowerOn", "BrownOut"}

\* What TryFrom<SupplyMonitorYaml> lets through.
SupplyMonitor ==
  {m \in [por_rising : Nat, pdr_falling : Nat,
          bor : [falling : Nat, rising : Nat] \cup {None}] :
     /\ 0 < m.pdr_falling /\ m.pdr_falling <= m.por_rising
     /\ m.bor # None => 0 < m.bor.falling /\ m.bor.falling <= m.bor.rising}

ASSUME CosimAssumption ==
  /\ NANOS_PER_SECOND \in Nat \ {0} /\ cpu_hz \in Nat \ {0}
  /\ StepNs \in Seq(Nat \ {0})
  /\ \E m \in DOMAIN StepNs : step_ns = StepNs[m]
  /\ \A m \in DOMAIN StepNs : step_ns <= StepNs[m]
  /\ Monitors \subseteq SupplyMonitor /\ Routings \subseteq BOOLEAN
  /\ Volts \subseteq Nat /\ NaN \notin Nat
  /\ None \notin Nat \cup Causes \cup {NaN} \cup [falling : Nat, rising : Nat]
  /\ Requests \subseteq Request
  /\ max_step_cycles \in Nat \ {0}
  /\ {MaxStart, MaxCycle, MaxFixtures} \subseteq Nat

Models == DOMAIN StepNs

VARIABLES
  monitor, routed_vdd,            \* the chip, and routes_supply()
  total_cycles,                   \* the machine's own clock
  supply,                         \* SupplySupervisor
  core,                           \* resets of the core by its supply, and the cause it shows
  epoch_cycles, last_global_cycles, next_boundary_ns, fixtures,
  next_step_ns,                   \* of each model
  signals,                        \* the store: VDD, and when the pins were sampled
  request, spent, stop, phase,    \* the advance_budget call
  chunk,                          \* the report of its current chunk
  started,                        \* history: total_cycles when the call began
  owed,                           \* history: a boundary was reached and no model stepped
  delivered                       \* history: every VDD applied since attach

chip == <<monitor, routed_vdd>>
fixture == <<epoch_cycles, fixtures>>
caller == <<request, started>>
vars == <<chip, total_cycles, supply, core, fixture, last_global_cycles,
          next_boundary_ns, next_step_ns, signals, caller, spent, stop, phase,
          chunk, owed, delivered>>

-----------------------------------------------------------------------------
(* The supply supervisor.                                                  *)

Unpowered ==
  [routed |-> FALSE, vdd |-> None, held |-> FALSE, lost_power |-> FALSE,
   pending_release |-> None, power_on_resets |-> 0, brown_out_resets |-> 0,
   last_cause |-> None]

Attach(s) ==
  IF s.routed THEN s ELSE [s EXCEPT !.routed = TRUE, !.held = TRUE, !.lost_power = TRUE]

release_v(m) ==
  IF m.bor # None /\ m.bor.rising > m.por_rising THEN m.bor.rising ELSE m.por_rising

\* VDD at which a running core is reset.
BelowReset(m, v) == v < m.pdr_falling \/ (m.bor # None /\ v < m.bor.falling)

\* NaN reads as no supply at all.
Delivered(volts) == IF volts = NaN THEN 0 ELSE volts

Counted(n, one) == IF one THEN n + 1 ELSE n
Release(s, v, why) ==
  [routed |-> s.routed, vdd |-> v, held |-> FALSE, lost_power |-> FALSE,
   pending_release |-> why, last_cause |-> why,
   power_on_resets |-> Counted(s.power_on_resets, why = "PowerOn"),
   brown_out_resets |-> Counted(s.brown_out_resets, why = "BrownOut")]
NoRelease(s, v, lost, held) ==
  [s EXCEPT !.vdd = v, !.lost_power = lost, !.held = held]

\* A mutation: power lost during a brown-out hold is not remembered.
SetVddForgets(m, s, volts) ==
  LET v    == Delivered(volts)
      lost == s.lost_power \/ (~s.held /\ v < m.pdr_falling)
  IN  IF s.held /\ v >= release_v(m)
      THEN Release(s, v, IF lost THEN "PowerOn" ELSE "BrownOut")
      ELSE NoRelease(s, v, lost, s.held \/ BelowReset(m, v))

SetVdd(m, s, volts) ==
  LET v    == Delivered(volts)
      lost == s.lost_power \/ v < m.pdr_falling
  IN  IF s.held /\ v >= release_v(m)
      THEN Release(s, v, IF lost THEN "PowerOn" ELSE "BrownOut")
      ELSE NoRelease(s, v, lost, s.held \/ BelowReset(m, v))

\* A mutation: the release is read, not taken.
TakeReleaseKeeps(s) == s

TakeRelease(s) == [s EXCEPT !.pending_release = None]

\* apply_supply_release: the core restarts and its reset-cause register says why.
Restarted(s) ==
  IF s.pending_release = None THEN core
  ELSE [resets |-> core.resets + 1, cause |-> s.pending_release]

-----------------------------------------------------------------------------
(* The time base.                                                          *)

CyclesToNs(c) == (c * NANOS_PER_SECOND) \div cpu_hz
NsToCycles(ns) == (ns * cpu_hz + NANOS_PER_SECOND - 1) \div NANOS_PER_SECOND

\* A mutation: the epoch is ignored.
GlobalCyclesLocal(local) == local

GlobalCycles(local) == epoch_cycles + local
Now == GlobalCycles(total_cycles)

\* A mutation: the fixture's clock is taken for the global one.
CyclesUntilBoundaryLocal ==
  LET left == NsToCycles(next_boundary_ns) - total_cycles IN IF left > 1 THEN left ELSE 1

CyclesUntilBoundary ==
  LET left == NsToCycles(next_boundary_ns) - Now IN IF left > 1 THEN left ELSE 1

-----------------------------------------------------------------------------
Report(why, fuel, cycles) == [stop |-> why, fuel |-> fuel, cycles |-> cycles]
NoReport == Report("NoProgress", 0, 0)

Init ==
  /\ monitor \in Monitors /\ routed_vdd \in Routings
  /\ total_cycles = 0
  /\ supply = Unpowered
  /\ core = [resets |-> 0, cause |-> None]
  /\ epoch_cycles = 0 /\ last_global_cycles = 0 /\ fixtures = 0
  /\ next_boundary_ns = step_ns
  /\ next_step_ns = StepNs
  /\ signals = [vdd |-> None, sampled |-> 0]
  /\ request \in Requests /\ started = 0
  /\ spent = [fuel |-> 0, cycles |-> 0]
  /\ stop = None /\ phase = "idle" /\ chunk = NoReport
  /\ owed = FALSE /\ delivered = <<>>

\* A caller asks advance_budget for a budget, or advance for one chunk (once).
Call ==
  /\ phase = "idle" /\ Now < MaxStart
  /\ stop # "FirmwareExit"
  /\ request' \in Requests
  /\ started' = total_cycles
  /\ spent' = [fuel |-> 0, cycles |-> 0]
  /\ stop' = None /\ phase' = "machine"
  /\ UNCHANGED <<chip, total_cycles, supply, core, fixture, last_global_cycles,
                 next_boundary_ns, next_step_ns, signals, chunk, owed, delivered>>

\* rebind_fixture_epoch: a fresh machine takes over at the last global cycle.
Rebind ==
  /\ phase = "idle" /\ fixtures < MaxFixtures
  /\ epoch_cycles' = last_global_cycles /\ fixtures' = fixtures + 1
  /\ total_cycles' = 0 /\ started' = 0
  /\ supply' = Unpowered
  /\ core' = [resets |-> 0, cause |-> None]
  /\ spent' = [fuel |-> 0, cycles |-> 0] /\ stop' = None
  /\ delivered' = <<>>
  /\ UNCHANGED <<chip, last_global_cycles, next_boundary_ns, next_step_ns, signals,
                 request, phase, chunk, owed>>

-----------------------------------------------------------------------------
(* One chunk.                                                              *)

Left(limit, used) ==
  IF limit = None THEN None ELSE IF limit > used THEN limit - used ELSE 0
FuelLeft == Left(request.fuel, spent.fuel)
CyclesLeft == Left(request.cycles, spent.cycles)

Within(limit, n) == limit = None \/ n <= limit

\* The tighter of the request's cycles and the next boundary.
CycleLimit ==
  IF Within(CyclesLeft, CyclesUntilBoundary) THEN CyclesUntilBoundary ELSE CyclesLeft

\* What Machine::advance may do within fuel limit f and cycle limit c, and the
\* stops it may report for it, in the order it checks them.  A core held in
\* reset passes the whole budget as idle time.
Work(f, c) ==
  LET most == IF c = 0 THEN 0 ELSE c + max_step_cycles - 1
  IN  {w \in [fuel : 0 .. most, cycles : 0 .. most] :
         /\ w.fuel <= w.cycles /\ w.cycles <= w.fuel * max_step_cycles
         /\ Within(f, w.fuel)}
Stops(f, c, w) ==
  {"Breakpoint"}     \* likewise NoProgress and NetDriveChange
    \cup (IF w.fuel = f THEN {"FuelLimit"} ELSE IF w.cycles >= c THEN {"CycleLimit"} ELSE {})
    \cup (IF w.fuel > 0 THEN {"FirmwareExit"} ELSE {})
Held(f, c) ==
  IF f # None /\ f < c THEN Report("FuelLimit", f, f) ELSE Report("CycleLimit", c, c)

Supplied == IF routed_vdd THEN Attach(supply) ELSE supply

\* How advance_budget goes on after a chunk: another one, or back to the caller.
Spent(r) == [fuel |-> spent.fuel + r.fuel, cycles |-> spent.cycles + r.cycles]
\* A mutation: a model boundary ends the call.
BudgetSpentAtBoundary(r) == r.stop # "CycleLimit" \/ r.cycles > 0

BudgetSpent(r) ==
  \/ r.stop # "CycleLimit"
  \/ CyclesLeft # None /\ r.cycles >= CyclesLeft
\* A mutation: fuel running out, and a chunk without progress, go unnoticed.
ChunkDoneLoops(r) ==
  /\ chunk' = NoReport
  /\ spent' = Spent(r) /\ stop' = r.stop
  /\ phase' = IF request.once \/ (BudgetSpent(r) /\ r.stop # "FuelLimit")
              THEN "idle" ELSE "machine"

ChunkDone(r) ==
  /\ chunk' = NoReport
  /\ spent' = Spent(r) /\ stop' = r.stop
  /\ phase' = IF request.once \/ BudgetSpent(r) \/ r.fuel = 0 THEN "idle" ELSE "machine"

\* The machine reaches r.cycles on, having taken a release first.
Moved(r) ==
  /\ supply' = TakeRelease(Supplied)
  /\ core' = Restarted(Supplied)
  /\ total_cycles' = total_cycles + r.cycles
Due(r) == CyclesToNs(Now + r.cycles) >= next_boundary_ns

\* Models are stepped only if the machine moved, did not stop for good, and
\* reached their boundary: the pins are sampled there.
Advanced(r) ==
  /\ Moved(r)
  /\ last_global_cycles' = Now + r.cycles
  /\ IF Due(r) /\ r.fuel > 0 /\ r.stop # "FirmwareExit"
     THEN /\ signals' = [signals EXCEPT !.sampled = Now + r.cycles]
          /\ chunk' = r /\ phase' = "models"
          /\ UNCHANGED <<spent, stop, owed>>
     ELSE /\ ChunkDone(r)
          /\ owed' = (owed \/ Due(r))
          /\ UNCHANGED signals
  /\ UNCHANGED <<chip, fixture, next_boundary_ns, next_step_ns, caller, delivered>>

CanRun == phase = "machine" /\ Now < MaxCycle

RunMachine ==
  /\ CanRun /\ ~Supplied.held
  /\ \E w \in Work(FuelLeft, CycleLimit) :
       \E why \in Stops(FuelLeft, CycleLimit, w) : Advanced(Report(why, w.fuel, w.cycles))

PassHeld ==
  /\ CanRun /\ Supplied.held
  /\ Advanced(Held(FuelLeft, CycleLimit))

\* The CPU fails part of the way: the error goes straight to the caller.
MachineFails ==
  /\ CanRun /\ ~Supplied.held
  /\ \E w \in Work(FuelLeft, CycleLimit) : Moved(w) /\ owed' = (owed \/ Due(w))
  /\ stop' = "Err" /\ phase' = "idle"
  /\ UNCHANGED <<chip, fixture, last_global_cycles, next_boundary_ns, next_step_ns,
                 signals, caller, spent, chunk, delivered>>

\* step_until_with_signals: model by model, each until it has caught up.
TimeNs == CyclesToNs(last_global_cycles)
DueModels == {m \in Models : TimeNs >= next_step_ns[m]}
NextModel(m) == m \in DueModels /\ \A k \in DueModels : m <= k

StepModel ==
  /\ phase = "models"
  /\ \E m \in Models :
       /\ NextModel(m)
       /\ next_step_ns' = [next_step_ns EXCEPT ![m] = @ + StepNs[m]]
       /\ \E v \in IF routed_vdd /\ m = 1 THEN Volts \cup {NaN} ELSE {signals.vdd} :
            signals' = [signals EXCEPT !.vdd = v]
  /\ UNCHANGED <<chip, total_cycles, supply, core, fixture, last_global_cycles,
                 next_boundary_ns, caller, spent, stop, phase, chunk, owed, delivered>>

\* A model's error ends the call: nothing is applied, the boundary stays.
ModelFails ==
  /\ phase = "models" /\ DueModels # {}
  /\ spent' = Spent(chunk) /\ stop' = "Err" /\ phase' = "idle"
  /\ chunk' = NoReport /\ owed' = TRUE
  /\ UNCHANGED <<chip, total_cycles, supply, core, fixture, last_global_cycles,
                 next_boundary_ns, next_step_ns, signals, caller, delivered>>

\* Outputs to the board, then the first boundary strictly after this time.
Apply ==
  /\ phase = "models" /\ DueModels = {}
  /\ IF routed_vdd /\ signals.vdd # None
     THEN /\ supply' = SetVdd(monitor, supply, signals.vdd)
          /\ delivered' = Append(delivered, Delivered(signals.vdd))
     ELSE UNCHANGED <<supply, delivered>>
  /\ next_boundary_ns' = (TimeNs \div step_ns + 1) * step_ns
  /\ ChunkDone(chunk)
  /\ owed' = FALSE
  /\ UNCHANGED <<chip, total_cycles, core, fixture, last_global_cycles, next_step_ns,
                 signals, caller>>

Next ==
  \/ Call \/ Rebind
  \/ RunMachine \/ PassHeld \/ MachineFails
  \/ StepModel \/ ModelFails \/ Apply

Spec == Init /\ [][Next]_vars

\* advance_budget is one call: it runs to its end.
Chunk == RunMachine \/ PassHeld \/ StepModel \/ Apply
FairSpec == Spec /\ WF_vars(Chunk)

-----------------------------------------------------------------------------
SupplySupervisor ==
  [routed : BOOLEAN, vdd : Limits, held : BOOLEAN, lost_power : BOOLEAN,
   pending_release : Causes \cup {None}, power_on_resets : Nat, brown_out_resets : Nat,
   last_cause : Causes \cup {None}]

(* What set_vdd promises, read off the voltages alone: the core is up      *)
(* after delivery i if some delivery reached the release level and none    *)
(* since fell through a reset threshold; a release is a power-on reset if  *)
(* VDD was below power-down since the release before it, or there was none.*)
Up(i) ==
  \E k \in 1 .. i : /\ delivered[k] >= release_v(monitor)
                   /\ \A j \in (k + 1) .. i : ~BelowReset(monitor, delivered[j])
Releases == {i \in DOMAIN delivered : Up(i) /\ ~Up(i - 1)}
PowerOns ==
  {i \in Releases : \A k \in Releases : k < i =>
      \E j \in (k + 1) .. i : delivered[j] < monitor.pdr_falling}
SupplyFollowsVdd ==
  supply.routed =>
    /\ supply.held = ~Up(Len(delivered))
    /\ supply.power_on_resets = Cardinality(PowerOns)
    /\ supply.brown_out_resets = Cardinality(Releases \ PowerOns)

(* Every release the supervisor counts restarts the core, once, with the   *)
(* release's own cause, and before the core executes anything: one decided *)
(* at a boundary waits only until the next advance, and a second cannot    *)
(* overtake it.                                                            *)
ReleasesActedOn ==
  /\ supply.power_on_resets + supply.brown_out_resets
       = core.resets + (IF supply.pending_release = None THEN 0 ELSE 1)
  /\ supply.pending_release = None => core.cause = supply.last_cause
  /\ supply.pending_release # None => phase # "models" /\ ~supply.held

(* A model is never handed pin levels from its future: the pins were       *)
(* sampled in the first cycle at or after the model's step time, or within *)
(* the instruction that ran over it, unless a call in between ended in an  *)
(* error or an exit at that boundary.  All periods are multiples of the    *)
(* finest one.                                                             *)
PinsOfTheBoundary ==
  phase = "models" /\ ~owed =>
    \A m \in DueModels :
      signals.sampled - NsToCycles(next_step_ns[m]) \in 0 .. (max_step_cycles - 1)

(* No model is ahead of the machine, whichever fixture is bound and        *)
(* however the last call ended, and global_cycles never refuses the clock. *)
NoModelAhead ==
  /\ Now >= last_global_cycles
  /\ \A m \in Models : next_step_ns[m] - StepNs[m] <= CyclesToNs(Now)

(* advance_budget accounts like one Machine::advance: the cycles and fuel  *)
(* it returns are those the machine spent over all chunks, within the      *)
(* budget but for one step, and a mere boundary is never reported as the   *)
(* caller's cycle limit.                                                   *)
BudgetAccounts ==
  phase = "idle" /\ stop \notin {None, "Err"} =>
    /\ spent.cycles = total_cycles - started
    /\ Within(request.fuel, spent.fuel)
    /\ request.cycles # None => spent.cycles < request.cycles + max_step_cycles
    /\ stop = "FuelLimit" => spent.fuel = request.fuel
    /\ stop = "CycleLimit" /\ ~request.once =>
         request.cycles # None /\ spent.cycles >= request.cycles

(* Every call returns: boundaries, a held core and failing models only cut *)
(* the budget into chunks, each of which makes progress.                   *)
BudgetReturns == phase = "machine" ~> phase = "idle"
=============================================================================
