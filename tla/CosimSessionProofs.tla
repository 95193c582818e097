------------------------ MODULE CosimSessionProofs ------------------------
(***************************************************************************)
(* For every set of models, chip, budget and clock: the supply's releases  *)
(* reach the core one for one and are those its voltages call for, no      *)
(* model runs ahead of the machine, budgets add up to the time that        *)
(* passed, and models on the session's step see the pins of the boundary   *)
(* they are stepped at.                                                    *)
(***************************************************************************)
EXTENDS CosimSession, FiniteSetTheorems, TLAPS

-----------------------------------------------------------------------------
(* The supply.                                                             *)

(* A voltage that releases the core does not reset it again: the           *)
(* thresholds TryFrom<SupplyMonitorYaml> lets through have no chatter.     *)
LEMMA NoChatter ==
  ASSUME NEW m \in SupplyMonitor, NEW v \in Nat, v >= release_v(m)
  PROVE  ~BelowReset(m, v)
BY CosimAssumption, SMT DEF SupplyMonitor, release_v, BelowReset

\* What the supply's invariant speaks of, typed.
SupplyTypes ==
  /\ supply \in SupplySupervisor
  /\ core \in [resets : Nat, cause : Causes \cup {None}]
  /\ monitor \in SupplyMonitor
  /\ signals.vdd \in Volts \cup {NaN, None}
  /\ signals = [vdd |-> signals.vdd, sampled |-> signals.sampled]

\* A pending release is the last one decided.
SupplyInv ==
  /\ SupplyTypes
  /\ ReleasesActedOn
  /\ supply.pending_release # None => supply.pending_release = supply.last_cause

(* set_vdd keeps the supervisor a supervisor, whatever the circuit         *)
(* delivers.                                                               *)
LEMMA SetVddTyped ==
  ASSUME NEW m \in SupplyMonitor, NEW s \in SupplySupervisor,
         NEW volts \in Volts \cup {NaN}
  PROVE  SetVdd(m, s, volts) \in SupplySupervisor
<1>1. Delivered(volts) \in Nat
  BY CosimAssumption DEF Delivered
<1>2. ASSUME NEW v \in Nat, NEW why \in Causes
      PROVE  Release(s, v, why) \in SupplySupervisor
  <2>1. /\ Counted(s.power_on_resets, why = "PowerOn") \in Nat
        /\ Counted(s.brown_out_resets, why = "BrownOut") \in Nat
    BY DEF Counted, SupplySupervisor
  <2> QED
    BY <2>1, SMT DEF Release, SupplySupervisor, Limits
<1>3. ASSUME NEW v \in Nat, NEW lost \in BOOLEAN, NEW held \in BOOLEAN
      PROVE  NoRelease(s, v, lost, held) \in SupplySupervisor
  BY Zenon DEF NoRelease, SupplySupervisor, Limits
<1>4. /\ (s.lost_power \/ Delivered(volts) < m.pdr_falling) \in BOOLEAN
      /\ (s.held \/ BelowReset(m, Delivered(volts))) \in BOOLEAN
  BY Zenon
<1> QED
  BY <1>1, <1>2, <1>3, <1>4, Zenon DEF SetVdd, Causes

(* So do attach and take_release, which leave the counts alone.            *)
LEMMA SuppliedTyped ==
  ASSUME SupplyTypes
  PROVE  /\ Supplied \in SupplySupervisor
         /\ TakeRelease(Supplied) \in SupplySupervisor
         /\ \A f \in {"pending_release", "power_on_resets", "brown_out_resets", "last_cause"} :
              Supplied[f] = supply[f]
         /\ \A f \in {"power_on_resets", "brown_out_resets", "last_cause", "held"} :
              TakeRelease(Supplied)[f] = Supplied[f]
         /\ TakeRelease(Supplied).pending_release = None
<1>1. supply \in SupplySupervisor
  BY DEF SupplyTypes
<1>2. Supplied \in SupplySupervisor
  BY <1>1, Zenon DEF Supplied, Attach, SupplySupervisor
<1>3. \A f \in {"pending_release", "power_on_resets", "brown_out_resets", "last_cause"} :
        Supplied[f] = supply[f]
  BY <1>1, Zenon DEF Supplied, Attach, SupplySupervisor
<1>4. TakeRelease(Supplied) \in SupplySupervisor
  BY <1>2, Zenon DEF TakeRelease, SupplySupervisor
<1>5. /\ \A f \in {"power_on_resets", "brown_out_resets", "last_cause", "held"} :
           TakeRelease(Supplied)[f] = Supplied[f]
      /\ TakeRelease(Supplied).pending_release = None
  BY <1>2 DEF TakeRelease, SupplySupervisor
<1> QED
  BY <1>2, <1>3, <1>4, <1>5

(* The gate at the start of a machine advance: a pending release becomes   *)
(* one restart of the core, with its cause, whatever the machine then does.*)
LEMMA GateActs ==
  ASSUME SupplyInv, NEW r, Moved(r), UNCHANGED monitor,
         NEW at, signals' = [signals EXCEPT !.sampled = at]
  PROVE  SupplyInv'
<1> USE DEF SupplyInv
<1>1. /\ supply' \in SupplySupervisor /\ supply'.pending_release = None
      /\ supply'.power_on_resets = supply.power_on_resets
      /\ supply'.brown_out_resets = supply.brown_out_resets
      /\ supply'.last_cause = supply.last_cause
  BY SuppliedTyped DEF Moved
<1>2. core' = IF supply.pending_release = None THEN core
              ELSE [resets |-> core.resets + 1, cause |-> supply.pending_release]
  BY SuppliedTyped DEF Moved, Restarted
<1>3. SupplyTypes'
  BY <1>1, <1>2 DEF SupplyTypes, SupplySupervisor
<1>4. ReleasesActedOn'
  BY <1>1, <1>2, CosimAssumption, SMTT(30) DEF ReleasesActedOn, SupplyTypes, SupplySupervisor
<1> QED
  BY <1>1, <1>3, <1>4

(* set_vdd between two advances: no release is pending then, so the one it *)
(* may decide is the only one the next gate finds.                         *)
LEMMA VddDecides ==
  ASSUME SupplyInv, phase = "models", signals.vdd # None, phase' # "models",
         supply' = SetVdd(monitor, supply, signals.vdd),
         UNCHANGED <<monitor, core, signals>>
  PROVE  SupplyInv'
<1> USE DEF SupplyInv
<1>1. supply' \in SupplySupervisor
  BY SetVddTyped DEF SupplyTypes
<1>2. SupplyTypes'
  BY <1>1 DEF SupplyTypes
<1>3. supply.pending_release = None
  BY DEF ReleasesActedOn
<1>4. ASSUME NEW v, NEW why \in Causes, supply' = Release(supply, v, why)
      PROVE  SupplyInv'
  <2>1. supply'.power_on_resets + supply'.brown_out_resets
          = supply.power_on_resets + supply.brown_out_resets + 1
    BY <1>4 DEF Release, Counted, Causes, SupplyTypes, SupplySupervisor
  <2>2. /\ supply'.pending_release = why /\ supply'.last_cause = why
        /\ ~supply'.held /\ why # None
    BY <1>4, CosimAssumption DEF Release
  <2>3. ReleasesActedOn'
    BY <1>3, <2>1, <2>2 DEF ReleasesActedOn, SupplyTypes
  <2> QED
    BY <1>2, <2>2, <2>3
<1>5. ASSUME NEW v, NEW lost, NEW held, supply' = NoRelease(supply, v, lost, held)
      PROVE  SupplyInv'
  <2>1. /\ supply'.power_on_resets = supply.power_on_resets
        /\ supply'.brown_out_resets = supply.brown_out_resets
        /\ supply'.last_cause = supply.last_cause
        /\ supply'.pending_release = supply.pending_release
    BY <1>5 DEF NoRelease, SupplyTypes, SupplySupervisor
  <2> QED
    BY <1>2, <1>3, <2>1 DEF ReleasesActedOn
<1> QED
  BY <1>4, <1>5 DEF SetVdd, Causes

(* Every step keeps the supply's invariant.                                *)
LEMMA SupplyInvPreserved ==
  ASSUME SupplyInv, [Next]_vars
  PROVE  SupplyInv'
<1>1. CASE Call
  BY <1>1 DEF Call, SupplyInv, SupplyTypes, ReleasesActedOn, chip
<1>2. CASE Rebind
  BY <1>2, CosimAssumption
  DEF Rebind, SupplyInv, SupplyTypes, ReleasesActedOn, chip, Unpowered, SupplySupervisor, Limits
<1>3. ASSUME NEW r, Advanced(r)
      PROVE  SupplyInv'
  <2>1. \E at : signals' = [signals EXCEPT !.sampled = at]
    BY <1>3 DEF Advanced, SupplyInv, SupplyTypes
  <2> QED
    BY <1>3, <2>1, GateActs DEF Advanced, chip
<1>4. CASE RunMachine
  BY <1>3, <1>4 DEF RunMachine
<1>5. CASE PassHeld
  BY <1>3, <1>5 DEF PassHeld
<1>6. CASE MachineFails
  <2>1. signals' = [signals EXCEPT !.sampled = signals.sampled]
    BY <1>6 DEF MachineFails, SupplyInv, SupplyTypes
  <2> QED
    BY <1>6, <2>1, GateActs, Zenon DEF MachineFails, chip
<1>7. CASE StepModel
  BY <1>7 DEF StepModel, SupplyInv, SupplyTypes, ReleasesActedOn, chip
<1>8. CASE ModelFails
  BY <1>8 DEF ModelFails, SupplyInv, SupplyTypes, ReleasesActedOn, chip
<1>9. CASE Apply
  <2>1. phase = "models" /\ phase' # "models" /\ UNCHANGED <<monitor, core, signals>>
    BY <1>9 DEF Apply, ChunkDone, chip
  <2>2. CASE routed_vdd /\ signals.vdd # None
    BY <1>9, <2>1, <2>2, VddDecides DEF Apply
  <2>3. CASE ~(routed_vdd /\ signals.vdd # None)
    BY <1>9, <2>1, <2>3 DEF Apply, SupplyInv, SupplyTypes, ReleasesActedOn
  <2> QED
    BY <2>2, <2>3
<1>10. CASE UNCHANGED vars
  BY <1>10 DEF vars, chip, SupplyInv, SupplyTypes, ReleasesActedOn
<1> QED
  BY <1>1, <1>2, <1>4, <1>5, <1>6, <1>7, <1>8, <1>9, <1>10 DEF Next

(* The supply's invariant, for the theorems that rest on it.               *)
THEOREM SupplyAgrees == Spec => []SupplyInv
<1>1. Init => SupplyInv
  BY CosimAssumption
  DEF Init, SupplyInv, SupplyTypes, ReleasesActedOn, Unpowered, SupplySupervisor, Limits
<1>2. SupplyInv /\ [Next]_vars => SupplyInv'
  BY SupplyInvPreserved
<1> QED
  BY <1>1, <1>2, PTL DEF Spec

(* A release the supervisor counts restarts the core exactly once, with    *)
(* its own cause, before the core runs: for every chip, circuit and budget.*)
THEOREM ReleasesReachTheCore == Spec => []ReleasesActedOn
<1>1. SupplyInv => ReleasesActedOn
  BY DEF SupplyInv
<1> QED
  BY <1>1, SupplyAgrees, PTL

-----------------------------------------------------------------------------
(* The clocks.                                                             *)

(* Rounding down keeps the order of two times.                             *)
LEMMA DivMonotone ==
  ASSUME NEW a \in Nat, NEW b \in Nat, NEW h \in Nat \ {0}, a <= b
  PROVE  a \div h \in Nat /\ a \div h <= b \div h
<1>1. a \div h <= b \div h
  BY SMT
<1>2. a \div h \in Nat
  BY SMT
<1> QED
  BY <1>1, <1>2

(* Of two cycles the later is not earlier in nanoseconds.                  *)
LEMMA NsMonotone ==
  ASSUME NEW c \in Nat, NEW d \in Nat, c <= d
  PROVE  /\ CyclesToNs(c) \in Nat
         /\ CyclesToNs(c) <= CyclesToNs(d)
<1>1. /\ c * NANOS_PER_SECOND \in Nat /\ d * NANOS_PER_SECOND \in Nat
      /\ c * NANOS_PER_SECOND <= d * NANOS_PER_SECOND
  BY CosimAssumption, SMT
<1> QED
  BY <1>1, DivMonotone, CosimAssumption, Zenon DEF CyclesToNs

\* What the clocks' invariant speaks of, typed.
ClockTypes ==
  /\ total_cycles \in Nat /\ epoch_cycles \in Nat
  /\ last_global_cycles \in Nat /\ next_boundary_ns \in Nat
  /\ next_step_ns \in [Models -> Nat]
  /\ spent \in [fuel : Nat, cycles : Nat]
  /\ chunk.fuel \in Nat /\ chunk.cycles \in Nat
  /\ request \in Request

\* A rebind may take the machine back as far as the last global cycle, so it
\* is that cycle no model may have passed.
ClockInv ==
  /\ ClockTypes
  /\ Now >= last_global_cycles
  /\ \A m \in Models : next_step_ns[m] - StepNs[m] <= CyclesToNs(last_global_cycles)

(* A chunk is limited by what is left of the budget and by the boundary,   *)
(* which is always at least a cycle away.                                  *)
LEMMA ChunkLimits ==
  ASSUME ClockTypes
  PROVE  /\ CyclesUntilBoundary \in Nat /\ CyclesUntilBoundary >= 1
         /\ FuelLeft \in Nat \cup {None} /\ CyclesLeft \in Nat \cup {None}
         /\ CycleLimit \in Nat /\ CycleLimit <= CyclesUntilBoundary
         /\ CyclesLeft # None => CycleLimit <= CyclesLeft
         /\ CycleLimit = 0 => CyclesLeft = 0
<1>1. CyclesUntilBoundary \in Nat /\ CyclesUntilBoundary >= 1
  <2>1. NsToCycles(next_boundary_ns) \in Int
    BY CosimAssumption, SMT DEF NsToCycles, ClockTypes
  <2>2. Now \in Int
    BY DEF Now, GlobalCycles, ClockTypes
  <2> QED
    BY <2>1, <2>2 DEF CyclesUntilBoundary
<1>2. FuelLeft \in Nat \cup {None} /\ CyclesLeft \in Nat \cup {None}
  <2>1. ASSUME NEW limit \in Nat \cup {None}, NEW used \in Nat
        PROVE  Left(limit, used) \in Nat \cup {None}
    BY DEF Left
  <2>2. request.fuel \in Nat \cup {None} /\ request.cycles \in Nat \cup {None}
    BY DEF ClockTypes, Request, Limits
  <2>3. spent.fuel \in Nat /\ spent.cycles \in Nat
    BY DEF ClockTypes
  <2> QED
    BY <2>1, <2>2, <2>3, Zenon DEF FuelLeft, CyclesLeft
<1> QED
  BY <1>1, <1>2 DEF CycleLimit, Within

(* A chunk's limits are natural numbers, so no chunk takes time back.      *)
LEMMA ChunkForward ==
  ASSUME ClockTypes
  PROVE  /\ \A w \in Work(FuelLeft, CycleLimit) : w.fuel \in Nat /\ w.cycles \in Nat
         /\ Held(FuelLeft, CycleLimit).fuel \in Nat
         /\ Held(FuelLeft, CycleLimit).cycles \in Nat
<1>1. ASSUME NEW w \in Work(FuelLeft, CycleLimit)
      PROVE  w.fuel \in Nat /\ w.cycles \in Nat
  BY ChunkLimits, CosimAssumption DEF Work
<1>2. /\ Held(FuelLeft, CycleLimit).fuel \in Nat
      /\ Held(FuelLeft, CycleLimit).cycles \in Nat
  BY ChunkLimits DEF Held, Report
<1> QED
  BY <1>1, <1>2

(* A chunk's report is added to the call's.                                *)
LEMMA ChunkDoneTyped ==
  ASSUME ClockTypes, NEW r, r.fuel \in Nat, r.cycles \in Nat, ChunkDone(r)
  PROVE  spent' \in [fuel : Nat, cycles : Nat] /\ chunk'.fuel \in Nat /\ chunk'.cycles \in Nat
BY DEF ChunkDone, Spent, NoReport, Report, ClockTypes

(* Every step keeps the clocks' invariant.                                 *)
LEMMA ClockInvPreserved ==
  ASSUME ClockInv, [Next]_vars
  PROVE  ClockInv'
<1> USE DEF ClockInv
<1>1. CASE Call
  BY <1>1, CosimAssumption DEF Call, ClockTypes, fixture, Now, GlobalCycles
<1>2. CASE Rebind
  BY <1>2 DEF Rebind, ClockTypes, Now, GlobalCycles
<1>3. ASSUME NEW r, r.fuel \in Nat, r.cycles \in Nat, Advanced(r)
      PROVE  ClockInv'
  <2>1. /\ total_cycles' = total_cycles + r.cycles
        /\ last_global_cycles' = Now + r.cycles
        /\ UNCHANGED <<epoch_cycles, next_boundary_ns, next_step_ns, request>>
    BY <1>3 DEF Advanced, Moved, fixture, caller
  <2>2. spent' \in [fuel : Nat, cycles : Nat] /\ chunk'.fuel \in Nat /\ chunk'.cycles \in Nat
    <3>1. CASE ChunkDone(r)
      BY <1>3, <3>1, ChunkDoneTyped
    <3>2. CASE chunk' = r /\ UNCHANGED spent
      BY <1>3, <3>2 DEF ClockTypes
    <3> QED
      BY <1>3, <3>1, <3>2 DEF Advanced
  <2>3. ClockTypes' /\ Now' = last_global_cycles'
    BY <1>3, <2>1, <2>2 DEF ClockTypes, Now, GlobalCycles
  <2>4. CyclesToNs(last_global_cycles) \in Nat
        /\ CyclesToNs(last_global_cycles') \in Nat
        /\ CyclesToNs(last_global_cycles) <= CyclesToNs(last_global_cycles')
    BY <1>3, <2>1, <2>3, NsMonotone DEF ClockTypes, Now, GlobalCycles
  <2>5. \A m \in Models : StepNs[m] \in Nat /\ next_step_ns[m] \in Nat
    BY CosimAssumption DEF Models, ClockTypes
  <2> QED
    BY <2>1, <2>3, <2>4, <2>5 DEF ClockTypes
<1>4. CASE RunMachine
  BY <1>3, <1>4, ChunkForward DEF RunMachine, Report
<1>5. CASE PassHeld
  BY <1>3, <1>5, ChunkForward DEF PassHeld
<1>6. CASE MachineFails
  BY <1>6, ChunkForward DEF MachineFails, Moved, ClockTypes, fixture, caller, Now, GlobalCycles
<1>7. CASE StepModel
  <2>1. PICK m \in Models :
          /\ NextModel(m)
          /\ next_step_ns' = [next_step_ns EXCEPT ![m] = @ + StepNs[m]]
    BY <1>7, Zenon DEF StepModel
  <2>2. next_step_ns[m] <= CyclesToNs(last_global_cycles)
    <3>1. TimeNs \in Nat
      BY NsMonotone DEF TimeNs, ClockTypes
    <3> QED
      BY <2>1, <3>1 DEF NextModel, DueModels, TimeNs, ClockTypes
  <2>3. \A k \in Models : StepNs[k] \in Nat
    BY CosimAssumption DEF Models
  <2>4. ClockTypes'
    BY <1>7, <2>1, <2>3 DEF StepModel, ClockTypes, fixture, caller
  <2>5. \A k \in Models : next_step_ns'[k] - StepNs[k] <= CyclesToNs(last_global_cycles)
    BY <2>1, <2>2, <2>3 DEF ClockTypes
  <2> QED
    BY <1>7, <2>4, <2>5 DEF StepModel, fixture, Now, GlobalCycles
<1>8. CASE ModelFails
  BY <1>8 DEF ModelFails, Spent, NoReport, Report, ClockTypes, fixture, caller, Now, GlobalCycles
<1>9. CASE Apply
  <2>1. TimeNs \in Nat
    BY NsMonotone DEF TimeNs, ClockTypes
  <2>2. step_ns \in Nat \ {0}
    BY CosimAssumption
  <2>3. (TimeNs \div step_ns + 1) * step_ns \in Nat
    BY <2>1, <2>2, SMT
  <2>4. spent' \in [fuel : Nat, cycles : Nat] /\ chunk'.fuel \in Nat /\ chunk'.cycles \in Nat
    BY <1>9, ChunkDoneTyped DEF Apply, ClockTypes
  <2> QED
    BY <1>9, <2>3, <2>4 DEF Apply, ClockTypes, fixture, caller, Now, GlobalCycles
<1>10. CASE UNCHANGED vars
  BY <1>10 DEF vars, ClockTypes, fixture, caller, Now, GlobalCycles
<1> QED
  BY <1>1, <1>2, <1>4, <1>5, <1>6, <1>7, <1>8, <1>9, <1>10 DEF Next

(* The clocks' invariant, on its own, for the theorems that rest on it.    *)
THEOREM ClocksAgree == Spec => []ClockInv
<1>1. Init => ClockInv
  <2> SUFFICES ASSUME Init PROVE ClockInv
    OBVIOUS
  <2>1. CyclesToNs(0) \in Nat
    BY NsMonotone
  <2>2. ClockTypes
    BY CosimAssumption DEF Init, ClockTypes, Models, NoReport, Report
  <2> QED
    BY <2>1, <2>2, CosimAssumption DEF Init, ClockInv, Now, GlobalCycles, Models
<1>2. ClockInv /\ [Next]_vars => ClockInv'
  BY ClockInvPreserved
<1> QED
  BY <1>1, <1>2, PTL DEF Spec

(* No model is ahead of the machine it is bound to, for every set of       *)
(* periods and every clock, through errors, exits and fresh fixtures.      *)
THEOREM ModelsStayBehind == Spec => []NoModelAhead
<1>1. ClockInv => NoModelAhead
  <2> SUFFICES ASSUME ClockInv PROVE NoModelAhead
    OBVIOUS
  <2>1. /\ CyclesToNs(last_global_cycles) \in Nat /\ CyclesToNs(Now) \in Nat
        /\ CyclesToNs(last_global_cycles) <= CyclesToNs(Now)
    BY NsMonotone DEF ClockInv, ClockTypes, Now, GlobalCycles
  <2>2. \A m \in Models : StepNs[m] \in Nat /\ next_step_ns[m] \in Nat
    BY CosimAssumption DEF Models, ClockInv, ClockTypes
  <2> QED
    BY <2>1, <2>2 DEF ClockInv, NoModelAhead
<1> QED
  BY <1>1, ClocksAgree, PTL

-----------------------------------------------------------------------------
(* The budget.                                                             *)

\* What Machine::advance may report for a chunk, against what is left.
ChunkFits(r) ==
  /\ r.fuel \in Nat /\ r.cycles \in Nat
  /\ Within(FuelLeft, r.fuel)
  /\ CyclesLeft # None => r.cycles < CyclesLeft + max_step_cycles
  /\ r.stop = "FuelLimit" => r.fuel = FuelLeft
  /\ r.stop = "CycleLimit" /\ r.fuel = 0 => CyclesLeft = 0

\* The chunks so far add up to what the machine did, and leave a budget.
BudgetInv ==
  /\ started \in Nat
  /\ phase \in {"idle", "machine", "models"}
  /\ phase # "idle" => /\ Within(request.fuel, spent.fuel)
                       /\ Within(request.cycles, spent.cycles)
  /\ phase = "machine" => total_cycles = started + spent.cycles
  /\ phase = "models" => /\ total_cycles = started + spent.cycles + chunk.cycles
                         /\ ChunkFits(chunk)
  /\ BudgetAccounts

(* A chunk of a running core, and one passed in reset, keep to the limits  *)
(* they were given and name the limit they reached.                        *)
LEMMA ReportsFit ==
  ASSUME ClockTypes
  PROVE  /\ \A w \in Work(FuelLeft, CycleLimit) :
              \A why \in Stops(FuelLeft, CycleLimit, w) :
                ChunkFits(Report(why, w.fuel, w.cycles))
         /\ ChunkFits(Held(FuelLeft, CycleLimit))
<1>1. ASSUME NEW w \in Work(FuelLeft, CycleLimit), NEW why \in Stops(FuelLeft, CycleLimit, w)
      PROVE  ChunkFits(Report(why, w.fuel, w.cycles))
  <2>1. /\ w.fuel \in Nat /\ w.cycles \in Nat /\ Within(FuelLeft, w.fuel)
        /\ w.fuel <= w.cycles /\ w.cycles <= w.fuel * max_step_cycles
        /\ w.cycles < CycleLimit + max_step_cycles
    BY ChunkLimits, CosimAssumption, SMTT(30) DEF Work
  <2>2. /\ why = "FuelLimit" => w.fuel = FuelLeft
        /\ why = "CycleLimit" => w.cycles >= CycleLimit
    BY DEF Stops
  <2>3. w.fuel = 0 => w.cycles = 0
    BY <2>1, CosimAssumption
  <2>4. why = "CycleLimit" /\ w.fuel = 0 => CyclesLeft = 0
    BY <2>2, <2>3, ChunkLimits
  <2>5. CyclesLeft # None => w.cycles < CyclesLeft + max_step_cycles
    BY <2>1, ChunkLimits, CosimAssumption, SMTT(30)
  <2> QED
    BY <2>1, <2>2, <2>4, <2>5 DEF ChunkFits, Report
<1>2. ChunkFits(Held(FuelLeft, CycleLimit))
  <2>1. CASE FuelLeft # None /\ FuelLeft < CycleLimit
    BY <2>1, ChunkLimits, CosimAssumption DEF Held, Report, ChunkFits, Within
  <2>2. CASE ~(FuelLeft # None /\ FuelLeft < CycleLimit)
    BY <2>2, ChunkLimits, CosimAssumption, SMTT(30) DEF Held, Report, ChunkFits, Within
  <2> QED
    BY <2>1, <2>2
<1> QED
  BY <1>1, <1>2

(* A chunk that ends leaves the call with the accounts of all its chunks.  *)
LEMMA ChunkAccounted ==
  ASSUME ClockTypes, BudgetInv, phase # "idle", NEW r, ChunkFits(r), ChunkDone(r),
         UNCHANGED <<request, started>>,
         total_cycles' = started + spent.cycles + r.cycles
  PROVE  BudgetInv'
<1>1. /\ spent.fuel \in Nat /\ spent.cycles \in Nat /\ r.fuel \in Nat /\ r.cycles \in Nat
      /\ started \in Nat /\ max_step_cycles \in Nat
      /\ request.fuel \in Nat \cup {None} /\ request.cycles \in Nat \cup {None}
      /\ None \notin Nat
  BY CosimAssumption DEF ClockTypes, Request, Limits, ChunkFits, BudgetInv
<1>2. /\ Within(request.fuel, spent.fuel) /\ Within(request.cycles, spent.cycles)
  BY DEF BudgetInv
<1>3. /\ spent'.fuel = spent.fuel + r.fuel /\ spent'.cycles = spent.cycles + r.cycles
      /\ stop' = r.stop /\ phase' \in {"idle", "machine"}
      /\ phase' = "machine" => ~request.once /\ ~BudgetSpent(r) /\ r.fuel # 0
      /\ phase' = "idle" => request.once \/ BudgetSpent(r) \/ r.fuel = 0
  BY DEF ChunkDone, Spent
<1>4. /\ request.fuel # None => FuelLeft = request.fuel - spent.fuel
      /\ request.fuel = None => FuelLeft = None
      /\ request.cycles # None => CyclesLeft = request.cycles - spent.cycles
      /\ request.cycles = None => CyclesLeft = None
  BY <1>1, <1>2 DEF FuelLeft, CyclesLeft, Left, Within
<1>5. Within(request.fuel, spent'.fuel)
  BY <1>1, <1>2, <1>3, <1>4 DEF ChunkFits, Within
<1>6. request.cycles # None => spent'.cycles < request.cycles + max_step_cycles
  BY <1>1, <1>2, <1>3, <1>4 DEF ChunkFits, Within
<1>7. stop' = "FuelLimit" => spent'.fuel = request.fuel
  BY <1>1, <1>2, <1>3, <1>4 DEF ChunkFits, Within
<1>8. stop' = "CycleLimit" /\ ~request.once /\ phase' = "idle" =>
        request.cycles # None /\ spent'.cycles >= request.cycles
  BY <1>1, <1>2, <1>3, <1>4 DEF ChunkFits, Within, BudgetSpent
<1>9. phase' = "machine" => Within(request.cycles, spent'.cycles)
  BY <1>1, <1>2, <1>3, <1>4 DEF ChunkFits, Within, BudgetSpent
<1>10. total_cycles' = started' + spent'.cycles /\ total_cycles' - started' = spent'.cycles
  BY <1>1, <1>3
<1>11. (Within(request.fuel, spent.fuel))' = Within(request.fuel, spent'.fuel)
       /\ (Within(request.cycles, spent.cycles))' = Within(request.cycles, spent'.cycles)
  BY DEF Within
<1>12. BudgetAccounts'
  BY <1>3, <1>5, <1>6, <1>7, <1>8, <1>10, <1>11 DEF BudgetAccounts
<1> QED
  BY <1>1, <1>3, <1>5, <1>9, <1>10, <1>11, <1>12 DEF BudgetInv

(* Every step keeps the accounts.                                          *)
LEMMA BudgetInvPreserved ==
  ASSUME ClockInv, BudgetInv, [Next]_vars
  PROVE  BudgetInv'
<1>1. ClockTypes /\ total_cycles \in Nat /\ started \in Nat
  BY DEF ClockInv, ClockTypes, BudgetInv
<1>2. CASE Call
  <2>1. /\ phase' = "machine" /\ started' = total_cycles /\ total_cycles' = total_cycles
        /\ spent' = [fuel |-> 0, cycles |-> 0] /\ request' \in Request
    BY <1>2, CosimAssumption DEF Call
  <2>2. Within(request'.fuel, 0) /\ Within(request'.cycles, 0)
    BY <2>1 DEF Within, Request, Limits
  <2> QED
    BY <1>1, <2>1, <2>2 DEF BudgetInv, BudgetAccounts, Within
<1>3. CASE Rebind
  BY <1>3 DEF Rebind, BudgetInv, BudgetAccounts
<1>4. ASSUME NEW r, ChunkFits(r), Advanced(r), phase = "machine"
      PROVE  BudgetInv'
  <2>1. /\ UNCHANGED <<request, started>> /\ r.fuel \in Nat /\ r.cycles \in Nat
        /\ total_cycles' = started + spent.cycles + r.cycles
    BY <1>4 DEF Advanced, Moved, caller, ChunkFits, BudgetInv
  <2>2. CASE ChunkDone(r)
    BY <1>1, <1>4, <2>1, <2>2, ChunkAccounted
  <2>3. CASE chunk' = r /\ phase' = "models" /\ UNCHANGED spent
    <3>1. ChunkFits(chunk)'
      BY <1>4, <2>1, <2>3 DEF ChunkFits, FuelLeft, CyclesLeft, Left, Within
    <3> QED
      BY <1>4, <2>1, <2>3, <3>1 DEF BudgetInv, BudgetAccounts, Within
  <2> QED
    BY <1>4, <2>2, <2>3 DEF Advanced
<1>5. CASE RunMachine
  BY <1>1, <1>4, <1>5, ReportsFit DEF RunMachine, CanRun
<1>6. CASE PassHeld
  BY <1>1, <1>4, <1>6, ReportsFit DEF PassHeld, CanRun
<1>7. CASE MachineFails
  BY <1>7 DEF MachineFails, caller, BudgetInv, BudgetAccounts
<1>8. CASE StepModel
  <2>1. phase = "models" /\ UNCHANGED <<total_cycles, request, started, spent, stop, phase, chunk>>
    BY <1>8, SMTT(30) DEF StepModel, caller
  <2> QED
    BY <2>1 DEF BudgetInv, BudgetAccounts, ChunkFits, FuelLeft, CyclesLeft, Left, Within
<1>9. CASE ModelFails
  BY <1>9 DEF ModelFails, caller, BudgetInv, BudgetAccounts
<1>10. CASE Apply
  <2>1. /\ phase = "models" /\ ChunkDone(chunk) /\ UNCHANGED <<total_cycles, request, started>>
    BY <1>10 DEF Apply, caller
  <2>2. total_cycles' = started + spent.cycles + chunk.cycles /\ ChunkFits(chunk)
    BY <2>1, SMTT(30) DEF BudgetInv
  <2> QED
    BY <1>1, <2>1, <2>2, ChunkAccounted
<1>11. CASE UNCHANGED vars
  BY <1>11 DEF vars, caller, BudgetInv, BudgetAccounts, ChunkFits, FuelLeft, CyclesLeft, Left,
               Within
<1> QED
  BY <1>2, <1>3, <1>5, <1>6, <1>7, <1>8, <1>9, <1>10, <1>11 DEF Next

(* advance_budget accounts like one Machine::advance, however the          *)
(* boundaries of the models cut it into chunks: for every budget, clock,   *)
(* set of periods and supply.                                              *)
THEOREM BudgetsAddUp == Spec => []BudgetAccounts
<1>1. Init => BudgetInv
  BY DEF Init, BudgetInv, BudgetAccounts
<1>2. ClockInv /\ BudgetInv /\ [Next]_vars => BudgetInv'
  BY BudgetInvPreserved
<1>3. BudgetInv => BudgetAccounts
  BY DEF BudgetInv
<1> QED
  BY <1>1, <1>2, <1>3, ClocksAgree, PTL DEF Spec

-----------------------------------------------------------------------------
(* The pins.                                                               *)

\* A whole number of session steps.
Multiple(ns) == ns % step_ns = 0

\* Unless a boundary is owed, every model waits for the next one, which the
\* machine has not reached, or overran by less than a step.
PinsInv ==
  /\ \A m \in Models : Multiple(next_step_ns[m])
  /\ phase = "models" => last_global_cycles = Now /\ signals.sampled = Now
  /\ ~owed =>
       /\ \A m \in Models : next_step_ns[m] >= next_boundary_ns
       /\ phase # "models" => CyclesToNs(Now) < next_boundary_ns
       /\ phase = "models" => Now < NsToCycles(next_boundary_ns) + max_step_cycles

(* Products keep the order of their first factors.                         *)
LEMMA TimesMonotone ==
  ASSUME NEW a \in Nat, NEW b \in Nat, NEW m \in Nat, a <= b
  PROVE  a * m <= b * m /\ a * m \in Nat /\ b * m \in Nat
<1>1. PICK d \in Nat : b = a + d
  <2>1. b - a \in Nat /\ b = a + (b - a)
    OBVIOUS
  <2> QED
    BY <2>1
<1>2. a * m \in Nat /\ d * m \in Nat
  OBVIOUS
<1>3. b * m = a * m + d * m
  BY <1>1
<1> QED
  BY <1>2, <1>3

(* Quotient and remainder.                                                 *)
LEMMA Division ==
  ASSUME NEW s \in Nat \ {0}, NEW t \in Nat
  PROVE  /\ t \div s \in Nat /\ t % s \in Nat /\ t % s < s
         /\ t = (t \div s) * s + (t % s)
         /\ t < (t \div s + 1) * s
<1>1. t \div s \in Nat
  OBVIOUS
<1>2. t % s \in Nat /\ t % s < s
  OBVIOUS
<1>3. t = (t \div s) * s + (t % s)
  OBVIOUS
<1>4. (t \div s + 1) * s = (t \div s) * s + s /\ (t \div s) * s \in Nat
  BY <1>1
<1> QED
  BY <1>1, <1>2, <1>3, <1>4

(* The cycle of a time is the first that has reached it.                   *)
LEMMA CycleOfTime ==
  ASSUME NEW c \in Nat, NEW ns \in Nat
  PROVE  /\ NsToCycles(ns) \in Nat /\ CyclesToNs(c) \in Nat
         /\ CyclesToNs(c) >= ns <=> c >= NsToCycles(ns)
<1> DEFINE N == NANOS_PER_SECOND
           h == cpu_hz
           a == c * N
           b == ns * h
           q == a \div h
           k == (b + N - 1) \div N
<1>1. N \in Nat \ {0} /\ h \in Nat \ {0}
  BY CosimAssumption
<1>2. a \in Nat /\ b \in Nat /\ b + N - 1 \in Nat
  BY <1>1
<1>3. q \in Nat /\ q * h <= a /\ a < (q + 1) * h /\ q * h \in Nat
  BY <1>1, <1>2, Division
<1>4. k \in Nat /\ k * N <= b + N - 1 /\ b + N - 1 < (k + 1) * N /\ k * N \in Nat
  BY <1>1, <1>2, Division
<1>5. CyclesToNs(c) = q /\ NsToCycles(ns) = k
  BY DEF CyclesToNs, NsToCycles
<1>6. (c + 1) * N = a + N /\ (k + 1) * N = k * N + N
  BY <1>1, <1>4
<1> HIDE DEF N, h, q, k
<1>7. ASSUME q >= ns PROVE c >= k
  <2>1. b <= a
    <3>1. ns * h <= q * h
      BY <1>1, <1>3, <1>7, TimesMonotone
    <3> QED
      BY <1>2, <1>3, <3>1
  <2>2. k * N < (c + 1) * N
    BY <1>1, <1>2, <1>4, <1>6, <2>1
  <2>3. ~(c + 1 <= k)
    <3>1. c + 1 \in Nat
      OBVIOUS
    <3>2. c + 1 <= k => (c + 1) * N <= k * N
      BY <1>1, <1>4, <3>1, TimesMonotone
    <3>3. (c + 1) * N \in Nat
      BY <1>1
    <3> QED
      BY <1>4, <2>2, <3>2, <3>3
  <2> QED
    BY <1>4, <2>3
<1>8. ASSUME c >= k PROVE q >= ns
  <2>1. k * N <= a
    BY <1>1, <1>4, <1>8, TimesMonotone
  <2>2. b <= a
    BY <1>1, <1>2, <1>4, <1>6, <2>1
  <2>3. ~(q + 1 <= ns)
    <3>1. q + 1 \in Nat
      BY <1>3
    <3>2. q + 1 <= ns => (q + 1) * h <= b
      BY <1>1, <3>1, TimesMonotone
    <3>3. (q + 1) * h \in Nat
      BY <1>1, <3>1
    <3> QED
      BY <1>2, <1>3, <2>2, <3>2, <3>3
  <2> QED
    BY <1>3, <2>3
<1> QED
  BY <1>3, <1>4, <1>5, <1>7, <1>8

(* A later time is not reached by an earlier cycle.                        *)
LEMMA CyclesOrdered ==
  ASSUME NEW x \in Nat, NEW y \in Nat, x <= y
  PROVE  NsToCycles(x) <= NsToCycles(y)
<1>1. NsToCycles(y) \in Nat /\ NsToCycles(x) \in Nat
  BY CycleOfTime
<1>2. CyclesToNs(NsToCycles(y)) >= y /\ CyclesToNs(NsToCycles(y)) \in Nat
  BY <1>1, CycleOfTime
<1>3. CyclesToNs(NsToCycles(y)) >= x
  BY <1>2
<1> QED
  BY <1>1, <1>3, CycleOfTime

(* Multiples of a period: sums, and the first one after a time.            *)
LEMMA MultiplesAdd ==
  ASSUME NEW x \in Nat, NEW y \in Nat, Multiple(x), Multiple(y)
  PROVE  Multiple(x + y)
<1> DEFINE a == x \div step_ns
           b == y \div step_ns
<1>1. step_ns \in Nat \ {0}
  BY CosimAssumption
<1>2. a \in Nat /\ b \in Nat /\ x = a * step_ns /\ y = b * step_ns
  BY <1>1, Division DEF Multiple
<1> HIDE DEF a, b
<1>3. x + y = (a + b) * step_ns /\ a + b \in Nat
  BY <1>1, <1>2
<1>4. ASSUME NEW k \in Nat, NEW s \in Nat \ {0}
      PROVE  (k * s) % s = 0
  OBVIOUS
<1>5. ((a + b) * step_ns) % step_ns = 0
  BY <1>1, <1>3, <1>4
<1> QED
  BY <1>3, <1>5 DEF Multiple

\* A boundary after t is no earlier than the next multiple of the step.
LEMMA NextMultiple ==
  ASSUME NEW x \in Nat, NEW t \in Nat, Multiple(x), x > t
  PROVE  x >= (t \div step_ns + 1) * step_ns
<1> DEFINE a == x \div step_ns
           b == t \div step_ns
<1>1. step_ns \in Nat \ {0}
  BY CosimAssumption
<1>2. a \in Nat /\ b \in Nat /\ x = a * step_ns /\ b * step_ns <= t
  BY <1>1, Division DEF Multiple
<1> HIDE DEF a, b
<1>3. ~(a <= b)
  BY <1>1, <1>2, TimesMonotone
<1>4. b + 1 <= a /\ b + 1 \in Nat
  BY <1>2, <1>3
<1>5. (b + 1) * step_ns <= a * step_ns
  BY <1>1, <1>2, <1>4, TimesMonotone
<1> QED
  BY <1>2, <1>5 DEF b

(* A chunk ends at the boundary, or within the step that crosses it.       *)
LEMMA ChunkEndsAtBoundary ==
  ASSUME ClockTypes
  PROVE  /\ \A w \in Work(FuelLeft, CycleLimit) :
              w.cycles < CyclesUntilBoundary + max_step_cycles
         /\ Held(FuelLeft, CycleLimit).cycles < CyclesUntilBoundary + max_step_cycles
<1>1. \A w \in Work(FuelLeft, CycleLimit) : w.cycles < CyclesUntilBoundary + max_step_cycles
  <2>1. \A w \in Work(FuelLeft, CycleLimit) :
          w.cycles \in Nat /\ w.cycles < CycleLimit + max_step_cycles
    BY ChunkLimits, CosimAssumption, SMTT(30) DEF Work
  <2> QED
    BY <2>1, ChunkLimits, CosimAssumption
<1>2. Held(FuelLeft, CycleLimit).cycles <= CycleLimit
  BY ChunkLimits DEF Held, Report
<1> QED
  BY <1>1, <1>2, ChunkForward, ChunkLimits, CosimAssumption

(* The machine moves within a chunk: it stays short of the boundary, owes  *)
(* it, or takes the pins within a step of it.                              *)
LEMMA MachineMoves ==
  ASSUME ClockInv, PinsInv, phase = "machine", NEW n \in Nat,
         n < CyclesUntilBoundary + max_step_cycles
  PROVE  /\ CyclesToNs(Now + n) >= next_boundary_ns \/ CyclesToNs(Now + n) < next_boundary_ns
         /\ ~owed => Now + n < NsToCycles(next_boundary_ns) + max_step_cycles
<1>1. Now \in Nat /\ next_boundary_ns \in Nat /\ max_step_cycles \in Nat
  BY CosimAssumption DEF ClockInv, ClockTypes, Now, GlobalCycles
<1>2. Now + n \in Nat
  BY <1>1
<1>3. CyclesToNs(Now + n) \in Nat /\ CyclesToNs(Now) \in Nat /\ NsToCycles(next_boundary_ns) \in Nat
  BY <1>1, <1>2, CycleOfTime
<1>4. ASSUME ~owed PROVE Now < NsToCycles(next_boundary_ns)
  <2>1. ~(CyclesToNs(Now) >= next_boundary_ns)
    BY <1>1, <1>3, <1>4 DEF PinsInv
  <2> QED
    BY <1>1, <1>3, <2>1, CycleOfTime
<1>5. ASSUME ~owed PROVE CyclesUntilBoundary = NsToCycles(next_boundary_ns) - Now
  BY <1>1, <1>3, <1>4, <1>5 DEF CyclesUntilBoundary
<1> QED
  BY <1>1, <1>3, <1>5

\* Every step keeps the models waiting for the boundary that is owed.
LEMMA PinsInvPreserved ==
  ASSUME \A m \in Models : Multiple(StepNs[m]),
         ClockInv, ClockInv', SupplyInv, PinsInv, [Next]_vars
  PROVE  PinsInv'
<1>1. /\ Now \in Nat /\ Now' \in Nat /\ last_global_cycles \in Nat /\ total_cycles \in Nat
      /\ next_boundary_ns \in Nat /\ next_boundary_ns' \in Nat
      /\ epoch_cycles \in Nat
  <2>1. ASSUME ClockTypes
        PROVE  /\ Now \in Nat /\ last_global_cycles \in Nat /\ total_cycles \in Nat
               /\ next_boundary_ns \in Nat /\ epoch_cycles \in Nat
    BY <2>1 DEF ClockTypes, Now, GlobalCycles
  <2>2. ASSUME ClockTypes'
        PROVE  Now' \in Nat /\ next_boundary_ns' \in Nat
    <3>1. \A a, b \in Nat : a + b \in Nat
      OBVIOUS
    <3> QED
      BY <2>2, <3>1, Zenon DEF ClockTypes, Now, GlobalCycles
  <2> QED
    BY <2>1, <2>2 DEF ClockInv
<1>2. \A m \in Models : /\ next_step_ns[m] \in Nat /\ next_step_ns'[m] \in Nat
                        /\ StepNs[m] \in Nat
  <2>1. next_step_ns \in [Models -> Nat] /\ next_step_ns' \in [Models -> Nat]
    BY DEF ClockInv, ClockTypes
  <2>2. \A m \in Models : StepNs[m] \in Nat
    BY CosimAssumption DEF Models
  <2> QED
    BY <2>1, <2>2
<1>3. CASE Call
  BY <1>3 DEF Call, PinsInv, fixture, Now, GlobalCycles
<1>4. CASE Rebind
  <2>1. /\ Now' = last_global_cycles /\ phase = "idle"
        /\ UNCHANGED <<phase, owed, next_boundary_ns, next_step_ns>>
    BY <1>1, <1>4 DEF Rebind, Now, GlobalCycles
  <2>2. CyclesToNs(Now') \in Nat /\ CyclesToNs(Now) \in Nat /\ CyclesToNs(Now') <= CyclesToNs(Now)
    BY <1>1, <2>1, NsMonotone DEF ClockInv
  <2> QED
    BY <1>1, <2>1, <2>2 DEF PinsInv, CyclesToNs
<1>5. ASSUME NEW r, r.cycles \in Nat, r.cycles < CyclesUntilBoundary + max_step_cycles,
             Advanced(r), phase = "machine"
      PROVE  PinsInv'
  <2>1. /\ Now' = Now + r.cycles /\ last_global_cycles' = Now'
        /\ UNCHANGED <<next_boundary_ns, next_step_ns>>
    BY <1>1, <1>5 DEF Advanced, Moved, fixture, Now, GlobalCycles
  <2>2. ~owed => Now' < NsToCycles(next_boundary_ns) + max_step_cycles
    BY <1>5, <2>1, MachineMoves
  <2>3. CASE Due(r) /\ r.fuel > 0 /\ r.stop # "FirmwareExit"
    <3>1. phase' = "models" /\ owed' = owed /\ signals'.sampled = Now'
      BY <1>5, <2>1, <2>3 DEF Advanced, SupplyInv, SupplyTypes
    <3> QED
      BY <2>1, <2>2, <3>1 DEF PinsInv, NsToCycles
  <2>4. CASE ~(Due(r) /\ r.fuel > 0 /\ r.stop # "FirmwareExit")
    <3>1. phase' # "models" /\ owed' = (owed \/ Due(r))
      BY <1>5, <2>4 DEF Advanced, ChunkDone
    <3>2. ~owed' => CyclesToNs(Now') < next_boundary_ns
      BY <1>5, <2>1, <3>1, MachineMoves, Zenon DEF Due
    <3> QED
      BY <2>1, <3>1, <3>2, Zenon DEF PinsInv, CyclesToNs
  <2> QED
    BY <2>3, <2>4
<1>6. CASE RunMachine
  BY <1>5, <1>6, ChunkForward, ChunkEndsAtBoundary, SMTT(30) DEF RunMachine, CanRun, Report, ClockInv
<1>7. CASE PassHeld
  BY <1>5, <1>7, ChunkForward, ChunkEndsAtBoundary DEF PassHeld, CanRun, ClockInv
<1>8. CASE MachineFails
  <2>1. PICK w \in Work(FuelLeft, CycleLimit) : Moved(w) /\ owed' = (owed \/ Due(w))
    BY <1>8 DEF MachineFails
  <2>2. w.cycles \in Nat /\ w.cycles < CyclesUntilBoundary + max_step_cycles
    BY ChunkForward, ChunkEndsAtBoundary DEF ClockInv
  <2>3. /\ Now' = Now + w.cycles /\ phase = "machine" /\ phase' = "idle"
        /\ UNCHANGED <<next_boundary_ns, next_step_ns>>
    BY <1>1, <1>8, <2>1, <2>2 DEF MachineFails, CanRun, Moved, fixture, Now, GlobalCycles
  <2>4. ~owed' => CyclesToNs(Now') < next_boundary_ns
    BY <2>1, <2>2, <2>3, MachineMoves, Zenon DEF Due
  <2> QED
    BY <2>1, <2>3, <2>4, Zenon DEF PinsInv, CyclesToNs
<1>9. CASE StepModel
  <2>1. PICK m \in Models : next_step_ns' = [next_step_ns EXCEPT ![m] = @ + StepNs[m]]
    BY <1>9, Zenon DEF StepModel
  <2>2. \A k \in Models : next_step_ns'[k] = IF k = m THEN next_step_ns[m] + StepNs[m]
                                             ELSE next_step_ns[k]
    BY <2>1 DEF ClockInv, ClockTypes
  <2>3. \A k \in Models : Multiple(next_step_ns'[k]) /\ next_step_ns'[k] >= next_step_ns[k]
    BY <1>2, <2>2, MultiplesAdd DEF PinsInv
  <2>4. signals'.sampled = signals.sampled
    BY <1>9 DEF StepModel, SupplyInv, SupplyTypes
  <2>5. UNCHANGED <<Now, last_global_cycles, phase, owed, next_boundary_ns>>
    BY <1>9 DEF StepModel, fixture, Now, GlobalCycles
  <2>6. ~owed => \A k \in Models : next_step_ns'[k] >= next_boundary_ns
    BY <1>1, <1>2, <2>3 DEF PinsInv
  <2> QED
    BY <2>3, <2>4, <2>5, <2>6 DEF PinsInv, Multiple, CyclesToNs, NsToCycles
<1>10. CASE ModelFails
  BY <1>10 DEF ModelFails, PinsInv, Multiple
<1>11. CASE Apply
  <2>1. /\ phase = "models" /\ DueModels = {} /\ phase' # "models"
        /\ next_boundary_ns' = (TimeNs \div step_ns + 1) * step_ns
        /\ UNCHANGED <<Now, next_step_ns>>
    BY <1>11 DEF Apply, ChunkDone, fixture, Now, GlobalCycles
  <2>2. TimeNs = CyclesToNs(Now) /\ TimeNs \in Nat
    BY <1>1, <2>1, CycleOfTime DEF PinsInv, TimeNs
  <2>3. \A m \in Models : next_step_ns[m] >= next_boundary_ns'
    <3>1. \A m \in Models : next_step_ns[m] > TimeNs
      BY <1>2, <2>1, <2>2 DEF DueModels
    <3> QED
      BY <1>2, <2>1, <2>2, <3>1, NextMultiple DEF PinsInv
  <2>4. TimeNs < next_boundary_ns'
    <3>1. step_ns \in Nat \ {0}
      BY CosimAssumption
    <3>2. TimeNs < (TimeNs \div step_ns + 1) * step_ns
      BY <2>2, <3>1, Division, Zenon
    <3> QED
      BY <2>1, <3>2
  <2> QED
    BY <2>1, <2>2, <2>3, <2>4 DEF PinsInv, Multiple, CyclesToNs
<1>12. CASE UNCHANGED vars
  BY <1>12 DEF vars, PinsInv, Multiple, fixture, Now, GlobalCycles, CyclesToNs, NsToCycles
<1> QED
  BY <1>3, <1>4, <1>6, <1>7, <1>8, <1>9, <1>10, <1>11, <1>12 DEF Next

(* Unless a call ended in an error or an exit at that very boundary, the   *)
(* pins a model is handed were sampled in the first cycle at or after its  *)
(* step time or within the instruction that ran over it: for every clock,  *)
(* every set of periods that are multiples of the finest, and every chain  *)
(* of fixtures.                                                            *)
THEOREM PinsAreOfTheBoundary ==
  ASSUME \A m \in Models : Multiple(StepNs[m])
  PROVE  Spec => []PinsOfTheBoundary
<1>1. Init => PinsInv
  <2> SUFFICES ASSUME Init PROVE PinsInv
    OBVIOUS
  <2>1. CyclesToNs(Now) < next_boundary_ns
    <3>1. Now = 0 /\ next_boundary_ns \in Nat \ {0}
      BY CosimAssumption DEF Init, Now, GlobalCycles
    <3>2. CyclesToNs(0) = 0
      BY CosimAssumption DEF CyclesToNs
    <3> QED
      BY <3>1, <3>2
  <2> QED
    BY <2>1, CosimAssumption DEF Init, PinsInv, Models
<1>2. ClockInv /\ ClockInv' /\ SupplyInv /\ PinsInv /\ [Next]_vars => PinsInv'
  BY PinsInvPreserved
<1>3. ClockInv /\ PinsInv => PinsOfTheBoundary
  <2> SUFFICES ASSUME ClockInv, PinsInv, phase = "models", ~owed, NEW m \in DueModels
               PROVE  signals.sampled - NsToCycles(next_step_ns[m]) \in 0 .. (max_step_cycles - 1)
    BY DEF PinsOfTheBoundary
  <2>1. /\ Now \in Nat /\ next_boundary_ns \in Nat /\ next_step_ns[m] \in Nat
        /\ max_step_cycles \in Nat
    BY CosimAssumption, SMTT(30) DEF ClockInv, ClockTypes, Now, GlobalCycles, DueModels
  <2>2. /\ signals.sampled = Now /\ Now < NsToCycles(next_boundary_ns) + max_step_cycles
        /\ CyclesToNs(Now) >= next_step_ns[m] /\ next_step_ns[m] >= next_boundary_ns
    BY DEF PinsInv, DueModels, TimeNs
  <2>3. /\ NsToCycles(next_step_ns[m]) \in Nat /\ NsToCycles(next_boundary_ns) \in Nat
        /\ Now >= NsToCycles(next_step_ns[m])
    BY <2>1, <2>2, CycleOfTime
  <2>4. NsToCycles(next_boundary_ns) <= NsToCycles(next_step_ns[m])
    BY <2>1, <2>2, CyclesOrdered
  <2> QED
    BY <2>1, <2>2, <2>3, <2>4
<1> QED
  BY <1>1, <1>2, <1>3, ClocksAgree, SupplyAgrees, PTL DEF Spec

-----------------------------------------------------------------------------
(* The supply's history.                                                   *)

\* VDD was below power-down since the last release.
PowerLost ==
  \A k \in Releases : \E j \in (k + 1) .. Len(delivered) : delivered[j] < monitor.pdr_falling

\* The supervisor's state and counters are those of the delivered voltages.
HistoryInv ==
  /\ delivered \in Seq(Nat)
  /\ SupplyFollowsVdd
  /\ supply.routed => supply.lost_power = PowerLost
  /\ ~supply.routed => /\ delivered = << >>
                       /\ supply.power_on_resets = 0 /\ supply.brown_out_resets = 0
  /\ phase = "models" /\ routed_vdd => supply.routed

(* One more voltage: whether the core is up follows from whether it was.   *)
LEMMA OneMoreVolt ==
  ASSUME delivered \in Seq(Nat), NEW v \in Nat, delivered' = Append(delivered, v),
         UNCHANGED monitor,
         NEW n, n = Len(delivered)
  PROVE  /\ n \in Nat /\ Len(delivered') = n + 1 /\ delivered'[n + 1] = v
         /\ \A i \in 1 .. n : delivered'[i] = delivered[i]
         /\ \A i \in 0 .. n : Up(i)' = Up(i)
         /\ Up(n + 1)' = (v >= release_v(monitor) \/ (Up(n) /\ ~BelowReset(monitor, v)))
<1>1. /\ n \in Nat /\ Len(delivered') = n + 1 /\ delivered'[n + 1] = v
      /\ \A i \in 1 .. n : delivered'[i] = delivered[i]
  OBVIOUS
<1>2. /\ \A x : BelowReset(monitor, x)' = BelowReset(monitor, x)
      /\ release_v(monitor)' = release_v(monitor)
  BY DEF BelowReset, release_v
<1>3. ASSUME NEW i \in 0 .. n
      PROVE  Up(i)' = Up(i)
  <2>1. ASSUME NEW k \in 1 .. i
        PROVE  /\ delivered'[k] = delivered[k]
               /\ \A j \in (k + 1) .. i : delivered'[j] = delivered[j]
    BY <1>1
  <2> QED
    BY <2>1, SMTT(30) DEF Up, BelowReset, release_v
<1>4. ASSUME NEW k \in 1 .. n
      PROVE  (/\ delivered'[k] >= release_v(monitor)
              /\ \A j \in (k + 1) .. (n + 1) : ~BelowReset(monitor, delivered'[j]))
             <=> (/\ delivered[k] >= release_v(monitor)
                  /\ \A j \in (k + 1) .. n : ~BelowReset(monitor, delivered[j])
                  /\ ~BelowReset(monitor, v))
  <2>1. (k + 1) .. (n + 1) = (k + 1) .. n \cup {n + 1}
    BY <1>1
  <2>2. \A j \in (k + 1) .. n : delivered'[j] = delivered[j]
    BY <1>1
  <2> QED
    BY <1>1, <2>1, <2>2, Zenon
<1>5. Up(n + 1)' <=> \E k \in 1 .. (n + 1) :
                       /\ delivered'[k] >= release_v(monitor)
                       /\ \A j \in (k + 1) .. (n + 1) : ~BelowReset(monitor, delivered'[j])
  BY DEF Up, BelowReset, release_v
<1>6. 1 .. (n + 1) = 1 .. n \cup {n + 1} /\ (n + 1 + 1) .. (n + 1) = {}
  BY <1>1
<1>7. Up(n + 1)' <=> \/ v >= release_v(monitor)
                     \/ \E k \in 1 .. n :
                          /\ delivered[k] >= release_v(monitor)
                          /\ \A j \in (k + 1) .. n : ~BelowReset(monitor, delivered[j])
                          /\ ~BelowReset(monitor, v)
  BY <1>1, <1>4, <1>5, <1>6, Zenon
<1>8. Up(n + 1)' = (v >= release_v(monitor) \/ (Up(n) /\ ~BelowReset(monitor, v)))
  BY <1>7, Zenon DEF Up
<1> QED
  BY <1>1, <1>3, <1>8

(* So do the releases, the power-on resets among them, and the power lost  *)
(* since the last one.                                                     *)
LEMMA HistoryGrows ==
  ASSUME delivered \in Seq(Nat), NEW v \in Nat, delivered' = Append(delivered, v),
         UNCHANGED monitor,
         NEW n, n = Len(delivered),
         NEW release \in BOOLEAN, release <=> Up(n + 1)' /\ ~Up(n),
         NEW lost \in BOOLEAN, lost <=> PowerLost \/ v < monitor.pdr_falling
  PROVE  /\ Releases' = Releases \cup (IF release THEN {n + 1} ELSE {})
         /\ PowerOns' = PowerOns \cup (IF release /\ lost THEN {n + 1} ELSE {})
         /\ PowerLost' <=> ~release /\ lost
         /\ Releases \subseteq 1 .. n /\ PowerOns \subseteq Releases
<1>1. /\ n \in Nat /\ Len(delivered') = n + 1 /\ delivered'[n + 1] = v
      /\ \A i \in 1 .. n : delivered'[i] = delivered[i]
      /\ \A i \in 0 .. n : Up(i)' = Up(i)
      /\ DOMAIN delivered = 1 .. n /\ DOMAIN delivered' = 1 .. (n + 1)
  BY OneMoreVolt
<1>2. Releases \subseteq 1 .. n /\ PowerOns \subseteq Releases
  BY <1>1 DEF Releases, PowerOns
<1>3. Releases' = Releases \cup (IF release THEN {n + 1} ELSE {})
  <2>1. ASSUME NEW i \in 1 .. n
        PROVE  Up(i)' = Up(i) /\ Up(i - 1)' = Up(i - 1)
    BY <1>1
  <2>2. Up(n + 1 - 1)' = Up(n)
    BY <1>1
  <2>3. 1 .. (n + 1) = 1 .. n \cup {n + 1} /\ n + 1 \notin 1 .. n
    BY <1>1
  <2>4. Releases' = {i \in 1 .. (n + 1) : Up(i)' /\ ~Up(i - 1)'}
    BY <1>1 DEF Releases
  <2>5. Releases = {i \in 1 .. n : Up(i) /\ ~Up(i - 1)}
    BY <1>1 DEF Releases
  <2> QED
    BY <2>1, <2>2, <2>3, <2>4, <2>5
<1>4. ASSUME NEW k \in 1 .. n
      PROVE  (\E j \in (k + 1) .. (n + 1) : delivered'[j] < monitor.pdr_falling)
             <=> \/ \E j \in (k + 1) .. n : delivered[j] < monitor.pdr_falling
                 \/ v < monitor.pdr_falling
  <2>1. (k + 1) .. (n + 1) = (k + 1) .. n \cup {n + 1}
    BY <1>1
  <2>2. \A j \in (k + 1) .. n : delivered'[j] = delivered[j]
    BY <1>1
  <2> QED
    BY <1>1, <2>1, <2>2, Zenon
<1>5. lost <=> \A k \in Releases :
                 \E j \in (k + 1) .. (n + 1) : delivered'[j] < monitor.pdr_falling
  BY <1>2, <1>4, Zenon DEF PowerLost
<1>6. PowerLost' <=> ~release /\ lost
  <2>1. PowerLost' <=> \A k \in Releases' :
                         \E j \in (k + 1) .. (n + 1) : delivered'[j] < monitor.pdr_falling
    BY <1>1 DEF PowerLost
  <2>2. CASE release
    <3>1. n + 1 \in Releases' /\ (n + 1 + 1) .. (n + 1) = {}
      BY <1>1, <1>3, <2>2
    <3> QED
      BY <2>1, <2>2, <3>1
  <2>3. CASE ~release
    BY <1>3, <1>5, <2>1, <2>3, Zenon
  <2> QED
    BY <2>2, <2>3
<1>7. PowerOns' = PowerOns \cup (IF release /\ lost THEN {n + 1} ELSE {})
  <2>1. ASSUME NEW i \in Releases
        PROVE  i \in PowerOns' <=> i \in PowerOns
    <3>1. i \in 1 .. n /\ i \in Releases'
      BY <1>2, <1>3
    <3>2. \A k \in Releases' : k < i => k \in Releases
      BY <1>1, <1>3, <3>1
    <3>3. \A k \in Releases : k < i =>
            \A j \in (k + 1) .. i : delivered'[j] = delivered[j]
      BY <1>1, <1>2, <3>1
    <3>4. \A k \in Releases : k < i =>
            ((\E j \in (k + 1) .. i : delivered'[j] < monitor.pdr_falling)
             <=> \E j \in (k + 1) .. i : delivered[j] < monitor.pdr_falling)
      BY <3>3, Zenon
    <3>5. i \in PowerOns' <=> \A k \in Releases' : k < i =>
                                \E j \in (k + 1) .. i : delivered'[j] < monitor.pdr_falling
      BY <3>1, Zenon DEF PowerOns
    <3>6. i \in PowerOns <=> \A k \in Releases : k < i =>
                               \E j \in (k + 1) .. i : delivered[j] < monitor.pdr_falling
      BY DEF PowerOns
    <3> QED
      BY <1>3, <3>2, <3>4, <3>5, <3>6, Zenon
  <2>2. n + 1 \in PowerOns' <=> release /\ lost
    <3>1. n + 1 \in Releases' <=> release
      BY <1>1, <1>2, <1>3
    <3>2. \A k \in Releases' : k < n + 1 <=> k \in Releases
      BY <1>1, <1>2, <1>3
    <3>3. n + 1 \in PowerOns' <=>
            /\ n + 1 \in Releases'
            /\ \A k \in Releases' : k < n + 1 =>
                 \E j \in (k + 1) .. (n + 1) : delivered'[j] < monitor.pdr_falling
      BY Zenon DEF PowerOns
    <3> QED
      BY <1>3, <1>5, <3>1, <3>2, <3>3, Zenon
  <2>3. PowerOns' \subseteq Releases'
    BY DEF PowerOns
  <2> QED
    BY <1>2, <1>3, <2>1, <2>2, <2>3, Zenon
<1> QED
  BY <1>2, <1>3, <1>6, <1>7

(* set_vdd on one more voltage does what the whole history says.           *)
LEMMA VoltFollowed ==
  ASSUME HistoryInv, SupplyInv, supply.routed, signals.vdd # None, phase' # "models",
         supply' = SetVdd(monitor, supply, signals.vdd),
         delivered' = Append(delivered, Delivered(signals.vdd)),
         UNCHANGED monitor
  PROVE  HistoryInv'
<1> DEFINE v == Delivered(signals.vdd)
           up == v >= release_v(monitor)
           below == BelowReset(monitor, v)
           lost == supply.lost_power \/ v < monitor.pdr_falling
           release == supply.held /\ up
<1>1. /\ v \in Nat /\ monitor \in SupplyMonitor /\ supply \in SupplySupervisor
      /\ delivered \in Seq(Nat)
  BY CosimAssumption DEF SupplyInv, SupplyTypes, HistoryInv, Delivered
<1>2. PICK n \in Nat : n = Len(delivered)
  BY <1>1
<1>3. /\ supply.held = ~Up(n) /\ supply.lost_power = PowerLost
      /\ supply.power_on_resets = Cardinality(PowerOns)
      /\ supply.brown_out_resets = Cardinality(Releases \ PowerOns)
      /\ supply.power_on_resets \in Nat /\ supply.brown_out_resets \in Nat
      /\ supply.held \in BOOLEAN /\ supply.lost_power \in BOOLEAN
  BY <1>1, <1>2 DEF HistoryInv, SupplyFollowsVdd, SupplySupervisor
<1>4. up => ~below
  BY <1>1, NoChatter
<1>5. /\ supply'.routed = supply.routed
      /\ supply'.held <=> ~release /\ (supply.held \/ below)
      /\ supply'.lost_power <=> ~release /\ lost
      /\ supply'.power_on_resets = supply.power_on_resets + (IF release /\ lost THEN 1 ELSE 0)
      /\ supply'.brown_out_resets = supply.brown_out_resets + (IF release /\ ~lost THEN 1 ELSE 0)
      /\ supply' \in SupplySupervisor
  <2>1. supply' \in SupplySupervisor
    BY <1>1, SetVddTyped DEF SupplyInv, SupplyTypes
  <2>2. CASE release
    <3>1. supply' = Release(supply, v, IF lost THEN "PowerOn" ELSE "BrownOut")
      BY <2>2, SMTT(30) DEF SetVdd
    <3> HIDE DEF v, up, below, lost, release
    <3> QED
      BY <1>3, <2>1, <2>2, <3>1 DEF Release, Counted
  <2>3. CASE ~release
    <3>1. supply' = NoRelease(supply, v, lost, supply.held \/ below)
      BY <2>3 DEF SetVdd
    <3> HIDE DEF v, up, below, lost, release
    <3>2. /\ supply'.routed = supply.routed
          /\ supply'.power_on_resets = supply.power_on_resets
          /\ supply'.brown_out_resets = supply.brown_out_resets
      BY <1>1, <3>1, Zenon DEF NoRelease, SupplySupervisor
    <3>3. /\ supply'.lost_power = lost
          /\ supply'.held = (supply.held \/ below)
      BY <1>1, <3>1, Zenon DEF NoRelease, SupplySupervisor
    <3>4. lost \in BOOLEAN /\ release \in BOOLEAN
      BY DEF lost, release
    <3>5. /\ supply'.held <=> ~release /\ (supply.held \/ below)
          /\ supply'.lost_power <=> ~release /\ lost
      BY <2>3, <3>3, <3>4, Zenon
    <3> QED
      BY <1>3, <2>1, <2>3, <3>2, <3>4, <3>5, SMTT(30)
  <2> QED
    BY <2>2, <2>3, Zenon
<1>6. /\ Len(delivered') = n + 1
      /\ Up(n + 1)' <=> up \/ (Up(n) /\ ~below)
  BY <1>1, <1>2, OneMoreVolt, Zenon
<1> HIDE DEF v, up, below
<1>7. release <=> Up(n + 1)' /\ ~Up(n)
  BY <1>3, <1>6, Zenon
<1>8. lost <=> PowerLost \/ v < monitor.pdr_falling
  BY <1>3
<1>9. release \in BOOLEAN /\ lost \in BOOLEAN
  BY <1>3
<1> HIDE DEF release, lost
<1>10. /\ Releases' = Releases \cup (IF release THEN {n + 1} ELSE {})
       /\ PowerOns' = PowerOns \cup (IF release /\ lost THEN {n + 1} ELSE {})
       /\ PowerLost' <=> ~release /\ lost
       /\ Releases \subseteq 1 .. n /\ PowerOns \subseteq Releases
  BY <1>1, <1>2, <1>7, <1>8, <1>9, HistoryGrows DEF v
<1>11. n + 1 \notin Releases /\ n + 1 \notin PowerOns
  BY <1>2, <1>10
<1>12. /\ IsFiniteSet(PowerOns) /\ IsFiniteSet(Releases \ PowerOns)
  <2>1. IsFiniteSet(1 .. n)
    BY <1>2, FS_Interval
  <2>2. PowerOns \subseteq 1 .. n /\ Releases \ PowerOns \subseteq 1 .. n
    BY <1>10
  <2> QED
    BY <2>1, <2>2, FS_Subset, Zenon
<1>13. Cardinality(PowerOns') = Cardinality(PowerOns) + (IF release /\ lost THEN 1 ELSE 0)
  <2>1. CASE release /\ lost
    <3>1. PowerOns' = PowerOns \cup {n + 1}
      BY <1>10, <2>1
    <3>2. Cardinality(PowerOns \cup {n + 1}) = Cardinality(PowerOns) + 1
      BY <1>11, <1>12, FS_AddElement, Zenon
    <3> QED
      BY <2>1, <3>1, <3>2
  <2>2. CASE ~(release /\ lost)
    <3>1. PowerOns' = PowerOns
      BY <1>10, <2>2
    <3> QED
      BY <1>3, <2>2, <3>1
  <2> QED
    BY <2>1, <2>2
<1>14. Cardinality(Releases' \ PowerOns')
         = Cardinality(Releases \ PowerOns) + (IF release /\ ~lost THEN 1 ELSE 0)
  <2>1. CASE release /\ ~lost
    <3>1. Releases' \ PowerOns' = (Releases \ PowerOns) \cup {n + 1}
      BY <1>10, <1>11, <2>1
    <3>2. Cardinality((Releases \ PowerOns) \cup {n + 1}) = Cardinality(Releases \ PowerOns) + 1
      BY <1>11, <1>12, FS_AddElement, Zenon
    <3> QED
      BY <2>1, <3>1, <3>2, Zenon
  <2>2. CASE ~(release /\ ~lost)
    <3>1. Releases' \ PowerOns' = Releases \ PowerOns
      BY <1>9, <1>10, <1>11, <2>2
    <3>2. Cardinality(Releases \ PowerOns) \in Nat
      BY <1>3
    <3>3. (IF release /\ ~lost THEN 1 ELSE 0) = 0
      BY <2>2
    <3>4. Cardinality(Releases \ PowerOns) = Cardinality(Releases \ PowerOns) + 0
      BY <3>2
    <3> QED
      BY <3>1, <3>3, <3>4, Zenon
  <2> QED
    BY <2>1, <2>2
<1>15. supply'.held <=> ~Up(n + 1)'
  BY <1>3, <1>4, <1>5, <1>6, Zenon DEF release
<1>16. Up(Len(delivered))' <=> Up(n + 1)'
  BY <1>6 DEF Up
<1>17. supply'.held \in BOOLEAN /\ supply'.lost_power \in BOOLEAN
  BY <1>5, SMTT(30) DEF SupplySupervisor
<1>18. SupplyFollowsVdd'
  BY <1>3, <1>5, <1>13, <1>14, <1>15, <1>16, <1>17 DEF SupplyFollowsVdd
<1>19. delivered' \in Seq(Nat)
  BY <1>1 DEF v
<1>20. supply'.lost_power = PowerLost'
  <2>1. supply'.lost_power <=> PowerLost'
    BY <1>5, <1>10
  <2> QED
    BY <1>17, <2>1, Zenon DEF PowerLost
<1> QED
  BY <1>5, <1>18, <1>19, <1>20 DEF HistoryInv

(* Nothing but set_vdd and a fresh fixture touches what the history is of. *)
LEMMA HistoryKept ==
  ASSUME HistoryInv, UNCHANGED <<monitor, delivered>>,
         \A f \in {"routed", "held", "lost_power", "power_on_resets", "brown_out_resets"} :
           supply'[f] = supply[f],
         phase' = "models" /\ routed_vdd' => supply'.routed
  PROVE  HistoryInv'
<1>1. /\ supply'.routed = supply.routed /\ supply'.held = supply.held
      /\ supply'.lost_power = supply.lost_power
      /\ supply'.power_on_resets = supply.power_on_resets
      /\ supply'.brown_out_resets = supply.brown_out_resets
  OBVIOUS
<1>2. \A i : Up(i)' = Up(i)
  BY DEF Up, BelowReset, release_v
<1>3. Releases' = Releases /\ Len(delivered') = Len(delivered)
  BY <1>2 DEF Releases
<1>4. PowerOns' = PowerOns
  BY <1>3 DEF PowerOns
<1>5. PowerLost' = PowerLost
  BY <1>3 DEF PowerLost
<1>6. Up(Len(delivered))' = Up(Len(delivered))
  BY SMTT(30) DEF Up, BelowReset, release_v
<1>7. SupplyFollowsVdd'
  BY <1>1, <1>3, <1>4, <1>6 DEF HistoryInv, SupplyFollowsVdd
<1> QED
  BY <1>1, <1>5, <1>7 DEF HistoryInv

(* Before the first voltage the core is down, and no release is counted.   *)
LEMMA EmptyHistory ==
  ASSUME delivered = << >>
  PROVE  /\ ~Up(Len(delivered)) /\ Releases = {} /\ PowerOns = {} /\ PowerLost
         /\ Cardinality(PowerOns) = 0 /\ Cardinality(Releases \ PowerOns) = 0
<1>1. Len(delivered) = 0 /\ DOMAIN delivered = {} /\ 1 .. 0 = {}
  OBVIOUS
<1>2. ~Up(Len(delivered)) /\ Releases = {}
  BY <1>1 DEF Up, Releases
<1>3. PowerOns = {} /\ PowerLost
  BY <1>2 DEF PowerOns, PowerLost
<1>4. Releases \ PowerOns = {}
  BY <1>2
<1> QED
  BY <1>2, <1>3, <1>4, FS_EmptySet

\* Every delivered voltage moves the supervisor as its history does.
LEMMA HistoryInvPreserved ==
  ASSUME SupplyInv, HistoryInv, [Next]_vars,
         (delivered = << >> => /\ ~Up(Len(delivered)) /\ PowerLost
                               /\ Cardinality(PowerOns) = 0
                               /\ Cardinality(Releases \ PowerOns) = 0)'
  PROVE  HistoryInv'
<1>1. ASSUME UNCHANGED <<monitor, delivered, supply>>,
             phase' = "models" /\ routed_vdd' => phase = "models" /\ routed_vdd
      PROVE  HistoryInv'
  BY <1>1, HistoryKept DEF HistoryInv
<1>2. CASE Call
  BY <1>1, <1>2, SMTT(30) DEF Call, chip
<1>3. CASE Rebind
  <2>1. delivered' = << >> /\ supply' = Unpowered /\ phase' = "idle"
    BY <1>3 DEF Rebind
  <2> QED
    BY <2>1 DEF HistoryInv, SupplyFollowsVdd, Unpowered
<1>4. ASSUME NEW r, Moved(r), UNCHANGED <<monitor, routed_vdd, delivered>>
      PROVE  HistoryInv'
  <2>1. supply \in SupplySupervisor /\ supply' = TakeRelease(Supplied)
    BY <1>4 DEF Moved, SupplyInv, SupplyTypes
  <2>2. CASE routed_vdd /\ ~supply.routed
    <3>1. /\ delivered' = << >> /\ supply.power_on_resets = 0 /\ supply.brown_out_resets = 0
      BY <1>4, <2>2 DEF HistoryInv
    <3>2. /\ supply'.routed = TRUE /\ supply'.held = TRUE /\ supply'.lost_power = TRUE
          /\ supply'.power_on_resets = supply.power_on_resets
          /\ supply'.brown_out_resets = supply.brown_out_resets
      BY <2>1, <2>2 DEF TakeRelease, Supplied, Attach, SupplySupervisor
    <3>3. SupplyFollowsVdd'
      BY <3>1, <3>2, Zenon DEF SupplyFollowsVdd
    <3>4. supply'.lost_power = PowerLost'
      BY <3>1, <3>2, Zenon DEF PowerLost
    <3> QED
      BY <3>1, <3>2, <3>3, <3>4 DEF HistoryInv
  <2>3. CASE ~(routed_vdd /\ ~supply.routed)
    <3>1. Supplied = supply
      BY <2>3 DEF Supplied, Attach
    <3>2. \A f \in {"routed", "held", "lost_power", "power_on_resets", "brown_out_resets"} :
            supply'[f] = supply[f]
      BY <2>1, <3>1 DEF TakeRelease, SupplySupervisor
    <3>3. phase' = "models" /\ routed_vdd' => supply'.routed
      BY <1>4, <2>3, <3>2
    <3> QED
      BY <1>4, <3>2, <3>3, HistoryKept
  <2> QED
    BY <2>2, <2>3
<1>5. CASE RunMachine \/ PassHeld
  BY <1>4, <1>5 DEF RunMachine, PassHeld, Advanced, chip
<1>6. CASE MachineFails
  BY <1>4, <1>6 DEF MachineFails, chip
<1>7. CASE StepModel \/ ModelFails
  BY <1>1, <1>7 DEF StepModel, ModelFails, chip
<1>8. CASE Apply
  <2>1. phase = "models" /\ phase' # "models" /\ UNCHANGED <<monitor, routed_vdd>>
    BY <1>8, SMTT(30) DEF Apply, ChunkDone, chip
  <2>2. CASE routed_vdd /\ signals.vdd # None
    BY <1>8, <2>1, <2>2, VoltFollowed DEF Apply, HistoryInv
  <2>3. CASE ~(routed_vdd /\ signals.vdd # None)
    BY <1>1, <1>8, <2>1, <2>3, SMTT(30) DEF Apply
  <2> QED
    BY <2>2, <2>3
<1>9. CASE UNCHANGED vars
  BY <1>1, <1>9 DEF vars, chip
<1> QED
  BY <1>2, <1>3, <1>5, <1>6, <1>7, <1>8, <1>9, SMTT(30) DEF Next

(* The core is held or up, and its power-on and brown-out resets are       *)
(* counted, exactly as the voltages delivered to it say: for every chip    *)
(* whose thresholds pass validation and every run of a circuit, with NaN   *)
(* read as no supply, through every fixture.                               *)
THEOREM SupplyIsFollowed == Spec => []SupplyFollowsVdd
<1>1. delivered = << >> => /\ ~Up(Len(delivered)) /\ PowerLost
                           /\ Cardinality(PowerOns) = 0
                           /\ Cardinality(Releases \ PowerOns) = 0
  BY EmptyHistory, SMTT(30)
<1>2. Init => HistoryInv
  BY DEF Init, Unpowered, HistoryInv, SupplyFollowsVdd
<1>3. /\ SupplyInv /\ HistoryInv /\ [Next]_vars
      /\ (delivered = << >> => /\ ~Up(Len(delivered)) /\ PowerLost
                               /\ Cardinality(PowerOns) = 0
                               /\ Cardinality(Releases \ PowerOns) = 0)'
      => HistoryInv'
  BY HistoryInvPreserved
<1>4. HistoryInv => SupplyFollowsVdd
  BY DEF HistoryInv
<1> QED
  BY <1>1, <1>2, <1>3, <1>4, SupplyAgrees, PTL DEF Spec

=============================================================================
