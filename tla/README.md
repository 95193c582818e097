# TLA+ models of labwired-core

labwired-core runs firmware on a simulated microcontroller. It promises
determinism: the same firmware sees the same peripheral events at the same
cycles, whether the host steps one instruction at a time, runs large batches, or
skips idle time. These modules model the parts of the core that have to keep that
promise: the execution loop of `Machine` and its event scheduler; the worlds that
join several machines by GPIO nets and UART links; the USART that moves the
characters and its interrupt line; the logic capture that reports pad changes;
and the session that runs a machine in lockstep with circuit models.

## The system

| Part | State | Operations | Talks to |
|---|---|---|---|
| Event scheduler (`sched/event_scheduler.rs`) | heap of wakes, de-duplication index, live counters, statistics | `schedule`, `advance_to`, `drain_due_into` | the drain |
| Scheduler drain (`lib.rs`, `bus/tick.rs`) | wakes buffered on the bus, bootstrap flag, the batch in dispatch | bootstrap, enqueue, collect, dispatch, idle skip | scheduler, peripherals' `on_event` |
| Window planner (`machine/plan.rs`) | none, reads the machine | `plan_cpu_window` | advance loop |
| Window execution (`machine/boundary.rs`) | core progress, second core's release | four execution paths, commit of the boundary | cores, drain |
| Advance loop (`machine/advance.rs`, `machine/mod.rs`) | the request's accounts, sticky breakpoints | `advance`, stop checks, no-progress retry | all of the above, every front end |
| Supply supervisor (`power.rs`) | held, lost power, pending release | `attach`, `set_vdd`, `take_release` | advance loop, co-simulation session |
| Co-simulation session (`cosim/routing.rs`) | boundaries, models' own times, signal store | `advance_budget`, `advance`, `rebind_fixture_epoch` | machine, models, supply |
| World over GPIO nets (`world/gpio_nets.rs`, `network/gpio_net.rs`) | per-node horizons, pending drive changes, deliveries | `run_to`, `step_all_gpio`, `run_until_ps` | many machines |
| World over UART links (`world.rs`, `network/timed_uart.rs`) | round clock, characters in flight, link state | `step_all_rounds`, `start_round`, scripted events | many machines |
| Timed USART (`peripherals/uart/timed.rs`) | registers, remembered line level, claimed wakes | register accesses, `service`, reset | wire, scheduler, NVIC |
| Interrupt fabric (`bus/tick.rs`, `peripherals/nvic.rs`) | pending bits and who set them | level reconciliation | peripherals, cores |
| Logic capture and observer mux (`logic_capture.rs`, `machine/world_hooks.rs`) | tap, two rings of edges, two readers | push and poll capture, `observer_watch`, `observer_pull` | world, instruments |
| Snapshots, flash operations, resets (`lib.rs`, `snapshot.rs`) | copies of machine state | take, restore, erase, bank swap | cores, bus, scheduler |
| Cores, peripherals, analog, front ends | large | instruction and register semantics, I/O | the loop |

What is hard about it: time advances in windows of varying length, on four paths
that charge cycles at different places; wakes are asked for inside a window and
queued after it; handlers ask for more while they are dispatched; a second core
changes state in mid-window; and limits, deadlines, tick grid, breakpoints and
idle skips all cut the same windows. Between machines, each node runs ahead of
the others and what one does must reach the others before they pass its time;
links, nodes and models fail or change on the way. `PROJECT.json` lists these
hazards with their lines, and every part of the system with what is modelled of it.

## Modules

**`WakeQueue`** is the abstract promise of the scheduler: a set of wakes. `Arm`
adds one no earlier than now, `Tick` moves the clock, `Fire` delivers all that
are due.

**`EventScheduler`** is the scheduler as coded. `heap`, `queued`,
`live_per_peripheral` and `stats` are its fields; the order of the binary heap is the relation
`Before`. `Schedule` is `schedule` with its clamp, its duplicate check, its
counters and ceiling; `DrainDue` is `drain_due_into`. The index is a set of keys
with its form beside it (`queued_form`), so that its two thresholds are visible
and its hash function is not. `delivered` is a history variable.
`ImplementsWakeQueue` maps it to `WakeQueue`.

**`SchedulerDrain`** extends it with the machine around it, for one core of one
cycle per instruction. `Plan`, `Compute`, `MmioWrite`, `SwitchClock` and `Commit`
are a CPU window; `BeginIdle`, `Skip` and `SkipNothing` are
`try_idle_fast_forward`. A drain takes several steps: `StartDrain` bootstraps,
`Enqueue` moves one buffered wake at a time, `Collect` takes the due batch, and
`DispatchGated` or `Handler` treats one event. A handler may ask to run again
and may write to a peripheral, which is how `apply_event_result` buffers new
wakes. Nothing in the code interleaves with a drain; the steps are separate so
that each state between them is checked.

**`Advance`** is `Machine::advance` with planner, execution paths and boundary.
`phase` is the place in the loop. The firmware is arbitrary: a window retires any
number of instructions the plan allows, with any legal cycle counts, and leaves
the cores at any pc. The heap is reduced to its next deadline; after a drain at
cycle `at` it may be anything a handler could ask for (`AfterDrain`), which is
the interface `SchedulerDrain` checks from the other side. The execution mode
`"per-cycle"` stands for the interval-1 windows beside a parked or held second
core, which commit every instruction themselves
(`internally_committed_cycles`). `ticked` and `costs` are history
variables.

**`GpioNets`** is `WorldGpio::run_to` and `GpioNet`. A host call
(`StepAllGpio`, `RunUntilPs`) visits the nodes in id order (`EnterRun`,
`FinishRun`) until none can go on (`Return`); inside a visit each
`Instruction`, `WaitForEvent`, `IdleSkip` and each delivery (`ApplyDue`) is a step
of its own, so a node stops in every state in which its horizon may end. A node
that drives a pad leaves the change in its state ring; the scheduler merges the
rings of a net up to a horizon and resolves the wire, and every member finds the
new level in the net's log one latency later. `cyc` is each node's own clock;
world time is integer picoseconds with the code's truncation one way and rounding
up the other (`CyclesToPs`, `PsToCyclesCeil`).

**`UartRounds`** is `step_all_rounds` on one link of two nodes: `BeginCall` starts
a round (`RoundEnd` from the lookahead, the quantum and the next scripted event),
`Firmware`, `Serve` and `Halt` are the nodes' steps, `EndTurn` hands over. The
wire holds each character with its bit time, its start at the sender and at the
receiver, and where it was cut; the receiver hunts for a falling edge and samples
levels, so a cut or a reset in mid-character can be read as another character or
a framing error as in the code.

**`UsartNvic`** is the same USART seen from the core: registers as sets of bits,
each access of firmware an action, and the NVIC bits `iser`, `ispr` and
`level_pended`. `mode` says how the machine drives the peripheral: on the walk it
is ticked and reconciled after every instruction, under the scheduler it is
served by its wakes and only a rising edge pends. `EventRules` are rules that
firmware may keep under the scheduler; on the walk firmware is free.

**`LogicObserver`** is `LogicCapture` with its tap and the `ObserverMux`. Pads push
changes with a provisional stamp (`Instruction`, `PausedInput`), `Commit` and
`IdleSkip` ingest or poll them at the boundary, and the world (`MarkerEdges`,
`Return`) and an instrument (`ObserverWatch`, `ObserverEdges`, `ObserverStates`)
read them. The reference is `sampler`, a history variable that reads every pad at
every boundary.

**`CosimSession`** is the session with its supply supervisor. `Call` begins
`advance_budget` (or a single `advance`), `RunMachine`, `PassHeld` and
`MachineFails` are the machine's part of a chunk, `StepModel`, `ModelFails` and
`Apply` the models' part, and `Rebind` changes the fixture. `Machine::advance`
appears here by what `Advance` shows of it: it keeps its limits but for one step,
and may stop early or fail. A pin level is represented by the cycle it was
sampled at, so that handing a model the wrong pins is visible.

**`SchedulerProofs`**, **`AdvanceProofs`**, **`UsartNvicProofs`**,
**`CosimSessionProofs`** and the four of the GPIO nets (**`GpioNetsLemmas`**,
**`GpioNetsProofs`**, **`GpioWireProofs`**, **`GpioWorldProofs`**) hold the theorems
and their lemmas. The modules whose names begin with `MC` give the constants their
values for TLC; `UsartNvic` needs none. `MCScheduler` puts the scheduler under the
machine of `SchedulerDrain` or under a lone caller (`client`), and `MCAdvance` holds
four machines, instances of `Advance`, one of which a behaviour is about (`machine`).

In each module a definition that follows a comment "Mutant" or "A mutation" is a
deliberately wrong form of a definition after it. No specification uses it. It documents
which slip in the code a property is sensitive to.

## Runs

Passing runs (states and times with two workers on a small machine):

| Run | Instance | What it shows |
|---|---|---|
| `scheduler` | the machine at tick interval 2 with two slots, one of them clock-gated, and a lone caller with the sentinel and past deadlines; ceiling 2, promotion at 3; 3.0 M states, 95 s | index, counters and statistics follow the heap; no wake lost; refinement; wakes on time, none forgotten, bootstrap exact |
| `advance` | four machines: interval 5 with steps of 1 to 3 cycles, supply and motor deadline; interval 3 with a second core held then active; interval 3 with one that parks; interval 1 with one held, parked or active, and breakpoints; 1.5 M states, 140 s | budgets, report, deadlines, grid, release, breakpoints; every bounded request returns |
| `gpio_nets` | three nodes of clocks 4, 3, 3 in a line on two nets; 765 k states, 77 s | edges in their cycle, wires right, no node left behind, the round clock honest and moving |
| `usart_nvic` | both layouts, both modes, stores of up to three bits of one control register; 99 k states, 20 s | pends kept, entries with a cause, rises pended, lines served |
| `uart_rounds` | clocks 2 and 3, the slower node first, four scripts, one node may lock up; 1.3 M states, 70 s | no character late, each accounted for and read as sent, the round clock moves |
| `logic_observer` | a marker and an open-drain net pad, three kinds of machine, rings of 3; 559 k states, 43 s | both readers hear every edge once at the sampler's cycle; runs end at net changes |
| `cosim_session` | two models of periods 2 and 4 at 1.5 ns a cycle, two chips; 1.1 M states, 70 s | reset follows VDD, models get their boundary's pins, budgets spent once and returned |

The properties, in short:

- `IndexMatchesHeap`, `NoWakeLost`, `LiveMatchesHeap`, `StatsNameTheLeak`,
  `ImplementsWakeQueue`: what `schedule` looks up is what is queued, in both forms
  of the index and after every drain, and what the users of the scheduler rely on.
  The invariants `TypeOK`, `DedupHysteresis` and `DeliveredBeforeQueued` of the
  module are proved and have no run.
- `WakesOnTime`, `NoRequestForgotten`, `BootstrapExact`: the same of the machine
  around it. A wake asked for in mid-window is queued less than one tick interval
  late (`lib.rs:4509`), the one exception being a wake that a handler buffered
  before an idle skip. A queued wake runs in its cycle; only one that its own
  handler re-armed for the cycle it ran in waits for the next.
- `LimitsHeld`, `ReportBalances`, `AdvanceReturns`: fuel is never exceeded; a cycle
  limit is passed by less than a step plus the costs of the last boundary; the
  report adds up; the loop ends.
- `WindowMeetsDeadlines`: as planned, a window ends less than one step after the
  scheduler deadline due next; filled or not, less than one step after the motor
  service. The runs' `MachinesTickOnGrid`, `MachineObservesBreakpoints` and
  `MachineActsOnBootAddr` are `GridTicked` (each grid point is served exactly
  once), `BreakpointsObserved` and `BootAddrActedOn` of the machines they are
  about: what the second core and the debugger rely on.
- `DeliveredOnTime`, `WireFollowsDrives`: no node passes the time of a level change
  it has not been given, however far it ran ahead; the level a member is given is
  the one all drives at that time resolve to. `NoNodeLeftBehind`,
  `RoundClockHonest`, `RoundClockMoves`: no circle of waiting nodes; the clock
  claims no time a live node has not reached, and it moves.
- `NeverLate`, `ActedOnInTime`, `CharsAccounted`, `ReadAsSent`, `RoundClockMoves`:
  the same promises of the UART rounds, through cuts, delays, resets and lock-ups.
  A character is acted on in its cycle, or in the next one if the receiver's round
  began in that cycle.
- `SoftwarePendKept`, `EntryHasCause`, `RiseReachesNvic`, `AssertedLineServed`: the
  pending bit follows the line and nothing else but software.
- `WorldHearsAll`, `InstrumentHearsAll`, `NetChangeEndsRun`: two readers of one
  capture, against the sampler.
- `SupplyFollowsVdd`, `ReleasesActedOn`: reset and its causes, read off the
  delivered voltages. `PinsOfTheBoundary`, `NoModelAhead`, `BudgetAccounts`,
  `BudgetReturns`: lockstep and budgets of the session.

Runs that show a disagreement between the code and what is written about it
(`PROJECT.json` quotes the lines):

| Run | Property | What happens |
|---|---|---|
| `usart_lost` | `RiseReachesNvic` | under the scheduler a store to CR1 or CR3 lowers the line but not the remembered level; the next rise pends nothing |
| `drain_batch` | `ArmedForNowInBatch` | a wake that a handler arms for now does not join the current batch; it is left in the heap for the next drain |
| `advance_fill` | `FillMeetsDeadline` | the tick boundary cuts a window to one step, so the deadline clause is skipped, and the fill of a timed core runs past the deadline by more than a step |
| `uart_exact` | `ActedOnAtExactCycle` | a receiver that stands in the cycle a character is due in when it learns of it acts on it a cycle later |
| `observer_late_arm` | `WorldHearsAll` | the first arm of an instrument hands the world edges it had already read |

### Met while modelling

More disagreements were met and have no run. Those of the execution loop:

- An idle skip does not see a wake that its own first drain left in the bus's
  buffer (`lib.rs:3972`; the buffer is moved at `lib.rs:4509`).
- An interval-1 window runs on after the edge that releases the second core from
  reset (`boundary.rs:195`; `tests/machine_advance.rs:1480` expects a stop), and
  beside a core that was unparked in it (`boundary.rs:206`; `lib.rs:654`).
- An idle skip of the primary passes over an active second core (`lib.rs:3924`).
- With both cores on breakpoints, one is reported twice in a row
  (`advance.rs:276`; `tests/integration.rs:2791`).
- Three need a tick interval above 1 on a machine with a second core, where
  `max_safe_tick_interval` recommends 1: a window beside a parked core is not cut
  at the tick boundary (`plan.rs:337` says it is), a one-instruction window beside
  it may tick by a whole interval on top of what the coalesced windows ticked
  (`boundary.rs:464`), and a boot address published in a batch is not acted on
  (`system/builder.rs:103`).

Of the USART's interrupt under the scheduler; on the walk none of these happens,
as `UsartNvicProofs` shows:

- A handler that returns with the line still high is not entered again, nor is a
  high line whose pend firmware cleared through ICPR.
- A read of DR lowers the line but leaves the pend, and the handler is entered once
  more without a cause (`bus/tick.rs:33`).
- A mark that outlived its pend lets a later reconciliation of the low line drop a
  pend that software set (`peripherals/nvic.rs:27`).

Of the UART rounds:

- While both USARTs are off there is no lookahead, so the first round is as long as
  the quantum, and a character sent in it is acted on up to two cycles late
  (`world.rs:1372`; `world.rs:207`). In the run one node is on from the start.
- `abort_tx` cuts characters that started before the reset, not one that starts in
  its very cycle; that one stays whole while the wire is taken to be free, and the
  next one overlaps it. The run's reset does not fall on such a cycle.
- A node that locked up and is reset by a script restarts behind world time.
- A receiver switched on after a sample point takes a character that began before
  it was on.

Of the logic capture:

- An input pushed while the machine is paused is lost to the world if an instrument
  arms before the next boundary. The history variable `lossy` excepts it.
- When `ui_edges` overflows `OBSERVER_CAP` the oldest are dropped without being
  counted, and `observer_states` reports the level ring's losses for its own.
- A tick cost together with a scheduler event that writes a pad at the same
  boundary gives two edges of one channel in one cycle, which the comment on
  `ingest_push` rules out. No kind of machine in the run has both.

Of the co-simulation session: boundaries fall on multiples of the finest period
only. A model whose period is no multiple of it is stepped late with pins sampled
after its time (periods 4 and 6: the step at 6 ns gets the pins of 8 ns).
`cosim/routing.rs:1325` says "The cap is what keeps a model from being handed pin
levels from its future", and `validate_cosim_models` demands only positive
periods. The run's periods are multiples.

### Bounds

`MaxCycle`, `Horizon`, `MaxEvents`, `MaxClamps`, `MaxRequests`, `MaxDelay` and
`MaxCost` only end behaviours; no guard of the code depends on them. They leave
room for each case: a queue that promotes and demotes again, a slot past its
ceiling, three drains with a gated retry between them, windows cut by every
clause, a grid crossed at least twice, a second core that parks, wakes and parks
again. `ParkedWindow` stands for 1024 and is larger than the other clauses in some
states and smaller in others. `U32Max` stands for `u32::MAX` and never binds.
Two of the machines of `advance` set `LegacyActive`, which turns idle skips off:
`GridTicked` is about the tick walk, and a machine whose peripherals need that
walk does not skip. They also have no tick costs, because a cost carries the clock
off the grid; the timed machine has both, and the one whose second core parks skips.
The lone caller of `scheduler` has smaller bounds than the machine (`CallerCycle`,
`CallerEvents`), since it may make any call at any time.

The bounds of the other modules have the same role. In `gpio_nets` the clocks are
chosen so that cycles of different nodes fall between each other in world time;
one node sleeps across several rounds, one may lock up or fail, instructions of
two cycles overrun a horizon, and the step budget of one cycle cuts every round.
The middle node is on both nets, so what it is told on one it may pass on. In
`uart_rounds` a character is a start bit, one data bit and a stop bit: the least
for which a cut can fall into each kind of bit. The sender's bit time is fixed,
the other node may choose the same or another one. The receiver takes its turn
first and its cycle is longer than the sender's, so a round can end inside the
cycle a character is due in. In `logic_observer` the rings
are smaller than the number of edges a behaviour can hold, and the instrument arms
twice, first for both pads in the other order. In `cosim_session` a cycle is 1.5 ns,
so no period is a whole number of cycles; the two chips have their brown-out level
absent and above power-on; the voltages, and a NaN, which counts as 0, fall on
both sides of every threshold in use.
`Horizon`, `MaxStart` and `MaxCycle` only end behaviours.

### Fairness

- `AdvanceReturns`: `KeepsStepping`, which is `WF(LoopNext)`. The loop runs on one host thread and no step in
  it waits for anything, so a call in progress keeps taking steps. Nothing is
  assumed of the callers, of the supply, or of which step is taken: the firmware
  may waste every window it can. The property is stated for requests with a fuel
  or a cycle limit; without one, `advance` is meant to run for ever.
- `RoundClockMoves` of both worlds: the host calls until it has the time it wants,
  and a call, being sequential code, takes its next step. Written as "the host is
  satisfied again and again, or steps are taken again and again", which is weak
  fairness of the next-state relation.
- `AssertedLineServed`: weak fairness of the walk's tick, of exception entry, of the
  core's other instructions and of wakes that are due. Firmware is free to do
  nothing useful; under the scheduler it keeps the three rules.
- `BudgetReturns`: `WF(Chunk)`, for the same reason as `LoopNext`. Failures are not
  fair.

`logic_observer` and the safety properties need none. `cosim_session` switches the
deadlock check off because callers may simply stop calling; the other runs check
for deadlock.

## Proofs

`SchedulerProofs` first proves of the scheduler alone, for any slots, tokens, ceiling,
promotion length and bounds:

- `TypeCorrect`, `IndexInSync`, `LiveCountsExact`, `HysteresisHolds`,
  `GlobalDeliveryOrder`, `WakesConserved`: its invariants;
- `Refinement`: the scheduler implements `WakeQueue`;
- `LeaksAreNamed`: the statistics name the slot that leaks events. It adds to
  `IInv` only that a high-water mark is set in the step that reaches it.

The invariants hold each other up. The counters stay exact because the heap is
finite, the index's form because the index has the keys of the heap and no more.
Delivery order is the one that needs a strengthening: a new event follows
everything delivered because its deadline is at least now, its id is larger than
any given out (`NoWakeLost`), and nothing delivered has a deadline after now
(`DeliveredNotInFuture`, which no run states). `IInv` is the conjunction. The
proof has one lemma per action (`AdvanceToIInv`, `ScheduleDuplicateIInv`,
`ScheduleAcceptedIInv`, `DrainDueIInv`), lemmas on how the events of one slot
change (`OfAdd`, `OfRemove`) for the counters, and combines them in `Inductive`.

Its second part puts the machine around the scheduler, for any slots, tick interval,
delays, horizon, alarms and number of requests:

- `WakesAreOnTime`, `RequestsAreKept`, `BootstrapIsExact`: the three invariants of
  the run that are about the machine, from `DrainInductive`.

`IInv` carries over, because the machine moves the scheduler only with its three
calls. `MachineInv` keeps the clocks together and the window within one interval.
`LatenessInv` says, for every phase of an advance, how late a wake may be in each
place it can be in: the buffer, the heap, the collected batch, and that a wake
left in the heap for the cycle just served is one whose handler ran in it. It
needs that the window was cut at the least queued deadline (`WindowCut`), which is where
`LeastDeadline` comes in. `RequestInv` follows a request through those places and
says that it never loses any of its delay. `AlarmInv` follows the wake of an alarm
through the bootstrap: `BootWakeExact` shows that a delay computed at bootstrap
time is counted from the same clock it was read on. There is one lemma per
operation (`ScheduleEffect`, `StartDrainEffect`, `EnqueueEffect`, `CollectEffect`,
`GatedEffect`, `HandlerEffect`, `WriteEffect`) and one per invariant.

`UsartNvicProofs` proves, for any modes, layouts and firmware rules:

- `SoftwarePendIsKept` and `EntriesHaveACause`: on the walk, whatever firmware does,
  a software pend of a low line stays until it is taken or cleared, and the handler
  is entered only for a high line or a software pend;
- `RisesReachTheNvic`: every rise of the line pends the NVIC, in both modes, if
  firmware under the scheduler changes control bits only as UE does. `usart_lost`
  shows that the assumption is needed.

The strengthening is `Inv`. On the walk (`WalkInv`) the mark `level_pended` is the
line, except between an instruction and its tick, where a read of DR may have
lowered the line under the mark; a bit is pending because of the line or because
of software; a pend of a line that stayed low is unmarked. Under the scheduler
(`EventInv`) the edge detector is never set on a low line. `Invariance` has one
lemma for types and one for each half.

`AdvanceProofs` proves, for any interval, step length, peripheral cost, budgets,
breakpoints, deadlines and second core:

- `DeadlinesMet`, `BudgetsHold`, `ReportsBalance`, `BreakpointsAreObserved`, with no
  further assumption;
- `BootAddrIsActedOn` at interval 1, where the code watches for the address;
- `PeripheralTimeOnGrid` for machines that leave the tick grid nowhere
  (`OnTheGrid`: no idle skip, no supply hold, no peripheral cost, no step longer
  than the interval, no parked core above interval 1). The two machines of the run
  that `MachinesTickOnGrid` names meet these hypotheses; off the grid the code makes
  no such promise.

All rest on `WindowInv`, what one window may hold: `ProgressInv` (the work done in
it, by execution path), `PositionInv` (where the clock stands relative to its
start), `PlanInv` (which clauses of the budget and of the deadlines the plan left
standing, or that it is a single step). It has one lemma per action, and budgets and
deadlines follow from it. Each other result has an invariant of its own on top of
it, from `AccountInv` to `GridInv`. The arithmetic, products of step counts and step
lengths and the grid's quotients, is in `TimesMonotone`, `NextGridPoint` and
`DivisionUnique`.

`CosimSessionProofs` proves, for any clock, periods, thresholds, voltages, budgets
and step lengths:

- `ReleasesReachTheCore`: every release the supervisor counts resets the core once,
  with its own cause, before the core executes anything. `SupplyInv` adds types and
  that a pending release is the last cause counted. It rests on `NoChatter`: no
  voltage is both below a reset threshold and at the release level, which follows
  from what the configuration's parser lets through;
- `SupplyIsFollowed`: hold, causes and counters are those of the delivered voltages.
  `HistoryInv` adds that the supervisor remembers exactly whether VDD was below
  power-down since the last release;
- `ModelsStayBehind`: no model is ahead of the machine, across failures and changes
  of fixture. A rebind may take the machine back as far as the last global
  cycle, so `ClockInv` says that no model has passed that cycle; the arithmetic is
  in `DivMonotone`, `NsMonotone` and `ChunkForward`;
- `BudgetsAddUp`: a call accounts for what passed, however boundaries cut it;
- `PinsAreOfTheBoundary`, if every period is a multiple of the session's step, as it
  is when the step is the finest of periods that divide each other. `PinsInv`
  says that unless a boundary is owed, every model waits for the next one.

The GPIO nets have four modules. They prove, for any nodes, clocks, nets, pulls and
latencies that the world accepts (`NetAssumption`: a latency is at least one cycle of
every member, a round at most the least latency), any firmware, step length and
targets before the end of the picosecond clock:

- `DeliveryInTime`: a delivery never lies in the past of a member that has not had it;
- `NobodyLeftBehind`: a call that returns without an error leaves every node that can
  run at its goal;
- `ClockHonest`: the round clock claims no time that a node able to run has not reached;
- `WiresFollowDrives`: the deliveries and the level of a net are those of the wire that
  the recorded drives of its members make.

The first rests on `HorizonSafe`, the invariant `Inv`. `run_to` lets a node run to a
limit computed from `known_ps`, and nothing in the state says afterwards why that was
safe, so `Inv` says that there is a promise `K`: a time for every node up to which all
its changes are recorded. A node that is awake promises no more than where it stands;
one that sleeps may promise more, if neither its event nor anything on its nets wakes
it before (`Kept`). The promise covers everybody (`Covers`): no node has passed a time
at which a change of another could still arrive. The limit of the running node has a
promise of its own (`LimitInv`), made without the node itself when it stops at its own
changes. The witness for the new promise after a step is the larger of the old one and
the smaller of the limit's and the new time (`StepHorizon`, the heart of the proof). The
rest of `Inv` is about what is recorded, waiting and queued (`QueueInv`, `ArrivalInv`,
`FrontInv`), the cached dues (`DueInv`) and the call (`CallInv`).

`GpioNetsLemmas` has what the operators compute and what the scheduler's actions do
(`RelaxResult`, `MergeResult`, `HorizonResult`, `LimitResult`, `FinishFacts`). The
loops of `merge` and `known_ps` are recursive functions that repeat a step until it is
done: such a function exists (`LoopExists`), and if every step leaves less to do, its
result has every property that the step keeps (`LoopEnds`). So what the loops return
is proved without an induction over their data. `GpioNetsProofs` has one lemma per
action for `Inv`.

`GpioWorldProofs` adds `ProgressInv`. Its last clause, `HeldInv`, is what rules out that
nodes wait for each other: a change waits only because of a member that had not
reached it. So the live node that is least far on has nothing waiting before it, and
`ClosestRuns` shows that its horizon lies ahead of it.

`GpioWireProofs` adds `WireInv`: each net is the wire of the merged changes, those are a
front of what every member recorded, and none that waits is as early as one that is
merged (`Settled`). `WireGrows` is the step of the merge: the changes of one later time
add at most one level change. That nothing arrives too late for its place is what the
merge horizon gives, so this rests on `Inv` too.

The assumptions are those the modules state on their constants, which TLC evaluates
in the runs, and the hypotheses named above. Every inductive invariant was checked by
TLC before it was proved: `Inv` (with promises from a finite set) and `WireInv` on the
instance of `gpio_nets`, `ProgressInv` on one of 19 million states.

Only model-checked:

- all liveness (`AdvanceReturns`, `RoundClockMoves`, `AssertedLineServed`,
  `BudgetReturns`), since fairness is out of the prover's reach;
- `UartRounds`: its receiver samples and decodes with folds and recursive operators
  over the characters in flight, and what those compute for every input needs
  induction over sequences;
- `LogicObserver`: its rings are folded and filtered (`FoldLeft`, `SelectSeq`) on every
  boundary, with the same obstacle.

## Not modelled

- Of `Advance`: clauses that only shorten a window (the cycle-accurate, poll and
  reset-fidelity pins, resident GPIO edges and grid waveforms, the parked core's
  CCOMPARE deadline, the CPU-interrupt deadline); the quiescent SAMD chunks, which
  widen one; RTC and SCB resets, NVMC and flash operations, `NetDriveChange` and
  exit codes, the count of CPU batches, the driver's window runner, wall-clock
  pacing, the external-medium poll, and a supply on a machine with a second core.
  The model follows a machine to its first `Err`.
- Of `SchedulerDrain`: cores of more than one cycle per instruction and second
  cores (`Advance` has them), and the arm of the dispatch for a slot that is out
  of range: only the sentinel could reach it, and nothing arms the sentinel
  outside the scheduler's own tests.
- Of `GpioNets`: diagnostics and contention counters, the order of the log of
  applied levels, the lockstep driver, nodes without a clock or on no net, a node with
  two pads on one net, a sleep without a next event (its time saturates), and what
  happens after an `Err` reached the host.
- Of `UartRounds`: more than one link, parity, 9-bit and two-stop formats, the
  timeline and the diagnostics, a link's jitter, cores of more than one cycle per
  instruction. A USART is off (no baud rate) or on with both halves: one that has a
  baud rate but a disabled receiver, and firmware that switches a running one off,
  are left out.
- Of `UsartNvic`: parity errors, DMA, the untimed USART, priorities and other lines,
  and the walk at a tick interval above 1, where several instructions pass between
  two reconciliations.
- Of `LogicObserver`: channels on a peripheral's own wire and their past-stamped
  edges, references that do not resolve, `logic_force_poll`, a net pad pushed while
  paused, an `Err` in mid-batch, the scheduler drain before an idle skip, and an
  `advance_to_cycle` that ends early on `NoProgress` or `FirmwareExit`.
- Of `CosimSession`: which pin or converter a path names, routing errors, UI
  signals, the analog trace, the fallback clock, the I/O of external processes, and a
  core whose `reset` fails: `apply_supply_release` has taken the release by then, and
  it is gone.
- The BLE lockstep (`world.rs:1012`). Read, not checked: when every node is in
  `stalled`, `min_t` falls back to 0 and nodes past the quantum are not stepped again.
- CAN: arbitration and bit timing are numerical, and a bit-exact frame is out of
  reach of a small instance.
- Snapshots, flash contents and node reset of a single machine: they copy or clear
  the state of several hundred register models, which no module has.
- Instruction semantics, the other peripherals' registers, bus construction,
  parsing, analog and physics numerics, and the socket and command-line front ends.
- 64-bit wrap-around of cycles, times and event ids, which no run can reach.

## Plan

1. The BLE lockstep, and worlds that mix media.
2. Snapshot restore and node reset against the scheduler and the buffered wakes.
3. An abstract wire in which everything arrives at its time, and `GpioNets` and
   `UartRounds` shown to implement it.
4. Proofs: `NeverLate` of `UartRounds`, once its receiver is written with recursive
   functions as `GpioNets` is.
