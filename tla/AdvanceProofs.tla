---------------------------- MODULE AdvanceProofs ----------------------------
(***************************************************************************)
(* Machine::advance, for every tick interval, step cost, budget, set of    *)
(* breakpoints and second core.                                            *)
(*                                                                         *)
(* WindowInv says what one window may hold: the work done in it, where the *)
(* clock stands, and which clauses of the budget and of the deadlines its  *)
(* plan left standing.  It is preserved by every step; the deadlines and   *)
(* the cycle budget follow from it.  The second part looks at the windows  *)
(* of a request: each result adds an invariant of its own to WindowInv     *)
(* (AccountInv, BreakpointInv, BootInv, GridInv).                          *)
(***************************************************************************)
EXTENDS Advance, FiniteSetTheorems, TLAPS

(* A window has been planned and not yet committed, and the boundaries     *)
(* where no window is open.                                                *)
InWindow == phase \in {"run", "fill", "commit"}
Between ==
  \/ phase \in {"loop", "idle", "skip", "plan", "stuck", "retry"}
  \/ phase = "stopped" /\ stop # "Err"

(* The records of the loop: its accounts, the planned window, what the     *)
(* cores have done of it.                                                  *)
Accounts ==
  [fuel_consumed : Nat, primary_steps : Nat, secondary_steps : Nat, idle_cycles : Nat]
CpuWindow == [start : Nat, steps : Nat, to_cycles : Nat, max_steps : Nat]
CoreProgress ==
  [primary_steps : Nat, secondary_steps : Nat, cycles : Nat,
   mode : {"direct", "batch", "per-cycle"}]

(* The types of the loop's variables.  The second core is in one of its    *)
(* configured states, or was released into running.                        *)
TypeOK ==
  /\ total_cycles \in Nat /\ start_cycles \in Nat
  /\ next_event \in Limits /\ service \in Limits
  /\ \/ secondary \in SecondaryStates
     \/ secondary = "active" /\ "none" \notin SecondaryStates
  /\ boot_addr \in BOOLEAN /\ reset_released \in BOOLEAN /\ supply_held \in BOOLEAN
  /\ pc \in Pcs /\ secondary_pc \in Pcs
  /\ request \in Requests
  /\ state \in Accounts /\ window \in CpuWindow /\ progress \in CoreProgress
  /\ phase \in {"stopped", "loop", "idle", "skip", "plan", "run", "fill", "commit",
                "stuck", "retry"}
  /\ ticked \in Nat /\ costs \in Nat

(* The work of a window, by the path that executes it. *)
ProgressInv ==
  /\ Between => /\ progress.primary_steps = 0 /\ progress.secondary_steps = 0
                /\ progress.cycles = 0
  /\ phase = "run" /\ progress.mode # "per-cycle" =>
       /\ progress.primary_steps = 0 /\ progress.secondary_steps = 0
       /\ progress.cycles = 0
  /\ phase = "fill" => progress.mode = "batch" /\ progress.secondary_steps = 0
  /\ phase \in {"fill", "commit"} => progress.primary_steps > 0
  /\ progress.secondary_steps <= progress.primary_steps
  /\ progress.primary_steps <= progress.cycles
  /\ progress.cycles <= progress.primary_steps * max_step_cycles
  /\ progress.mode = "direct" => progress.primary_steps <= 1
  /\ InWindow /\ progress.mode = "per-cycle" =>
       /\ progress.cycles = progress.primary_steps
       /\ peripheral_tick_interval = 1 /\ max_step_cycles = 1

(* Where the clock stands in a window that was planned at window.start. *)
PositionInv ==
  /\ start_cycles <= total_cycles
  /\ InWindow =>
       /\ start_cycles <= window.start
       /\ total_cycles = window.start
            + (IF progress.mode = "batch" THEN 0 ELSE progress.cycles) + costs
       /\ progress.mode # "per-cycle" => costs = 0
       /\ costs <= progress.primary_steps * MaxCost
       /\ progress.mode = "per-cycle" =>
            /\ progress.primary_steps <= window.steps
            /\ phase = "run" => progress.primary_steps < window.steps
       /\ progress.mode = "batch" => progress.primary_steps <= window.max_steps

(* What planning left in the window: it holds the clauses of the budget    *)
(* and of the deadlines, or it is a single step.                           *)
WithinCycles(n) == window.max_steps = 1 \/ window.max_steps * max_step_cycles <= n

(* The clauses, with the spent budgets that end the loop before planning.  *)
PlanInv ==
  /\ phase \in {"idle", "skip", "plan"} => ~FuelSpent /\ ~CyclesSpent
  /\ InWindow =>
       /\ 1 <= window.steps /\ window.steps <= window.max_steps
       /\ request.fuel # None =>
            state.fuel_consumed + window.max_steps <= request.fuel
       /\ request.simulated_cycles # None =>
            /\ window.start - start_cycles < request.simulated_cycles
            /\ WithinCycles(request.simulated_cycles - (window.start - start_cycles))
       /\ service # None => WithinCycles(service - window.start)
       /\ progress.mode # "per-cycle" /\ next_event # None =>
            \/ WithinCycles(next_event - window.start)
            \/ /\ window.steps = 1 /\ window.to_cycles < 2 * max_step_cycles
               /\ progress.cycles < 2 * max_step_cycles

(* Everything about one window, for every later proof to start from.       *)
WindowInv == TypeOK /\ ProgressInv /\ PositionInv /\ PlanInv

-----------------------------------------------------------------------------
(* Numbers: least and largest elements, divisions by the longest step.     *)

(* A set of naturals that is not empty has a least element. *)
LEMMA MinOfNats ==
  ASSUME NEW S \in SUBSET Nat, S # {}
  PROVE  Min(S) \in S /\ Min(S) \in Nat /\ \A x \in S : Min(S) <= x
<1>. DEFINE down == {0 .. n : n \in S}
<1>1. down \subseteq FiniteSubsetsOf(Nat) /\ down # {}
  <2>1. \A n \in S : 0 .. n \in FiniteSubsetsOf(Nat)
    <3>. SUFFICES ASSUME NEW n \in S PROVE 0 .. n \in FiniteSubsetsOf(Nat)
      BY Zenon
    <3>1. IsFiniteSet(0 .. n) /\ 0 .. n \subseteq Nat
      BY FS_Interval
    <3>. QED BY <3>1, Zenon DEF FiniteSubsetsOf
  <2>. QED BY <2>1, Zenon
<1>2. PICK D \in down : \A E \in down : ~(<<E, D>> \in StrictSubsetOrdering(Nat))
  <2>. HIDE DEF down
  <2>. QED BY <1>1, FS_StrictSubsetOrderingWellFounded, WFMin, Zenon
<1>3. PICK m \in S : D = 0 .. m
  BY Zenon
<1>4. \A n \in S : m <= n
  <2>. SUFFICES ASSUME NEW n \in S, n < m PROVE FALSE
    OBVIOUS
  <2>1. 0 .. n \in down /\ 0 .. n \in SUBSET Nat /\ 0 .. m \in SUBSET Nat
    OBVIOUS
  <2>2. 0 .. n \subseteq 0 .. m /\ m \in 0 .. m /\ m \notin 0 .. n
    OBVIOUS
  <2>. HIDE DEF down
  <2>. QED BY <1>2, <1>3, <2>1, <2>2, Zenon DEF StrictSubsetOrdering
<1>. QED BY <1>4, Zenon DEF Min

(* The larger of two numbers. *)
LEMMA MaxOfTwo ==
  ASSUME NEW a \in Int, NEW b \in Int
  PROVE  Max({a, b}) = IF a >= b THEN a ELSE b
BY DEF Max

(* The smaller of two numbers bounds from below. *)
LEMMA MinOfTwo ==
  ASSUME NEW a \in Int, NEW b \in Int
  PROVE  Min({a, b}) = IF a <= b THEN a ELSE b
BY DEF Min

(* The constants, as numbers. *)
LEMMA Constants ==
  /\ max_step_cycles \in Nat /\ max_step_cycles >= 1
  /\ peripheral_tick_interval \in Nat /\ peripheral_tick_interval >= 1
  /\ MaxCost \in Nat /\ MaxDelay \in Nat /\ MaxCycle \in Nat
  /\ ParkedWindow \in Nat /\ U32Max \in Nat
  /\ None \notin Nat
  /\ \A r \in Requests : r \in AdvanceRequest
BY AdvanceAssumption

(* A product grows with its first factor. *)
LEMMA TimesMonotone ==
  ASSUME NEW a \in Nat, NEW b \in Nat, NEW m \in Nat, a <= b
  PROVE  a * m <= b * m /\ a * m \in Nat /\ b * m \in Nat
<1>1. PICK d \in Nat : b = a + d
  <2>1. b - a \in Nat /\ b = a + (b - a)
    OBVIOUS
  <2>. QED BY <2>1, Zenon
<1>2. a * m \in Nat /\ d * m \in Nat
  OBVIOUS
<1>3. b * m = a * m + d * m
  BY <1>1
<1>. QED BY <1>2, <1>3

(* A clause measured in cycles: one step, or steps that fit; and it is one *)
(* step only below two of the longest.                                     *)
LEMMA StepsFit ==
  ASSUME NEW c \in Nat
  PROVE  /\ StepsWithin(c) \in Nat /\ StepsWithin(c) >= 1
         /\ StepsWithin(c) = 1 \/ StepsWithin(c) * max_step_cycles <= c
         /\ StepsWithin(c) <= 1 => c < 2 * max_step_cycles
<1>. DEFINE q == c \div max_step_cycles
<1>1. /\ q \in Nat
      /\ q * max_step_cycles <= c /\ c < (q + 1) * max_step_cycles
  BY Constants
<1>2. StepsWithin(c) = IF q >= 1 THEN q ELSE 1
  BY <1>1, MaxOfTwo DEF StepsWithin
<1>. HIDE DEF q
<1>3. q <= 1 => (q + 1) * max_step_cycles <= 2 * max_step_cycles
  BY <1>1, Constants, TimesMonotone
<1>. QED BY <1>1, <1>2, <1>3, Constants

(* The steps of a window and its fill ceiling satisfy every clause they    *)
(* are the least of, or are a single step.                                 *)
LEMMA LeastClause ==
  ASSUME NEW hard \in SUBSET Nat, NEW tick \in SUBSET Nat, hard # {}
  PROVE  LET steps == Max({Min(hard \cup tick), 1})
             ceiling == Max({Min(hard), steps})
         IN
         /\ steps \in Nat /\ ceiling \in Nat /\ 1 <= steps /\ steps <= ceiling
         /\ \A c \in hard : ceiling <= c \/ ceiling = 1
         /\ \A c \in hard \cup tick : steps <= c \/ steps = 1
<1>. DEFINE steps == Max({Min(hard \cup tick), 1})
            ceiling == Max({Min(hard), steps})
<1>1. /\ Min(hard \cup tick) \in Nat /\ \A c \in hard \cup tick : Min(hard \cup tick) <= c
      /\ Min(hard) \in Nat /\ \A c \in hard : Min(hard) <= c
      /\ Min(hard) \in hard
  BY MinOfNats, Zenon
<1>2. steps = IF Min(hard \cup tick) >= 1 THEN Min(hard \cup tick) ELSE 1
  <2>. DEFINE least == Min(hard \cup tick)
  <2>1. least \in Int /\ 1 \in Int
    BY <1>1
  <2>. HIDE DEF least
  <2>2. Max({least, 1}) = IF least >= 1 THEN least ELSE 1
    BY <2>1, MaxOfTwo, Zenon
  <2>. QED BY <2>2, Zenon DEF least
<1>3. ceiling = IF Min(hard) >= steps THEN Min(hard) ELSE steps
  BY <1>1, <1>2, MaxOfTwo
<1>. HIDE DEF steps, ceiling
<1>4. /\ steps \in Nat /\ ceiling \in Nat /\ 1 <= steps /\ steps <= ceiling
      /\ \A c \in hard : ceiling <= c \/ ceiling = 1
      /\ \A c \in hard \cup tick : steps <= c \/ steps = 1
  BY <1>1, <1>2, <1>3
<1>. QED BY <1>4, Zenon DEF steps, ceiling

(* The clauses are sets of step counts. *)
LEMMA ClausesAreNats ==
  ASSUME TypeOK
  PROVE  /\ BudgetClauses \cup CoreClauses \in SUBSET Nat
         /\ U32Max \in BudgetClauses
         /\ TickClauses \in SUBSET Nat
         /\ \A n : DeadlineClauses(n) \in SUBSET Nat
         /\ UntilTick \in Nat /\ UntilTick >= 1
         /\ UntilTick <= peripheral_tick_interval
<1>1. \A a \in Nat, b \in Int : SaturatingSub(a, b) \in Nat
  BY DEF SaturatingSub
<1>2. /\ request.fuel \in Nat \cup {None} /\ request.simulated_cycles \in Nat \cup {None}
      /\ request.cap \in Nat \cup {None}
      /\ total_cycles \in Nat /\ total_cycles \in Int /\ elapsed \in Int
      /\ state.fuel_consumed \in Nat /\ state.fuel_consumed \in Int
      /\ service \in Nat \cup {None} /\ next_event \in Nat \cup {None}
  BY Constants DEF TypeOK, Accounts, AdvanceRequest, Limits, elapsed
<1>3. UntilTick \in Nat /\ UntilTick >= 1 /\ UntilTick <= peripheral_tick_interval
  BY <1>2, Constants DEF UntilTick
<1>4. BudgetClauses \in SUBSET Nat /\ U32Max \in BudgetClauses
  <2>1. request.fuel # None => SaturatingSub(request.fuel, state.fuel_consumed) \in Nat
    BY <1>1, <1>2, Zenon
  <2>2. request.simulated_cycles # None =>
          StepsWithin(SaturatingSub(request.simulated_cycles, elapsed)) \in Nat
    BY <1>1, <1>2, StepsFit, Zenon
  <2>3. service # None => StepsWithin(SaturatingSub(service, total_cycles)) \in Nat
    BY <1>1, <1>2, StepsFit, Zenon
  <2>. QED BY <1>2, <2>1, <2>2, <2>3, Constants, Zenon DEF BudgetClauses
<1>5. CoreClauses \in SUBSET Nat
  BY Constants DEF CoreClauses
<1>6. TickClauses \in SUBSET Nat
  BY <1>3, StepsFit, Zenon DEF TickClauses
<1>7. \A n : DeadlineClauses(n) \in SUBSET Nat
  <2>1. next_event # None => Max({SaturatingSub(next_event, total_cycles), 1}) \in Nat
    <3>. SUFFICES ASSUME next_event # None
                  PROVE  Max({SaturatingSub(next_event, total_cycles), 1}) \in Nat
      BY Zenon
    <3>1. SaturatingSub(next_event, total_cycles) \in Nat
      BY <1>1, <1>2, Zenon
    <3>. QED BY <3>1, MaxOfTwo
  <2>. QED BY <2>1, StepsFit, Zenon DEF DeadlineClauses
<1>. QED BY <1>3, <1>4, <1>5, <1>6, <1>7, Zenon

(* plan_cpu_window keeps to every clause.                                  *)
LEMMA PlanKeepsClauses ==
  ASSUME TypeOK,
         NEW deadline, deadline = DeadlineClauses(Min(BudgetClauses \cup CoreClauses
                                                       \cup TickClauses))
  PROVE  /\ PlannedWindow \in CpuWindow
         /\ PlannedWindow.start = total_cycles
         /\ PlannedWindow.to_cycles = UntilTick
         /\ 1 <= PlannedWindow.steps /\ PlannedWindow.steps <= PlannedWindow.max_steps
         /\ max_step_cycles = 1 => PlannedWindow.max_steps = PlannedWindow.steps
         /\ \A c \in BudgetClauses \cup CoreClauses \cup deadline :
              PlannedWindow.max_steps <= c \/ PlannedWindow.max_steps = 1
         /\ \A c \in TickClauses : PlannedWindow.steps <= c \/ PlannedWindow.steps = 1
<1>. DEFINE hard == BudgetClauses \cup CoreClauses \cup deadline
            all == hard \cup TickClauses
            steps == Max({Min(all), 1})
            ceiling == Max({Min(hard), steps})
<1>1. PlannedWindow = [start |-> total_cycles, steps |-> steps, to_cycles |-> UntilTick,
                       max_steps |-> IF max_step_cycles > 1 THEN ceiling ELSE steps]
  <2>1. BudgetClauses \cup CoreClauses \cup TickClauses \cup deadline = all
    BY Zenon
  <2>. HIDE DEF all
  <2>. QED BY <2>1, Zenon DEF PlannedWindow
<1>2. /\ hard \in SUBSET Nat /\ hard # {}
      /\ TickClauses \in SUBSET Nat
  BY ClausesAreNats, Zenon
<1>. HIDE DEF hard
<1>3. /\ steps \in Nat /\ ceiling \in Nat /\ 1 <= steps /\ steps <= ceiling
      /\ \A c \in hard : ceiling <= c \/ ceiling = 1
      /\ \A c \in all : steps <= c \/ steps = 1
  BY <1>2, LeastClause, Zenon
<1>. HIDE DEF steps, ceiling
<1>4. total_cycles \in Nat /\ UntilTick \in Nat
  BY ClausesAreNats, Zenon DEF TypeOK
<1>. QED BY <1>1, <1>3, <1>4, Constants DEF hard, CpuWindow

(* A window that keeps to a clause measured in cycles fits those cycles. *)
LEMMA WindowFits ==
  ASSUME NEW k \in Nat, 1 <= k, NEW c \in Nat, k <= StepsWithin(c) \/ k = 1
  PROVE  k = 1 \/ k * max_step_cycles <= c
<1>. DEFINE s == StepsWithin(c)
<1>1. s \in Nat /\ (s = 1 \/ s * max_step_cycles <= c)
  BY StepsFit, Zenon
<1>2. ASSUME k <= s
      PROVE  k * max_step_cycles <= s * max_step_cycles /\ k * max_step_cycles \in Nat
             /\ s * max_step_cycles \in Nat
  BY <1>1, <1>2, Constants, TimesMonotone, Zenon
<1>. HIDE DEF s
<1>3. k <= s \/ k = 1
  BY Zenon DEF s
<1>. QED BY <1>1, <1>2, <1>3

(* The budget left when a window is planned bounds the whole window. *)
LEMMA PlanWithinBudget ==
  ASSUME TypeOK, start_cycles <= total_cycles, ~FuelSpent, ~CyclesSpent
  PROVE  LET k == PlannedWindow.max_steps IN
         /\ request.fuel # None => state.fuel_consumed + k <= request.fuel
         /\ request.simulated_cycles # None =>
              \/ k = 1
              \/ k * max_step_cycles <= request.simulated_cycles - elapsed
         /\ service # None => k = 1 \/ k * max_step_cycles <= service - total_cycles
<1>. DEFINE k == PlannedWindow.max_steps
<1>1. /\ k \in Nat /\ 1 <= k
      /\ \A c \in BudgetClauses : k <= c \/ k = 1
  BY PlanKeepsClauses DEF CpuWindow
<1>2. /\ request.fuel \in Nat \cup {None} /\ request.simulated_cycles \in Nat \cup {None}
      /\ total_cycles \in Nat /\ elapsed \in Nat /\ state.fuel_consumed \in Nat
      /\ service \in Nat \cup {None}
  BY Constants DEF TypeOK, Accounts, AdvanceRequest, Limits, elapsed
<1>. HIDE DEF k
<1>3. ASSUME request.fuel # None
      PROVE  state.fuel_consumed + k <= request.fuel
  <2>1. request.fuel > state.fuel_consumed
    BY <1>2, <1>3 DEF FuelSpent
  <2>2. request.fuel - state.fuel_consumed \in BudgetClauses
    BY <1>3, <2>1, Zenon DEF BudgetClauses, SaturatingSub
  <2>. QED BY <1>1, <1>2, <1>3, <2>1, <2>2
<1>4. ASSUME request.simulated_cycles # None
      PROVE  k = 1 \/ k * max_step_cycles <= request.simulated_cycles - elapsed
  <2>. DEFINE left == request.simulated_cycles - elapsed
  <2>1. request.simulated_cycles > elapsed
    BY <1>2, <1>4 DEF CyclesSpent
  <2>2. StepsWithin(left) \in BudgetClauses
    BY <1>4, <2>1, Zenon DEF BudgetClauses, SaturatingSub
  <2>3. left \in Nat
    BY <1>2, <1>4, <2>1
  <2>. HIDE DEF left
  <2>4. k <= StepsWithin(left) \/ k = 1
    BY <1>1, <2>2, Zenon
  <2>5. k = 1 \/ k * max_step_cycles <= left
    BY <1>1, <2>3, <2>4, WindowFits, Zenon
  <2>. QED BY <2>5, Zenon DEF left
<1>5. ASSUME service # None
      PROVE  k = 1 \/ k * max_step_cycles <= service - total_cycles
  <2>. DEFINE left == SaturatingSub(service, total_cycles)
  <2>1. StepsWithin(left) \in BudgetClauses
    BY <1>5, Zenon DEF BudgetClauses
  <2>2. left \in Nat /\ (left = 0 \/ left = service - total_cycles)
    BY <1>2, <1>5 DEF SaturatingSub
  <2>. HIDE DEF left
  <2>3. k = 1 \/ k * max_step_cycles <= left
    BY <1>1, <2>1, <2>2, WindowFits, Zenon
  <2>4. k * max_step_cycles >= 1
    BY <1>1, Constants, TimesMonotone
  <2>. QED BY <2>2, <2>3, <2>4, <1>1, Constants
<1>. QED BY <1>3, <1>4, <1>5, Zenon DEF k

(* Above interval 1 a window of more than one step has a clause for the    *)
(* next deadline; one that has none ends within two steps of the tick.     *)
LEMMA PlanWithinDeadline ==
  ASSUME TypeOK, next_event # None, Mode # "per-cycle"
  PROVE  LET k == PlannedWindow.max_steps IN
         \/ k = 1 \/ k * max_step_cycles <= next_event - total_cycles
         \/ PlannedWindow.steps = 1 /\ UntilTick < 2 * max_step_cycles
<1>. DEFINE k == PlannedWindow.max_steps
            n == PlannedWindow.steps
            hard == BudgetClauses \cup CoreClauses
            count == Min(hard \cup TickClauses)
<1>1. /\ k \in Nat /\ 1 <= k /\ n \in Nat /\ 1 <= n /\ n <= k
      /\ \A c \in hard \cup DeadlineClauses(count) : k <= c \/ k = 1
      /\ \A c \in TickClauses : n <= c \/ n = 1
  BY PlanKeepsClauses DEF CpuWindow
<1>2. next_event \in Nat /\ total_cycles \in Nat
  BY Zenon DEF TypeOK, Limits
<1>3. count \in hard \cup TickClauses /\ count \in Nat
  BY ClausesAreNats, MinOfNats, Zenon
<1>4. \A c \in TickClauses : c = StepsWithin(UntilTick)
  BY Zenon DEF TickClauses
<1>5. UntilTick \in Nat /\ UntilTick >= 1 /\ UntilTick <= peripheral_tick_interval
  BY ClausesAreNats, Zenon
<1>. HIDE DEF k, n, hard
<1>6. CASE peripheral_tick_interval > 1 /\ count > 1
  <2>. DEFINE ahead == SaturatingSub(next_event, total_cycles)
              left == Max({ahead, 1})
  <2>1. ahead \in Nat /\ (ahead = 0 \/ ahead = next_event - total_cycles)
    BY <1>2 DEF SaturatingSub
  <2>2. left = (IF ahead >= 1 THEN ahead ELSE 1) /\ left \in Nat
    BY <2>1, MaxOfTwo
  <2>3. StepsWithin(left) \in DeadlineClauses(count)
    BY <1>6, Zenon DEF DeadlineClauses
  <2>. HIDE DEF ahead, left, count
  <2>4. k = 1 \/ k * max_step_cycles <= left
    BY <1>1, <2>2, <2>3, WindowFits, Zenon
  <2>5. k <= k * max_step_cycles
    BY <1>1, Constants
  <2>. QED BY <1>1, <1>2, <2>1, <2>2, <2>4, <2>5, Constants DEF k
<1>7. CASE count <= 1
  <2>1. CASE count \in hard
    <3>. HIDE DEF count
    <3>1. k = 1
      BY <1>1, <1>3, <1>7, <2>1
    <3>. QED BY <3>1, Zenon DEF k
  <2>2. CASE count \in TickClauses
    <3>1. StepsWithin(UntilTick) <= 1 /\ n = 1
      BY <1>1, <1>3, <1>4, <1>7, <2>2
    <3>. QED BY <1>5, <3>1, StepsFit, Zenon DEF n
  <2>. QED BY <1>3, <2>1, <2>2, Zenon
<1>8. CASE peripheral_tick_interval = 1
  <2>1. UntilTick = 1
    BY <1>5, <1>8
  <2>2. CASE Pinned
    <3>1. 1 \in hard
      BY <2>2, Zenon DEF hard, CoreClauses
    <3>. QED BY <1>1, <3>1 DEF k
  <2>3. CASE ~Pinned
    <3>1. ~Parked /\ ~ResetHeld
      BY <1>8, Zenon DEF Mode, Parked, ResetHeld
    <3>2. TickClauses = {StepsWithin(1)}
      BY <2>1, <2>3, <3>1, Zenon DEF TickClauses
    <3>3. StepsWithin(1) = 1
      <4>1. 1 \div max_step_cycles <= 1 /\ 1 \div max_step_cycles \in Int
        BY Constants
      <4>. QED BY <4>1, MaxOfTwo DEF StepsWithin
    <3>. QED BY <1>1, <2>1, <3>2, <3>3, Constants DEF n
  <2>. QED BY <2>2, <2>3, Zenon
<1>. QED BY <1>3, <1>6, <1>7, <1>8, Constants

-----------------------------------------------------------------------------
(* The window invariant, action by action. *)

(* Releasing the second core keeps it in its states. *)
LEMMA ReleaseTyped ==
  ASSUME TypeOK, ReleaseOnResetEdge
  PROVE  /\ \/ secondary' \in SecondaryStates
            \/ secondary' = "active" /\ "none" \notin SecondaryStates
         /\ boot_addr' \in BOOLEAN /\ reset_released' \in BOOLEAN
         /\ pc' \in Pcs /\ secondary_pc' \in Pcs
BY AdvanceAssumption, Zenon DEF TypeOK, ReleaseOnResetEdge

(* The top of the loop touches neither clock nor window. *)
LEMMA TopOfLoopWindow ==
  ASSUME WindowInv, StopAtPrimary \/ StopAtSecondary \/ CheckLimits
  PROVE  WindowInv'
<1>1. /\ phase = "loop" /\ ReleaseOnResetEdge
      /\ UNCHANGED <<total_cycles, next_event, service, request, start_cycles, supply_held,
                     state, window, progress, ticked, costs>>
      /\ \/ phase' = "stopped" /\ stop' # "Err"
         \/ /\ phase' \in {"idle", "plan"} /\ stop' = stop
            /\ ~FuelSpent /\ ~CyclesSpent
  BY Zenon DEF StopAtPrimary, StopAtSecondary, CheckLimits, StopWith, clock, call
<1>2. TypeOK'
  BY <1>1, ReleaseTyped, Zenon DEF WindowInv, TypeOK
<1>3. ProgressInv'
  BY <1>1, Zenon DEF WindowInv, ProgressInv, Between, InWindow
<1>4. PositionInv'
  BY <1>1, Zenon DEF WindowInv, PositionInv, InWindow
<1>5. PlanInv'
  BY <1>1, Zenon DEF PlanInv, InWindow, FuelSpent, CyclesSpent, elapsed
<1>. QED BY <1>2, <1>3, <1>4, <1>5, Zenon DEF WindowInv

(* What a drain and a motor service leave to be due are cycles, or None. *)
LEMMA DueNextTyped ==
  ASSUME TypeOK, NEW at \in Nat
  PROVE  AfterDrain(at) \subseteq Limits /\ AfterService(at) \subseteq Limits
BY Constants DEF TypeOK, AfterDrain, AfterService, Limits

(* The idle path of the loop leaves the window; a skip moves the clock. *)
LEMMA IdleWindow ==
  ASSUME WindowInv, IdleDrain \/ SkipNothing \/ StopNoProgress
  PROVE  WindowInv'
<1>1. /\ phase \in {"idle", "skip", "stuck", "retry"}
      /\ UNCHANGED <<total_cycles, service, secondary, boot_addr, reset_released, pc,
                     secondary_pc, request, start_cycles, supply_held, state, window,
                     progress, ticked, costs>>
      /\ \/ phase' = "stopped" /\ stop' # "Err"
         \/ phase' = "skip" /\ phase = "idle" /\ stop' = stop
         \/ phase' = "plan" /\ phase = "skip" /\ stop' = stop
         \/ phase' = "retry" /\ stop' = stop
      /\ next_event' \in Limits
  BY DueNextTyped, Zenon
     DEF WindowInv, TypeOK, IdleDrain, SkipNothing, StopNoProgress, StopWith, clock, cores, call
<1>2. TypeOK'
  BY <1>1, Zenon DEF WindowInv, TypeOK
<1>3. ProgressInv'
  BY <1>1, Zenon DEF WindowInv, ProgressInv, Between, InWindow
<1>4. PositionInv'
  BY <1>1, Zenon DEF WindowInv, PositionInv, InWindow
<1>5. PlanInv'
  BY <1>1, Zenon DEF WindowInv, PlanInv, InWindow, FuelSpent, CyclesSpent, elapsed
<1>. QED BY <1>2, <1>3, <1>4, <1>5, Zenon DEF WindowInv

(* An idle skip opens no window. *)
LEMMA SkipWindow ==
  ASSUME WindowInv, NEW n \in Steps, Skip(n)
  PROVE  WindowInv'
<1>1. /\ phase \in {"skip", "retry"} /\ phase' = "loop" /\ stop' = stop
      /\ n \in Nat /\ total_cycles' = total_cycles + n
      /\ UNCHANGED <<secondary, boot_addr, reset_released, pc, secondary_pc, request,
                     start_cycles, supply_held, window, progress, ticked, costs>>
      /\ state' = [state EXCEPT !.fuel_consumed = @ + n, !.idle_cycles = @ + n]
  BY Constants DEF Skip, Steps, cores, call
<1>2. next_event' \in Limits /\ service' \in Limits
  BY <1>1, DueNextTyped DEF WindowInv, TypeOK, Skip
<1>3. TypeOK'
  <2>1. state' \in Accounts
    <3>1. state' = [fuel_consumed |-> state.fuel_consumed + n,
                    primary_steps |-> state.primary_steps,
                    secondary_steps |-> state.secondary_steps,
                    idle_cycles |-> state.idle_cycles + n]
      BY <1>1, Zenon DEF WindowInv, TypeOK, Accounts
    <3>. QED BY <1>1, <3>1 DEF WindowInv, TypeOK, Accounts
  <2>2. total_cycles' \in Nat
    BY <1>1 DEF WindowInv, TypeOK
  <2>. QED BY <1>1, <1>2, <2>1, <2>2, Zenon DEF WindowInv, TypeOK
<1>4. ProgressInv'
  BY <1>1, Zenon DEF WindowInv, ProgressInv, Between, InWindow
<1>5. PositionInv'
  BY <1>1 DEF WindowInv, TypeOK, PositionInv, InWindow
<1>6. PlanInv'
  BY <1>1, Zenon DEF PlanInv, InWindow
<1>. QED BY <1>3, <1>4, <1>5, <1>6, Zenon DEF WindowInv

(* The caller starts with no window, and held time is charged whole. *)
LEMMA CallerWindow ==
  ASSUME WindowInv, NEW r \in Requests, Advance(r) \/ AdvanceHeld(r)
  PROVE  WindowInv'
<1>1. /\ phase = "stopped" /\ request' = r /\ start_cycles' = total_cycles
      /\ window' = NoWindow /\ progress' = NoProgressYet /\ costs' = 0
      /\ UNCHANGED <<next_event, service, secondary, boot_addr, reset_released, pc,
                     secondary_pc, supply_held, ticked>>
      /\ phase' \in {"loop", "stopped"}
  BY Zenon DEF Advance, AdvanceHeld, Begin, StopWith, clock, cores
<1>2. \E skip \in Nat :
        /\ total_cycles' = total_cycles + skip
        /\ state' = [fuel_consumed |-> skip, primary_steps |-> 0, secondary_steps |-> 0,
                     idle_cycles |-> skip]
  <2>1. CASE Advance(r)
    <3>1. total_cycles' = total_cycles + 0
      BY <2>1 DEF Advance, clock, WindowInv, TypeOK
    <3>2. state' = [fuel_consumed |-> 0, primary_steps |-> 0, secondary_steps |-> 0,
                    idle_cycles |-> 0]
      BY <2>1, Zenon DEF Advance, NoWork
    <3>. QED BY <3>1, <3>2, Zenon
  <2>2. CASE AdvanceHeld(r)
    <3>. DEFINE budget == {r.fuel, r.simulated_cycles} \ {None}
                skip == IF budget = {} THEN 0 ELSE Least(budget)
    <3>1. /\ total_cycles' = total_cycles + skip
          /\ state' = [fuel_consumed |-> skip, primary_steps |-> 0, secondary_steps |-> 0,
                       idle_cycles |-> skip]
      BY <2>2, Zenon DEF AdvanceHeld, NoWork
    <3>2. budget \in SUBSET Nat /\ budget \ {None} = budget
      BY Constants, Zenon DEF AdvanceRequest, Limits
    <3>3. skip \in Nat
      <4>. HIDE DEF budget
      <4>. QED BY <3>2, MinOfNats, Zenon DEF Least
    <3>. QED BY <3>1, <3>3, Zenon
  <2>. QED BY <2>1, <2>2, Zenon
<1>3. TypeOK'
  <2>1. state' \in Accounts /\ total_cycles' \in Nat
    BY <1>2 DEF WindowInv, TypeOK, Accounts
  <2>2. window' \in CpuWindow /\ progress' \in CoreProgress
    BY <1>1, Zenon DEF CpuWindow, CoreProgress, NoWindow, NoProgressYet
  <2>. QED BY <1>1, <2>1, <2>2, Zenon DEF WindowInv, TypeOK
<1>4. ProgressInv'
  BY <1>1, Constants DEF ProgressInv, Between, InWindow, NoProgressYet
<1>5. PositionInv'
  BY <1>1, <1>2 DEF WindowInv, TypeOK, PositionInv, InWindow
<1>6. PlanInv'
  BY <1>1, Zenon DEF PlanInv, InWindow
<1>. QED BY <1>3, <1>4, <1>5, <1>6, Zenon DEF WindowInv

(* VDD moves between two advances. *)
LEMMA SupplyWindow ==
  ASSUME WindowInv, SupplyMoves
  PROVE  WindowInv'
<1>. USE DEF WindowInv, SupplyMoves, clock
<1>1. TypeOK'
  BY Zenon DEF TypeOK
<1>2. ProgressInv'
  BY Zenon DEF ProgressInv, Between, InWindow
<1>3. PositionInv'
  BY Zenon DEF PositionInv, InWindow
<1>4. PlanInv'
  BY Zenon DEF PlanInv, InWindow
<1>. QED BY <1>1, <1>2, <1>3, <1>4, Zenon

(* The per-cycle path is taken only at interval 1, on a core of one cycle  *)
(* per step.                                                               *)
LEMMA ModeTyped ==
  ASSUME TypeOK
  PROVE  /\ Mode \in {"direct", "batch", "per-cycle"}
         /\ Mode = "per-cycle" => peripheral_tick_interval = 1 /\ max_step_cycles = 1
         /\ max_step_cycles = 1 \/ secondary = "none"
<1>1. max_step_cycles = 1 \/ secondary = "none"
  BY AdvanceAssumption, Constants DEF TypeOK
<1>. QED BY <1>1, Zenon DEF Mode

(* The second core's step keeps it in its states. *)
LEMMA SecondaryTyped ==
  ASSUME TypeOK, NEW s, SecondaryMoves(s)
  PROVE  secondary' \in SecondaryStates /\ secondary_pc' \in Pcs
BY Zenon DEF TypeOK, SecondaryMoves, AfterSecondaryStep

(* Planning establishes what the window promises. *)
LEMMA PlanWindow ==
  ASSUME WindowInv, Plan
  PROVE  WindowInv'
<1>1. /\ phase = "plan" /\ phase' = "run" /\ stop' = stop
      /\ window' = PlannedWindow /\ costs' = 0
      /\ progress' = [primary_steps |-> 0, secondary_steps |-> 0, cycles |-> 0,
                      mode |-> Mode]
      /\ UNCHANGED <<total_cycles, next_event, service, secondary, boot_addr,
                     reset_released, pc, secondary_pc, request, start_cycles, supply_held,
                     state, ticked>>
  BY Zenon DEF Plan, NoProgressYet, clock, cores, call
<1>2. /\ Mode \in {"direct", "batch", "per-cycle"}
      /\ Mode = "per-cycle" => peripheral_tick_interval = 1 /\ max_step_cycles = 1
  BY ModeTyped, Zenon DEF WindowInv
<1>3. /\ PlannedWindow \in CpuWindow
      /\ PlannedWindow.start = total_cycles
      /\ PlannedWindow.to_cycles = UntilTick
      /\ 1 <= PlannedWindow.steps /\ PlannedWindow.steps <= PlannedWindow.max_steps
  BY PlanKeepsClauses, Zenon DEF WindowInv
<1>4. TypeOK'
  <2>1. progress' \in CoreProgress
    BY <1>1, <1>2, Zenon DEF CoreProgress
  <2>. QED BY <1>1, <1>3, <2>1, Zenon DEF WindowInv, TypeOK
<1>5. ProgressInv'
  BY <1>1, <1>2, Constants DEF ProgressInv, Between, InWindow
<1>6. PositionInv'
  BY <1>1, <1>3, Constants DEF WindowInv, TypeOK, PositionInv, InWindow, CpuWindow
<1>7. PlanInv'
  <2>1. start_cycles <= total_cycles /\ ~FuelSpent /\ ~CyclesSpent
    BY <1>1, Zenon DEF WindowInv, PositionInv, PlanInv
  <2>2. (window.start - start_cycles)' = elapsed
    BY <1>1, <1>3, Zenon DEF elapsed
  <2>3. request.fuel # None =>
          state.fuel_consumed + PlannedWindow.max_steps <= request.fuel
    BY <2>1, PlanWithinBudget, Zenon DEF WindowInv
  <2>4. request.simulated_cycles # None =>
          /\ elapsed < request.simulated_cycles
          /\ WithinCycles(request.simulated_cycles - (window.start - start_cycles))'
    <3>1. request.simulated_cycles # None => elapsed < request.simulated_cycles
      BY <2>1, Constants
         DEF WindowInv, TypeOK, CyclesSpent, elapsed, AdvanceRequest, Limits
    <3>. QED BY <1>1, <2>1, <2>2, <3>1, PlanWithinBudget, Zenon DEF WindowInv, WithinCycles
  <2>5. service # None => WithinCycles(service - window.start)'
    BY <1>1, <1>3, <2>1, PlanWithinBudget, Zenon DEF WindowInv, WithinCycles
  <2>6. Mode # "per-cycle" /\ next_event # None =>
          \/ WithinCycles(next_event - window.start)'
          \/ PlannedWindow.steps = 1 /\ UntilTick < 2 * max_step_cycles
    BY <1>1, <1>3, PlanWithinDeadline, Zenon DEF WindowInv, WithinCycles
  <2>. QED BY <1>1, <1>3, <2>2, <2>3, <2>4, <2>5, <2>6, Constants DEF PlanInv, InWindow
<1>. QED BY <1>4, <1>5, <1>6, <1>7, Zenon DEF WindowInv

(* A window that has not run stands where it was planned. *)
LEMMA StartOfWindow ==
  ASSUME WindowInv, phase = "run", progress.mode # "per-cycle"
  PROVE  /\ total_cycles = window.start /\ costs = 0
         /\ total_cycles \in Nat /\ start_cycles \in Nat /\ start_cycles <= window.start
<1>1. progress.cycles = 0 /\ total_cycles \in Nat /\ start_cycles \in Nat
      /\ window.start \in Nat
  BY Zenon DEF WindowInv, TypeOK, ProgressInv, CpuWindow
<1>2. total_cycles = window.start + 0 + 0 /\ costs = 0 /\ start_cycles <= window.start
  BY <1>1, Zenon DEF WindowInv, PositionInv, InWindow
<1>. QED BY <1>1, <1>2

(* One step of the primary core alone. *)
LEMMA DirectAloneWindow ==
  ASSUME WindowInv, NEW cycles \in 0 .. max_step_cycles, RunDirectAlone(cycles)
  PROVE  WindowInv'
<1>. DEFINE n == IF cycles = 0 THEN 0 ELSE 1
<1>1. /\ phase = "run" /\ progress.mode = "direct"
      /\ phase' = (IF cycles = 0 THEN "stuck" ELSE "commit") /\ stop' = stop
      /\ total_cycles' = total_cycles + cycles /\ cycles \in Nat /\ n \in {0, 1}
      /\ pc' \in Pcs
      /\ UNCHANGED <<next_event, service, secondary, boot_addr, reset_released,
                     secondary_pc, request, start_cycles, supply_held, state, window,
                     ticked, costs>>
  BY Constants DEF RunDirectAlone, WindowInv, TypeOK, call
<1>2. progress' = [primary_steps |-> n, secondary_steps |-> 0, cycles |-> cycles,
                   mode |-> "direct"]
  <2>1. progress.secondary_steps = 0 /\ progress \in CoreProgress
    BY <1>1, Zenon DEF WindowInv, TypeOK, ProgressInv
  <2>. QED BY <1>1, <2>1, Zenon DEF RunDirectAlone, CoreProgress
<1>. HIDE DEF n
<1>3. TypeOK'
  <2>1. progress' \in CoreProgress
    BY <1>1, <1>2 DEF CoreProgress
  <2>. QED BY <1>1, <2>1 DEF WindowInv, TypeOK
<1>4. ProgressInv'
  BY <1>1, <1>2, Constants DEF ProgressInv, Between, InWindow, n
<1>5. PositionInv'
  BY <1>1, <1>2, StartOfWindow, Constants DEF WindowInv, PositionInv, InWindow
<1>6. PlanInv'
  BY <1>1, <1>2, Constants DEF WindowInv, PlanInv, InWindow, WithinCycles
<1>. QED BY <1>3, <1>4, <1>5, <1>6, Zenon DEF WindowInv

(* One step of both cores. *)
LEMMA DirectDualWindow ==
  ASSUME WindowInv, NEW release \in Releases, RunDirectDual(release)
  PROVE  WindowInv'
<1>1. /\ phase = "run" /\ progress.mode = "direct"
      /\ phase' = "commit" /\ stop' = stop
      /\ total_cycles' = total_cycles + 1
      /\ progress' = [primary_steps |-> 1, secondary_steps |-> 1, cycles |-> 1,
                      mode |-> "direct"]
      /\ UNCHANGED <<next_event, service, request, start_cycles, supply_held, state, window,
                     ticked, costs>>
  BY Zenon DEF RunDirectDual, WindowInv, TypeOK, CoreProgress, call
<1>2. TypeOK'
  <2>1. progress' \in CoreProgress
    BY <1>1, Zenon DEF CoreProgress
  <2>2. pc' \in Pcs /\ boot_addr' \in BOOLEAN /\ reset_released' \in BOOLEAN
    BY Zenon DEF RunDirectDual, ResetEdge, WindowInv, TypeOK
  <2>3. secondary' \in SecondaryStates /\ secondary_pc' \in Pcs
    BY SecondaryTyped, Zenon DEF RunDirectDual, WindowInv
  <2>. QED BY <1>1, <2>1, <2>2, <2>3 DEF WindowInv, TypeOK
<1>3. ProgressInv'
  BY <1>1, Constants DEF ProgressInv, Between, InWindow
<1>4. PositionInv'
  BY <1>1, StartOfWindow, Constants DEF WindowInv, PositionInv, InWindow
<1>5. PlanInv'
  BY <1>1, Constants DEF WindowInv, PlanInv, InWindow, WithinCycles
<1>. QED BY <1>2, <1>3, <1>4, <1>5, Zenon DEF WindowInv

(* A batch retires at most the planned steps. *)
LEMMA BatchWindow ==
  ASSUME WindowInv, NEW n \in Steps, NEW cycles \in Steps, NEW release \in Releases,
         RunBatch(n, cycles, release)
  PROVE  WindowInv'
<1>1. /\ phase = "run" /\ progress.mode = "batch"
      /\ phase' = (IF n = 0 THEN "stuck" ELSE "fill") /\ stop' = stop
      /\ n \in Nat /\ cycles \in Nat /\ n <= window.steps
      /\ n <= cycles /\ cycles <= n * max_step_cycles
      /\ pc' \in Pcs /\ boot_addr' \in BOOLEAN /\ reset_released' \in BOOLEAN
      /\ UNCHANGED <<total_cycles, next_event, service, secondary, secondary_pc, request,
                     start_cycles, supply_held, state, window, ticked, costs>>
  BY Constants DEF RunBatch, Steps, BootAddr, ResetEdge, WindowInv, TypeOK, clock, call
<1>2. progress' = [primary_steps |-> n, secondary_steps |-> 0, cycles |-> cycles,
                   mode |-> "batch"]
  <2>1. progress.secondary_steps = 0 /\ progress \in CoreProgress
    BY <1>1, Zenon DEF WindowInv, TypeOK, ProgressInv
  <2>. QED BY <1>1, <2>1, Zenon DEF RunBatch, CoreProgress
<1>3. TypeOK'
  <2>1. progress' \in CoreProgress
    BY <1>1, <1>2, Zenon DEF CoreProgress
  <2>. QED BY <1>1, <2>1, Zenon DEF WindowInv, TypeOK
<1>4. ProgressInv'
  BY <1>1, <1>2, Constants DEF ProgressInv, Between, InWindow
<1>5. window.steps \in Nat /\ window.max_steps \in Nat /\ window.steps <= window.max_steps
  BY <1>1, Zenon DEF WindowInv, TypeOK, CpuWindow, PlanInv, InWindow
<1>6. PositionInv'
  <2>1. 0 <= n * MaxCost
    BY <1>1, Constants
  <2>. QED BY <1>1, <1>2, <1>5, <2>1, StartOfWindow DEF WindowInv, PositionInv, InWindow
<1>7. PlanInv'
  <2>1. window.steps = 1 => cycles < 2 * max_step_cycles
    <3>1. n = 0 \/ n = 1 => n * max_step_cycles <= max_step_cycles
      BY Constants
    <3>. QED BY <1>1, <3>1, Constants
  <2>. QED BY <1>1, <1>2, <2>1, Zenon DEF WindowInv, PlanInv, InWindow, WithinCycles
<1>. QED BY <1>3, <1>4, <1>6, <1>7, Zenon DEF WindowInv

(* The fill of a timed core: no more steps than the ceiling leaves, and a  *)
(* single step once less than two of the longest fit before the tick.      *)
LEMMA FillRoomBounds ==
  ASSUME WindowInv, phase = "fill", progress.primary_steps < window.max_steps,
         FillLeft >= max_step_cycles
  PROVE  /\ FillRoom \in Int /\ FillRoom <= window.max_steps - progress.primary_steps
         /\ progress.cycles + max_step_cycles <= window.to_cycles
         /\ window.to_cycles < 2 * max_step_cycles => FillRoom <= 1
<1>1. /\ progress.cycles \in Nat /\ window.to_cycles \in Nat
      /\ progress.primary_steps \in Nat /\ window.max_steps \in Nat
  BY Zenon DEF WindowInv, TypeOK, CpuWindow, CoreProgress
<1>2. FillLeft = window.to_cycles - progress.cycles /\ FillLeft \in Nat
  BY <1>1, Constants DEF FillLeft, SaturatingSub
<1>. DEFINE q == FillLeft \div max_step_cycles
            a == Max({q, 1})
            b == window.max_steps - progress.primary_steps
<1>3. /\ q \in Nat /\ q * max_step_cycles <= FillLeft
  BY <1>2, Constants
<1>4. a = (IF q >= 1 THEN q ELSE 1) /\ a \in Int /\ b \in Int
  <2>. HIDE DEF q
  <2>. QED BY <1>1, <1>3, MaxOfTwo
<1>5. FillRoom = Min({a, b})
  BY Zenon DEF FillRoom
<1>. HIDE DEF a, b
<1>6. FillRoom = IF a <= b THEN a ELSE b
  BY <1>4, <1>5, MinOfTwo, Zenon
<1>7. window.to_cycles < 2 * max_step_cycles => q <= 1
  <2>. HIDE DEF q
  <2>. SUFFICES ASSUME window.to_cycles < 2 * max_step_cycles, q >= 2 PROVE FALSE
    BY <1>3
  <2>1. 2 * max_step_cycles <= q * max_step_cycles /\ q * max_step_cycles \in Nat
    BY <1>3, Constants, TimesMonotone, Zenon
  <2>. QED BY <1>1, <1>2, <1>3, <2>1, Constants
<1>8. FillRoom \in Int /\ FillRoom <= b
  BY <1>4, <1>6
<1>9. window.to_cycles < 2 * max_step_cycles => FillRoom <= 1
  <2>. HIDE DEF q
  <2>. QED BY <1>3, <1>4, <1>6, <1>7
<1>. QED BY <1>1, <1>2, <1>8, <1>9, Constants DEF b

(* Refilling a batch stays within the steps the window was planned for.    *)
LEMMA FillWindow ==
  ASSUME WindowInv, NEW n \in Steps, NEW cycles \in Steps, FillMore(n, cycles)
  PROVE  WindowInv'
<1>1. /\ phase = "fill" /\ phase' = "fill" /\ stop' = stop
      /\ progress.primary_steps < window.max_steps /\ FillLeft >= max_step_cycles
      /\ n \in Nat /\ cycles \in Nat /\ 1 <= n /\ n <= FillRoom
      /\ n <= cycles /\ cycles <= n * max_step_cycles
      /\ pc' \in Pcs
      /\ UNCHANGED <<total_cycles, next_event, service, secondary, boot_addr,
                     reset_released, secondary_pc, request, start_cycles, supply_held, state,
                     window, ticked, costs>>
  BY Constants DEF FillMore, Steps, clock, call
<1>2. /\ progress.mode = "batch" /\ progress.secondary_steps = 0
      /\ progress.primary_steps \in Nat /\ progress.cycles \in Nat
      /\ progress.primary_steps > 0
      /\ progress.primary_steps <= progress.cycles
      /\ progress.cycles <= progress.primary_steps * max_step_cycles
  BY <1>1, Zenon DEF WindowInv, TypeOK, CoreProgress, ProgressInv
<1>3. progress' = [primary_steps |-> progress.primary_steps + n, secondary_steps |-> 0,
                   cycles |-> progress.cycles + cycles, mode |-> "batch"]
  BY <1>2, Zenon DEF FillMore, WindowInv, TypeOK, CoreProgress
<1>4. TypeOK'
  <2>1. progress' \in CoreProgress
    BY <1>1, <1>2, <1>3 DEF CoreProgress
  <2>. QED BY <1>1, <2>1, Zenon DEF WindowInv, TypeOK
<1>5. ProgressInv'
  <2>1. progress.cycles + cycles <= (progress.primary_steps + n) * max_step_cycles
    BY <1>1, <1>2, Constants
  <2>. QED BY <1>1, <1>2, <1>3, <2>1 DEF ProgressInv, Between, InWindow
<1>6. n <= window.max_steps - progress.primary_steps /\ window.max_steps \in Nat
  <2>1. window.max_steps \in Nat
    BY Zenon DEF WindowInv, TypeOK, CpuWindow
  <2>. QED BY <1>1, <1>2, <2>1, FillRoomBounds
<1>7. PositionInv'
  <2>1. costs = 0 /\ 0 <= (progress.primary_steps + n) * MaxCost
    BY <1>1, <1>2, Constants DEF WindowInv, PositionInv, InWindow
  <2>. QED BY <1>1, <1>2, <1>3, <1>6, <2>1 DEF WindowInv, PositionInv, InWindow
<1>8. PlanInv'
  <2>1. window.to_cycles < 2 * max_step_cycles =>
          progress.cycles + cycles < 2 * max_step_cycles
    <3>. SUFFICES ASSUME window.to_cycles < 2 * max_step_cycles
                  PROVE  progress.cycles + cycles < 2 * max_step_cycles
      BY Zenon
    <3>1. n = 1 /\ progress.cycles + max_step_cycles <= window.to_cycles
      BY <1>1, FillRoomBounds
    <3>. QED BY <1>1, <1>2, <3>1, Constants DEF WindowInv, TypeOK, CpuWindow
  <2>. QED BY <1>1, <1>2, <1>3, <2>1, Zenon DEF WindowInv, PlanInv, InWindow, WithinCycles
<1>. QED BY <1>4, <1>5, <1>7, <1>8, Zenon DEF WindowInv

(* The end of a batch carries a parked core over it. *)
LEMMA EndBatchWindow ==
  ASSUME WindowInv, EndBatch
  PROVE  WindowInv'
<1>. DEFINE k == IF secondary = "parked" THEN progress.primary_steps
                 ELSE progress.secondary_steps
<1>1. /\ phase = "fill" /\ phase' = "commit" /\ stop' = stop
      /\ UNCHANGED <<total_cycles, next_event, service, boot_addr, reset_released, pc,
                     request, start_cycles, supply_held, state, window, ticked, costs>>
  BY Zenon DEF EndBatch, clock, call
<1>2. /\ progress \in CoreProgress /\ progress.mode = "batch"
      /\ k \in Nat /\ k <= progress.primary_steps
  BY <1>1 DEF WindowInv, TypeOK, ProgressInv, CoreProgress
<1>3. progress' = [primary_steps |-> progress.primary_steps, secondary_steps |-> k,
                   cycles |-> progress.cycles, mode |-> progress.mode]
  BY <1>2, Zenon DEF EndBatch, CoreProgress
<1>. HIDE DEF k
<1>4. TypeOK'
  <2>1. progress' \in CoreProgress
    BY <1>2, <1>3, Zenon DEF CoreProgress
  <2>2. /\ \/ secondary' \in SecondaryStates
           \/ secondary' = "active" /\ "none" \notin SecondaryStates
        /\ secondary_pc' \in Pcs
    BY SecondaryTyped, Zenon DEF EndBatch, WindowInv, TypeOK
  <2>. QED BY <1>1, <2>1, <2>2, Zenon DEF WindowInv, TypeOK
<1>5. ProgressInv'
  BY <1>1, <1>2, <1>3, Zenon DEF WindowInv, ProgressInv, Between, InWindow
<1>6. PositionInv'
  BY <1>1, <1>2, <1>3, Zenon DEF WindowInv, PositionInv, InWindow
<1>7. PlanInv'
  BY <1>1, <1>2, <1>3, Zenon DEF WindowInv, PlanInv, InWindow, WithinCycles
<1>. QED BY <1>4, <1>5, <1>6, <1>7, Zenon DEF WindowInv

(* One instruction of the per-cycle window. *)
LEMMA CycleWindow ==
  ASSUME WindowInv, NEW release \in Releases, NEW cost \in 0 .. MaxCost,
         RunCycle(release, cost)
  PROVE  WindowInv'
<1>. DEFINE steps == progress.primary_steps
<1>1. /\ phase = "run" /\ progress.mode = "per-cycle" /\ steps < window.steps
      /\ phase' \in {"run", "commit"} /\ stop' = stop
      /\ steps + 1 = window.steps => phase' = "commit"
      /\ total_cycles' = total_cycles + 1 + cost
      /\ ticked' = ticked + peripheral_tick_interval
      /\ costs' = costs + cost /\ cost \in Nat /\ cost <= MaxCost
      /\ pc' \in Pcs /\ boot_addr' \in BOOLEAN
      /\ UNCHANGED <<service, request, start_cycles, supply_held, state, window>>
  <2>1. /\ phase = "run" /\ progress.mode = "per-cycle" /\ steps < window.steps
        /\ total_cycles' = total_cycles + 1 + cost
        /\ ticked' = ticked + peripheral_tick_interval
        /\ costs' = costs + cost /\ stop' = stop
        /\ pc' \in Pcs /\ boot_addr' \in BOOLEAN
        /\ UNCHANGED <<service, request, start_cycles, supply_held, state, window>>
    BY Zenon DEF RunCycle, call
  <2>2. /\ phase' \in {"run", "commit"}
        /\ steps + 1 = window.steps => phase' = "commit"
    BY Zenon DEF RunCycle
  <2>. QED BY <2>1, <2>2, Constants
<1>2. /\ progress \in CoreProgress /\ progress.cycles = steps
      /\ steps \in Nat /\ progress.secondary_steps \in Nat
      /\ progress.secondary_steps <= steps
      /\ peripheral_tick_interval = 1 /\ max_step_cycles = 1
  BY <1>1, Zenon DEF WindowInv, TypeOK, CoreProgress, ProgressInv, InWindow
<1>3. PICK k \in {0, 1} :
        progress' = [primary_steps |-> steps + 1,
                     secondary_steps |-> progress.secondary_steps + k,
                     cycles |-> steps + 1, mode |-> "per-cycle"]
  <2>. DEFINE stepped == secondary = "parked" \/ (secondary = "held" /\ BootAddr(release))
              k == IF stepped THEN 1 ELSE 0
  <2>1. progress' = [progress EXCEPT !.primary_steps = @ + 1, !.cycles = @ + 1,
                                     !.secondary_steps = @ + k]
    BY Zenon DEF RunCycle
  <2>2. k \in {0, 1}
    BY Zenon
  <2>. HIDE DEF k
  <2>3. progress' = [primary_steps |-> steps + 1,
                     secondary_steps |-> progress.secondary_steps + k,
                     cycles |-> steps + 1, mode |-> "per-cycle"]
    BY <1>1, <1>2, <2>1, Zenon DEF CoreProgress
  <2>. QED BY <2>2, <2>3, Zenon
<1>4. TypeOK'
  <2>1. progress' \in CoreProgress
    BY <1>2, <1>3 DEF CoreProgress
  <2>2. /\ \/ secondary' \in SecondaryStates
           \/ secondary' = "active" /\ "none" \notin SecondaryStates
        /\ secondary_pc' \in Pcs
    BY SecondaryTyped, Zenon DEF RunCycle, WindowInv, TypeOK
  <2>3. reset_released' \in BOOLEAN
    BY Zenon DEF RunCycle, ResetEdge
  <2>4. total_cycles' \in Nat /\ ticked' \in Nat /\ costs' \in Nat
    BY <1>1, Constants DEF WindowInv, TypeOK
  <2>5. next_event' \in Limits
    BY <2>4, DueNextTyped, Zenon DEF RunCycle, WindowInv
  <2>. QED BY <1>1, <2>1, <2>2, <2>3, <2>4, <2>5, Zenon DEF WindowInv, TypeOK
<1>5. ProgressInv'
  BY <1>1, <1>2, <1>3 DEF ProgressInv, Between, InWindow
<1>6. PositionInv'
  <2>1. /\ total_cycles = window.start + steps + costs /\ costs <= steps * MaxCost
        /\ start_cycles <= window.start
    BY <1>1, <1>2, Zenon DEF WindowInv, PositionInv, InWindow
  <2>2. /\ total_cycles \in Nat /\ start_cycles \in Nat /\ costs \in Nat
        /\ window.start \in Nat /\ window.steps \in Nat
    BY Zenon DEF WindowInv, TypeOK, CpuWindow
  <2>3. costs + cost <= (steps + 1) * MaxCost
    BY <1>1, <1>2, <2>1, <2>2, Constants
  <2>4. total_cycles' = window.start + (steps + 1) + (costs + cost)
    BY <1>1, <1>2, <2>1, <2>2
  <2>5. /\ progress'.primary_steps = steps + 1 /\ progress'.cycles = steps + 1
        /\ progress'.mode = "per-cycle"
    BY <1>3, Zenon
  <2>6. /\ start_cycles' <= total_cycles' /\ start_cycles' <= window'.start
        /\ steps + 1 <= window'.steps
        /\ phase' = "run" => steps + 1 < window'.steps
    BY <1>1, <1>2, <2>1, <2>2, <2>4
  <2>7. /\ total_cycles' = window'.start + (steps + 1) + costs'
        /\ costs' <= (steps + 1) * MaxCost
    BY <1>1, <2>3, <2>4, Zenon
  <2>. QED BY <2>5, <2>6, <2>7, Zenon DEF PositionInv
<1>7. PlanInv'
  BY <1>1, <1>2, <1>3, Zenon DEF WindowInv, PlanInv, InWindow, WithinCycles
<1>. QED BY <1>4, <1>5, <1>6, <1>7, Zenon DEF WindowInv

(* A cycle in which no core runs ends a per-cycle window. *)
LEMMA CycleNothingWindow ==
  ASSUME WindowInv, RunCycleNothing
  PROVE  WindowInv'
<1>1. /\ phase = "run" /\ progress.mode = "per-cycle"
      /\ phase' = (IF progress.primary_steps = 0 THEN "stuck" ELSE "commit") /\ stop' = stop
      /\ UNCHANGED <<total_cycles, next_event, service, secondary, boot_addr,
                     reset_released, pc, secondary_pc, request, start_cycles, supply_held,
                     state, window, progress, ticked, costs>>
  BY Zenon DEF RunCycleNothing, clock, cores, call
<1>2. /\ progress.primary_steps \in Nat /\ progress.secondary_steps \in Nat
      /\ progress.cycles = progress.primary_steps
      /\ progress.secondary_steps <= progress.primary_steps
  BY <1>1, Zenon DEF WindowInv, TypeOK, CoreProgress, ProgressInv, InWindow
<1>3. TypeOK'
  BY <1>1, Zenon DEF WindowInv, TypeOK
<1>4. ProgressInv'
  BY <1>1, <1>2 DEF WindowInv, ProgressInv, Between, InWindow
<1>5. PositionInv'
  BY <1>1, Zenon DEF WindowInv, PositionInv, InWindow
<1>6. PlanInv'
  BY <1>1, Zenon DEF WindowInv, PlanInv, InWindow, WithinCycles
<1>. QED BY <1>3, <1>4, <1>5, <1>6, Zenon DEF WindowInv

(* A failing core leaves what the window had done. *)
LEMMA FailsWindow ==
  ASSUME WindowInv, CpuFails
  PROVE  WindowInv'
<1>1. /\ phase \in {"run", "fill"} /\ phase' = "stopped" /\ stop' = "Err"
      /\ total_cycles' \in {total_cycles, total_cycles + 1}
      /\ UNCHANGED <<next_event, service, secondary, boot_addr, reset_released, pc,
                     secondary_pc, request, start_cycles, supply_held, state, window,
                     progress, ticked, costs>>
  BY Zenon DEF CpuFails, StopWith, cores, call, WindowInv, TypeOK, CoreProgress
<1>2. TypeOK'
  BY <1>1 DEF WindowInv, TypeOK
<1>3. ProgressInv'
  BY <1>1, Zenon DEF WindowInv, ProgressInv, Between, InWindow
<1>4. PositionInv'
  BY <1>1 DEF WindowInv, TypeOK, PositionInv, InWindow
<1>5. PlanInv'
  BY <1>1, Zenon DEF PlanInv, InWindow
<1>. QED BY <1>2, <1>3, <1>4, <1>5, Zenon DEF WindowInv

(* Where the window ends, counted from where it was planned. *)
LEMMA WindowEndAt ==
  ASSUME WindowInv, InWindow
  PROVE  /\ WindowEnd = window.start + progress.cycles + costs
         /\ WindowEnd \in Nat /\ window.start <= WindowEnd /\ total_cycles <= WindowEnd
         /\ window.start \in Nat /\ start_cycles \in Nat /\ start_cycles <= window.start
         /\ progress.primary_steps \in Nat /\ progress.secondary_steps \in Nat
         /\ progress.cycles \in Nat /\ costs \in Nat /\ window.max_steps \in Nat
         /\ progress.primary_steps <= progress.cycles
         /\ progress.cycles <= progress.primary_steps * max_step_cycles
<1>1. /\ window.start \in Nat /\ progress.cycles \in Nat /\ costs \in Nat
      /\ total_cycles \in Nat /\ start_cycles \in Nat /\ window.max_steps \in Nat
      /\ progress.primary_steps \in Nat /\ progress.secondary_steps \in Nat
  BY Zenon DEF WindowInv, TypeOK, CpuWindow, CoreProgress
<1>2. /\ total_cycles = window.start
           + (IF progress.mode = "batch" THEN 0 ELSE progress.cycles) + costs
      /\ start_cycles <= window.start
  BY Zenon DEF WindowInv, PositionInv
<1>3. WindowEnd = window.start + progress.cycles + costs /\ total_cycles <= WindowEnd
  BY <1>1, <1>2 DEF WindowEnd
<1>. QED BY <1>1, <1>2, <1>3 DEF WindowInv, ProgressInv

(* The tick walk is told of a natural number of cycles. *)
LEMMA TickElapsedTyped ==
  ASSUME WindowInv
  PROVE  TickElapsed \in Nat
BY Constants, Zenon DEF TickElapsed, WindowInv, TypeOK, CoreProgress

(* What a commit leaves in the clock and in the accounts. *)
LEMMA CommitEffect ==
  ASSUME WindowInv, NEW cost \in 0 .. MaxCost, NEW exits \in BOOLEAN, Commit(cost, exits)
  PROVE  /\ phase = "commit" /\ InWindow
         /\ \/ phase' = "stopped" /\ stop' # "Err"
            \/ phase' = "loop" /\ stop' = stop
         /\ cost \in Nat /\ cost <= MaxCost
         /\ total_cycles' = WindowEnd + cost /\ costs' = costs + cost
         /\ ticked' = ticked + TickElapsed
         /\ progress' = NoProgressYet
         /\ state' = [fuel_consumed |-> state.fuel_consumed + progress.primary_steps,
                      primary_steps |-> state.primary_steps + progress.primary_steps,
                      secondary_steps |-> state.secondary_steps + progress.secondary_steps,
                      idle_cycles |-> state.idle_cycles]
         /\ UNCHANGED <<secondary, boot_addr, reset_released, pc, secondary_pc, request,
                        start_cycles, supply_held, window>>
<1>1. state' = [fuel_consumed |-> state.fuel_consumed + progress.primary_steps,
                primary_steps |-> state.primary_steps + progress.primary_steps,
                secondary_steps |-> state.secondary_steps + progress.secondary_steps,
                idle_cycles |-> state.idle_cycles]
  BY Zenon DEF Commit, WindowInv, TypeOK, Accounts
<1>2. \/ phase' = "stopped" /\ stop' # "Err"
      \/ phase' = "loop" /\ stop' = stop
  BY Zenon DEF Commit, StopWith
<1>3. cost \in Nat /\ cost <= MaxCost
  BY Constants
<1>4. /\ phase = "commit"
      /\ total_cycles' = WindowEnd + cost /\ costs' = costs + cost
      /\ ticked' = ticked + TickElapsed
      /\ progress' = NoProgressYet
      /\ UNCHANGED <<secondary, boot_addr, reset_released, pc, secondary_pc, request,
                     start_cycles, supply_held, window>>
  BY Zenon DEF Commit, cores, call
<1>. QED BY <1>1, <1>2, <1>3, <1>4, Zenon DEF InWindow

(* The commit closes the window and moves the clock to its end. *)
LEMMA CommitWindow ==
  ASSUME WindowInv, NEW cost \in 0 .. MaxCost, NEW exits \in BOOLEAN, Commit(cost, exits)
  PROVE  WindowInv'
<1>1. TypeOK'
  <2>1. state' \in Accounts
    <3>1. /\ progress.primary_steps \in Nat /\ progress.secondary_steps \in Nat
          /\ state.fuel_consumed \in Nat /\ state.primary_steps \in Nat
          /\ state.secondary_steps \in Nat /\ state.idle_cycles \in Nat
      BY Zenon DEF WindowInv, TypeOK, CoreProgress, Accounts
    <3>. QED BY <3>1, CommitEffect DEF Accounts
  <2>2. progress' \in CoreProgress
    BY CommitEffect DEF NoProgressYet, CoreProgress
  <2>3. WindowEnd \in Nat /\ total_cycles' \in Nat /\ costs' \in Nat /\ ticked' \in Nat
    BY CommitEffect, WindowEndAt, TickElapsedTyped DEF WindowInv, TypeOK
  <2>4. next_event' \in Limits /\ service' \in Limits
    BY <2>3, DueNextTyped, Zenon DEF Commit, WindowInv
  <2>. QED BY <2>1, <2>2, <2>3, <2>4, CommitEffect, Zenon DEF WindowInv, TypeOK
<1>2. ProgressInv'
  BY CommitEffect, Constants DEF ProgressInv, Between, InWindow, NoProgressYet
<1>3. PositionInv'
  BY CommitEffect, WindowEndAt DEF PositionInv, InWindow
<1>4. PlanInv'
  BY CommitEffect, Zenon DEF PlanInv, InWindow
<1>. QED BY <1>1, <1>2, <1>3, <1>4, Zenon DEF WindowInv

(* A fresh machine. *)
LEMMA InitWindow == AdvanceInit => WindowInv
<1>. SUFFICES ASSUME AdvanceInit PROVE WindowInv
  BY Zenon
<1>1. TypeOK
  <2>1. state \in Accounts /\ window \in CpuWindow /\ progress \in CoreProgress
    BY Zenon DEF AdvanceInit, NoWork, NoWindow, NoProgressYet, Accounts, CpuWindow, CoreProgress
  <2>. QED BY <2>1, Constants, AdvanceAssumption, Zenon DEF AdvanceInit, TypeOK, Limits
<1>2. ProgressInv
  BY Constants DEF AdvanceInit, ProgressInv, Between, InWindow, NoProgressYet
<1>3. PositionInv /\ PlanInv
  BY DEF AdvanceInit, PositionInv, PlanInv, InWindow
<1>. QED BY <1>1, <1>2, <1>3, Zenon DEF WindowInv

(* Every step of the loop and of its caller keeps the window invariant. *)
LEMMA StepWindow ==
  ASSUME WindowInv, [AdvanceNext]_advVars
  PROVE  WindowInv'
<1>1. CASE UNCHANGED advVars
  <2>1. UNCHANGED <<total_cycles, next_event, service, secondary, boot_addr,
                    reset_released, pc, secondary_pc, request, start_cycles, supply_held,
                    state, window, progress, phase, stop, ticked, costs>>
    BY <1>1, Zenon DEF advVars, clock, cores, call
  <2>2. TypeOK'
    BY <2>1, Zenon DEF WindowInv, TypeOK
  <2>3. ProgressInv' /\ PositionInv'
    BY <2>1, Zenon DEF WindowInv, ProgressInv, PositionInv, Between, InWindow
  <2>4. PlanInv'
    BY <2>1, Zenon DEF WindowInv, PlanInv, InWindow, WithinCycles, FuelSpent, CyclesSpent, elapsed
  <2>. QED BY <2>2, <2>3, <2>4, Zenon DEF WindowInv
<1>2. ASSUME NEW r \in Requests, Advance(r) \/ AdvanceHeld(r)
      PROVE  WindowInv'
  BY <1>2, CallerWindow, Zenon
<1>3. CASE SupplyMoves
  BY <1>3, SupplyWindow, Zenon
<1>4. CASE LoopNext
  <2>1. CASE StopAtPrimary \/ StopAtSecondary \/ CheckLimits
    BY <2>1, TopOfLoopWindow, Zenon
  <2>2. CASE IdleDrain \/ SkipNothing \/ StopNoProgress
    BY <2>2, IdleWindow, Zenon
  <2>3. CASE \E n \in Steps : Skip(n)
    BY <2>3, SkipWindow, Zenon
  <2>4. CASE Plan
    BY <2>4, PlanWindow, Zenon
  <2>5. CASE \E cycles \in 0 .. max_step_cycles : RunDirectAlone(cycles)
    BY <2>5, DirectAloneWindow, Zenon
  <2>6. CASE \E release \in Releases : RunDirectDual(release)
    BY <2>6, DirectDualWindow, Zenon
  <2>7. CASE \E n, cycles \in Steps, release \in Releases : RunBatch(n, cycles, release)
    BY <2>7, BatchWindow, Zenon
  <2>8. CASE \E n, cycles \in Steps : FillMore(n, cycles)
    BY <2>8, FillWindow, Zenon
  <2>9. CASE EndBatch
    BY <2>9, EndBatchWindow, Zenon
  <2>10. CASE \E release \in Releases, cost \in 0 .. MaxCost : RunCycle(release, cost)
    BY <2>10, CycleWindow, Zenon
  <2>11. CASE RunCycleNothing
    BY <2>11, CycleNothingWindow, Zenon
  <2>12. CASE CpuFails
    BY <2>12, FailsWindow, Zenon
  <2>13. CASE \E cost \in 0 .. MaxCost, exits \in BOOLEAN : Commit(cost, exits)
    BY <2>13, CommitWindow, Zenon
  <2>. QED BY <1>4, <2>1, <2>2, <2>3, <2>4, <2>5, <2>6, <2>7, <2>8, <2>9, <2>10, <2>11,
              <2>12, <2>13, Zenon DEF LoopNext
<1>. QED BY <1>1, <1>2, <1>3, <1>4, Zenon DEF AdvanceNext, CallerDone

(* The window invariant holds of every run of the machine. *)
THEOREM WindowInvariant == AdvanceSpec => []WindowInv
<1>1. WindowInv /\ [AdvanceNext]_advVars => WindowInv'
  BY StepWindow, Zenon
<1>. QED BY <1>1, InitWindow, PTL DEF AdvanceSpec

-----------------------------------------------------------------------------
(* Deadlines and budgets. *)

(* What a window of at most max_steps steps can have used. *)
LEMMA WindowCycles ==
  ASSUME WindowInv, InWindow
  PROVE  /\ 1 <= window.max_steps /\ progress.primary_steps <= window.max_steps
         /\ window.max_steps = 1 => progress.cycles <= max_step_cycles
         /\ \A n \in Int : WithinCycles(n) =>
              progress.cycles <= max_step_cycles \/ progress.cycles <= n
<1>1. /\ 1 <= window.steps /\ window.steps <= window.max_steps
      /\ window.steps \in Nat /\ window.max_steps \in Nat
      /\ progress.primary_steps \in Nat /\ progress.cycles \in Nat
      /\ progress.mode \in {"direct", "batch", "per-cycle"}
      /\ progress.cycles <= progress.primary_steps * max_step_cycles
  BY Zenon DEF WindowInv, TypeOK, CpuWindow, CoreProgress, PlanInv, ProgressInv
<1>2. progress.primary_steps <= window.max_steps
  <2>1. CASE progress.mode = "direct"
    BY <1>1, <2>1 DEF WindowInv, ProgressInv
  <2>2. CASE progress.mode = "batch"
    BY <1>1, <2>2, Zenon DEF WindowInv, PositionInv
  <2>3. CASE progress.mode = "per-cycle"
    BY <1>1, <2>3 DEF WindowInv, PositionInv
  <2>. QED BY <1>1, <2>1, <2>2, <2>3, Zenon
<1>3. /\ progress.cycles <= window.max_steps * max_step_cycles
      /\ window.max_steps * max_step_cycles \in Nat
  BY <1>1, <1>2, TimesMonotone, Constants
<1>. QED BY <1>1, <1>2, <1>3, Constants DEF WithinCycles

(* The clauses of the plan bound the window: as planned by the scheduler   *)
(* deadline, and with any fill by the motor service.                       *)
LEMMA WindowDeadlines == WindowInv => WindowMeetsDeadlines
<1>. SUFFICES ASSUME WindowInv, phase = "commit", progress.mode # "per-cycle"
              PROVE  /\ next_event # None /\ progress.primary_steps <= window.steps =>
                          Overrun(next_event) < max_step_cycles
                     /\ service # None => Overrun(service) < max_step_cycles
  BY Zenon DEF WindowMeetsDeadlines
<1>. USE DEF InWindow
<1>1. /\ WindowEnd = window.start + progress.cycles
      /\ window.start \in Nat /\ progress.cycles \in Nat
  BY WindowEndAt DEF WindowInv, PositionInv
<1>2. ASSUME NEW d \in Nat,
             progress.cycles <= max_step_cycles \/ progress.cycles <= d - window.start
      PROVE  Overrun(d) < max_step_cycles
  <2>1. Max({d, window.start + 1}) = IF d >= window.start + 1 THEN d ELSE window.start + 1
    BY <1>1, MaxOfTwo
  <2>. QED BY <1>1, <1>2, <2>1, Constants DEF Overrun
<1>3. ASSUME next_event # None, progress.primary_steps <= window.steps
      PROVE  Overrun(next_event) < max_step_cycles
  <2>1. next_event \in Nat
    BY <1>3, Zenon DEF WindowInv, TypeOK, Limits
  <2>2. WithinCycles(next_event - window.start) \/ window.steps = 1
    BY <1>3, Zenon DEF WindowInv, PlanInv
  <2>3. ASSUME window.steps = 1
        PROVE  progress.cycles <= max_step_cycles
    <3>1. /\ progress.primary_steps \in Nat /\ progress.primary_steps <= 1
          /\ progress.cycles <= progress.primary_steps * max_step_cycles
      BY <1>3, <2>3, Zenon DEF WindowInv, TypeOK, CoreProgress, ProgressInv
    <3>. QED BY <1>1, <3>1, Constants
  <2>4. progress.cycles <= max_step_cycles \/ progress.cycles <= next_event - window.start
    BY <1>1, <2>1, <2>2, <2>3, WindowCycles
  <2>. QED BY <1>2, <2>1, <2>4, Zenon
<1>4. ASSUME service # None
      PROVE  Overrun(service) < max_step_cycles
  <2>1. service \in Nat
    BY <1>4, Zenon DEF WindowInv, TypeOK, Limits
  <2>2. progress.cycles <= max_step_cycles \/ progress.cycles <= service - window.start
    BY <1>1, <1>4, <2>1, WindowCycles DEF WindowInv, PlanInv
  <2>. QED BY <1>2, <2>1, <2>2, Zenon
<1>. QED BY <1>3, <1>4, Zenon

(* As planned, no window runs a whole step past the scheduler deadline     *)
(* that was due next, and none, however it is filled, past the motor       *)
(* service.                                                                *)
THEOREM DeadlinesMet == AdvanceSpec => []WindowMeetsDeadlines
BY WindowInvariant, WindowDeadlines, PTL

(* While a window runs, planning has already bounded the whole of it. *)
LEMMA WindowLimits == WindowInv /\ InWindow => LimitsHeld
<1>. SUFFICES ASSUME WindowInv, InWindow PROVE LimitsHeld
  BY Zenon
<1>1. request.fuel # None => state.fuel_consumed + progress.primary_steps <= request.fuel
  <2>. SUFFICES ASSUME request.fuel # None
                PROVE  state.fuel_consumed + progress.primary_steps <= request.fuel
    BY Zenon
  <2>1. /\ request.fuel \in Nat /\ state.fuel_consumed \in Nat
        /\ progress.primary_steps \in Nat /\ window.max_steps \in Nat
    BY Constants, Zenon
       DEF WindowInv, TypeOK, Accounts, CoreProgress, CpuWindow, AdvanceRequest, Limits
  <2>2. state.fuel_consumed + window.max_steps <= request.fuel
    BY Zenon DEF WindowInv, PlanInv
  <2>. QED BY <2>1, <2>2, WindowCycles
<1>2. request.simulated_cycles # None =>
        WindowEnd - start_cycles < request.simulated_cycles + max_step_cycles + costs
  <2>. SUFFICES ASSUME request.simulated_cycles # None
                PROVE  WindowEnd - start_cycles
                         < request.simulated_cycles + max_step_cycles + costs
    BY Zenon
  <2>. DEFINE left == request.simulated_cycles - (window.start - start_cycles)
  <2>1. request.simulated_cycles \in Nat
    BY Constants, Zenon DEF WindowInv, TypeOK, AdvanceRequest, Limits
  <2>2. left > 0 /\ WithinCycles(left) /\ left \in Int
    BY <2>1, WindowEndAt DEF WindowInv, PlanInv
  <2>3. progress.cycles <= max_step_cycles \/ progress.cycles <= left
    <3>. HIDE DEF left
    <3>. QED BY <2>2, WindowCycles, Zenon
  <2>. QED BY <2>1, <2>2, <2>3, WindowEndAt, Constants
<1>. QED BY <1>1, <1>2, Zenon DEF LimitsHeld

(* The budget of held time: the least limit of the request. *)
LEMMA HeldSkip ==
  ASSUME TypeOK, NEW r \in Requests, AdvanceHeld(r)
  PROVE  \E skip \in Nat :
           /\ total_cycles' = total_cycles + skip
           /\ state' = [fuel_consumed |-> skip, primary_steps |-> 0, secondary_steps |-> 0,
                        idle_cycles |-> skip]
           /\ r.fuel # None => skip <= r.fuel
           /\ r.simulated_cycles # None => skip <= r.simulated_cycles
<1>. DEFINE budget == {r.fuel, r.simulated_cycles} \ {None}
            skip == IF budget = {} THEN 0 ELSE Least(budget)
<1>1. /\ total_cycles' = total_cycles + skip
      /\ state' = [fuel_consumed |-> skip, primary_steps |-> 0, secondary_steps |-> 0,
                   idle_cycles |-> skip]
  BY Zenon DEF AdvanceHeld, NoWork
<1>2. budget \in SUBSET Nat /\ budget \ {None} = budget
  BY Constants, Zenon DEF AdvanceRequest, Limits
<1>3. skip \in Nat /\ \A b \in budget : skip <= b
  <2>. HIDE DEF budget
  <2>. QED BY <1>2, MinOfNats, Zenon DEF Least
<1>4. /\ r.fuel # None => r.fuel \in budget
      /\ r.simulated_cycles # None => r.simulated_cycles \in budget
  BY Zenon
<1>. HIDE DEF budget, skip
<1>. QED BY <1>1, <1>3, <1>4, Zenon

(* Outside a window the limits are those of the last boundary. *)
LEMMA StepLimits ==
  ASSUME WindowInv, WindowInv', LimitsHeld, (WindowInv /\ InWindow => LimitsHeld)',
         [AdvanceNext]_advVars
  PROVE  LimitsHeld'
<1>1. ASSUME UNCHANGED <<request, state, progress, total_cycles, start_cycles, costs>>
      PROVE  LimitsHeld'
  BY <1>1, Zenon DEF LimitsHeld, WindowEnd
<1>2. CASE InWindow'
  BY <1>2, Zenon
<1>3. ASSUME NEW r \in Requests, Advance(r) \/ AdvanceHeld(r)
      PROVE  LimitsHeld'
  <2>1. /\ request' = r /\ start_cycles' = total_cycles /\ costs' = 0
        /\ progress' = NoProgressYet /\ r \in AdvanceRequest
        /\ total_cycles \in Nat
    BY <1>3, Constants, Zenon DEF Advance, AdvanceHeld, Begin, WindowInv, TypeOK
  <2>2. \E skip \in Nat : /\ total_cycles' = total_cycles + skip
                          /\ state'.fuel_consumed = skip
                          /\ r.fuel # None => skip <= r.fuel
                          /\ r.simulated_cycles # None => skip <= r.simulated_cycles
    <3>1. CASE AdvanceHeld(r)
      BY <3>1, HeldSkip DEF WindowInv
    <3>2. CASE Advance(r)
      <4>1. total_cycles' = total_cycles + 0 /\ state'.fuel_consumed = 0
        BY <2>1, <3>2 DEF Advance, clock, NoWork
      <4>2. /\ r.fuel # None => 0 <= r.fuel
            /\ r.simulated_cycles # None => 0 <= r.simulated_cycles
        BY <2>1 DEF AdvanceRequest, Limits
      <4>. QED BY <4>1, <4>2
    <3>. QED BY <1>3, <3>1, <3>2, Zenon
  <2>3. WindowEnd' = total_cycles'
    BY <2>1, <2>2 DEF WindowEnd, NoProgressYet
  <2>. QED BY <2>1, <2>2, <2>3, Constants
           DEF LimitsHeld, NoProgressYet, AdvanceRequest, Limits
<1>4. CASE SupplyMoves
  BY <1>1, <1>4, Zenon DEF SupplyMoves, clock
<1>5. CASE StopAtPrimary \/ StopAtSecondary \/ CheckLimits
  BY <1>1, <1>5, Zenon DEF StopAtPrimary, StopAtSecondary, CheckLimits, clock, call
<1>6. CASE IdleDrain \/ SkipNothing \/ StopNoProgress \/ RunCycleNothing
  BY <1>1, <1>6, Zenon DEF IdleDrain, SkipNothing, StopNoProgress, RunCycleNothing, clock, call
<1>7. ASSUME NEW n \in Steps, Skip(n)
      PROVE  LimitsHeld'
  <2>1. /\ n \in Nat /\ n > 0 /\ total_cycles' = total_cycles + n /\ SkipAllowed(n)
        /\ UNCHANGED <<request, start_cycles, progress, costs>>
        /\ state'.fuel_consumed = state.fuel_consumed + n
    BY <1>7, Constants DEF Skip, Steps, call, WindowInv, TypeOK, Accounts
  <2>2. progress.primary_steps = 0 /\ progress.cycles = 0
    BY <1>7, Zenon DEF Skip, WindowInv, ProgressInv, Between
  <2>3. /\ total_cycles \in Nat /\ start_cycles \in Nat /\ costs \in Nat
        /\ state.fuel_consumed \in Nat /\ request \in AdvanceRequest
    BY Constants, Zenon DEF WindowInv, TypeOK, Accounts
  <2>4. WindowEnd' = total_cycles + n
    BY <2>1, <2>2, <2>3 DEF WindowEnd
  <2>5. request.fuel # None => state.fuel_consumed + n <= request.fuel
    BY <2>1, <2>3 DEF SkipAllowed, SaturatingSub, AdvanceRequest, Limits
  <2>6. request.simulated_cycles # None => elapsed + n <= request.simulated_cycles
    BY <2>1, <2>3 DEF SkipAllowed, SaturatingSub, AdvanceRequest, Limits, elapsed
  <2>. QED BY <2>1, <2>2, <2>3, <2>4, <2>5, <2>6, Constants
           DEF LimitsHeld, elapsed, AdvanceRequest, Limits
<1>8. ASSUME phase = "run", progress.mode # "per-cycle", phase' = "stuck",
             UNCHANGED <<request, state, total_cycles, start_cycles, costs>>
      PROVE  LimitsHeld'
  <2>1. /\ progress.primary_steps = 0 /\ progress.cycles = 0
        /\ progress'.primary_steps = 0 /\ progress'.cycles = 0
    BY <1>8, Zenon DEF WindowInv, ProgressInv, Between
  <2>2. WindowEnd' = WindowEnd
    BY <1>8, <2>1, Zenon DEF WindowEnd
  <2>. QED BY <1>8, <2>1, <2>2, Zenon DEF LimitsHeld
<1>9. ASSUME NEW cycles \in 0 .. max_step_cycles, RunDirectAlone(cycles)
      PROVE  LimitsHeld'
  <2>1. CASE cycles = 0
    BY <1>8, <1>9, <2>1 DEF RunDirectAlone, WindowInv, TypeOK, call
  <2>2. CASE cycles # 0
    BY <1>2, <1>9, <2>2, Zenon DEF RunDirectAlone, InWindow
  <2>. QED BY <2>1, <2>2, Zenon
<1>10. ASSUME NEW n \in Steps, NEW cycles \in Steps, NEW release \in Releases,
              RunBatch(n, cycles, release)
       PROVE  LimitsHeld'
  <2>1. CASE n = 0
    BY <1>8, <1>10, <2>1, Zenon DEF RunBatch, clock, call
  <2>2. CASE n # 0
    BY <1>2, <1>10, <2>2, Zenon DEF RunBatch, InWindow
  <2>. QED BY <2>1, <2>2, Zenon
<1>11. CASE \/ Plan \/ EndBatch
            \/ \E release \in Releases : RunDirectDual(release)
            \/ \E n, cycles \in Steps : FillMore(n, cycles)
            \/ \E release \in Releases, cost \in 0 .. MaxCost : RunCycle(release, cost)
  BY <1>2, <1>11, Zenon DEF Plan, EndBatch, RunDirectDual, FillMore, RunCycle, InWindow
<1>12. CASE CpuFails
  <2>1. /\ phase \in {"run", "fill"} /\ InWindow
        /\ UNCHANGED <<request, state, progress, window, start_cycles, costs>>
        /\ total_cycles' \in {total_cycles, total_cycles + 1}
        /\ total_cycles' # total_cycles => progress.mode # "batch"
    BY <1>12, Zenon DEF CpuFails, InWindow, call, WindowInv, TypeOK, CoreProgress
  <2>2. CASE total_cycles' = total_cycles
    BY <1>1, <2>1, <2>2, Zenon
  <2>3. CASE total_cycles' = total_cycles + 1 /\ progress.mode # "batch"
    <3>1. WindowEnd' = WindowEnd + 1
      BY <2>1, <2>3 DEF WindowEnd, WindowInv, TypeOK
    <3>2. progress.mode = "direct" => phase = "run" /\ progress.cycles = 0
      BY <2>1, <2>3, Zenon DEF WindowInv, ProgressInv
    <3>3. progress.mode = "per-cycle" =>
            /\ progress.cycles = progress.primary_steps /\ max_step_cycles = 1
            /\ progress.primary_steps < window.steps
      BY <2>1, Zenon DEF WindowInv, ProgressInv, PositionInv
    <3>4. /\ progress.mode \in {"direct", "per-cycle"}
          /\ window.steps \in Nat /\ window.steps <= window.max_steps
      BY <2>1, <2>3, Zenon DEF WindowInv, TypeOK, CpuWindow, CoreProgress, PlanInv
    <3>5. request.simulated_cycles # None =>
            WindowEnd + 1 - start_cycles < request.simulated_cycles + max_step_cycles + costs
      <4>. SUFFICES ASSUME request.simulated_cycles # None
                    PROVE  WindowEnd + 1 - start_cycles
                             < request.simulated_cycles + max_step_cycles + costs
        BY Zenon
      <4>1. /\ request.simulated_cycles \in Nat
            /\ window.start - start_cycles < request.simulated_cycles
            /\ \/ window.max_steps = 1
               \/ window.max_steps * max_step_cycles
                    <= request.simulated_cycles - (window.start - start_cycles)
        BY <2>1, Constants, Zenon
           DEF WindowInv, TypeOK, AdvanceRequest, Limits, PlanInv, WithinCycles
      <4>2. CASE progress.mode = "direct"
        BY <2>1, <3>2, <4>1, <4>2, WindowEndAt, Constants
      <4>3. CASE progress.mode = "per-cycle"
        <5>1. progress.cycles + 1 <= window.max_steps
          BY <2>1, <3>3, <3>4, <4>3, WindowEndAt
        <5>2. window.max_steps * max_step_cycles = window.max_steps
          BY <2>1, <3>3, <4>3, WindowEndAt
        <5>. QED BY <2>1, <3>3, <4>1, <4>3, <5>1, <5>2, WindowEndAt
      <4>. QED BY <3>4, <4>2, <4>3, Zenon
    <3>6. request.fuel # None =>
            state.fuel_consumed + progress.primary_steps <= request.fuel
      BY Zenon DEF LimitsHeld
    <3>7. UNCHANGED <<request, state, progress, start_cycles, costs>>
      BY <2>1, Zenon
    <3>8. request.simulated_cycles # None =>
            WindowEnd' - start_cycles < request.simulated_cycles + max_step_cycles + costs
      <4>1. WindowEnd \in Nat /\ WindowEnd' \in Nat /\ start_cycles \in Nat
        BY <2>1, <3>1, WindowEndAt
      <4>. QED BY <3>1, <3>5, <4>1
    <3>. QED BY <3>6, <3>7, <3>8, Zenon DEF LimitsHeld
  <2>. QED BY <2>1, <2>2, <2>3, Zenon
<1>13. ASSUME NEW cost \in 0 .. MaxCost, NEW exits \in BOOLEAN, Commit(cost, exits)
       PROVE  LimitsHeld'
  <2>1. /\ InWindow /\ cost \in Nat /\ total_cycles' = WindowEnd + cost
        /\ costs' = costs + cost /\ UNCHANGED <<request, start_cycles>>
        /\ progress'.primary_steps = 0
        /\ state'.fuel_consumed = state.fuel_consumed + progress.primary_steps
    BY <1>13, CommitEffect DEF NoProgressYet
  <2>2. WindowEnd' = total_cycles' /\ total_cycles' \in Nat
    <3>1. progress' = NoProgressYet
      BY <1>13, CommitEffect, Zenon
    <3>2. progress'.mode # "batch"
      BY ONLY <3>1 DEF NoProgressYet
    <3>3. total_cycles' \in Nat
      BY Zenon DEF WindowInv, TypeOK
    <3>4. WindowEnd' = total_cycles' + 0
      BY ONLY <3>2, Zenon DEF WindowEnd
    <3>5. \A x \in Nat : x + 0 = x
      OBVIOUS
    <3>. QED BY ONLY <3>3, <3>4, <3>5, Zenon
  <2>3. /\ request \in AdvanceRequest /\ state.fuel_consumed \in Nat
    BY Constants, Zenon DEF WindowInv, TypeOK, Accounts
  <2>4. request.fuel # None => state'.fuel_consumed + 0 <= request.fuel
    BY <2>1, <2>3, WindowEndAt DEF LimitsHeld
  <2>5. request.simulated_cycles # None =>
          WindowEnd' - start_cycles
            < request.simulated_cycles + max_step_cycles + (costs + cost)
    <3>1. request.simulated_cycles # None => request.simulated_cycles \in Nat
      BY <2>3, Zenon DEF AdvanceRequest, Limits
    <3>. QED BY <2>1, <2>2, <3>1, WindowEndAt, Constants DEF LimitsHeld
  <2>. QED BY <2>1, <2>4, <2>5, Zenon DEF LimitsHeld
<1>14. CASE UNCHANGED advVars
  BY <1>1, <1>14, Zenon DEF advVars, clock, call
<1>. QED BY <1>3, <1>4, <1>5, <1>6, <1>7, <1>9, <1>10, <1>11, <1>12, <1>13, <1>14, Zenon
         DEF AdvanceNext, LoopNext, CallerDone

(* Fuel is never exceeded and a cycle limit is passed by less than one     *)
(* step plus peripheral costs, for every request, window and interleaving  *)
(* of the paths.                                                           *)
THEOREM BudgetsHold == AdvanceSpec => []LimitsHeld
<1>1. AdvanceInit => LimitsHeld
  <2>. SUFFICES ASSUME AdvanceInit PROVE LimitsHeld
    BY Zenon
  <2>1. request \in AdvanceRequest
    BY Constants, Zenon DEF AdvanceInit
  <2>2. WindowEnd = 0 /\ start_cycles = 0 /\ costs = 0 /\ state.fuel_consumed = 0
        /\ progress.primary_steps = 0
    BY DEF AdvanceInit, WindowEnd, NoWork, NoProgressYet
  <2>. QED BY <2>1, <2>2, Constants DEF LimitsHeld, AdvanceRequest, Limits
<1>2. WindowInv /\ WindowInv' /\ LimitsHeld /\ (WindowInv /\ InWindow => LimitsHeld)'
        /\ [AdvanceNext]_advVars => LimitsHeld'
  BY StepLimits, Zenon
<1>. QED BY <1>1, <1>2, WindowInvariant, WindowLimits, PTL DEF AdvanceSpec

-------------------------------------------------------------------------------
(* The windows of a request: its report, its breakpoints, the second core  *)
(* and the peripheral clock.                                               *)

(* The accounts of the request, up to the last boundary. *)
AccountInv ==
  /\ state.fuel_consumed = state.primary_steps + state.idle_cycles
  /\ state.secondary_steps <= state.primary_steps
  /\ LET most == state.primary_steps * (max_step_cycles + MaxCost) + state.idle_cycles
     IN /\ Between => state.fuel_consumed <= elapsed /\ elapsed <= most
        /\ InWindow => /\ state.fuel_consumed <= window.start - start_cycles
                       /\ window.start - start_cycles <= most

(* A pc at a breakpoint is run only as the first instruction of a request. *)
BreakpointInv ==
  request.honor /\ breakpoints # {} =>
    /\ InWindow => window.max_steps = 1
    /\ progress.primary_steps <= 1
    /\ \/ phase \notin {"stopped", "loop"}
       \/ phase = "loop" /\ state.primary_steps > 0
       => last_breakpoint = None /\ last_breakpoint_secondary = None
    /\ phase \in {"idle", "skip", "plan", "run"} /\ state.primary_steps > 0 =>
         /\ pc \notin breakpoints
         /\ secondary # "none" => secondary_pc \notin breakpoints

(* A batched window runs beside no second core at interval 1, so a boot    *)
(* address is taken in the window that published it.                       *)
BootInv ==
  /\ ~boot_addr
  /\ phase \in {"run", "fill"} /\ progress.mode = "batch" => secondary = "none"

(* The peripheral time delivered: all of it between windows, and up to the *)
(* planned start within one, whose steps cross at most one grid point.     *)
WithinGrid(cycles) ==
  cycles <= peripheral_tick_interval - (window.start % peripheral_tick_interval)
    \/ cycles <= max_step_cycles

(* On the grid no path skips time or parks a core at a longer interval.    *)
GridInv ==
  /\ ~supply_held
  /\ phase \notin {"idle", "skip", "retry"}
  /\ peripheral_tick_interval > 1 => secondary # "parked"
  /\ Between =>
       ticked = peripheral_tick_interval * (total_cycles \div peripheral_tick_interval)
  /\ InWindow =>
       /\ window.to_cycles
            = peripheral_tick_interval - (window.start % peripheral_tick_interval)
       /\ progress.mode = "per-cycle" => ticked = total_cycles
       /\ progress.mode # "per-cycle" =>
            /\ ticked = peripheral_tick_interval * (window.start \div peripheral_tick_interval)
            /\ WithinGrid(progress.cycles)
       /\ progress.mode = "batch" =>
            /\ progress.secondary_steps = 0
            /\ WithinGrid(window.steps * max_step_cycles)
            /\ phase # "commit" => secondary # "parked"

-----------------------------------------------------------------------------
(* The report. *)

(* What p more steps of a window may have taken, costs included. *)
LEMMA WindowTook ==
  ASSUME NEW a \in Nat, NEW p \in Nat, NEW cycles \in Nat, NEW cost \in Nat,
         cycles <= p * max_step_cycles, cost <= p * MaxCost
  PROVE  a * (max_step_cycles + MaxCost) + cycles + cost
           <= (a + p) * (max_step_cycles + MaxCost)
<1>1. (a + p) * (max_step_cycles + MaxCost)
        = a * (max_step_cycles + MaxCost) + (p * max_step_cycles + p * MaxCost)
  BY Constants
<1>2. /\ p * max_step_cycles \in Nat /\ p * MaxCost \in Nat
      /\ a * (max_step_cycles + MaxCost) \in Nat
  BY Constants
<1>. QED BY <1>1, <1>2

(* Every step keeps the accounts of the request. *)
LEMMA StepAccounts ==
  ASSUME WindowInv, WindowInv', AccountInv, [AdvanceNext]_advVars
  PROVE  AccountInv'
<1>. DEFINE most == state.primary_steps * (max_step_cycles + MaxCost) + state.idle_cycles
<1>1. /\ state.fuel_consumed \in Nat /\ state.primary_steps \in Nat
      /\ state.secondary_steps \in Nat /\ state.idle_cycles \in Nat
      /\ total_cycles \in Nat /\ start_cycles \in Nat /\ most \in Nat
  BY Constants DEF WindowInv, TypeOK, Accounts
<1>2. ASSUME UNCHANGED <<state, total_cycles, start_cycles>>, Between, ~InWindow'
      PROVE  AccountInv'
  BY <1>2, Zenon DEF AccountInv, elapsed
<1>3. ASSUME UNCHANGED <<state, window, start_cycles>>, InWindow, InWindow'
      PROVE  AccountInv'
  <2>1. ~Between'
    BY <1>3, Zenon DEF InWindow, Between
  <2>. QED BY <1>3, <2>1, Zenon DEF AccountInv
<1>4. ASSUME UNCHANGED <<state, total_cycles, start_cycles>>, InWindow,
             total_cycles = window.start, ~InWindow'
      PROVE  AccountInv'
  BY <1>4, Zenon DEF AccountInv, elapsed
<1>5. ASSUME NEW r \in Requests, Advance(r) \/ AdvanceHeld(r)
      PROVE  AccountInv'
  <2>1. start_cycles' = total_cycles /\ phase' \in {"loop", "stopped"}
    BY <1>5, Zenon DEF Advance, AdvanceHeld, Begin, StopWith
  <2>2. \E skip \in Nat :
          /\ total_cycles' = total_cycles + skip
          /\ state' = [fuel_consumed |-> skip, primary_steps |-> 0, secondary_steps |-> 0,
                       idle_cycles |-> skip]
    <3>1. CASE AdvanceHeld(r)
      BY <3>1, HeldSkip, Zenon DEF WindowInv
    <3>2. CASE Advance(r)
      <4>1. total_cycles' = total_cycles + 0
        BY <1>1, <3>2 DEF Advance, clock
      <4>2. state' = [fuel_consumed |-> 0, primary_steps |-> 0, secondary_steps |-> 0,
                      idle_cycles |-> 0]
        BY <3>2, Zenon DEF Advance, NoWork
      <4>. QED BY <4>1, <4>2, Zenon
    <3>. QED BY <1>5, <3>1, <3>2, Zenon
  <2>. QED BY <1>1, <2>1, <2>2, Constants DEF AccountInv, InWindow, elapsed
<1>6. CASE SupplyMoves
  BY <1>2, <1>6, Zenon DEF SupplyMoves, clock, Between, InWindow
<1>7. CASE StopAtPrimary \/ StopAtSecondary \/ CheckLimits
  BY <1>2, <1>7, Zenon
     DEF StopAtPrimary, StopAtSecondary, CheckLimits, StopWith, clock, call, Between, InWindow
<1>8. CASE IdleDrain \/ SkipNothing \/ StopNoProgress
  BY <1>2, <1>8, Zenon
     DEF IdleDrain, SkipNothing, StopNoProgress, StopWith, clock, call, Between, InWindow
<1>9. ASSUME NEW n \in Steps, Skip(n)
      PROVE  AccountInv'
  <2>1. /\ n \in Nat /\ total_cycles' = total_cycles + n
        /\ start_cycles' = start_cycles /\ Between /\ ~InWindow'
    BY <1>9, Constants DEF Skip, Steps, call, Between, InWindow
  <2>2. state' = [fuel_consumed |-> state.fuel_consumed + n,
                  primary_steps |-> state.primary_steps,
                  secondary_steps |-> state.secondary_steps,
                  idle_cycles |-> state.idle_cycles + n]
    BY <1>9, Zenon DEF Skip, WindowInv, TypeOK, Accounts
  <2>3. elapsed' = elapsed + n /\ elapsed \in Int
    BY <1>1, <2>1 DEF elapsed
  <2>4. /\ state.fuel_consumed = state.primary_steps + state.idle_cycles
        /\ state.secondary_steps <= state.primary_steps
        /\ state.fuel_consumed <= elapsed /\ elapsed <= most
    BY <2>1, Zenon DEF AccountInv
  <2>5. state.primary_steps * (max_step_cycles + MaxCost) \in Nat
    BY <1>1, Constants
  <2>6. /\ state'.fuel_consumed <= elapsed'
        /\ elapsed' <= state.primary_steps * (max_step_cycles + MaxCost) + state'.idle_cycles
    BY <1>1, <2>1, <2>2, <2>3, <2>4, <2>5
  <2>. QED BY <1>1, <2>1, <2>2, <2>4, <2>6 DEF AccountInv
<1>10. CASE Plan
  <2>1. /\ UNCHANGED <<state, total_cycles, start_cycles>> /\ Between /\ ~Between'
        /\ window'.start = total_cycles
    BY <1>10, Zenon DEF Plan, PlannedWindow, clock, call, Between
  <2>. QED BY <2>1, Zenon DEF AccountInv, elapsed
<1>11. ASSUME NEW cycles \in 0 .. max_step_cycles, RunDirectAlone(cycles)
       PROVE  AccountInv'
  <2>1. CASE cycles = 0
    BY <1>1, <1>4, <1>11, <2>1, StartOfWindow DEF RunDirectAlone, call, InWindow
  <2>2. CASE cycles # 0
    BY <1>3, <1>11, <2>2, Zenon DEF RunDirectAlone, call, InWindow
  <2>. QED BY <2>1, <2>2, Zenon
<1>12. ASSUME NEW n \in Steps, NEW cycles \in Steps, NEW release \in Releases,
              RunBatch(n, cycles, release)
       PROVE  AccountInv'
  <2>1. CASE n = 0
    BY <1>4, <1>12, <2>1, StartOfWindow, Zenon DEF RunBatch, clock, call, InWindow
  <2>2. CASE n # 0
    BY <1>3, <1>12, <2>2, Zenon DEF RunBatch, call, InWindow
  <2>. QED BY <2>1, <2>2, Zenon
<1>13. CASE \/ EndBatch
            \/ \E release \in Releases : RunDirectDual(release)
            \/ \E n, cycles \in Steps : FillMore(n, cycles)
            \/ \E release \in Releases, cost \in 0 .. MaxCost : RunCycle(release, cost)
  BY <1>3, <1>13, Zenon DEF EndBatch, RunDirectDual, FillMore, RunCycle, call, InWindow
<1>14. CASE RunCycleNothing
  <2>1. UNCHANGED <<state, window, total_cycles, start_cycles>> /\ phase = "run"
        /\ progress.mode = "per-cycle"
    BY <1>14, Zenon DEF RunCycleNothing, clock, call
  <2>2. CASE progress.primary_steps = 0
    <3>1. progress.cycles = 0 /\ costs <= 0 * MaxCost
      BY <2>1, <2>2, Zenon DEF WindowInv, ProgressInv, PositionInv, InWindow
    <3>2. total_cycles = window.start
      BY <2>1, <3>1, WindowEndAt, Constants DEF InWindow, WindowInv, PositionInv
    <3>. QED BY <1>4, <1>14, <2>1, <2>2, <3>2, Zenon DEF RunCycleNothing, InWindow
  <2>3. CASE progress.primary_steps # 0
    BY <1>3, <1>14, <2>1, <2>3, Zenon DEF RunCycleNothing, InWindow
  <2>. QED BY <2>2, <2>3, Zenon
<1>15. CASE CpuFails
  <2>1. state' = state /\ ~Between' /\ ~InWindow'
    BY <1>15, Zenon DEF CpuFails, StopWith, Between, InWindow
  <2>. QED BY <2>1, Zenon DEF AccountInv
<1>16. ASSUME NEW cost \in 0 .. MaxCost, NEW exits \in BOOLEAN, Commit(cost, exits)
       PROVE  AccountInv'
  <2>. DEFINE p == progress.primary_steps
  <2>1. /\ InWindow /\ ~InWindow' /\ start_cycles' = start_cycles
        /\ total_cycles' = WindowEnd + cost /\ cost \in Nat /\ cost <= MaxCost
        /\ state' = [fuel_consumed |-> state.fuel_consumed + p,
                     primary_steps |-> state.primary_steps + p,
                     secondary_steps |-> state.secondary_steps + progress.secondary_steps,
                     idle_cycles |-> state.idle_cycles]
    BY <1>16, CommitEffect, Zenon DEF InWindow
  <2>2. /\ p > 0 /\ progress.secondary_steps <= p /\ costs + cost <= p * MaxCost
        /\ p \in Nat /\ progress.secondary_steps \in Nat
    <3>1. /\ p > 0 /\ progress.secondary_steps <= p /\ costs <= p * MaxCost
          /\ progress.mode # "per-cycle" => costs = 0
          /\ progress.mode = "per-cycle" => TickElapsed = 0
      BY <1>16, <2>1, Zenon DEF Commit, WindowInv, ProgressInv, PositionInv, TickElapsed
    <3>2. progress.mode = "per-cycle" => cost = 0
      BY <1>16, <2>1, <3>1 DEF Commit
    <3>3. p \in Nat /\ MaxCost <= p * MaxCost
      BY <2>1, <3>1, WindowEndAt, Constants
    <3>. QED BY <2>1, <3>1, <3>2, <3>3, WindowEndAt, Constants
  <2>3. /\ state.fuel_consumed <= window.start - start_cycles
        /\ window.start - start_cycles <= most
    BY <2>1, Zenon DEF AccountInv
  <2>4. elapsed' = (window.start - start_cycles) + progress.cycles + (costs + cost)
    BY <2>1, WindowEndAt DEF elapsed
  <2>5. state.primary_steps * (max_step_cycles + MaxCost) + progress.cycles + (costs + cost)
          <= (state.primary_steps + p) * (max_step_cycles + MaxCost)
    <3>1. /\ costs + cost \in Nat /\ progress.cycles \in Nat
          /\ progress.cycles <= p * max_step_cycles
      BY <2>1, WindowEndAt
    <3>. HIDE DEF p
    <3>. QED BY <1>1, <2>2, <3>1, WindowTook, Zenon
  <2>6. /\ state.primary_steps * (max_step_cycles + MaxCost) \in Nat
        /\ (state.primary_steps + p) * (max_step_cycles + MaxCost) \in Nat
    BY <1>1, <2>2, Constants, SMTT(30)
  <2>7. /\ (state.fuel_consumed <= elapsed)'
        /\ elapsed' <= (state.primary_steps + p) * (max_step_cycles + MaxCost)
                          + state.idle_cycles
    BY <1>1, <2>1, <2>2, <2>3, <2>4, <2>5, <2>6, WindowEndAt
  <2>8. state.fuel_consumed = state.primary_steps + state.idle_cycles
        /\ state.secondary_steps <= state.primary_steps
    BY Zenon DEF AccountInv
  <2>. QED BY <1>1, <2>1, <2>2, <2>7, <2>8 DEF AccountInv
<1>17. CASE UNCHANGED advVars
  BY <1>17, Zenon DEF advVars, clock, call, AccountInv, Between, InWindow, elapsed
<1>. QED BY <1>5, <1>6, <1>7, <1>8, <1>9, <1>10, <1>11, <1>12, <1>13, <1>14, <1>15, <1>16,
            <1>17, Zenon DEF AdvanceNext, LoopNext, CallerDone

(* Every report balances: fuel is instructions plus skipped cycles, and    *)
(* the elapsed time is what they took, each charged once on its path, plus *)
(* at most one peripheral cost per instruction.                            *)
THEOREM ReportsBalance == AdvanceSpec => []ReportBalances
<1>1. AdvanceInit => AccountInv
  BY Constants DEF AdvanceInit, AccountInv, NoWork, Between, InWindow, elapsed
<1>2. WindowInv /\ WindowInv' /\ AccountInv /\ [AdvanceNext]_advVars => AccountInv'
  BY StepAccounts, Zenon
<1>3. AccountInv => ReportBalances
  BY Zenon DEF AccountInv, ReportBalances, Between
<1>. QED BY <1>1, <1>2, <1>3, WindowInvariant, PTL DEF AdvanceSpec

-----------------------------------------------------------------------------
(* Breakpoints. *)

(* A breakpoint anywhere pins the window to one instruction. *)
LEMMA PinnedPlan ==
  ASSUME WindowInv, Pinned
  PROVE  PlannedWindow.steps = 1 /\ PlannedWindow.max_steps = 1
<1>1. 1 \in CoreClauses
  BY Zenon DEF CoreClauses
<1>2. /\ PlannedWindow \in CpuWindow
      /\ 1 <= PlannedWindow.steps /\ PlannedWindow.steps <= PlannedWindow.max_steps
      /\ PlannedWindow.max_steps <= 1 \/ PlannedWindow.max_steps = 1
  BY <1>1, PlanKeepsClauses, Zenon DEF WindowInv
<1>. QED BY <1>2 DEF CpuWindow

(* Every step keeps what is known of the pcs that breakpoints may stop.    *)
LEMMA StepBreakpoints ==
  ASSUME WindowInv, WindowInv', BreakpointInv, [AdvanceNext]_advVars
  PROVE  BreakpointInv'
<1>1. ASSUME UNCHANGED <<request, window, progress, state, pc, secondary_pc>>,
             last_breakpoint' \in {last_breakpoint, None},
             last_breakpoint_secondary' \in {last_breakpoint_secondary, None},
             secondary' # "none" => secondary # "none",
             InWindow' => InWindow,
             phase' \notin {"stopped", "loop"} => phase \notin {"stopped", "loop"},
             phase' = "loop" => phase \notin {"stopped", "loop"} \/ phase = "loop",
             phase' \in {"idle", "skip", "plan", "run"}
               => phase \in {"idle", "skip", "plan", "run"}
      PROVE  BreakpointInv'
  BY <1>1, Zenon DEF BreakpointInv
<1>2. ASSUME UNCHANGED <<request, window, state, sticky>>, InWindow,
             phase' \in {"fill", "commit", "stuck"}
      PROVE  BreakpointInv'
  <2>1. CASE phase' = "stuck"
    <3>1. progress'.primary_steps = 0
      BY <2>1, Zenon DEF WindowInv, ProgressInv, Between
    <3>. QED BY <1>2, <2>1, <3>1 DEF BreakpointInv, InWindow, sticky
  <2>2. CASE phase' # "stuck"
    <3>1. /\ progress'.primary_steps \in Nat /\ window'.max_steps \in Nat
          /\ window'.steps \in Nat
          /\ progress'.mode \in {"direct", "batch", "per-cycle"}
      BY Zenon DEF WindowInv, TypeOK, CpuWindow, CoreProgress
    <3>2. progress'.primary_steps <= window'.max_steps
      BY <1>2, <2>2, <3>1 DEF WindowInv, ProgressInv, PositionInv, PlanInv, InWindow
    <3>. QED BY <1>2, <2>2, <3>1, <3>2, Zenon DEF BreakpointInv, InWindow, sticky
  <2>. QED BY <1>2, <2>1, <2>2, Zenon
<1>3. ASSUME NEW r \in Requests, Advance(r) \/ AdvanceHeld(r)
      PROVE  BreakpointInv'
  <2>1. /\ phase' \in {"loop", "stopped"} /\ progress'.primary_steps = 0
        /\ phase' = "loop" => state'.primary_steps = 0
    BY <1>3 DEF Advance, AdvanceHeld, Begin, StopWith, NoProgressYet, NoWork
  <2>. QED BY <2>1 DEF BreakpointInv, InWindow
<1>4. CASE SupplyMoves
  BY <1>4, Zenon DEF SupplyMoves, sticky, BreakpointInv, InWindow
<1>5. CASE StopAtPrimary \/ StopAtSecondary
  BY <1>5, Zenon DEF StopAtPrimary, StopAtSecondary, StopWith, call, BreakpointInv, InWindow
<1>6. CASE CheckLimits
  <2>1. /\ UNCHANGED <<request, window, progress, state, pc, secondary_pc>>
        /\ phase = "loop" /\ phase' \in {"stopped", "idle", "plan"}
        /\ secondary' # "none" => secondary # "none"
    BY <1>6, Zenon DEF CheckLimits, ReleaseOnResetEdge, StopWith, call
  <2>2. ASSUME request.honor
        PROVE  /\ last_breakpoint' = None /\ last_breakpoint_secondary' = None
               /\ pc \in breakpoints => last_breakpoint = pc
               /\ secondary # "none" /\ secondary_pc \in breakpoints =>
                    last_breakpoint_secondary = secondary_pc
    BY <1>6, <2>2, Zenon DEF CheckLimits, PrimaryHit, SecondaryHit
  <2>3. pc # None /\ secondary_pc # None
    BY AdvanceAssumption, Zenon DEF WindowInv, TypeOK
  <2>. QED BY <2>1, <2>2, <2>3, Zenon DEF BreakpointInv, InWindow
<1>7. CASE IdleDrain \/ SkipNothing \/ StopNoProgress
  BY <1>1, <1>7, Zenon DEF IdleDrain, SkipNothing, StopNoProgress, StopWith, call, cores, sticky,
                    InWindow
<1>8. ASSUME NEW n \in Steps, Skip(n)
      PROVE  BreakpointInv'
  <2>1. /\ UNCHANGED <<request, progress, sticky>> /\ phase' = "loop"
        /\ phase \in {"skip", "retry"}
    BY <1>8, Zenon DEF Skip, call
  <2>. QED BY <2>1, Zenon DEF BreakpointInv, InWindow, sticky
<1>9. CASE Plan
  <2>1. /\ UNCHANGED <<request, state, sticky, pc, secondary_pc, secondary>>
        /\ phase = "plan" /\ window' = PlannedWindow
    BY <1>9, Zenon DEF Plan, call, cores
  <2>2. progress'.primary_steps = 0
    BY <1>9, Zenon DEF Plan, NoProgressYet
  <2>3. request.honor /\ breakpoints # {} => PlannedWindow.max_steps = 1
    BY PinnedPlan, Zenon DEF Pinned
  <2>. QED BY <2>1, <2>2, <2>3 DEF BreakpointInv, InWindow, sticky
<1>10. ASSUME NEW cycles \in 0 .. max_step_cycles, RunDirectAlone(cycles)
       PROVE  BreakpointInv'
  BY <1>2, <1>10, Zenon DEF RunDirectAlone, call, InWindow
<1>11. ASSUME NEW n \in Steps, NEW cycles \in Steps, NEW release \in Releases,
              RunBatch(n, cycles, release)
       PROVE  BreakpointInv'
  BY <1>2, <1>11, Zenon DEF RunBatch, call, InWindow
<1>12. CASE \/ EndBatch
            \/ \E release \in Releases : RunDirectDual(release)
            \/ \E n, cycles \in Steps : FillMore(n, cycles)
            \/ RunCycleNothing
  BY <1>2, <1>12, Zenon DEF EndBatch, RunDirectDual, FillMore, RunCycleNothing, call, InWindow
<1>13. ASSUME NEW release \in Releases, NEW cost \in 0 .. MaxCost, RunCycle(release, cost)
       PROVE  BreakpointInv'
  <2>1. /\ UNCHANGED <<request, window, state, sticky>> /\ phase = "run" /\ InWindow
        /\ progress.mode = "per-cycle" /\ progress.primary_steps < window.steps
        /\ phase' \in {"run", "commit"}
        /\ progress.primary_steps + 1 = window.steps => phase' = "commit"
    BY <1>13, Zenon DEF RunCycle, call, InWindow
  <2>2. request.honor /\ breakpoints # {} => phase' = "commit"
    <3>1. /\ progress.primary_steps \in Nat /\ window.steps \in Nat
          /\ window.max_steps \in Nat /\ window.steps <= window.max_steps
      BY <2>1, Zenon DEF WindowInv, TypeOK, CpuWindow, CoreProgress, PlanInv
    <3>2. request.honor /\ breakpoints # {} => window.max_steps = 1
      BY <2>1, Zenon DEF BreakpointInv
    <3>. QED BY <2>1, <3>1, <3>2
  <2>3. CASE phase' = "commit"
    BY <1>2, <2>1, <2>3, Zenon
  <2>4. CASE phase' # "commit"
    BY <2>1, <2>2, <2>4, Zenon DEF BreakpointInv
  <2>. QED BY <2>3, <2>4, Zenon
<1>14. CASE CpuFails
  BY <1>14, Zenon DEF CpuFails, StopWith, call, BreakpointInv, InWindow
<1>15. ASSUME NEW cost \in 0 .. MaxCost, NEW exits \in BOOLEAN, Commit(cost, exits)
       PROVE  BreakpointInv'
  <2>1. /\ UNCHANGED <<request, sticky>> /\ phase = "commit"
        /\ phase' \in {"loop", "stopped"} /\ progress'.primary_steps = 0
    BY <1>15, Zenon DEF Commit, call, StopWith, NoProgressYet
  <2>. QED BY <2>1 DEF BreakpointInv, InWindow, sticky
<1>16. CASE UNCHANGED advVars
  BY <1>1, <1>16, Zenon DEF advVars, call, cores, sticky, InWindow
<1>. QED BY <1>3, <1>4, <1>5, <1>6, <1>7, <1>8, <1>9, <1>10, <1>11, <1>12, <1>13, <1>14,
            <1>15, <1>16, Zenon DEF AdvanceNext, LoopNext, CallerDone

(* A run that honours breakpoints executes an instruction at one, on       *)
(* either core, only as its first: no window, filled, coalesced or per     *)
(* cycle, passes a pc between two checks of the loop.                      *)
THEOREM BreakpointsAreObserved == AdvanceSpec => []BreakpointsObserved
<1>1. AdvanceInit => BreakpointInv
  BY DEF AdvanceInit, BreakpointInv, NoProgressYet, InWindow
<1>2. WindowInv /\ WindowInv' /\ BreakpointInv /\ [AdvanceNext]_advVars => BreakpointInv'
  BY StepBreakpoints, Zenon
<1>3. BreakpointInv => BreakpointsObserved
  BY Zenon DEF BreakpointInv, BreakpointsObserved
<1>. QED BY <1>1, <1>2, <1>3, WindowInvariant, PTL DEF AdvanceSpec

-----------------------------------------------------------------------------
(* The second core and its release. *)

(* The path of a window is chosen by the state of the second core. *)
LEMMA ModeChosen ==
  ASSUME TypeOK
  PROVE  /\ Mode = "batch" => secondary # "active"
         /\ Mode = "batch" /\ peripheral_tick_interval = 1 => secondary = "none"
         /\ Mode = "per-cycle" => /\ secondary \in {"parked", "held"}
                                  /\ peripheral_tick_interval = 1
<1>1. secondary \in {"none", "active", "parked", "held"}
  BY AdvanceAssumption, Zenon DEF TypeOK
<1>2. CASE request.single \/ secondary = "active"
  BY <1>2, Zenon DEF Mode
<1>3. CASE ~request.single /\ secondary \in {"parked", "held"} /\ peripheral_tick_interval = 1
  BY <1>3, Zenon DEF Mode
<1>4. CASE /\ ~(request.single \/ secondary = "active")
           /\ ~(secondary \in {"parked", "held"} /\ peripheral_tick_interval = 1)
  BY <1>1, <1>4, Zenon DEF Mode
<1>. QED BY <1>2, <1>3, <1>4, Zenon

(* What planning changes. *)
LEMMA PlanEffect ==
  ASSUME WindowInv, Plan
  PROVE  /\ phase = "plan" /\ phase' = "run" /\ window' = PlannedWindow
         /\ progress' = [primary_steps |-> 0, secondary_steps |-> 0, cycles |-> 0,
                         mode |-> Mode]
         /\ UNCHANGED <<clock, cores, call, state, ticked>>
BY Zenon DEF Plan, NoProgressYet

(* Every step takes a published boot address within its window. *)
LEMMA StepBootAddr ==
  ASSUME peripheral_tick_interval = 1, WindowInv, BootInv, [AdvanceNext]_advVars
  PROVE  BootInv'
<1>1. ASSUME UNCHANGED <<boot_addr, secondary, progress>>,
             phase' \in {"run", "fill"} => phase \in {"run", "fill"}
      PROVE  BootInv'
  BY <1>1, Zenon DEF BootInv
<1>2. ASSUME UNCHANGED boot_addr, phase' \notin {"run", "fill"}
      PROVE  BootInv'
  BY <1>2, Zenon DEF BootInv
<1>3. ASSUME NEW r \in Requests, Advance(r) \/ AdvanceHeld(r)
      PROVE  BootInv'
  BY <1>2, <1>3, Zenon DEF Advance, AdvanceHeld, StopWith, cores
<1>4. CASE SupplyMoves
  BY <1>1, <1>4, Zenon DEF SupplyMoves
<1>5. CASE StopAtPrimary \/ StopAtSecondary \/ CheckLimits
  BY <1>2, <1>5, Zenon DEF StopAtPrimary, StopAtSecondary, CheckLimits, ReleaseOnResetEdge, StopWith
<1>6. CASE IdleDrain \/ SkipNothing \/ StopNoProgress \/ RunCycleNothing
  BY <1>2, <1>6, Zenon DEF IdleDrain, SkipNothing, StopNoProgress, RunCycleNothing, StopWith, cores
<1>7. ASSUME NEW n \in Steps, Skip(n)
      PROVE  BootInv'
  BY <1>2, <1>7, Zenon DEF Skip, cores
<1>8. CASE Plan
  BY <1>8, PlanEffect, ModeChosen DEF WindowInv, BootInv, cores
<1>9. ASSUME NEW cycles \in 0 .. max_step_cycles, RunDirectAlone(cycles)
      PROVE  BootInv'
  BY <1>2, <1>9, Zenon DEF RunDirectAlone
<1>10. ASSUME NEW release \in Releases, RunDirectDual(release)
       PROVE  BootInv'
  BY <1>10, Zenon DEF RunDirectDual, BootInv
<1>11. ASSUME NEW n \in Steps, NEW cycles \in Steps, NEW release \in Releases,
              RunBatch(n, cycles, release)
       PROVE  BootInv'
  <2>1. secondary = "none" /\ secondary' = secondary
    BY <1>11, Zenon DEF RunBatch, BootInv
  <2>2. release = None
    BY <1>11, <2>1, Zenon DEF RunBatch, MayPublish
  <2>3. ~boot_addr'
    BY <1>11, <2>2, AdvanceAssumption, Zenon DEF RunBatch, BootAddr, BootInv, Releases
  <2>. QED BY <2>1, <2>3, Zenon DEF BootInv
<1>12. ASSUME NEW n \in Steps, NEW cycles \in Steps, FillMore(n, cycles)
       PROVE  BootInv'
  <2>1. progress'.mode = progress.mode
    BY <1>12, Zenon DEF FillMore, WindowInv, TypeOK, CoreProgress
  <2>. QED BY <1>12, <2>1, Zenon DEF FillMore, BootInv
<1>13. CASE EndBatch
  BY <1>2, <1>13, Zenon DEF EndBatch
<1>14. ASSUME NEW release \in Releases, NEW cost \in 0 .. MaxCost, RunCycle(release, cost)
       PROVE  BootInv'
  <2>1. progress'.mode = "per-cycle" /\ ~boot_addr'
    BY <1>14, Zenon DEF RunCycle, WindowInv, TypeOK, CoreProgress
  <2>. QED BY <2>1, Zenon DEF BootInv
<1>15. CASE CpuFails
  BY <1>2, <1>15, Zenon DEF CpuFails, StopWith, cores
<1>16. ASSUME NEW cost \in 0 .. MaxCost, NEW exits \in BOOLEAN, Commit(cost, exits)
       PROVE  BootInv'
  BY <1>2, <1>16, Zenon DEF Commit, StopWith, cores
<1>17. CASE UNCHANGED advVars
  BY <1>1, <1>17, Zenon DEF advVars, cores
<1>. QED BY <1>3, <1>4, <1>5, <1>6, <1>7, <1>8, <1>9, <1>10, <1>11, <1>12, <1>13, <1>14,
            <1>15, <1>16, <1>17, Zenon DEF AdvanceNext, LoopNext, CallerDone

(* At interval 1 a boot address the firmware publishes for the held second *)
(* core is acted on before another instruction of the primary core.        *)
THEOREM BootAddrIsActedOn ==
  ASSUME peripheral_tick_interval = 1
  PROVE  AdvanceSpec => []BootAddrActedOn
<1>1. AdvanceInit => BootInv
  BY Zenon DEF AdvanceInit, BootInv
<1>2. WindowInv /\ BootInv /\ [AdvanceNext]_advVars => BootInv'
  BY StepBootAddr, Zenon
<1>3. BootInv => BootAddrActedOn
  BY Zenon DEF BootInv, BootAddrActedOn
<1>. QED BY <1>1, <1>2, <1>3, WindowInvariant, PTL DEF AdvanceSpec

(* Requests that never skip idle time, because they do not ask for it or   *)
(* because a legacy walk forbids it.                                       *)
NoIdleSkip == LegacyActive \/ \A r \in Requests : ~r.idle

(* Without an idle skip the loop goes from the limits straight to the plan. *)
LEMMA NeverIdle ==
  ASSUME NoIdleSkip, WindowInv, phase \notin {"idle", "skip", "retry"},
         [AdvanceNext]_advVars
  PROVE  phase' \notin {"idle", "skip", "retry"}
<1>1. request.idle => LegacyActive
  BY Zenon DEF NoIdleSkip, WindowInv, TypeOK
<1>2. CASE \E r \in Requests : Advance(r) \/ AdvanceHeld(r)
  BY <1>2, Zenon DEF Advance, AdvanceHeld, StopWith
<1>3. CASE \/ SupplyMoves \/ StopAtPrimary \/ StopAtSecondary \/ CheckLimits
  BY <1>1, <1>3, Zenon DEF SupplyMoves, StopAtPrimary, StopAtSecondary, CheckLimits, StopWith
<1>4. CASE \/ IdleDrain \/ SkipNothing \/ StopNoProgress \/ \E n \in Steps : Skip(n)
  BY <1>1, <1>4, Zenon DEF IdleDrain, SkipNothing, StopNoProgress, Skip, StopWith
<1>5. CASE \/ Plan \/ EndBatch \/ RunCycleNothing \/ CpuFails
           \/ \E cycles \in 0 .. max_step_cycles : RunDirectAlone(cycles)
           \/ \E release \in Releases : RunDirectDual(release)
  BY <1>5, Zenon DEF Plan, EndBatch, RunCycleNothing, CpuFails, StopWith, RunDirectAlone,
              RunDirectDual
<1>6. CASE \/ \E n, cycles \in Steps, release \in Releases : RunBatch(n, cycles, release)
           \/ \E n, cycles \in Steps : FillMore(n, cycles)
           \/ \E release \in Releases, cost \in 0 .. MaxCost : RunCycle(release, cost)
           \/ \E cost \in 0 .. MaxCost, exits \in BOOLEAN : Commit(cost, exits)
  BY <1>6, Zenon DEF RunBatch, FillMore, RunCycle, Commit, StopWith
<1>7. CASE UNCHANGED advVars
  BY <1>7, Zenon DEF advVars
<1>. QED BY <1>2, <1>3, <1>4, <1>5, <1>6, <1>7, Zenon DEF AdvanceNext, LoopNext, CallerDone

-----------------------------------------------------------------------------
(* Peripheral time. *)

(* Quotient and remainder, and their uniqueness. *)
LEMMA Division ==
  ASSUME NEW i \in Nat \ {0}, NEW t \in Nat
  PROVE  /\ t \div i \in Nat /\ t % i \in Nat /\ t % i < i
         /\ t = i * (t \div i) + (t % i)
<1>1. t \div i \in Nat
  OBVIOUS
<1>2. t % i \in Nat /\ t % i < i
  OBVIOUS
<1>3. t = i * (t \div i) + (t % i)
  OBVIOUS
<1>. QED BY <1>1, <1>2, <1>3, Zenon

(* Quotient and remainder are determined by their sum. *)
LEMMA DivisionUnique ==
  ASSUME NEW i \in Nat \ {0}, NEW k \in Nat, NEW s \in Nat, s < i
  PROVE  (i * k + s) \div i = k /\ (i * k + s) % i = s
OBVIOUS

(* A window of n cycles that ends by the next grid point, or is one step   *)
(* no longer than the interval, crosses a grid point exactly when the      *)
(* commit says it is due for the tick walk.                                *)
LEMMA NextGridPoint ==
  ASSUME NEW t \in Nat, NEW n \in Nat, n >= 1,
         max_step_cycles <= peripheral_tick_interval,
         \/ n <= peripheral_tick_interval - (t % peripheral_tick_interval)
         \/ n <= max_step_cycles
  PROVE  LET i == peripheral_tick_interval
             due == IF max_step_cycles > 1 THEN (t + n) \div i # t \div i
                    ELSE (t + n) % i = 0
         IN i * ((t + n) \div i) = i * (t \div i) + (IF due THEN i ELSE 0)
<1>. DEFINE i == peripheral_tick_interval
            q == t \div i
            r == t % i
            due == IF max_step_cycles > 1 THEN (t + n) \div i # q ELSE (t + n) % i = 0
<1>1. /\ i \in Nat \ {0} /\ max_step_cycles \in Nat /\ max_step_cycles >= 1
      /\ max_step_cycles <= i
      /\ (n <= i - r) \/ (n <= max_step_cycles)
  BY Constants
<1>2. q \in Nat /\ r \in Nat /\ r < i /\ t = i * q + r
  BY <1>1, Division, Zenon
<1>. HIDE DEF i, q, r
<1>3. i * q \in Nat /\ i * (q + 1) = i * q + i
  BY <1>1, <1>2
<1>4. CASE r + n < i
  <2>1. t + n = i * q + (r + n)
    BY <1>2, <1>3
  <2>2. (t + n) \div i = q /\ (t + n) % i = r + n
    <3>1. r + n \in Nat
      BY <1>2
    <3>2. (i * q + (r + n)) \div i = q /\ (i * q + (r + n)) % i = r + n
      BY <1>1, <1>2, <1>4, <3>1, DivisionUnique, Zenon
    <3>. QED BY <2>1, <3>2, Zenon
  <2>3. ~due
    BY <1>2, <2>2
  <2>. QED BY <1>3, <2>2, <2>3 DEF i, q
<1>5. CASE r + n >= i
  <2>1. t + n = i * (q + 1) + (r + n - i)
    BY <1>1, <1>2, <1>3
  <2>2. r + n - i \in Nat /\ r + n - i < i
    BY <1>1, <1>2, <1>5
  <2>3. (t + n) \div i = q + 1 /\ (t + n) % i = r + n - i
    <3>1. q + 1 \in Nat
      BY <1>2
    <3>2. /\ (i * (q + 1) + (r + n - i)) \div i = q + 1
          /\ (i * (q + 1) + (r + n - i)) % i = r + n - i
      BY <1>1, <2>2, <3>1, DivisionUnique, Zenon
    <3>. QED BY <2>1, <3>2, Zenon
  <2>4. max_step_cycles = 1 => r + n - i = 0
    BY <1>1, <1>2, <1>5
  <2>5. due
    BY <1>1, <1>2, <2>3, <2>4
  <2>. QED BY <1>3, <2>3, <2>5, Zenon DEF i, q
<1>. QED BY <1>1, <1>2, <1>4, <1>5

(* The machines whose peripheral time is that of the grid: nothing skips   *)
(* or charges cycles beside the windows, no step is longer than the        *)
(* interval, and above interval 1 the second core does not park.           *)
OnTheGrid ==
  /\ NoIdleSkip /\ ~SupplyRouted /\ MaxCost = 0
  /\ max_step_cycles <= peripheral_tick_interval
  /\ peripheral_tick_interval > 1 => "parked" \notin SecondaryStates

(* A batch is planned to end by the next grid point, or is a single step. *)
LEMMA BatchOfTheGrid ==
  ASSUME WindowInv, OnTheGrid, Mode = "batch"
  PROVE  /\ secondary # "parked"
         /\ \/ PlannedWindow.steps * max_step_cycles <= UntilTick
            \/ PlannedWindow.steps * max_step_cycles <= max_step_cycles
<1>1. secondary # "parked" /\ (peripheral_tick_interval = 1 => secondary = "none")
  BY ModeChosen, Constants DEF WindowInv, TypeOK, OnTheGrid
<1>2. Pinned \/ TickClauses = {StepsWithin(UntilTick)}
  <2>1. ~Parked
    BY <1>1, Zenon DEF Parked
  <2>2. ResetHeld => peripheral_tick_interval > 1
    BY <1>1, Constants DEF ResetHeld
  <2>. QED BY <2>1, <2>2, Zenon DEF TickClauses
<1>3. /\ PlannedWindow.steps \in Nat
      /\ \A c \in TickClauses : PlannedWindow.steps <= c \/ PlannedWindow.steps = 1
  BY PlanKeepsClauses, Zenon DEF WindowInv, CpuWindow
<1>4. CASE PlannedWindow.steps = 1
  BY <1>1, <1>4, Constants
<1>5. CASE PlannedWindow.steps <= StepsWithin(UntilTick) /\ PlannedWindow.steps # 1
  <2>1. UntilTick \in Nat
    BY ClausesAreNats, Zenon DEF WindowInv
  <2>2. /\ StepsWithin(UntilTick) \in Nat /\ StepsWithin(UntilTick) >= 1
        /\ \/ StepsWithin(UntilTick) = 1
           \/ StepsWithin(UntilTick) * max_step_cycles <= UntilTick
    BY <2>1, StepsFit, Zenon
  <2>3. PlannedWindow.steps * max_step_cycles <= StepsWithin(UntilTick) * max_step_cycles
        /\ PlannedWindow.steps * max_step_cycles \in Nat
        /\ StepsWithin(UntilTick) * max_step_cycles \in Nat
    BY <1>3, <1>5, <2>2, TimesMonotone, Constants, Zenon
  <2>4. CASE StepsWithin(UntilTick) = 1
    <3>1. StepsWithin(UntilTick) * max_step_cycles = max_step_cycles
      BY <2>4, Constants
    <3>. QED BY <1>1, <2>3, <3>1, Zenon
  <2>5. CASE StepsWithin(UntilTick) * max_step_cycles <= UntilTick
    BY <1>1, <2>1, <2>3, <2>5
  <2>. QED BY <2>2, <2>4, <2>5, Zenon
<1>6. Pinned => PlannedWindow.steps = 1
  BY PinnedPlan, Zenon
<1>. QED BY <1>2, <1>3, <1>4, <1>5, <1>6, Zenon

(* What fits the plan fits the grid. *)
LEMMA ShorterFits ==
  ASSUME NEW a \in Nat, NEW b \in Nat, a <= b, WithinGrid(b), window.start \in Nat
  PROVE  WithinGrid(a)
<1>1. window.start % peripheral_tick_interval \in Nat
  BY Division, Constants
<1>. QED BY <1>1, Constants DEF WithinGrid

(* The fill of a timed core stops at the tick boundary. *)
LEMMA FillStopsAtTick ==
  ASSUME WindowInv, NEW n \in Nat, NEW cycles \in Nat, FillMore(n, cycles)
  PROVE  progress.cycles + cycles <= window.to_cycles
<1>1. /\ progress.cycles \in Nat /\ window.to_cycles \in Nat
      /\ progress.primary_steps \in Nat /\ window.max_steps \in Nat
  BY Zenon DEF WindowInv, TypeOK, CpuWindow, CoreProgress
<1>2. FillLeft >= max_step_cycles /\ n <= FillRoom /\ cycles <= n * max_step_cycles
  BY <1>1, Constants DEF FillMore
<1>3. FillLeft = window.to_cycles - progress.cycles /\ FillLeft \in Nat
  BY <1>1, <1>2, Constants DEF FillLeft, SaturatingSub
<1>. DEFINE d == FillLeft \div max_step_cycles
<1>4. /\ d \in Nat /\ d >= 1 /\ d * max_step_cycles <= FillLeft
  BY <1>2, <1>3, Constants
<1>. HIDE DEF d
<1>5. FillRoom <= d /\ FillRoom \in Int
  <2>1. Max({d, 1}) = d
    BY <1>4, MaxOfTwo
  <2>2. FillRoom = Min({d, window.max_steps - progress.primary_steps})
    BY <2>1, Zenon DEF FillRoom, d
  <2>3. window.max_steps - progress.primary_steps \in Int
    BY <1>1
  <2>. QED BY <1>4, <2>2, <2>3, MinOfTwo
<1>6. n * max_step_cycles <= d * max_step_cycles /\ n * max_step_cycles \in Nat
      /\ d * max_step_cycles \in Nat
  BY <1>2, <1>4, <1>5, TimesMonotone, Constants
<1>. QED BY <1>1, <1>2, <1>3, <1>4, <1>6

(* Every step delivers the peripheral time up to the last grid point.      *)
LEMMA StepGrid ==
  ASSUME OnTheGrid, WindowInv, WindowInv', GridInv, [AdvanceNext]_advVars
  PROVE  GridInv'
<1>. DEFINE i == peripheral_tick_interval
<1>1. phase' \notin {"idle", "skip", "retry"}
  BY NeverIdle, Zenon DEF GridInv, OnTheGrid
<1>2. i > 1 => secondary' # "parked"
  BY Zenon DEF WindowInv, TypeOK, OnTheGrid
<1>3. ~SupplyRouted /\ ~supply_held /\ MaxCost = 0 /\ i \in Nat /\ i >= 1
  BY Constants, Zenon DEF OnTheGrid, GridInv
<1>4. ASSUME UNCHANGED <<supply_held, total_cycles, ticked>>, Between, ~InWindow'
      PROVE  GridInv'
  BY <1>1, <1>2, <1>4, Zenon DEF GridInv
<1>5. ASSUME UNCHANGED <<supply_held, ticked, window>>, InWindow, InWindow',
             progress.mode \in {"direct", "batch"}, progress'.mode = progress.mode,
             WithinGrid(progress'.cycles), progress'.secondary_steps = 0 \/ progress.mode = "direct",
             UNCHANGED secondary \/ phase' = "commit",
             phase # "commit"
      PROVE  GridInv'
  <2>1. ~Between'
    BY <1>5, Zenon DEF Between, InWindow
  <2>2. WithinGrid(progress'.cycles) = WithinGrid(progress.cycles)'
    BY <1>5, Zenon DEF WithinGrid
  <2>3. WithinGrid(window.steps * max_step_cycles)' = WithinGrid(window.steps * max_step_cycles)
    BY <1>5, Zenon DEF WithinGrid
  <2>. QED BY <1>1, <1>2, <1>3, <1>5, <2>1, <2>2, <2>3, Zenon DEF GridInv
<1>6. ASSUME phase = "run", progress.mode \in {"direct", "batch"}, phase' = "stuck",
             UNCHANGED <<supply_held, total_cycles, ticked>>
      PROVE  GridInv'
  <2>1. ticked = i * (total_cycles \div i)
    BY <1>6, StartOfWindow, Zenon DEF GridInv, InWindow
  <2>. QED BY <1>1, <1>2, <1>3, <1>6, <2>1, Zenon DEF GridInv, Between, InWindow
<1>7. ASSUME NEW r \in Requests, Advance(r) \/ AdvanceHeld(r)
      PROVE  GridInv'
  BY <1>3, <1>4, <1>7, Zenon DEF Advance, AdvanceHeld, Begin, clock, Between, InWindow
<1>8. CASE SupplyMoves
  BY <1>3, <1>8, Zenon DEF SupplyMoves
<1>9. CASE StopAtPrimary \/ StopAtSecondary \/ CheckLimits
  BY <1>4, <1>9, Zenon
     DEF StopAtPrimary, StopAtSecondary, CheckLimits, StopWith, clock, call, Between, InWindow
<1>10. CASE IdleDrain \/ SkipNothing \/ StopNoProgress \/ \E n \in Steps : Skip(n)
  BY <1>1, <1>4, <1>10, Zenon
     DEF IdleDrain, SkipNothing, StopNoProgress, Skip, StopWith, clock, call, Between,
         InWindow, GridInv
<1>11. CASE Plan
  <2>1. /\ phase = "plan" /\ phase' = "run" /\ window' = PlannedWindow
        /\ progress'.cycles = 0 /\ progress'.secondary_steps = 0 /\ progress'.mode = Mode
        /\ UNCHANGED <<total_cycles, ticked, supply_held, secondary>>
    BY <1>11, PlanEffect DEF clock, call, cores
  <2>2. /\ window'.start = total_cycles
        /\ window'.to_cycles = i - (total_cycles % i)
        /\ total_cycles \in Nat
    BY <2>1, PlanKeepsClauses, Zenon DEF UntilTick, WindowInv, TypeOK
  <2>3. ticked = i * (total_cycles \div i)
    BY <2>1, Zenon DEF GridInv, Between
  <2>4. Mode = "per-cycle" => ticked = total_cycles
    BY <2>2, <2>3, ModeChosen DEF WindowInv
  <2>5. WithinGrid(progress.cycles)'
    BY <2>1, Constants DEF WithinGrid
  <2>6. Mode = "batch" =>
          secondary # "parked" /\ WithinGrid(window.steps * max_step_cycles)'
    BY <2>1, <2>2, BatchOfTheGrid, Zenon DEF WithinGrid, UntilTick
  <2>. QED BY <1>1, <1>2, <1>3, <2>1, <2>2, <2>3, <2>4, <2>5, <2>6, Zenon DEF GridInv, Between
<1>12. ASSUME NEW cycles \in 0 .. max_step_cycles, RunDirectAlone(cycles)
       PROVE  GridInv'
  <2>1. CASE cycles = 0
    <3>1. total_cycles' = total_cycles
      BY <1>12, <2>1 DEF RunDirectAlone, WindowInv, TypeOK
    <3>. QED BY <1>6, <1>12, <2>1, <3>1, Zenon DEF RunDirectAlone, call
  <2>2. CASE cycles # 0
    <3>1. progress'.mode = "direct" /\ progress'.cycles = cycles
      BY <1>12, Zenon DEF RunDirectAlone, WindowInv, TypeOK, CoreProgress
    <3>2. WithinGrid(progress'.cycles)
      BY <3>1, Constants DEF WithinGrid
    <3>. QED BY <1>5, <1>12, <2>2, <3>1, <3>2, Zenon DEF RunDirectAlone, call, InWindow
  <2>. QED BY <2>1, <2>2, Zenon
<1>13. ASSUME NEW release \in Releases, RunDirectDual(release)
       PROVE  GridInv'
  <2>1. progress'.mode = "direct" /\ progress'.cycles = 1
    BY <1>13, Zenon DEF RunDirectDual, WindowInv, TypeOK, CoreProgress
  <2>2. WithinGrid(progress'.cycles)
    BY <2>1, Constants, Zenon DEF WithinGrid
  <2>. QED BY <1>5, <1>13, <2>1, <2>2, Zenon DEF RunDirectDual, call, InWindow
<1>14. ASSUME NEW n \in Steps, NEW cycles \in Steps, NEW release \in Releases,
              RunBatch(n, cycles, release)
       PROVE  GridInv'
  <2>1. /\ phase = "run" /\ InWindow /\ progress.mode = "batch"
        /\ UNCHANGED <<supply_held, total_cycles, ticked, window, secondary>>
        /\ n \in Nat /\ cycles \in Nat /\ n <= window.steps
        /\ cycles <= n * max_step_cycles
        /\ phase' = IF n = 0 THEN "stuck" ELSE "fill"
    BY <1>14, Constants DEF RunBatch, Steps, clock, call, InWindow
  <2>2. CASE n = 0
    BY <1>6, <2>1, <2>2, Zenon
  <2>3. CASE n # 0
    <3>1. progress'.mode = "batch" /\ progress'.cycles = cycles
          /\ progress'.secondary_steps = progress.secondary_steps
      BY <1>14, Zenon DEF RunBatch, WindowInv, TypeOK, CoreProgress
    <3>2. progress.secondary_steps = 0 /\ WithinGrid(window.steps * max_step_cycles)
      BY <2>1, Zenon DEF GridInv
    <3>3. window.steps \in Nat /\ window.start \in Nat
      BY Zenon DEF WindowInv, TypeOK, CpuWindow
    <3>4. /\ n * max_step_cycles <= window.steps * max_step_cycles
          /\ n * max_step_cycles \in Nat /\ window.steps * max_step_cycles \in Nat
      BY <2>1, <3>3, TimesMonotone, Constants, Zenon
    <3>5. cycles <= window.steps * max_step_cycles
      BY <2>1, <3>4
    <3>6. WithinGrid(cycles)
      BY <2>1, <3>2, <3>3, <3>4, <3>5, ShorterFits, Zenon
    <3>. QED BY <1>5, <2>1, <2>3, <3>1, <3>2, <3>6, Zenon DEF InWindow
  <2>. QED BY <2>2, <2>3, Zenon
<1>15. ASSUME NEW n \in Steps, NEW cycles \in Steps, FillMore(n, cycles)
       PROVE  GridInv'
  <2>1. /\ phase = "fill" /\ phase' = "fill" /\ InWindow /\ progress.mode = "batch"
        /\ UNCHANGED <<supply_held, ticked, window, secondary>>
        /\ n \in Nat /\ cycles \in Nat
    BY <1>15, Constants DEF FillMore, Steps, clock, call, InWindow, WindowInv, ProgressInv
  <2>2. progress'.mode = "batch" /\ progress'.cycles = progress.cycles + cycles
        /\ progress'.secondary_steps = progress.secondary_steps
    BY <1>15, <2>1, Zenon DEF FillMore, WindowInv, TypeOK, CoreProgress
  <2>3. progress.secondary_steps = 0 /\ window.to_cycles = i - (window.start % i)
    BY <2>1, Zenon DEF GridInv
  <2>4. WithinGrid(progress'.cycles)
    BY <1>15, <2>1, <2>2, <2>3, FillStopsAtTick, Zenon DEF WithinGrid
  <2>. QED BY <1>5, <2>1, <2>2, <2>3, <2>4, Zenon DEF InWindow
<1>16. CASE EndBatch
  <2>1. /\ phase = "fill" /\ phase' = "commit" /\ InWindow /\ progress.mode = "batch"
        /\ UNCHANGED <<supply_held, ticked, window>>
    BY <1>16, Zenon DEF EndBatch, clock, call, InWindow, WindowInv, ProgressInv
  <2>2. secondary # "parked" /\ progress.secondary_steps = 0 /\ WithinGrid(progress.cycles)
    BY <2>1, Zenon DEF GridInv
  <2>3. progress' = progress
    BY <1>16, <2>2, Zenon DEF EndBatch
  <2>. QED BY <1>5, <2>1, <2>2, <2>3, Zenon DEF InWindow
<1>17. ASSUME NEW release \in Releases, NEW cost \in 0 .. MaxCost, RunCycle(release, cost)
       PROVE  GridInv'
  <2>1. /\ phase = "run" /\ progress.mode = "per-cycle" /\ InWindow /\ InWindow'
        /\ cost = 0 /\ ticked' = ticked + i /\ total_cycles' = total_cycles + 1 + cost
        /\ UNCHANGED <<supply_held, window>>
    BY <1>3, <1>17 DEF RunCycle, call, InWindow
  <2>2. progress'.mode = "per-cycle"
    BY <1>17, Zenon DEF RunCycle, WindowInv, TypeOK, CoreProgress
  <2>3. i = 1 /\ ticked = total_cycles /\ total_cycles \in Nat
    BY <2>1, Zenon DEF GridInv, WindowInv, ProgressInv, TypeOK
  <2>4. ~Between'
    BY <2>1, Zenon DEF Between, InWindow
  <2>. QED BY <1>1, <1>2, <1>3, <2>1, <2>2, <2>3, <2>4 DEF GridInv
<1>18. CASE RunCycleNothing
  <2>1. /\ phase = "run" /\ progress.mode = "per-cycle" /\ InWindow
        /\ phase' \in {"stuck", "commit"}
        /\ UNCHANGED <<supply_held, ticked, total_cycles, window, progress>>
    BY <1>18, Zenon DEF RunCycleNothing, clock, call, InWindow
  <2>2. i = 1 /\ ticked = total_cycles /\ total_cycles \in Nat
    BY <2>1, Zenon DEF GridInv, WindowInv, ProgressInv, TypeOK
  <2>3. ticked = i * (total_cycles \div i)
    BY <2>2
  <2>4. ~(Between' /\ InWindow') /\ (InWindow' => ~Between')
    BY Zenon DEF Between, InWindow
  <2>. QED BY <1>1, <1>2, <1>3, <2>1, <2>2, <2>3, <2>4, Zenon DEF GridInv
<1>19. CASE CpuFails
  BY <1>1, <1>2, <1>19, Zenon DEF CpuFails, StopWith, call, Between, InWindow, GridInv
<1>20. ASSUME NEW cost \in 0 .. MaxCost, NEW exits \in BOOLEAN, Commit(cost, exits)
       PROVE  GridInv'
  <2>1. /\ phase = "commit" /\ InWindow /\ ~InWindow' /\ cost = 0
        /\ total_cycles' = WindowEnd + cost /\ ticked' = ticked + TickElapsed
        /\ UNCHANGED supply_held
    BY <1>3, <1>20, CommitEffect DEF InWindow
  <2>2. total_cycles' = WindowEnd
    BY <2>1, WindowEndAt
  <2>3. CASE progress.mode = "per-cycle"
    <3>1. i = 1 /\ ticked = total_cycles /\ total_cycles \in Nat /\ WindowEnd = total_cycles
      BY <2>1, <2>3 DEF GridInv, WindowInv, ProgressInv, TypeOK, WindowEnd
    <3>2. TickElapsed = 0
      BY <2>3, Zenon DEF TickElapsed
    <3>3. ticked' = i * (total_cycles' \div i)
      BY <2>1, <2>2, <3>1, <3>2
    <3>. QED BY <1>1, <1>2, <1>3, <2>1, <3>3, Zenon DEF GridInv
  <2>4. CASE progress.mode # "per-cycle"
    <3>1. /\ ticked = i * (window.start \div i) /\ WithinGrid(progress.cycles)
          /\ progress.mode = "batch" => progress.secondary_steps = 0
      BY <2>1, <2>4, Zenon DEF GridInv
    <3>2. /\ WindowEnd = window.start + progress.cycles
          /\ progress.cycles >= 1 /\ progress.cycles \in Nat /\ window.start \in Nat
      BY <2>1, <2>4, WindowEndAt DEF WindowInv, PositionInv, ProgressInv
    <3>3. TickElapsed = IF OnGrid THEN i ELSE 0
      BY <2>4, <3>1 DEF TickElapsed, Coalesced
    <3>4. i * (WindowEnd \div i) = i * (window.start \div i) + (IF OnGrid THEN i ELSE 0)
      <4>1. max_step_cycles <= peripheral_tick_interval
        BY Zenon DEF OnTheGrid
      <4>. QED BY <3>1, <3>2, <4>1, NextGridPoint, Zenon DEF WithinGrid, OnGrid
    <3>5. ticked' = i * (total_cycles' \div i)
      BY <2>1, <2>2, <3>1, <3>3, <3>4, Zenon
    <3>. QED BY <1>1, <1>2, <1>3, <2>1, <3>5, Zenon DEF GridInv
  <2>. QED BY <2>3, <2>4, Zenon
<1>21. CASE UNCHANGED advVars
  BY <1>21, Zenon DEF advVars, clock, call, cores, GridInv, WithinGrid, Between, InWindow
<1>. QED BY <1>7, <1>8, <1>9, <1>10, <1>11, <1>12, <1>13, <1>14, <1>15, <1>16, <1>17, <1>18,
            <1>19, <1>20, <1>21, Zenon DEF AdvanceNext, LoopNext, CallerDone

(* The tick walk delivers peripheral time on the grid: whatever cut the    *)
(* windows short and whichever paths they ran on, no grid point is lost or *)
(* served twice.                                                           *)
THEOREM PeripheralTimeOnGrid ==
  ASSUME OnTheGrid
  PROVE  AdvanceSpec => []GridTicked
<1>1. AdvanceInit => GridInv
  <2>. SUFFICES ASSUME AdvanceInit PROVE GridInv
    BY Zenon
  <2>1. ~supply_held /\ phase = "stopped" /\ ticked = 0 /\ total_cycles = 0
        /\ (peripheral_tick_interval > 1 => secondary # "parked")
    BY Zenon DEF AdvanceInit, OnTheGrid
  <2>2. 0 = peripheral_tick_interval * (0 \div peripheral_tick_interval)
    BY Constants
  <2>. QED BY <2>1, <2>2, Zenon DEF GridInv, InWindow
<1>2. WindowInv /\ WindowInv' /\ GridInv /\ [AdvanceNext]_advVars => GridInv'
  BY StepGrid, Zenon
<1>3. GridInv => GridTicked
  BY Zenon DEF GridInv, GridTicked, Between
<1>. QED BY <1>1, <1>2, <1>3, WindowInvariant, PTL DEF AdvanceSpec

=============================================================================
