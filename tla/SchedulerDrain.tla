----------------------------- MODULE SchedulerDrain -----------------------------
(****************************************************************************)
(* The machine around the event scheduler: CPU windows cut at the next tick *)
(* boundary and at the next queued deadline, write-context wakes buffered   *)
(* on the bus during a window, and the drain that enqueues them and runs    *)
(* the handlers of the due events.                                          *)
(*                                                                          *)
(* One core, one cycle per instruction. A drain is three phases: "enqueue"  *)
(* moves the buffered wakes to the heap one by one, the due events are then *)
(* collected, and "dispatch" runs their handlers in heap order. Handlers    *)
(* re-arm themselves and write to other peripherals while the batch is      *)
(* being dispatched. A drain follows every window; an idle fast-forward     *)
(* drains, skips to at most the next deadline, and drains again.            *)
(****************************************************************************)
EXTENDS EventScheduler, Sequences

CONSTANTS peripheral_tick_interval,
          ClockedTick,       \* slots whose model requires_clocked_tick()
          MaxDelay,          \* bound: delays asked for
          MaxRequests,       \* bound: wakes asked for by firmware and handlers
          Horizon,           \* bound: the last cycle a window may start before
          NoAlarm            \* model value: no alarm set up before the run

ASSUME DrainAssumption ==
  /\ IsFiniteSet(Slots)
  /\ Tokens # {}
  /\ peripheral_tick_interval \in Nat \ {0}
  /\ ClockedTick \in SUBSET Slots
  /\ MaxDelay \in Nat
  /\ Horizon \in Nat
  /\ NoAlarm \notin Cycles
  /\ MaxCycle >= Horizon + peripheral_tick_interval + MaxDelay + 1

VARIABLES total_cycles,
          current_cycle,            \* the bus's cycle: the next instruction's
          window_end,               \* the cycle the planned window ends at
          pending_schedule,         \* SystemBus::pending_schedule (`by` is history)
          scheduler_bootstrapped,
          alarm,                    \* alarms configured before the first advance
          clocked,                  \* SystemBus::is_peripheral_clocked
          phase,                    \* "plan", "cpu", "enqueue", "dispatch", "skip"
          after,                    \* the phase the drain returns to
          batch,                    \* due_events_scratch, the part not yet run
          requests,                 \* history: number of wakes asked for
          armed,                    \* history: wakes asked for
          served                    \* history: handler runs, with their cycle

machineVars == <<total_cycles, current_cycle, window_end, pending_schedule,
                 scheduler_bootstrapped, alarm, clocked, phase, after, batch>>
historyVars == <<requests, armed, served>>
allVars == <<vars, machineVars, historyVars>>

Wake == [idx : Slots, deadline : Cycles, token : Tokens]
AlarmToken == CHOOSE k \in Tokens : TRUE

Larger(m, n) == IF m > n THEN m ELSE n
Smaller(m, n) == IF m < n THEN m ELSE n

DrainInit ==
  /\ Init
  /\ total_cycles = 0
  /\ current_cycle = 0
  /\ window_end = 0
  /\ pending_schedule = <<>>
  /\ scheduler_bootstrapped = FALSE
  /\ alarm \in [Slots -> (0 .. Horizon) \cup {NoAlarm}]
  /\ clocked = [i \in Slots |-> TRUE]
  /\ phase = "plan"
  /\ after = "plan"
  /\ batch = {}
  /\ requests = 0
  /\ armed = {}
  /\ served = {}

--------------------------------------------------------------------------------
(* The CPU window. *)

Deadlines == {e.deadline : e \in heap}

\* Mutant: one cycle past the tick boundary.
UntilTickLate == peripheral_tick_interval - (total_cycles % peripheral_tick_interval) + 1

UntilTick == peripheral_tick_interval - (total_cycles % peripheral_tick_interval)

UntilDeadline(deadline) == IF deadline > total_cycles THEN deadline - total_cycles ELSE 1

(* plan_cpu_window for one core: to the next tick boundary, and with an     *)
(* interval above one not past the next queued deadline. The other clauses  *)
(* (limits, batch policy) can only shorten it.                              *)
Window ==
  IF peripheral_tick_interval > 1 /\ heap # {}
  THEN LET next == CHOOSE d \in Deadlines : \A f \in Deadlines : d <= f
       IN  Smaller(UntilTick, UntilDeadline(next))
  ELSE UntilTick

Plan ==
  /\ phase = "plan"
  /\ total_cycles < Horizon
  /\ \E n \in 1 .. Window : window_end' = total_cycles + n
  /\ current_cycle' = total_cycles
  /\ phase' = "cpu"
  /\ UNCHANGED <<vars, total_cycles, pending_schedule, scheduler_bootstrapped, alarm,
                 clocked, after, batch, historyVars>>

(* The deadline collect_scheduled_events gives a wake asked for with delay d. *)
WriteDeadline(d) == current_cycle + 1 + d

Requested(by, i, d, k) ==
  [idx |-> i, deadline |-> WriteDeadline(d), token |-> k, by |-> by]

Request(i, d, k) ==
  /\ requests < MaxRequests
  /\ requests' = requests + 1
  /\ pending_schedule' =
       Append(pending_schedule, Requested("firmware", i, d, k))
  /\ armed' = armed \cup {[idx |-> i, token |-> k, deadline |-> WriteDeadline(d)]}

(* One instruction: plain, an MMIO write that asks for a wake, or one that  *)
(* switches a peripheral clock. step_batch publishes the next cycle.        *)
Retire ==
  /\ phase = "cpu"
  /\ current_cycle < window_end
  /\ current_cycle' = current_cycle + 1
  /\ UNCHANGED <<vars, total_cycles, window_end, scheduler_bootstrapped, alarm, phase,
                 after, batch, served>>

Compute ==
  /\ Retire
  /\ UNCHANGED <<pending_schedule, clocked, requests, armed>>

MmioWrite(i, d, k) ==
  /\ Retire
  /\ Request(i, d, k)
  /\ UNCHANGED clocked

SwitchClock(i) ==
  /\ Retire
  /\ requests < MaxRequests
  /\ requests' = requests + 1
  /\ clocked' = [clocked EXCEPT ![i] = ~ @]
  /\ UNCHANGED <<pending_schedule, armed>>

--------------------------------------------------------------------------------
(* The drain. *)

\* Mutant: the peripheral is asked before it is synced.
BootDelayUnsynced(cycle, i) == alarm[i]

(* The one-time bootstrap: every peripheral is synced to the committed      *)
(* cycle and then asked for the wakes that its set-up calls for, as delays  *)
(* from the cycle it was synced to.                                         *)
BootDelay(cycle, i) == IF alarm[i] > cycle THEN alarm[i] - cycle ELSE 0

BootWakes(cycle) ==
  {[idx |-> i, deadline |-> cycle + BootDelay(cycle, i), token |-> AlarmToken,
    by |-> "setup"] :
     i \in {s \in Slots : alarm[s] # NoAlarm}}

(* The bus visits its peripherals in one fixed order.                       *)
InBusOrder(wakes) ==
  CHOOSE q \in [1 .. Cardinality(wakes) -> wakes] :
    \A w \in wakes : \E n \in DOMAIN q : q[n] = w

(* drain_scheduler_events at a cycle: bootstrap once, then advance_to. *)
StartDrain(cycle) ==
  /\ AdvanceTo(cycle)
  /\ pending_schedule' = IF scheduler_bootstrapped THEN pending_schedule
                         ELSE pending_schedule \o InBusOrder(BootWakes(cycle))
  /\ scheduler_bootstrapped' = TRUE
  /\ phase' = "enqueue"
  /\ UNCHANGED <<alarm, clocked, batch, historyVars>>

Commit ==
  /\ phase = "cpu"
  /\ current_cycle = window_end
  /\ total_cycles' = window_end
  /\ StartDrain(window_end)
  /\ UNCHANGED <<current_cycle, window_end, after>>

(* try_idle_fast_forward of a waiting core: drain first, since a due event  *)
(* may wake it, then skip to at most the next deadline and drain again.     *)
BeginIdle ==
  /\ phase = "plan"
  /\ total_cycles < Horizon
  /\ StartDrain(total_cycles)
  /\ after' = "skip"
  /\ UNCHANGED <<total_cycles, current_cycle, window_end>>

SkipAllowed(n) == \A d \in Deadlines : n <= d - total_cycles

Skip ==
  /\ phase = "skip"
  /\ \E n \in 1 .. Horizon - total_cycles :
       /\ SkipAllowed(n)
       /\ total_cycles' = total_cycles + n
       /\ current_cycle' = total_cycles + n
       /\ StartDrain(total_cycles + n)
  /\ after' = "plan"
  /\ UNCHANGED window_end

(* The core does not wait after all, or a handler of that drain armed a     *)
(* wake for `now`: nothing to skip.                                         *)
SkipNothing ==
  /\ phase = "skip"
  /\ phase' = "plan"
  /\ after' = "plan"
  /\ UNCHANGED <<vars, total_cycles, current_cycle, window_end, pending_schedule,
                 scheduler_bootstrapped, alarm, clocked, batch, historyVars>>

(* Enqueue one buffered wake, no earlier than now. *)
EnqueueAt(deadline) == Larger(deadline, now)

Enqueue ==
  /\ phase = "enqueue"
  /\ pending_schedule # <<>>
  /\ LET wake == Head(pending_schedule)
     IN  Schedule(EnqueueAt(wake.deadline), wake.idx, wake.token)
  /\ pending_schedule' = Tail(pending_schedule)
  /\ UNCHANGED <<total_cycles, current_cycle, window_end, scheduler_bootstrapped, alarm,
                 clocked, phase, after, batch, historyVars>>

(* Everything buffered is queued: collect what is due. An empty scheduler   *)
(* is left alone, which is what draining an empty heap does as well.        *)
Collect ==
  /\ phase = "enqueue"
  /\ pending_schedule = <<>>
  /\ DrainDue
  /\ batch' = DueEvents
  /\ phase' = IF DueEvents = {} THEN after ELSE "dispatch"
  /\ UNCHANGED <<total_cycles, current_cycle, window_end, pending_schedule,
                 scheduler_bootstrapped, alarm, clocked, after, historyVars>>

IsNext(e) == e \in batch /\ \A f \in batch \ {e} : Before(e, f)

TakeFromBatch(e) ==
  /\ phase = "dispatch"
  /\ IsNext(e)
  /\ batch' = batch \ {e}
  /\ phase' = IF batch' = {} THEN after ELSE "dispatch"
  /\ UNCHANGED <<total_cycles, current_cycle, window_end, scheduler_bootstrapped, alarm,
                 clocked, after>>

Gated(e) == e.peripheral_idx \in ClockedTick /\ ~ clocked[e.peripheral_idx]

\* Mutant: the wake of a gated peripheral is dropped.
DeferDropped(e) == UNCHANGED vars

(* A clocked peripheral whose clock is off: retry one cycle later. *)
Defer(e) == Schedule(now + 1, e.peripheral_idx, e.event_token)

DispatchGated(e) ==
  /\ TakeFromBatch(e)
  /\ Gated(e)
  /\ Defer(e)
  /\ UNCHANGED <<pending_schedule, historyVars>>

(* on_event runs. It may ask to be run again after some delay, possibly     *)
(* zero, and apply_event_result may write to a peripheral, whose wake goes  *)
(* through the bus's buffer like any other. Each is a set of at most one.   *)
AtMostOne(S) == {{}} \cup {{x} : x \in S}

HandlerWrites ==
  {Requested("handler", i, d, k) : i \in Slots, d \in 0 .. MaxDelay, k \in Tokens}

Reschedule(e, delays) ==
  \/ delays = {} /\ UNCHANGED vars
  \/ \E d \in delays : Schedule(now + d, e.peripheral_idx, e.event_token)

Handler(e, delays, writes) ==
  /\ TakeFromBatch(e)
  /\ ~ Gated(e)
  /\ requests' = requests + Cardinality(delays) + Cardinality(writes)
  /\ requests' <= MaxRequests
  /\ Reschedule(e, delays)
  /\ pending_schedule' = pending_schedule \o InBusOrder(writes)
  /\ armed' = armed
       \cup {[idx |-> e.peripheral_idx, token |-> e.event_token, deadline |-> now + d] :
               d \in delays}
       \cup {[idx |-> w.idx, token |-> w.token, deadline |-> w.deadline] : w \in writes}
  /\ served' = served \cup {[idx |-> e.peripheral_idx, token |-> e.event_token, at |-> now]}

(* Past the horizon the host asks for no further advance. *)
Stopped ==
  /\ phase = "plan"
  /\ total_cycles >= Horizon
  /\ UNCHANGED allVars

DrainNext ==
  \/ Plan
  \/ Compute
  \/ \E i \in Slots, d \in 0 .. MaxDelay, k \in Tokens : MmioWrite(i, d, k)
  \/ \E i \in ClockedTick : SwitchClock(i)
  \/ Commit
  \/ BeginIdle
  \/ Skip
  \/ SkipNothing
  \/ Enqueue
  \/ Collect
  \/ \E e \in batch :
       \/ DispatchGated(e)
       \/ \E delays \in AtMostOne(0 .. MaxDelay), writes \in AtMostOne(HandlerWrites) :
            Handler(e, delays, writes)
  \/ Stopped

DrainSpec == DrainInit /\ [][DrainNext]_allVars

--------------------------------------------------------------------------------

(* The handler of event e ran in cycle c. *)
Ran(e, c) == [idx |-> e.peripheral_idx, token |-> e.event_token, at |-> c] \in served

(* A wake is on time.  One asked for in mid-window is queued less than one  *)
(* tick interval after its deadline; the exception is a wake that a handler *)
(* of the drain before an idle skip left in the buffer, which the skip does *)
(* not see.  A queued wake runs in the cycle of its deadline, and one that  *)
(* its own handler re-armed for the cycle it ran in comes exactly one cycle *)
(* later: neither again in that drain nor after a longer window.            *)
WakesOnTime ==
  /\ phase = "enqueue" =>
       \A n \in DOMAIN pending_schedule :
         pending_schedule[n].by # "handler" \/ total_cycles = window_end =>
           now - pending_schedule[n].deadline < peripheral_tick_interval
  /\ phase = "dispatch" =>
       \A e \in batch : \/ e.deadline = now
                        \/ e.deadline + 1 = now /\ Ran(e, e.deadline)

(* The re-entrancy promise of EventScheduler: a wake that a handler arms    *)
(* for `now` lands at the end of the current drain batch, so that a drain   *)
(* leaves nothing queued for the cycle it served.                           *)
ArmedForNowInBatch ==
  phase \in {"plan", "skip"} => \A e \in heap : e.deadline > now

(* No request is forgotten, however requests merge in the de-duplication    *)
(* index, however often a gated wake is retried: a wake that was asked for  *)
(* has been served at or after its deadline or is still on its way.         *)
NoRequestForgotten ==
  \A w \in armed :
    \/ \E s \in served : s.idx = w.idx /\ s.token = w.token /\ s.at >= w.deadline
    \/ \E n \in DOMAIN pending_schedule :
         pending_schedule[n].idx = w.idx /\ pending_schedule[n].token = w.token
    \/ \E e \in heap \cup batch : e.peripheral_idx = w.idx /\ e.event_token = w.token

(* The bootstrap is exact: an alarm set up before the run that lies beyond  *)
(* the first window runs its handler at the alarm's own cycle, as the       *)
(* per-cycle walk does, provided its clock is never gated.                  *)
BootstrapExact ==
  \A i \in Slots \ ClockedTick :
    (alarm[i] # NoAlarm /\ alarm[i] > peripheral_tick_interval
       /\ phase = "plan" /\ now >= alarm[i]) =>
      [idx |-> i, token |-> AlarmToken, at |-> alarm[i]] \in served
================================================================================
