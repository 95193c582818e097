----------------------------- MODULE EventScheduler -----------------------------
(****************************************************************************)
(* The event scheduler: a min-heap of peripheral wakes ordered by           *)
(* (deadline, event_id), a de-duplication index that holds the key of every *)
(* queued wake, the number of live wakes of each peripheral, and the        *)
(* statistics that make a leaking peripheral visible.                       *)
(*                                                                          *)
(* The heap is a set of events: a binary heap is only ever asked for its    *)
(* minimum, and the order is total because event ids are unique.            *)
(****************************************************************************)
EXTENDS Integers, FiniteSets

CONSTANTS Slots,                             \* bus peripheral indices
          SUBSYSTEM_PERIPHERAL_IDX,          \* the sentinel index that is no slot
          Tokens,                            \* event tokens
          MAX_LIVE_EVENTS_PER_PERIPHERAL,    \* residency ceiling
          DEDUP_HASH_PROMOTE_LEN,            \* index length that promotes it
          MaxCycle,                          \* bound: last cycle and deadline
          MaxEvents,                         \* bound: accepted schedule() calls
          MaxClamps                          \* bound: past deadlines asked for

ASSUME ConstantsAssumption ==
  /\ SUBSYSTEM_PERIPHERAL_IDX \notin Slots
  /\ MAX_LIVE_EVENTS_PER_PERIPHERAL \in Nat
  /\ DEDUP_HASH_PROMOTE_LEN \in Nat \ {0}
  /\ MaxCycle \in Nat
  /\ MaxEvents \in Nat
  /\ MaxClamps \in Nat

DEDUP_HASH_DEMOTE_LEN == DEDUP_HASH_PROMOTE_LEN \div 2

VARIABLES now,             \* the scheduler's clock
          heap,            \* queued events
          next_event_id,
          queued,          \* DedupIndex: keys of the queued events
          queued_form,     \* its representation, "Linear" or "Hashed"
          live_per_peripheral,
          stats,           \* SchedulerStats
          due,             \* the caller's buffer, filled by drain_due_into
          delivered        \* history: every event ever handed to a caller

vars == <<now, heap, next_event_id, queued, queued_form, live_per_peripheral, stats, due, delivered>>

Indices == Slots \cup {SUBSYSTEM_PERIPHERAL_IDX}
Cycles  == 0 .. MaxCycle

ScheduledEvent ==
  [deadline : Cycles, event_id : Nat, peripheral_idx : Indices, event_token : Tokens]

SchedulerStats ==
  [past_schedule_clamps : Nat,
   live_event_ceiling_trips : Nat,
   max_queued_events : Nat,
   max_live_events_per_peripheral : Nat,
   arms_per_peripheral : [Slots -> Nat],
   arms_at_now_per_peripheral : [Slots -> Nat],
   max_live_per_peripheral : [Slots -> Nat]]

DedupKey == Indices \X Tokens \X Cycles

Key(e) == <<e.peripheral_idx, e.event_token, e.deadline>>

(* Ord for ScheduledEvent: deadline first, then arrival order. *)
Before(e, f) ==
  \/ e.deadline < f.deadline
  \/ e.deadline = f.deadline /\ e.event_id < f.event_id

Of(events, i) == {e \in events : e.peripheral_idx = i}

\* Mutant: the last value instead of the largest.
HighWaterLast(mark, n) == n

HighWater(mark, n) == IF n > mark THEN n ELSE mark

Init ==
  /\ now = 0
  /\ heap = {}
  /\ next_event_id = 0
  /\ queued = {}
  /\ queued_form = "Linear"
  /\ live_per_peripheral = [i \in Slots |-> 0]
  /\ stats = [past_schedule_clamps |-> 0,
              live_event_ceiling_trips |-> 0,
              max_queued_events |-> 0,
              max_live_events_per_peripheral |-> 0,
              arms_per_peripheral |-> [i \in Slots |-> 0],
              arms_at_now_per_peripheral |-> [i \in Slots |-> 0],
              max_live_per_peripheral |-> [i \in Slots |-> 0]]
  /\ due = {}
  /\ delivered = {}

AdvanceTo(target) ==
  /\ now' = IF target > now THEN target ELSE now
  /\ UNCHANGED <<heap, next_event_id, queued, queued_form, live_per_peripheral, stats, due, delivered>>

--------------------------------------------------------------------------------
(* schedule(), release build: a deadline in the past is clamped to now and  *)
(* counted; a wake whose key is already queued is dropped; any other wake   *)
(* is counted against its peripheral, given the next id and queued.         *)

Clamped(deadline) == IF deadline < now THEN now ELSE deadline

CountClamp(deadline) ==
  stats.past_schedule_clamps + (IF deadline < now THEN 1 ELSE 0)

ScheduleDuplicate(deadline, i, k) ==
  /\ <<i, k, Clamped(deadline)>> \in queued
  /\ stats' = [stats EXCEPT !.past_schedule_clamps = CountClamp(deadline)]
  /\ UNCHANGED <<now, heap, next_event_id, queued, queued_form, live_per_peripheral,
                 due, delivered>>

(* DedupIndex::insert_if_absent on an absent key, promotion included. *)
InsertAbsent(key) ==
  /\ key \notin queued
  /\ queued' = queued \cup {key}
  /\ queued_form' = IF Cardinality(queued') >= DEDUP_HASH_PROMOTE_LEN
                    THEN "Hashed" ELSE queued_form

(* One more live event of slot i: the counters schedule() maintains. *)
CountArm(i, deadline) ==
  IF i = SUBSYSTEM_PERIPHERAL_IDX
  THEN [stats EXCEPT !.past_schedule_clamps = CountClamp(deadline)]
  ELSE LET n == live_per_peripheral[i] + 1 IN
       [stats EXCEPT
         !.past_schedule_clamps = CountClamp(deadline),
         !.arms_per_peripheral[i] = @ + 1,
         !.arms_at_now_per_peripheral[i] = IF Clamped(deadline) = now THEN @ + 1 ELSE @,
         !.max_live_events_per_peripheral = HighWater(@, n),
         !.max_live_per_peripheral[i] = HighWater(@, n),
         !.live_event_ceiling_trips =
             IF n > MAX_LIVE_EVENTS_PER_PERIPHERAL THEN @ + 1 ELSE @]

\* Mutant: ids are given out again after a drain.
NewEventReusingIds(deadline, i, k) ==
  [deadline |-> Clamped(deadline), event_id |-> Cardinality(heap),
   peripheral_idx |-> i, event_token |-> k]

NewEvent(deadline, i, k) ==
  [deadline |-> Clamped(deadline), event_id |-> next_event_id,
   peripheral_idx |-> i, event_token |-> k]

ScheduleAccepted(deadline, i, k) ==
  /\ InsertAbsent(<<i, k, Clamped(deadline)>>)
  /\ live_per_peripheral' =
       [s \in Slots |-> live_per_peripheral[s] + (IF s = i THEN 1 ELSE 0)]
  /\ heap' = heap \cup {NewEvent(deadline, i, k)}
  /\ next_event_id' = next_event_id + 1
  /\ stats' = [CountArm(i, deadline) EXCEPT
                !.max_queued_events = HighWater(@, Cardinality(heap'))]
  /\ UNCHANGED <<now, due, delivered>>

Schedule(deadline, i, k) ==
  \/ ScheduleDuplicate(deadline, i, k)
  \/ ScheduleAccepted(deadline, i, k)

--------------------------------------------------------------------------------
(* drain_due_into(): pop while the top is due. Each popped event leaves the *)
(* index (which may demote itself) and its peripheral's live count. The     *)
(* buffer is a set; its order is Before, the order of the pops.             *)

\* Mutant: an event due at this very cycle waits.
DueEventsStrict == {e \in heap : e.deadline < now}

DueEvents == {e \in heap : e.deadline <= now}

\* Mutant: one event is taken off the count, however many a drain pops.
SaturatingSubOnce(m, n) == IF n > 0 /\ m > 0 THEN m - 1 ELSE m

SaturatingSub(m, n) == IF n > m THEN 0 ELSE m - n

\* Mutant: popped keys stay in the index.
RemoveKeysStale(keys) == UNCHANGED <<queued, queued_form>>

(* DedupIndex::remove, once for each popped key: the length only shrinks,   *)
(* so the index ends up linear if the last length is below the threshold.   *)
RemoveKeys(keys) ==
  /\ queued' = queued \ keys
  /\ queued_form' = IF keys # {} /\ Cardinality(queued') <= DEDUP_HASH_DEMOTE_LEN
                    THEN "Linear" ELSE queued_form

DrainDue ==
  /\ due' = DueEvents
  /\ heap' = heap \ DueEvents
  /\ RemoveKeys({Key(e) : e \in DueEvents})
  /\ live_per_peripheral' =
       [i \in Slots |-> SaturatingSub(live_per_peripheral[i], Cardinality(Of(DueEvents, i)))]
  /\ delivered' = delivered \cup DueEvents
  /\ UNCHANGED <<now, next_event_id, stats>>

Next ==
  \/ \E target \in Cycles : AdvanceTo(target)
  \/ \E deadline \in Cycles, i \in Indices, k \in Tokens :
       /\ next_event_id < MaxEvents
       /\ deadline < now => stats.past_schedule_clamps < MaxClamps
       /\ Schedule(deadline, i, k)
  \/ DrainDue

Spec == Init /\ [][Next]_vars

--------------------------------------------------------------------------------
(* Every variable of the scheduler stays in its type. *)
TypeOK ==
  /\ now \in Cycles
  /\ heap \in SUBSET ScheduledEvent /\ IsFiniteSet(heap)
  /\ next_event_id \in Nat
  /\ queued \in SUBSET DedupKey /\ IsFiniteSet(queued)
  /\ queued_form \in {"Linear", "Hashed"}
  /\ live_per_peripheral \in [Slots -> Nat]
  /\ stats \in SchedulerStats
  /\ due \in SUBSET ScheduledEvent
  /\ delivered \in SUBSET ScheduledEvent

(* The index is in exact sync with the heap: a key is in `queued` iff one   *)
(* queued event has it, and only one, through every promotion and demotion. *)
IndexMatchesHeap ==
  /\ queued = {Key(e) : e \in heap}
  /\ \A e, f \in heap : Key(e) = Key(f) => e = f

(* The live count of a peripheral is the number of its queued events, so    *)
(* the saturating subtraction of drain_due_into never saturates.            *)
LiveMatchesHeap ==
  \A i \in Slots : live_per_peripheral[i] = Cardinality(Of(heap, i))

(* Hysteresis of the hybrid index: hashed only above the demote length,     *)
(* linear only below the promote length, so no single length flips it       *)
(* back and forth.                                                          *)
DedupHysteresis ==
  /\ queued_form = "Hashed" => Cardinality(queued) > DEDUP_HASH_DEMOTE_LEN
  /\ queued_form = "Linear" => Cardinality(queued) < DEDUP_HASH_PROMOTE_LEN

(* Events are handed out in (deadline, event_id) order across the whole     *)
(* run, not only within a batch: nothing still queued, or queued later,     *)
(* precedes an event that was already handed out.                           *)
DeliveredBeforeQueued ==
  \A d \in delivered, e \in heap : Before(d, e)

(* No accepted wake is lost or handed out twice: every id that was given    *)
(* out belongs to exactly one event, queued or delivered.                   *)
NoWakeLost ==
  /\ {e.event_id : e \in heap \cup delivered} = 0 .. next_event_id - 1
  /\ \A e, f \in heap \cup delivered : e.event_id = f.event_id => e = f
  /\ heap \cap delivered = {}

(* The statistics name a leaking peripheral: the high-water marks bound the *)
(* current residency, and a ceiling trip is counted iff some peripheral's   *)
(* mark went above the ceiling.                                             *)
StatsNameTheLeak ==
  /\ Cardinality(heap) <= stats.max_queued_events
  /\ \A i \in Slots : live_per_peripheral[i] <= stats.max_live_per_peripheral[i]
  /\ stats.live_event_ceiling_trips > 0
       <=> \E i \in Slots :
             stats.max_live_per_peripheral[i] > MAX_LIVE_EVENTS_PER_PERIPHERAL

(* Whatever the index's representation does, the scheduler is a set of      *)
(* wakes: schedule() arms a wake, a drain fires exactly the due ones.       *)
WQ == INSTANCE WakeQueue WITH
        clock <- now,
        wakes <- {Key(e) : e \in heap},
        fired <- {Key(e) : e \in due}

ImplementsWakeQueue == WQ!Spec
================================================================================
