---------------------------- MODULE SchedulerProofs ----------------------------
(****************************************************************************)
(* The event scheduler's invariants for every number of slots, tokens,      *)
(* cycles and events and for every threshold of the de-duplication index.   *)
(*                                                                          *)
(* The inductive invariant IInv is the conjunction of the properties TLC    *)
(* checks with one strengthening: nothing that was handed out has a         *)
(* deadline after `now`. It is what makes a newly scheduled event, whose    *)
(* deadline is at least `now`, come after everything handed out so far.     *)
(*                                                                          *)
(* The second part is about the machine around the scheduler, for every     *)
(* number of peripherals, every tick interval, delay, horizon and number of *)
(* requests.  IInv carries over, because the machine moves the scheduler    *)
(* only with its three calls.  On top of it:                                *)
(*   MachineInv   the two clocks agree and stay within the bounds;          *)
(*   LatenessInv  what each phase of an advance knows of the deadlines that *)
(*                are buffered, queued and collected;                       *)
(*   RequestInv   a request on its way has lost none of its delay;          *)
(*   AlarmInv     where the wake of an alarm set up before the run is.      *)
(****************************************************************************)
EXTENDS SchedulerDrain, FiniteSetTheorems, TLAPS

\* No drain runs ahead of the clock.
DeliveredNotInFuture == \A d \in delivered : d.deadline <= now

\* The inductive invariant.
IInv ==
  /\ TypeOK
  /\ IndexMatchesHeap
  /\ LiveMatchesHeap
  /\ DedupHysteresis
  /\ DeliveredNotInFuture
  /\ DeliveredBeforeQueued
  /\ NoWakeLost

--------------------------------------------------------------------------------
(* Facts about the operators the actions are built from. *)

(* The clamped deadline of schedule() is a cycle, never before now. *)
LEMMA ClampedIsCycle ==
  ASSUME TypeOK, NEW deadline \in Cycles
  PROVE  Clamped(deadline) \in Cycles /\ Clamped(deadline) >= now
BY ConstantsAssumption DEF Clamped, TypeOK, Cycles

(* The event schedule() builds is well formed and carries the key it tested. *)
LEMMA NewEventType ==
  ASSUME TypeOK, NEW deadline \in Cycles, NEW i \in Indices, NEW k \in Tokens
  PROVE  /\ NewEvent(deadline, i, k) \in ScheduledEvent
         /\ Key(NewEvent(deadline, i, k)) = <<i, k, Clamped(deadline)>>
         /\ NewEvent(deadline, i, k).event_id = next_event_id
         /\ NewEvent(deadline, i, k).deadline = Clamped(deadline)
         /\ NewEvent(deadline, i, k).peripheral_idx = i
BY ClampedIsCycle, Zenon DEF NewEvent, ScheduledEvent, Key, TypeOK

(* Key maps events to de-duplication keys. *)
LEMMA KeyType ==
  ASSUME NEW e \in ScheduledEvent
  PROVE  Key(e) \in DedupKey
BY Zenon DEF Key, ScheduledEvent, DedupKey

(* What one slot has in a finite set of events is finite. *)
LEMMA OfFinite ==
  ASSUME NEW S, IsFiniteSet(S), NEW i
  PROVE  IsFiniteSet(Of(S, i)) /\ Cardinality(Of(S, i)) \in Nat
BY FS_Subset, FS_CardinalityType, Zenon DEF Of

(* Queueing one more event adds one to its own slot and nothing elsewhere. *)
LEMMA OfAdd ==
  ASSUME NEW S, IsFiniteSet(S), NEW e, e \notin S, NEW i
  PROVE  Cardinality(Of(S \cup {e}, i))
           = Cardinality(Of(S, i)) + (IF e.peripheral_idx = i THEN 1 ELSE 0)
<1>1. CASE e.peripheral_idx = i
  <2>1. Of(S \cup {e}, i) = Of(S, i) \cup {e}
    BY <1>1, Zenon DEF Of
  <2>2. e \notin Of(S, i)
    BY Zenon DEF Of
  <2>. QED BY <1>1, <2>1, <2>2, OfFinite, FS_AddElement, Zenon
<1>2. CASE e.peripheral_idx # i
  <2>1. Of(S \cup {e}, i) = Of(S, i)
    BY <1>2, Zenon DEF Of
  <2>. QED BY <1>2, <2>1, OfFinite
<1>. QED BY <1>1, <1>2, Zenon

(* Removing a set of queued events takes exactly its share from each slot. *)
LEMMA OfRemove ==
  ASSUME NEW S, IsFiniteSet(S), NEW T \in SUBSET S, NEW i
  PROVE  /\ Cardinality(Of(S \ T, i)) = Cardinality(Of(S, i)) - Cardinality(Of(T, i))
         /\ Cardinality(Of(T, i)) <= Cardinality(Of(S, i))
<1>1. Of(S \ T, i) = Of(S, i) \ Of(T, i)
  BY Zenon DEF Of
<1>2. Of(S, i) \cap Of(T, i) = Of(T, i)
  BY Zenon DEF Of
<1>3. Of(T, i) \in SUBSET Of(S, i)
  BY Zenon DEF Of
<1>4. IsFiniteSet(Of(S, i))
  BY OfFinite, Zenon
<1>5. Cardinality(Of(S, i) \ Of(T, i))
        = Cardinality(Of(S, i)) - Cardinality(Of(S, i) \cap Of(T, i))
  BY <1>4, FS_Difference, Zenon
<1>6. Cardinality(Of(T, i)) <= Cardinality(Of(S, i))
  BY <1>3, <1>4, FS_Subset, Zenon
<1>. QED BY <1>1, <1>2, <1>5, <1>6, Zenon

--------------------------------------------------------------------------------
(* The initial scheduler satisfies the inductive invariant. *)
LEMMA InitIInv == Init => IInv
<1>. SUFFICES ASSUME Init PROVE IInv
  BY Zenon
<1>. USE DEF Init
<1>1. TypeOK
  BY FS_EmptySet, ConstantsAssumption DEF TypeOK, SchedulerStats, Cycles
<1>2. IndexMatchesHeap
  BY Zenon DEF IndexMatchesHeap
<1>3. LiveMatchesHeap
  <2>1. \A i : Of(heap, i) = {}
    BY Zenon DEF Of
  <2>. QED BY <2>1, FS_EmptySet, Zenon DEF LiveMatchesHeap
<1>4. DedupHysteresis
  BY FS_EmptySet, ConstantsAssumption DEF DedupHysteresis
<1>5. DeliveredNotInFuture /\ DeliveredBeforeQueued
  BY Zenon DEF DeliveredNotInFuture, DeliveredBeforeQueued
<1>6. NoWakeLost
  BY DEF NoWakeLost
<1>. QED BY <1>1, <1>2, <1>3, <1>4, <1>5, <1>6, Zenon DEF IInv

(* advance_to() only moves the clock, and never back. *)
LEMMA AdvanceToIInv ==
  ASSUME IInv, NEW target \in Cycles, AdvanceTo(target)
  PROVE  IInv'
<1>. USE DEF AdvanceTo, IInv
<1>1. now' \in Cycles /\ now <= now'
  BY ConstantsAssumption DEF TypeOK, Cycles
<1>2. TypeOK'
  BY <1>1, Zenon DEF TypeOK
<1>3. DeliveredNotInFuture'
  BY <1>1 DEF DeliveredNotInFuture, TypeOK, ScheduledEvent, Cycles
<1>4. (IndexMatchesHeap /\ LiveMatchesHeap /\ DedupHysteresis)'
  BY Zenon DEF IndexMatchesHeap, LiveMatchesHeap, DedupHysteresis
<1>5. (DeliveredBeforeQueued /\ NoWakeLost)'
  BY Zenon DEF DeliveredBeforeQueued, NoWakeLost
<1>. QED BY <1>2, <1>3, <1>4, <1>5, Zenon

(* A duplicate wake changes nothing but the clamp counter. *)
LEMMA ScheduleDuplicateIInv ==
  ASSUME IInv, NEW deadline \in Cycles, NEW i \in Indices, NEW k \in Tokens,
         ScheduleDuplicate(deadline, i, k)
  PROVE  IInv'
<1>. USE DEF ScheduleDuplicate, IInv
<1>1. CountClamp(deadline) \in Nat
  BY DEF CountClamp, TypeOK, SchedulerStats
<1>2. TypeOK'
  BY <1>1, Zenon DEF TypeOK, SchedulerStats
<1>3. (IndexMatchesHeap /\ LiveMatchesHeap /\ DedupHysteresis)'
  BY Zenon DEF IndexMatchesHeap, LiveMatchesHeap, DedupHysteresis
<1>4. (DeliveredNotInFuture /\ DeliveredBeforeQueued /\ NoWakeLost)'
  BY Zenon DEF DeliveredNotInFuture, DeliveredBeforeQueued, NoWakeLost
<1>. QED BY <1>2, <1>3, <1>4, Zenon

(* A high-water mark is a natural number. *)
LEMMA HighWaterType ==
  ASSUME NEW m \in Nat, NEW n \in Nat
  PROVE  HighWater(m, n) \in Nat
BY Zenon DEF HighWater

(* The statistics of one accepted wake keep their types. *)
LEMMA CountArmType ==
  ASSUME TypeOK, NEW deadline \in Cycles, NEW i \in Indices, NEW n \in Nat
  PROVE  [CountArm(i, deadline) EXCEPT !.max_queued_events = HighWater(@, n)]
           \in SchedulerStats
<1>1. CountClamp(deadline) \in Nat
  BY DEF CountClamp, TypeOK, SchedulerStats
<1>2. CountArm(i, deadline) \in SchedulerStats
  <2>1. CASE i = SUBSYSTEM_PERIPHERAL_IDX
    BY <1>1, <2>1, Zenon DEF CountArm, TypeOK, SchedulerStats
  <2>2. CASE i \in Slots
    <3>. DEFINE live   == live_per_peripheral[i] + 1
                arms   == [stats.arms_per_peripheral EXCEPT ![i] = @ + 1]
                atNow  == [stats.arms_at_now_per_peripheral EXCEPT
                            ![i] = IF Clamped(deadline) = now THEN @ + 1 ELSE @]
                mark   == HighWater(stats.max_live_events_per_peripheral, live)
                marks  == [stats.max_live_per_peripheral EXCEPT ![i] = HighWater(@, live)]
                trips  == IF live > MAX_LIVE_EVENTS_PER_PERIPHERAL
                          THEN stats.live_event_ceiling_trips + 1
                          ELSE stats.live_event_ceiling_trips
    <3>1. CountArm(i, deadline) =
            [stats EXCEPT !.past_schedule_clamps = CountClamp(deadline),
                          !.arms_per_peripheral = arms,
                          !.arms_at_now_per_peripheral = atNow,
                          !.max_live_events_per_peripheral = mark,
                          !.max_live_per_peripheral = marks,
                          !.live_event_ceiling_trips = trips]
      BY <2>2, ConstantsAssumption, Zenon DEF CountArm, TypeOK, SchedulerStats
    <3>2. live \in Nat
      BY <2>2 DEF TypeOK
    <3>3. mark \in Nat /\ marks \in [Slots -> Nat]
      <4>1. HighWater(stats.max_live_per_peripheral[i], live) \in Nat
        BY <2>2, <3>2, HighWaterType, Zenon DEF TypeOK, SchedulerStats
      <4>. QED BY <3>2, <4>1, HighWaterType, Zenon DEF TypeOK, SchedulerStats
    <3>4. arms \in [Slots -> Nat] /\ atNow \in [Slots -> Nat] /\ trips \in Nat
      BY <2>2 DEF TypeOK, SchedulerStats
    <3>. HIDE DEF live, arms, atNow, mark, marks, trips
    <3>. QED BY <1>1, <3>1, <3>3, <3>4, Zenon DEF TypeOK, SchedulerStats
  <2>. QED BY <2>1, <2>2, Zenon DEF Indices
<1>. QED BY <1>2, HighWaterType, Zenon DEF SchedulerStats

(* An accepted wake enters the heap, the index and the live counts at once. *)
LEMMA ScheduleAcceptedIInv ==
  ASSUME IInv, NEW deadline \in Cycles, NEW i \in Indices, NEW k \in Tokens,
         ScheduleAccepted(deadline, i, k)
  PROVE  IInv'
<1>. DEFINE e == NewEvent(deadline, i, k)
<1>. USE DEF IInv
<1>1. /\ e \in ScheduledEvent
      /\ Key(e) = <<i, k, Clamped(deadline)>>
      /\ e.event_id = next_event_id
      /\ e.deadline >= now
      /\ e.peripheral_idx = i
  BY NewEventType, ClampedIsCycle, Zenon
<1>2. /\ heap' = heap \cup {e}
      /\ queued' = queued \cup {Key(e)}
      /\ Key(e) \notin queued
      /\ next_event_id' = next_event_id + 1
      /\ UNCHANGED <<now, due, delivered>>
  BY <1>1, Zenon DEF ScheduleAccepted, InsertAbsent
<1>3. e \notin heap
  BY <1>2, Zenon DEF IndexMatchesHeap
<1>. HIDE DEF e
<1>4. /\ IsFiniteSet(heap') /\ Cardinality(heap') \in Nat
      /\ IsFiniteSet(queued') /\ Cardinality(queued) \in Nat
      /\ Cardinality(queued') = Cardinality(queued) + 1
  BY <1>2, FS_AddElement, FS_CardinalityType, Zenon DEF TypeOK
<1>5. TypeOK'
  <2>1. heap' \in SUBSET ScheduledEvent /\ queued' \in SUBSET DedupKey
    BY <1>1, <1>2, KeyType, Zenon DEF TypeOK
  <2>2. live_per_peripheral' \in [Slots -> Nat]
    BY DEF ScheduleAccepted, TypeOK
  <2>3. queued_form' \in {"Linear", "Hashed"}
    BY Zenon DEF ScheduleAccepted, InsertAbsent, TypeOK
  <2>4. stats' = [CountArm(i, deadline) EXCEPT
                   !.max_queued_events = HighWater(@, Cardinality(heap'))]
    BY Zenon DEF ScheduleAccepted
  <2>5. stats' \in SchedulerStats
    BY <1>4, <2>4, CountArmType, Zenon
  <2>6. next_event_id' \in Nat
    BY <1>2 DEF TypeOK
  <2>. QED BY <1>2, <1>4, <2>1, <2>2, <2>3, <2>5, <2>6, Zenon DEF TypeOK
<1>6. IndexMatchesHeap'
  BY <1>2 DEF IndexMatchesHeap
<1>7. LiveMatchesHeap'
  <2>. SUFFICES ASSUME NEW s \in Slots
                PROVE  live_per_peripheral'[s] = Cardinality(Of(heap', s))
    BY Zenon DEF LiveMatchesHeap
  <2>1. Cardinality(Of(heap', s)) = Cardinality(Of(heap, s)) + (IF i = s THEN 1 ELSE 0)
    BY <1>1, <1>2, <1>3, OfAdd DEF TypeOK
  <2>. QED BY <2>1, Zenon DEF ScheduleAccepted, LiveMatchesHeap
<1>8. DedupHysteresis'
  BY <1>4, ConstantsAssumption
     DEF ScheduleAccepted, InsertAbsent, DedupHysteresis, DEDUP_HASH_DEMOTE_LEN, TypeOK
<1>9. DeliveredNotInFuture'
  BY <1>2, Zenon DEF DeliveredNotInFuture
<1>10. DeliveredBeforeQueued'
  <2>. SUFFICES ASSUME NEW d \in delivered PROVE Before(d, e)
    BY <1>2, Zenon DEF DeliveredBeforeQueued
  <2>1. d.deadline \in Int /\ e.deadline \in Int /\ now \in Int /\ next_event_id \in Nat
    BY <1>1 DEF TypeOK, ScheduledEvent, Cycles
  <2>2. d.deadline <= e.deadline
    BY <1>1, <2>1 DEF DeliveredNotInFuture
  <2>3. d.event_id \in 0 .. next_event_id - 1
    BY Zenon DEF NoWakeLost
  <2>. QED BY <1>1, <2>1, <2>2, <2>3 DEF Before
<1>11. NoWakeLost'
  <2>1. \A f \in heap \cup delivered : f.event_id \in 0 .. next_event_id - 1
    BY Zenon DEF NoWakeLost
  <2>2. next_event_id \in Nat /\ next_event_id \notin 0 .. next_event_id - 1
    BY DEF TypeOK
  <2>3. {f.event_id : f \in heap' \cup delivered'}
          = {f.event_id : f \in heap \cup delivered} \cup {next_event_id}
    BY <1>1, <1>2, Zenon
  <2>4. {f.event_id : f \in heap' \cup delivered'} = 0 .. next_event_id' - 1
    <3>1. (0 .. next_event_id - 1) \cup {next_event_id} = 0 .. (next_event_id + 1) - 1
      BY <2>2
    <3>. QED BY <1>2, <2>3, <3>1, Zenon DEF NoWakeLost
  <2>5. e \notin heap \cup delivered
    BY <1>1, <2>1, <2>2, Zenon
  <2>6. \A f, g \in heap' \cup delivered' : f.event_id = g.event_id => f = g
    BY <1>1, <1>2, <2>1, <2>2 DEF NoWakeLost
  <2>7. heap' \cap delivered' = {}
    BY <1>2, <2>5, Zenon DEF NoWakeLost
  <2>. QED BY <2>4, <2>6, <2>7, Zenon DEF NoWakeLost
<1>. QED BY <1>5, <1>6, <1>7, <1>8, <1>9, <1>10, <1>11, Zenon

(* A drain takes the due events out of the heap, the index and the counts. *)
LEMMA DrainDueIInv ==
  ASSUME IInv, DrainDue
  PROVE  IInv'
<1>. USE DEF IInv
<1>. DEFINE keys == {Key(e) : e \in DueEvents}
<1>1. /\ heap' = heap \ DueEvents
      /\ delivered' = delivered \cup DueEvents
      /\ queued' = queued \ keys
      /\ due' = DueEvents
      /\ UNCHANGED <<now, next_event_id, stats>>
  BY Zenon DEF DrainDue, RemoveKeys
<1>2. DueEvents \in SUBSET heap
  BY Zenon DEF DueEvents
<1>3. /\ IsFiniteSet(heap') /\ IsFiniteSet(queued')
      /\ Cardinality(queued) \in Nat /\ Cardinality(queued') \in Nat
      /\ Cardinality(queued') <= Cardinality(queued)
  <2>1. queued' \in SUBSET queued
    BY <1>1, Zenon
  <2>2. heap' \in SUBSET heap
    BY <1>1, Zenon
  <2>. QED BY <2>1, <2>2, FS_Subset, FS_CardinalityType, Zenon DEF TypeOK
<1>4. LiveMatchesHeap' /\ live_per_peripheral' \in [Slots -> Nat]
  <2>. SUFFICES ASSUME NEW i \in Slots
                PROVE  /\ live_per_peripheral'[i] = Cardinality(Of(heap', i))
                       /\ live_per_peripheral'[i] \in Nat
    BY Zenon DEF LiveMatchesHeap, DrainDue
  <2>1. /\ Cardinality(Of(heap', i))
             = Cardinality(Of(heap, i)) - Cardinality(Of(DueEvents, i))
        /\ Cardinality(Of(DueEvents, i)) <= Cardinality(Of(heap, i))
    BY <1>1, <1>2, OfRemove DEF TypeOK
  <2>2. IsFiniteSet(DueEvents)
    BY <1>2, FS_Subset, Zenon DEF TypeOK
  <2>3. Cardinality(Of(heap, i)) \in Nat /\ Cardinality(Of(DueEvents, i)) \in Nat
    BY <2>2, OfFinite, Zenon DEF TypeOK
  <2>4. live_per_peripheral'[i]
          = SaturatingSub(live_per_peripheral[i], Cardinality(Of(DueEvents, i)))
    BY Zenon DEF DrainDue
  <2>. QED BY <2>1, <2>3, <2>4 DEF SaturatingSub, LiveMatchesHeap
<1>5. TypeOK'
  BY <1>1, <1>2, <1>3, <1>4, Zenon DEF DrainDue, RemoveKeys, TypeOK
<1>6. IndexMatchesHeap'
  <2>1. \A e \in heap, f \in DueEvents : Key(e) = Key(f) => e \in DueEvents
    BY <1>2, Zenon DEF IndexMatchesHeap
  <2>. QED BY <1>1, <2>1, Zenon DEF IndexMatchesHeap
<1>7. DedupHysteresis'
  <2>1. CASE keys = {}
    <3>1. queued' = queued /\ queued_form' = queued_form
      BY <2>1, <1>1, Zenon DEF DrainDue, RemoveKeys
    <3>. QED BY <3>1, Zenon DEF DedupHysteresis
  <2>2. CASE keys # {}
    <3>1. queued_form' = IF Cardinality(queued') <= DEDUP_HASH_DEMOTE_LEN
                         THEN "Linear" ELSE queued_form
      BY <2>2, Zenon DEF DrainDue, RemoveKeys
    <3>2. DEDUP_HASH_DEMOTE_LEN \in Nat /\ DEDUP_HASH_DEMOTE_LEN < DEDUP_HASH_PROMOTE_LEN
      BY ConstantsAssumption DEF DEDUP_HASH_DEMOTE_LEN
    <3>. QED BY <1>3, <3>1, <3>2, ConstantsAssumption DEF DedupHysteresis, TypeOK
  <2>. QED BY <2>1, <2>2, Zenon
<1>8. DeliveredNotInFuture'
  BY <1>1, Zenon DEF DeliveredNotInFuture, DueEvents
<1>9. DeliveredBeforeQueued'
  <2>. SUFFICES ASSUME NEW d \in DueEvents, NEW e \in heap \ DueEvents
                PROVE  Before(d, e)
    BY <1>1, Zenon DEF DeliveredBeforeQueued
  <2>. QED BY DEF DueEvents, Before, TypeOK, ScheduledEvent, Cycles
<1>10. NoWakeLost'
  <2>1. heap' \cup delivered' = heap \cup delivered
    BY <1>1, <1>2, Zenon
  <2>2. heap' \cap delivered' = {}
    BY <1>1, Zenon DEF NoWakeLost
  <2>. QED BY <1>1, <2>1, <2>2, Zenon DEF NoWakeLost
<1>. QED BY <1>4, <1>5, <1>6, <1>7, <1>8, <1>9, <1>10, Zenon

(* A stuttering step preserves the invariant. *)
LEMMA StutterIInv ==
  ASSUME IInv, UNCHANGED vars
  PROVE  IInv'
BY Zenon DEF IInv, vars, TypeOK, IndexMatchesHeap, LiveMatchesHeap, DedupHysteresis,
       DeliveredNotInFuture, DeliveredBeforeQueued, NoWakeLost

(* schedule(), advance_to() and drain_due_into() each preserve the          *)
(* invariant, so it holds of every behaviour of the scheduler.              *)
THEOREM Inductive == Spec => []IInv
<1>1. IInv /\ [Next]_vars => IInv'
  <2>. SUFFICES ASSUME IInv, [Next]_vars PROVE IInv'
    BY Zenon
  <2>1. CASE \E target \in Cycles : AdvanceTo(target)
    BY <2>1, AdvanceToIInv, Zenon
  <2>2. ASSUME NEW deadline \in Cycles, NEW i \in Indices, NEW k \in Tokens,
               Schedule(deadline, i, k)
        PROVE  IInv'
    BY <2>2, ScheduleDuplicateIInv, ScheduleAcceptedIInv, Zenon DEF Schedule
  <2>3. CASE DrainDue
    BY <2>3, DrainDueIInv, Zenon
  <2>4. CASE UNCHANGED vars
    BY <2>4, StutterIInv, Zenon
  <2>. QED BY <2>1, <2>2, <2>3, <2>4, Zenon DEF Next
<1>. QED BY <1>1, InitIInv, PTL DEF Spec

(* Type correctness of the scheduler's state. *)
THEOREM TypeCorrect == Spec => []TypeOK
<1>1. IInv => TypeOK
  BY Zenon DEF IInv
<1>. QED BY <1>1, Inductive, PTL

(* A key is in the de-duplication index iff exactly one queued event has    *)
(* it, through every promotion and demotion of the index.                   *)
THEOREM IndexInSync == Spec => []IndexMatchesHeap
<1>1. IInv => IndexMatchesHeap
  BY Zenon DEF IInv
<1>. QED BY <1>1, Inductive, PTL

(* The per-peripheral live counts that the residency ceiling tests are the  *)
(* numbers of queued events.                                                *)
THEOREM LiveCountsExact == Spec => []LiveMatchesHeap
<1>1. IInv => LiveMatchesHeap
  BY Zenon DEF IInv
<1>. QED BY <1>1, Inductive, PTL

(* The representation of the index changes with hysteresis. *)
THEOREM HysteresisHolds == Spec => []DedupHysteresis
<1>1. IInv => DedupHysteresis
  BY Zenon DEF IInv
<1>. QED BY <1>1, Inductive, PTL

(* Events leave the scheduler in (deadline, event_id) order over the whole  *)
(* run, whatever the interleaving of schedule() and drain_due_into() calls. *)
THEOREM GlobalDeliveryOrder == Spec => []DeliveredBeforeQueued
<1>1. IInv => DeliveredBeforeQueued
  BY Zenon DEF IInv
<1>. QED BY <1>1, Inductive, PTL

(* No accepted wake is lost, and none is handed out twice. *)
THEOREM WakesConserved == Spec => []NoWakeLost
<1>1. IInv => NoWakeLost
  BY Zenon DEF IInv
<1>. QED BY <1>1, Inductive, PTL

--------------------------------------------------------------------------------
(* The statistics.  HighWater bounds its two arguments and is one of them. *)
LEMMA HighWaterBounds ==
  ASSUME NEW m \in Nat, NEW n \in Nat
  PROVE  /\ m <= HighWater(m, n) /\ n <= HighWater(m, n)
         /\ \A c \in Nat : HighWater(m, n) > c <=> (m > c \/ n > c)
BY DEF HighWater

(* What an accepted wake leaves in the three statistics of a leak. *)
LEMMA AcceptedMarks ==
  ASSUME TypeOK, NEW deadline \in Cycles, NEW i \in Indices, NEW k \in Tokens,
         ScheduleAccepted(deadline, i, k)
  PROVE  /\ stats'.max_queued_events
              = HighWater(stats.max_queued_events, Cardinality(heap'))
         /\ \A s \in Slots :
              stats'.max_live_per_peripheral[s] =
                IF s = i THEN HighWater(stats.max_live_per_peripheral[s],
                                        live_per_peripheral[s] + 1)
                ELSE stats.max_live_per_peripheral[s]
         /\ stats'.live_event_ceiling_trips =
              IF i \in Slots /\ live_per_peripheral[i] + 1 > MAX_LIVE_EVENTS_PER_PERIPHERAL
              THEN stats.live_event_ceiling_trips + 1
              ELSE stats.live_event_ceiling_trips
<1>. DEFINE c == CountArm(i, deadline)
<1>1. stats' = [c EXCEPT !.max_queued_events = HighWater(@, Cardinality(heap'))]
  BY Zenon DEF ScheduleAccepted
<1>2. CASE i = SUBSYSTEM_PERIPHERAL_IDX
  <2>1. i \notin Slots
    BY <1>2, ConstantsAssumption, Zenon
  <2>2. c = [stats EXCEPT !.past_schedule_clamps = CountClamp(deadline)]
    BY <1>2, Zenon DEF CountArm
  <2>. QED BY <1>1, <2>1, <2>2, Zenon DEF TypeOK, SchedulerStats
<1>3. CASE i \in Slots
  <2>1. i # SUBSYSTEM_PERIPHERAL_IDX
    BY <1>3, ConstantsAssumption, Zenon
  <2>2. /\ c.max_queued_events = stats.max_queued_events
        /\ c.max_live_per_peripheral
             = [stats.max_live_per_peripheral EXCEPT
                 ![i] = HighWater(@, live_per_peripheral[i] + 1)]
        /\ c.live_event_ceiling_trips =
             IF live_per_peripheral[i] + 1 > MAX_LIVE_EVENTS_PER_PERIPHERAL
             THEN stats.live_event_ceiling_trips + 1
             ELSE stats.live_event_ceiling_trips
        /\ "max_queued_events" \in DOMAIN c
    BY <2>1, Zenon DEF CountArm, TypeOK, SchedulerStats
  <2>. HIDE DEF c
  <2>3. /\ stats'.max_queued_events = HighWater(c.max_queued_events, Cardinality(heap'))
        /\ stats'.max_live_per_peripheral = c.max_live_per_peripheral
        /\ stats'.live_event_ceiling_trips = c.live_event_ceiling_trips
    BY <1>1, <2>2
  <2>. QED BY <1>3, <2>2, <2>3, Zenon DEF TypeOK, SchedulerStats
<1>. QED BY <1>2, <1>3, Zenon DEF Indices

(* An accepted wake raises the marks it may pass and counts a trip exactly  *)
(* when it takes its peripheral above the ceiling.                          *)
LEMMA AcceptedNamesTheLeak ==
  ASSUME IInv, IInv', StatsNameTheLeak, NEW deadline \in Cycles, NEW i \in Indices,
         NEW k \in Tokens, ScheduleAccepted(deadline, i, k)
  PROVE  StatsNameTheLeak'
<1>. DEFINE marks == stats.max_live_per_peripheral
            trips == stats.live_event_ceiling_trips
<1>1. /\ marks \in [Slots -> Nat] /\ trips \in Nat
      /\ stats.max_queued_events \in Nat /\ Cardinality(heap') \in Nat
      /\ live_per_peripheral \in [Slots -> Nat]
      /\ MAX_LIVE_EVENTS_PER_PERIPHERAL \in Nat
  BY FS_CardinalityType, ConstantsAssumption, Zenon DEF IInv, TypeOK, SchedulerStats
<1>2. Cardinality(heap') <= stats'.max_queued_events
  BY <1>1, AcceptedMarks, HighWaterBounds DEF IInv
<1>3. \A s \in Slots : live_per_peripheral'[s] <= stats'.max_live_per_peripheral[s]
  <2>. SUFFICES ASSUME NEW s \in Slots
                PROVE  live_per_peripheral'[s] <= stats'.max_live_per_peripheral[s]
    BY Zenon
  <2>1. live_per_peripheral'[s] = live_per_peripheral[s] + (IF s = i THEN 1 ELSE 0)
    BY Zenon DEF ScheduleAccepted
  <2>2. live_per_peripheral[s] <= marks[s]
    BY Zenon DEF StatsNameTheLeak
  <2>3. CASE s = i
    BY <1>1, <2>1, <2>3, AcceptedMarks, HighWaterBounds DEF IInv
  <2>4. CASE s # i
    BY <1>1, <2>1, <2>2, <2>4, AcceptedMarks DEF IInv
  <2>. QED BY <2>3, <2>4, Zenon
<1>4. stats'.live_event_ceiling_trips > 0
        <=> \E s \in Slots :
              stats'.max_live_per_peripheral[s] > MAX_LIVE_EVENTS_PER_PERIPHERAL
  <2>1. \A s \in Slots :
          stats'.max_live_per_peripheral[s] > MAX_LIVE_EVENTS_PER_PERIPHERAL
            <=> \/ marks[s] > MAX_LIVE_EVENTS_PER_PERIPHERAL
                \/ s = i /\ live_per_peripheral[s] + 1 > MAX_LIVE_EVENTS_PER_PERIPHERAL
    BY <1>1, AcceptedMarks, HighWaterBounds DEF IInv
  <2>2. stats'.live_event_ceiling_trips > 0
          <=> \/ trips > 0
              \/ i \in Slots /\ live_per_peripheral[i] + 1 > MAX_LIVE_EVENTS_PER_PERIPHERAL
    BY <1>1, AcceptedMarks DEF IInv
  <2>. HIDE DEF marks, trips
  <2>3. trips > 0 <=> \E s \in Slots : marks[s] > MAX_LIVE_EVENTS_PER_PERIPHERAL
    BY Zenon DEF StatsNameTheLeak, marks, trips
  <2>. QED BY <2>1, <2>2, <2>3, Zenon
<1>. QED BY <1>2, <1>3, <1>4, Zenon DEF StatsNameTheLeak

(* A drain only shrinks what the marks bound. *)
LEMMA DrainNamesTheLeak ==
  ASSUME IInv, IInv', StatsNameTheLeak, DrainDue
  PROVE  StatsNameTheLeak'
<1>1. heap' \in SUBSET heap /\ stats' = stats
  BY Zenon DEF DrainDue
<1>2. /\ Cardinality(heap') <= Cardinality(heap)
      /\ Cardinality(heap') \in Nat /\ Cardinality(heap) \in Nat
  BY <1>1, FS_Subset, FS_CardinalityType, Zenon DEF IInv, TypeOK
<1>3. \A i \in Slots : /\ live_per_peripheral'[i] <= live_per_peripheral[i]
                       /\ live_per_peripheral'[i] \in Nat
  <2>. SUFFICES ASSUME NEW i \in Slots
                PROVE  live_per_peripheral'[i] <= live_per_peripheral[i]
    BY Zenon DEF IInv, TypeOK
  <2>1. Of(heap', i) \in SUBSET Of(heap, i)
    BY <1>1, Zenon DEF Of
  <2>2. Cardinality(Of(heap', i)) <= Cardinality(Of(heap, i))
    BY <2>1, OfFinite, FS_Subset, Zenon DEF IInv, TypeOK
  <2>. QED BY <2>2, Zenon DEF IInv, LiveMatchesHeap
<1>. QED BY <1>1, <1>2, <1>3 DEF StatsNameTheLeak, IInv, TypeOK, SchedulerStats

(* The high-water marks bound what is queued, and the ceiling-trip counter  *)
(* moves off zero exactly when some peripheral's mark passed the ceiling:   *)
(* the statistics name the peripheral that leaks events.                    *)
THEOREM LeaksAreNamed == Spec => []StatsNameTheLeak
<1>1. Init => StatsNameTheLeak
  BY FS_EmptySet, ConstantsAssumption DEF Init, StatsNameTheLeak
<1>2. IInv /\ IInv' /\ StatsNameTheLeak /\ [Next]_vars => StatsNameTheLeak'
  <2>. SUFFICES ASSUME IInv, IInv', StatsNameTheLeak, [Next]_vars
                PROVE  StatsNameTheLeak'
    BY Zenon
  <2>1. ASSUME NEW target \in Cycles, AdvanceTo(target)
        PROVE  StatsNameTheLeak'
    BY <2>1, Zenon DEF AdvanceTo, StatsNameTheLeak
  <2>2. ASSUME NEW deadline \in Cycles, NEW i \in Indices, NEW k \in Tokens,
               Schedule(deadline, i, k)
        PROVE  StatsNameTheLeak'
    <3>1. CASE ScheduleDuplicate(deadline, i, k)
      BY <3>1, Zenon DEF ScheduleDuplicate, StatsNameTheLeak, IInv, TypeOK, SchedulerStats
    <3>2. CASE ScheduleAccepted(deadline, i, k)
      BY <3>2, AcceptedNamesTheLeak, Zenon
    <3>. QED BY <2>2, <3>1, <3>2, Zenon DEF Schedule
  <2>3. CASE DrainDue
    BY <2>3, DrainNamesTheLeak, Zenon
  <2>4. CASE UNCHANGED vars
    BY <2>4, Zenon DEF vars, StatsNameTheLeak
  <2>. QED BY <2>1, <2>2, <2>3, <2>4, Zenon DEF Next
<1>. QED BY <1>1, <1>2, Inductive, PTL DEF Spec

--------------------------------------------------------------------------------
(* The scheduler implements the wake queue: forgetting event ids, index and *)
(* counters, every call is a tick, an arm, a fire or nothing at all.        *)
THEOREM Refinement == Spec => ImplementsWakeQueue
<1>1. Init => WQ!Init
  BY Zenon DEF Init, WQ!Init
<1>2. IInv /\ [Next]_vars => [WQ!Next]_(WQ!vars)
  <2>. SUFFICES ASSUME IInv, [Next]_vars PROVE [WQ!Next]_(WQ!vars)
    BY Zenon
  <2>. USE DEF IInv
  <2>1. ASSUME NEW target \in Cycles, AdvanceTo(target)
        PROVE  WQ!Next
    <3>1. WQ!Tick(target)
      BY <2>1, Zenon DEF AdvanceTo, WQ!Tick
    <3>. QED BY <3>1, Zenon DEF WQ!Next, Cycles
  <2>2. ASSUME NEW deadline \in Cycles, NEW i \in Indices, NEW k \in Tokens,
               Schedule(deadline, i, k)
        PROVE  WQ!Next
    <3>1. {Key(e) : e \in heap'}
            = {Key(e) : e \in heap} \cup {<<i, k, Clamped(deadline)>>}
      <4>1. CASE ScheduleDuplicate(deadline, i, k)
        BY <4>1, Zenon DEF ScheduleDuplicate, IndexMatchesHeap
      <4>2. CASE ScheduleAccepted(deadline, i, k)
        BY <4>2, NewEventType DEF ScheduleAccepted
      <4>. QED BY <2>2, <4>1, <4>2, Zenon DEF Schedule
    <3>2. UNCHANGED <<now, due>>
      BY <2>2, Zenon DEF Schedule, ScheduleDuplicate, ScheduleAccepted
    <3>3. WQ!Arm(deadline, i, k)
      BY <3>1, <3>2, Zenon DEF WQ!Arm, Clamped
    <3>. QED BY <3>3, Zenon DEF WQ!Next, Cycles
  <2>3. ASSUME DrainDue
        PROVE  WQ!Next
    <3>1. \A e \in heap : Key(e)[3] = e.deadline /\ e.deadline \in Int /\ now \in Int
      BY DEF Key, TypeOK, ScheduledEvent, Cycles
    <3>2. /\ {Key(e) : e \in due'} = {w \in {Key(e) : e \in heap} : w[3] <= now}
          /\ {Key(e) : e \in heap'} = {w \in {Key(e) : e \in heap} : w[3] > now}
      <4>1. due' = {e \in heap : e.deadline <= now}
        BY <2>3, Zenon DEF DrainDue, DueEvents
      <4>2. heap' = {e \in heap : e.deadline > now}
        BY <2>3, <3>1 DEF DrainDue, DueEvents
      <4>. QED BY <3>1, <4>1, <4>2, Zenon
    <3>3. WQ!Fire
      BY <2>3, <3>2, Zenon DEF DrainDue, WQ!Fire
    <3>. QED BY <3>3, Zenon DEF WQ!Next
  <2>4. CASE UNCHANGED vars
    BY <2>4, Zenon DEF vars, WQ!vars
  <2>. QED BY <2>1, <2>2, <2>3, <2>4, Zenon DEF Next
<1>. QED BY <1>1, <1>2, Inductive, PTL DEF Spec, ImplementsWakeQueue, WQ!Spec

--------------------------------------------------------------------------------
(* The scheduler inside the machine.  The machine moves it only with its    *)
(* three calls, so IInv carries over; MachineInv adds the machine's clocks  *)
(* and its buffers.  The results on the machine build on both.              *)

(* The last cycle a window may end at. *)
LastCycle == Horizon + peripheral_tick_interval - 1

(* What the bus's buffer holds: a wake no further ahead than MaxDelay. *)
PendingWake ==
  [idx : Slots, deadline : 0 .. LastCycle + 1 + MaxDelay, token : Tokens,
   by : {"firmware", "setup", "handler"}]

(* The wakes in the bus's buffer, in whatever order. *)
Buffered(q) == {q[n] : n \in DOMAIN q}

(* The clocks, the window and the types of the rest. *)
MachineInv ==
  /\ total_cycles \in Nat /\ total_cycles <= LastCycle
  /\ now = total_cycles
  /\ current_cycle \in Nat /\ window_end \in Nat
  /\ phase \in {"plan", "cpu", "enqueue", "dispatch", "skip"}
  /\ after \in {"plan", "skip"}
  /\ current_cycle <= LastCycle
  /\ phase = "cpu" =>
       /\ total_cycles <= current_cycle /\ current_cycle <= window_end
       /\ window_end <= LastCycle
       /\ window_end <= total_cycles + peripheral_tick_interval
  /\ alarm \in [Slots -> (0 .. Horizon) \cup {NoAlarm}]
  /\ pending_schedule \in Seq(PendingWake)
  /\ batch \in SUBSET ScheduledEvent
  /\ \A e \in batch : e.deadline <= now
  /\ phase # "dispatch" => batch = {}

--------------------------------------------------------------------------------
(* The buffer.  What appending, concatenating and removing the head do to   *)
(* the set of buffered wakes.                                               *)
LEMMA BufferedAppend ==
  ASSUME NEW T, NEW q \in Seq(T), NEW x \in T
  PROVE  Buffered(Append(q, x)) = Buffered(q) \cup {x}
<1>1. DOMAIN Append(q, x) = DOMAIN q \cup {Len(q) + 1}
  OBVIOUS
<1>2. \A n \in DOMAIN q : Append(q, x)[n] = q[n]
  OBVIOUS
<1>3. Append(q, x)[Len(q) + 1] = x
  OBVIOUS
<1>. QED BY <1>1, <1>2, <1>3, Zenon DEF Buffered

(* Two buffers, one after the other. *)
LEMMA BufferedConcat ==
  ASSUME NEW T, NEW q \in Seq(T), NEW r \in Seq(T)
  PROVE  Buffered(q \o r) = Buffered(q) \cup Buffered(r)
<1>1. /\ Len(q) \in Nat /\ Len(r) \in Nat
      /\ DOMAIN q = 1 .. Len(q) /\ DOMAIN r = 1 .. Len(r)
      /\ DOMAIN (q \o r) = 1 .. Len(q) + Len(r)
  OBVIOUS
<1>2. \A n \in 1 .. Len(q) : n \in DOMAIN (q \o r) /\ (q \o r)[n] = q[n]
  BY <1>1
<1>3. \A n \in 1 .. Len(r) : Len(q) + n \in DOMAIN (q \o r) /\ (q \o r)[Len(q) + n] = r[n]
  BY <1>1
<1>4. \A n \in DOMAIN (q \o r) : n \in 1 .. Len(q) \/ \E m \in 1 .. Len(r) : n = Len(q) + m
  <2>. SUFFICES ASSUME NEW n \in DOMAIN (q \o r), n \notin 1 .. Len(q)
                PROVE  \E m \in 1 .. Len(r) : n = Len(q) + m
    BY Zenon
  <2>1. n - Len(q) \in 1 .. Len(r) /\ n = Len(q) + (n - Len(q))
    BY <1>1
  <2>. QED BY <2>1, Zenon
<1>5. \A n \in DOMAIN (q \o r) : (q \o r)[n] \in Buffered(q) \cup Buffered(r)
  BY <1>1, <1>2, <1>3, <1>4, Zenon DEF Buffered
<1>6. \A n \in DOMAIN q : q[n] \in Buffered(q \o r)
  BY <1>1, <1>2, Zenon DEF Buffered
<1>7. \A n \in DOMAIN r : r[n] \in Buffered(q \o r)
  BY <1>1, <1>3, Zenon DEF Buffered
<1>8. Buffered(q \o r) \subseteq Buffered(q) \cup Buffered(r)
  BY <1>5, Zenon DEF Buffered
<1>9. Buffered(q) \cup Buffered(r) \subseteq Buffered(q \o r)
  BY <1>6, <1>7, Zenon DEF Buffered
<1>. QED BY <1>8, <1>9, Zenon

(* The head and the rest. *)
LEMMA BufferedTail ==
  ASSUME NEW T, NEW q \in Seq(T), q # <<>>
  PROVE  /\ Buffered(q) = {Head(q)} \cup Buffered(Tail(q))
         /\ Head(q) \in T /\ Tail(q) \in Seq(T)
<1>1. /\ Len(q) \in Nat \ {0} /\ DOMAIN q = 1 .. Len(q)
      /\ DOMAIN Tail(q) = 1 .. Len(q) - 1 /\ Head(q) = q[1]
  OBVIOUS
<1>2. \A n \in 1 .. Len(q) - 1 : n + 1 \in 1 .. Len(q) /\ Tail(q)[n] = q[n + 1]
  BY <1>1
<1>3. \A n \in 1 .. Len(q) : n = 1 \/ \E m \in 1 .. Len(q) - 1 : n = m + 1
  <2>. SUFFICES ASSUME NEW n \in 1 .. Len(q), n # 1
                PROVE  \E m \in 1 .. Len(q) - 1 : n = m + 1
    BY Zenon
  <2>1. n - 1 \in 1 .. Len(q) - 1 /\ n = (n - 1) + 1
    BY <1>1
  <2>. QED BY <2>1, Zenon
<1>4. \A n \in DOMAIN q : q[n] \in {Head(q)} \cup Buffered(Tail(q))
  <2>. SUFFICES ASSUME NEW n \in DOMAIN q, n # 1
                PROVE  q[n] \in Buffered(Tail(q))
    BY <1>1, Zenon
  <2>1. PICK m \in 1 .. Len(q) - 1 : n = m + 1
    BY <1>1, <1>3, Zenon
  <2>2. m \in DOMAIN Tail(q) /\ Tail(q)[m] = q[n]
    BY <1>1, <1>2, <2>1, Zenon
  <2>. QED BY <2>2, Zenon DEF Buffered
<1>5. \A n \in DOMAIN Tail(q) : Tail(q)[n] \in Buffered(q)
  BY <1>1, <1>2, Zenon DEF Buffered
<1>6. Head(q) \in Buffered(q)
  BY <1>1 DEF Buffered
<1>7. Buffered(q) \subseteq {Head(q)} \cup Buffered(Tail(q))
  BY <1>4, Zenon DEF Buffered
<1>8. {Head(q)} \cup Buffered(Tail(q)) \subseteq Buffered(q)
  BY <1>5, <1>6, Zenon DEF Buffered
<1>. QED BY <1>7, <1>8

(* What is buffered has the buffer's type. *)
LEMMA BufferedSeq ==
  ASSUME NEW T, NEW q \in Seq(T)
  PROVE  Buffered(q) \in SUBSET T /\ (q = <<>> => Buffered(q) = {})
BY DEF Buffered

(* Visiting a finite set of wakes in the bus's order loses none of them.    *)
LEMMA BusOrderKeepsAll ==
  ASSUME NEW T, NEW W \in SUBSET T, IsFiniteSet(W)
  PROVE  InBusOrder(W) \in Seq(T) /\ Buffered(InBusOrder(W)) = W
<1>. DEFINE Visits(q) == \A w \in W : \E n \in DOMAIN q : q[n] = w
<1>1. PICK q \in [1 .. Cardinality(W) -> W] : Visits(q)
  <2>1. ExistsBijection(1 .. Cardinality(W), W)
    BY FS_CardinalityType, Zenon
  <2>. QED BY <2>1, Zenon DEF ExistsBijection, Bijection, Surjection, Injection
<1>2. /\ InBusOrder(W) \in [1 .. Cardinality(W) -> W]
      /\ Visits(InBusOrder(W))
  BY <1>1, Zenon DEF InBusOrder
<1>3. Cardinality(W) \in Nat
  BY FS_CardinalityType, Zenon
<1>. HIDE DEF Visits
<1>4. InBusOrder(W) \in Seq(T) /\ DOMAIN InBusOrder(W) = 1 .. Cardinality(W)
  BY <1>2, <1>3
<1>5. Buffered(InBusOrder(W)) \subseteq W
  BY <1>2, <1>4, Zenon DEF Buffered
<1>6. W \subseteq Buffered(InBusOrder(W))
  BY <1>2, Zenon DEF Buffered, Visits
<1>. QED BY <1>4, <1>5, <1>6, Zenon

--------------------------------------------------------------------------------
(* The scheduler's calls, as the machine makes them.                        *)

(* schedule() of a deadline not in the past: afterwards the wake is queued, *)
(* as a new event or as one queued before, and nothing has left the heap.   *)
LEMMA ScheduleEffect ==
  ASSUME IInv, NEW deadline \in Cycles, NEW i \in Indices, NEW k \in Tokens,
         deadline >= now, Schedule(deadline, i, k)
  PROVE  /\ IInv' /\ now' = now
         /\ \A e \in heap : e \in heap'
         /\ \A e \in heap' :
              \/ e \in heap
              \/ e.deadline = deadline /\ e.peripheral_idx = i /\ e.event_token = k
         /\ \E e \in heap' : e.peripheral_idx = i /\ e.event_token = k /\ e.deadline = deadline
<1>. USE DEF IInv
<1>1. Clamped(deadline) = deadline
  BY DEF Clamped, TypeOK, Cycles
<1>2. CASE ScheduleDuplicate(deadline, i, k)
  <2>1. IInv' /\ now' = now /\ heap' = heap
    BY <1>2, ScheduleDuplicateIInv, Zenon DEF ScheduleDuplicate
  <2>2. PICK e \in heap : Key(e) = <<i, k, deadline>>
    BY <1>1, <1>2, Zenon DEF ScheduleDuplicate, IndexMatchesHeap
  <2>3. e.peripheral_idx = i /\ e.event_token = k /\ e.deadline = deadline
    BY <2>2, Zenon DEF Key
  <2>. HIDE DEF IInv
  <2>. QED BY <2>1, <2>3, Zenon
<1>3. CASE ScheduleAccepted(deadline, i, k)
  <2>. DEFINE e == NewEvent(deadline, i, k)
  <2>1. IInv' /\ now' = now /\ heap' = heap \cup {e}
    BY <1>3, ScheduleAcceptedIInv, Zenon DEF ScheduleAccepted
  <2>2. e.peripheral_idx = i /\ e.event_token = k /\ e.deadline = deadline
    BY <1>1, Zenon DEF NewEvent
  <2>. HIDE DEF IInv, e
  <2>. QED BY <2>1, <2>2, Zenon
<1>. QED BY <1>2, <1>3, Zenon DEF Schedule

(* Moving the clock forward to a committed cycle and bootstrapping once.    *)
LEMMA StartDrainEffect ==
  ASSUME IInv, MachineInv, NEW cycle \in Nat, total_cycles <= cycle, cycle <= LastCycle,
         StartDrain(cycle)
  PROVE  /\ IInv' /\ now' = cycle /\ heap' = heap
         /\ phase' = "enqueue" /\ scheduler_bootstrapped' = TRUE
         /\ UNCHANGED <<alarm, clocked, batch, requests, armed, served>>
         /\ pending_schedule' \in Seq(PendingWake)
         /\ Buffered(pending_schedule')
              = Buffered(pending_schedule)
                  \cup (IF scheduler_bootstrapped THEN {} ELSE BootWakes(cycle))
<1>1. cycle \in Cycles
  BY DrainAssumption, ConstantsAssumption DEF Cycles, LastCycle
<1>2. IInv' /\ now' = cycle /\ heap' = heap
  <2>1. AdvanceTo(cycle)
    BY Zenon DEF StartDrain
  <2>2. IInv'
    BY <1>1, <2>1, AdvanceToIInv, Zenon
  <2>. QED BY <2>1, <2>2 DEF AdvanceTo, MachineInv
<1>3. BootWakes(cycle) \in SUBSET PendingWake /\ IsFiniteSet(BootWakes(cycle))
  <2>. DEFINE S == {s \in Slots : alarm[s] # NoAlarm}
              f == [i \in S |-> [idx |-> i, deadline |-> cycle + BootDelay(cycle, i),
                                 token |-> AlarmToken, by |-> "setup"]]
  <2>1. \A i \in S : /\ cycle + BootDelay(cycle, i) \in 0 .. LastCycle + 1 + MaxDelay
                     /\ i \in Slots /\ AlarmToken \in Tokens
    BY DrainAssumption DEF BootDelay, MachineInv, LastCycle, AlarmToken
  <2>2. BootWakes(cycle) \in SUBSET PendingWake
    BY <2>1 DEF BootWakes, PendingWake
  <2>3. IsFiniteSet(S)
    BY DrainAssumption, FS_Subset, Zenon
  <2>4. BootWakes(cycle) = {f[i] : i \in S}
    BY Zenon DEF BootWakes
  <2>5. f \in Surjection(S, {f[i] : i \in S})
    BY Zenon DEF Surjection
  <2>. HIDE DEF S, f
  <2>6. IsFiniteSet({f[i] : i \in S})
    BY <2>3, <2>5, FS_Surjection, Zenon
  <2>. QED BY <2>2, <2>4, <2>6, Zenon
<1>4. /\ pending_schedule' \in Seq(PendingWake)
      /\ Buffered(pending_schedule')
           = Buffered(pending_schedule)
               \cup (IF scheduler_bootstrapped THEN {} ELSE BootWakes(cycle))
  <2>1. CASE scheduler_bootstrapped
    BY <2>1, Zenon DEF StartDrain, MachineInv
  <2>2. CASE ~ scheduler_bootstrapped
    <3>1. pending_schedule' = pending_schedule \o InBusOrder(BootWakes(cycle))
      BY <2>2, Zenon DEF StartDrain
    <3>2. /\ InBusOrder(BootWakes(cycle)) \in Seq(PendingWake)
          /\ Buffered(InBusOrder(BootWakes(cycle))) = BootWakes(cycle)
      BY <1>3, BusOrderKeepsAll, Zenon
    <3>3. pending_schedule \in Seq(PendingWake)
      BY Zenon DEF MachineInv
    <3>. QED BY <2>2, <3>1, <3>2, <3>3, BufferedConcat
  <2>. QED BY <2>1, <2>2, Zenon
<1>. QED BY <1>2, <1>4, Zenon DEF StartDrain, historyVars

(* A non-empty set of deadlines has a least one. *)
LEMMA LeastDeadline ==
  ASSUME NEW S \in SUBSET Nat, S # {}
  PROVE  \E m \in S : \A x \in S : m <= x
<1>. DEFINE down == {0 .. n : n \in S}
<1>1. down \subseteq FiniteSubsetsOf(Nat) /\ down # {}
  <2>1. \A n \in S : 0 .. n \in FiniteSubsetsOf(Nat)
    <3>. SUFFICES ASSUME NEW n \in S PROVE 0 .. n \in FiniteSubsetsOf(Nat)
      BY Zenon
    <3>1. IsFiniteSet(0 .. n) /\ 0 .. n \subseteq Nat
      BY FS_Interval
    <3>. QED BY <3>1, Zenon DEF FiniteSubsetsOf
  <2>. QED BY <2>1, Zenon
<1>2. PICK D \in down : \A E \in down : ~(<<E, D>> \in StrictSubsetOrdering(Nat))
  <2>. HIDE DEF down
  <2>. QED BY <1>1, FS_StrictSubsetOrderingWellFounded, WFMin, Zenon
<1>3. PICK m \in S : D = 0 .. m
  BY Zenon
<1>4. \A n \in S : m <= n
  <2>. SUFFICES ASSUME NEW n \in S, n < m PROVE FALSE
    OBVIOUS
  <2>1. 0 .. n \in down /\ 0 .. n \in SUBSET Nat /\ 0 .. m \in SUBSET Nat
    OBVIOUS
  <2>2. 0 .. n \subseteq 0 .. m /\ m \in 0 .. m /\ m \notin 0 .. n
    OBVIOUS
  <2>. HIDE DEF down
  <2>. QED BY <1>2, <1>3, <2>1, <2>2, Zenon DEF StrictSubsetOrdering
<1>. QED BY <1>4, Zenon

(* plan_cpu_window() never crosses a tick boundary, and a queued deadline   *)
(* by one cycle only if it has already passed.                              *)
LEMMA WindowBounds ==
  ASSUME IInv, MachineInv, NEW n \in 1 .. Window
  PROVE  /\ n \in Nat /\ 1 <= n /\ n <= peripheral_tick_interval
         /\ \A e \in heap : IF e.deadline > total_cycles THEN total_cycles + n <= e.deadline
                            ELSE n <= 1
<1>1. /\ UntilTick \in Nat /\ 1 <= UntilTick /\ UntilTick <= peripheral_tick_interval
  <2>1. /\ total_cycles % peripheral_tick_interval \in Nat
        /\ total_cycles % peripheral_tick_interval < peripheral_tick_interval
    BY DrainAssumption DEF MachineInv
  <2>. QED BY <2>1, DrainAssumption DEF UntilTick
<1>2. total_cycles \in Nat /\ \A e \in heap : e.deadline \in Nat
  BY DEF MachineInv, IInv, TypeOK, ScheduledEvent, Cycles
<1>3. CASE ~ (peripheral_tick_interval > 1 /\ heap # {})
  <2>1. n \in 1 .. UntilTick
    BY <1>3, Zenon DEF Window
  <2>. QED BY <1>1, <1>2, <1>3, <2>1, DrainAssumption
<1>4. CASE peripheral_tick_interval > 1 /\ heap # {}
  <2>. DEFINE next == CHOOSE d \in Deadlines : \A f \in Deadlines : d <= f
  <2>1. /\ next \in Nat
        /\ \A e \in heap : next <= e.deadline
    <3>1. Deadlines \in SUBSET Nat /\ Deadlines # {}
      BY <1>2, <1>4, Zenon DEF Deadlines
    <3>2. next \in Deadlines /\ \A f \in Deadlines : next <= f
      BY <3>1, LeastDeadline, Zenon
    <3>. HIDE DEF next
    <3>. QED BY <3>1, <3>2, Zenon DEF Deadlines
  <2>2. n \in 1 .. Smaller(UntilTick, UntilDeadline(next))
    BY <1>4, Zenon DEF Window
  <2>. HIDE DEF next
  <2>3. /\ UntilDeadline(next) \in Nat
        /\ n <= UntilTick /\ n <= UntilDeadline(next) /\ n \in Nat /\ 1 <= n
    BY <1>1, <1>2, <2>1, <2>2 DEF Smaller, UntilDeadline
  <2>. QED BY <1>1, <1>2, <2>1, <2>3, DrainAssumption DEF UntilDeadline
<1>. QED BY <1>3, <1>4, Zenon

(* The wake at the head of the buffer is queued, no earlier than now.       *)
LEMMA EnqueueEffect ==
  ASSUME IInv, MachineInv, Enqueue
  PROVE  LET b == Head(pending_schedule)
             d == EnqueueAt(b.deadline)
         IN  /\ IInv' /\ now' = now /\ phase = "enqueue"
             /\ b \in PendingWake
             /\ pending_schedule' \in Seq(PendingWake)
             /\ Buffered(pending_schedule) = {b} \cup Buffered(pending_schedule')
             /\ d \in Nat /\ d >= now /\ d >= b.deadline /\ (d = now \/ d = b.deadline)
             /\ \A e \in heap : e \in heap'
             /\ \A e \in heap' : e \in heap \/ e.deadline = d
             /\ \E e \in heap' : /\ e.peripheral_idx = b.idx /\ e.event_token = b.token
                                 /\ e.deadline = d
<1>. DEFINE b == Head(pending_schedule)
            d == EnqueueAt(b.deadline)
<1>1. /\ b \in PendingWake /\ pending_schedule' \in Seq(PendingWake)
      /\ Buffered(pending_schedule) = {b} \cup Buffered(pending_schedule')
  BY BufferedTail, Zenon DEF Enqueue, MachineInv
<1>2. Schedule(d, b.idx, b.token)
  BY Zenon DEF Enqueue
<1>. HIDE DEF b
<1>3. b.deadline \in 0 .. LastCycle + 1 + MaxDelay /\ b.idx \in Indices /\ b.token \in Tokens
  BY <1>1, Zenon DEF PendingWake, Indices
<1>4. d \in Cycles /\ d >= now /\ d >= b.deadline /\ (d = now \/ d = b.deadline)
  BY <1>3, DrainAssumption, ConstantsAssumption
     DEF EnqueueAt, Larger, Cycles, LastCycle, MachineInv
<1>5. d \in Nat
  BY <1>4 DEF Cycles
<1>. HIDE DEF d
<1>6. /\ IInv' /\ now' = now
      /\ \A e \in heap : e \in heap'
      /\ \A e \in heap' : e \in heap \/ e.deadline = d
      /\ \E e \in heap' : /\ e.peripheral_idx = b.idx /\ e.event_token = b.token
                          /\ e.deadline = d
  BY <1>2, <1>3, <1>4, ScheduleEffect
<1>7. phase = "enqueue"
  BY Zenon DEF Enqueue
<1>. QED BY <1>1, <1>4, <1>5, <1>6, <1>7, Zenon DEF b, d

(* The due events are collected, everything else stays queued. *)
LEMMA CollectEffect ==
  ASSUME IInv, MachineInv, Collect
  PROVE  /\ IInv' /\ now' = now
         /\ phase = "enqueue" /\ phase' \in {after, "dispatch"}
         /\ phase' # "dispatch" => batch' = {}
         /\ pending_schedule' = pending_schedule /\ Buffered(pending_schedule) = {}
         /\ batch' \in SUBSET ScheduledEvent
         /\ \A e \in batch' : e \in heap /\ e.deadline <= now
         /\ \A e \in heap' : e \in heap /\ e.deadline > now
         /\ \A e \in heap : IF e.deadline <= now THEN e \in batch' /\ phase' = "dispatch"
                            ELSE e \in heap'
<1>1. DrainDue /\ batch' = DueEvents /\ phase = "enqueue"
  BY Zenon DEF Collect
<1>2. IInv'
  BY <1>1, DrainDueIInv, Zenon
<1>3. now' = now /\ heap' = heap \ DueEvents
  BY <1>1, Zenon DEF DrainDue
<1>4. now \in Int /\ heap \in SUBSET ScheduledEvent /\ \A e \in heap : e.deadline \in Int
  BY DEF IInv, TypeOK, ScheduledEvent, Cycles
<1>5. Buffered(pending_schedule) = {} /\ pending_schedule' = pending_schedule
  BY BufferedSeq, Zenon DEF Collect, MachineInv
<1>6. phase' = IF DueEvents = {} THEN after ELSE "dispatch"
  BY Zenon DEF Collect
<1>. HIDE DEF IInv, MachineInv, Collect
<1>. QED BY <1>1, <1>2, <1>3, <1>4, <1>5, <1>6 DEF DueEvents

(* The wake of a gated peripheral goes back to the heap, one cycle on.      *)
LEMMA GatedEffect ==
  ASSUME IInv, MachineInv, NEW e \in batch, DispatchGated(e)
  PROVE  /\ IInv' /\ now' = now
         /\ pending_schedule' = pending_schedule
         /\ \A f \in heap : f \in heap'
         /\ \A f \in heap' : f \in heap \/ f.deadline = now + 1
         /\ \E f \in heap' : /\ f.peripheral_idx = e.peripheral_idx
                             /\ f.event_token = e.event_token /\ f.deadline = now + 1
<1>1. Schedule(now + 1, e.peripheral_idx, e.event_token)
  BY Zenon DEF DispatchGated, Defer
<1>2. e.peripheral_idx \in Indices /\ e.event_token \in Tokens
  BY Zenon DEF MachineInv, ScheduledEvent
<1>3. now + 1 \in Cycles /\ now + 1 >= now
  BY DrainAssumption, ConstantsAssumption DEF MachineInv, Cycles, LastCycle
<1>4. pending_schedule' = pending_schedule
  BY Zenon DEF DispatchGated
<1>. QED BY <1>1, <1>2, <1>3, <1>4, ScheduleEffect

(* A handler asks for at most one wake of its own and makes at most one write. *)
LEMMA AtMostOneElement ==
  ASSUME NEW S, NEW T \in AtMostOne(S)
  PROVE  /\ T \in SUBSET S /\ IsFiniteSet(T)
         /\ T = {} \/ \E x : T = {x}
<1>1. CASE T = {}
  BY <1>1, FS_EmptySet, Zenon
<1>2. CASE T \in {{x} : x \in S}
  <2>1. PICK x \in S : T = {x}
    BY <1>2, Zenon
  <2>. QED BY <2>1, FS_Singleton, Zenon
<1>. QED BY <1>1, <1>2, Zenon DEF AtMostOne

(* A handler's own wakes are queued at `now` or later, and its writes join  *)
(* the buffer.                                                              *)
LEMMA HandlerEffect ==
  ASSUME IInv, MachineInv, NEW e \in batch,
         NEW delays \in AtMostOne(0 .. MaxDelay), NEW writes \in AtMostOne(HandlerWrites),
         Handler(e, delays, writes)
  PROVE  /\ IInv' /\ now' = now
         /\ writes \in SUBSET PendingWake /\ \A b \in writes : b.by = "handler"
         /\ pending_schedule' \in Seq(PendingWake)
         /\ Buffered(pending_schedule') = Buffered(pending_schedule) \cup writes
         /\ \A f \in heap : f \in heap'
         /\ \A f \in heap' :
              \/ f \in heap
              \/ /\ f.deadline >= now
                 /\ f.peripheral_idx = e.peripheral_idx /\ f.event_token = e.event_token
         /\ \A d \in delays : \E f \in heap' : /\ f.peripheral_idx = e.peripheral_idx
                                               /\ f.event_token = e.event_token
                                               /\ f.deadline = now + d
<1>1. /\ delays \in SUBSET (0 .. MaxDelay) /\ (delays = {} \/ \E d : delays = {d})
      /\ writes \in SUBSET HandlerWrites /\ IsFiniteSet(writes)
  BY AtMostOneElement, Zenon
<1>2. writes \in SUBSET PendingWake /\ \A b \in writes : b.by = "handler"
  <2>1. \A d \in 0 .. MaxDelay : WriteDeadline(d) \in 0 .. LastCycle + 1 + MaxDelay
    BY DrainAssumption DEF WriteDeadline, MachineInv, LastCycle
  <2>2. \A b \in HandlerWrites : b \in PendingWake /\ b.by = "handler"
    BY <2>1 DEF HandlerWrites, Requested, PendingWake
  <2>. QED BY <1>1, <2>2, Zenon
<1>3. /\ pending_schedule' \in Seq(PendingWake)
      /\ Buffered(pending_schedule') = Buffered(pending_schedule) \cup writes
  <2>1. pending_schedule' = pending_schedule \o InBusOrder(writes)
    BY Zenon DEF Handler
  <2>2. /\ InBusOrder(writes) \in Seq(PendingWake)
        /\ Buffered(InBusOrder(writes)) = writes
    BY <1>1, <1>2, BusOrderKeepsAll, Zenon
  <2>3. pending_schedule \in Seq(PendingWake)
    BY Zenon DEF MachineInv
  <2>4. /\ pending_schedule \o InBusOrder(writes) \in Seq(PendingWake)
        /\ Buffered(pending_schedule \o InBusOrder(writes))
              = Buffered(pending_schedule) \cup Buffered(InBusOrder(writes))
    BY ONLY <2>2, <2>3, BufferedConcat
  <2>. QED BY ONLY <2>1, <2>2, <2>4, Zenon
<1>4. e.peripheral_idx \in Indices /\ e.event_token \in Tokens
  <2>1. batch \subseteq ScheduledEvent
    BY Zenon DEF MachineInv
  <2>. QED BY ONLY <2>1, e \in batch, Zenon DEF ScheduledEvent
<1>5. Reschedule(e, delays)
  BY Zenon DEF Handler
<1>6. CASE delays = {} /\ UNCHANGED vars
  <2>1. IInv' /\ now' = now /\ heap' = heap
    BY <1>6, StutterIInv, Zenon DEF vars
  <2>. QED BY <1>2, <1>3, <1>6, <2>1, Zenon
<1>7. ASSUME NEW d \in delays, Schedule(now + d, e.peripheral_idx, e.event_token)
      PROVE  /\ IInv' /\ now' = now
             /\ \A f \in heap : f \in heap'
             /\ \A f \in heap' :
                  \/ f \in heap
                  \/ /\ f.deadline >= now
                     /\ f.peripheral_idx = e.peripheral_idx /\ f.event_token = e.event_token
             /\ \A c \in delays : \E f \in heap' : /\ f.peripheral_idx = e.peripheral_idx
                                                   /\ f.event_token = e.event_token
                                                   /\ f.deadline = now + c
  <2>1. now + d \in Cycles /\ now + d >= now /\ delays = {d}
    BY <1>1, DrainAssumption, ConstantsAssumption DEF MachineInv, Cycles, LastCycle
  <2>. QED BY <1>4, <1>7, <2>1, ScheduleEffect
<1>. QED BY <1>2, <1>3, <1>5, <1>6, <1>7, Zenon DEF Reschedule

--------------------------------------------------------------------------------
(* The clocks, the bounds and the phases of an advance. *)

(* The machine starts with empty buffers at cycle zero. *)
LEMMA MachineInit == DrainInit => IInv /\ MachineInv
<1>. SUFFICES ASSUME DrainInit PROVE IInv /\ MachineInv
  BY Zenon
<1>1. IInv
  BY InitIInv, Zenon DEF DrainInit
<1>2. MachineInv
  BY DrainAssumption DEF DrainInit, Init, MachineInv, LastCycle
<1>. QED BY <1>1, <1>2, Zenon

(* One instruction of a window. *)
LEMMA RetireMachine ==
  ASSUME IInv, MachineInv, Retire, pending_schedule' \in Seq(PendingWake)
  PROVE  IInv' /\ MachineInv'
<1>1. UNCHANGED vars
  BY Zenon DEF Retire
<1>2. IInv'
  BY <1>1, StutterIInv, Zenon
<1>3. /\ phase = "cpu" /\ phase' = "cpu" /\ current_cycle < window_end
      /\ current_cycle' = current_cycle + 1
      /\ UNCHANGED <<total_cycles, window_end, alarm, after, batch, now>>
  BY Zenon DEF Retire, vars
<1>4. MachineInv'
  BY <1>3, DrainAssumption DEF MachineInv, LastCycle
<1>. QED BY <1>2, <1>4, Zenon

(* A wake a write asks for joins the buffer with the deadline of the write. *)
LEMMA WriteEffect ==
  ASSUME MachineInv, NEW i \in Slots, NEW d \in 0 .. MaxDelay, NEW k \in Tokens,
         MmioWrite(i, d, k)
  PROVE  /\ Requested("firmware", i, d, k) \in PendingWake
         /\ pending_schedule' \in Seq(PendingWake)
         /\ Buffered(pending_schedule')
              = Buffered(pending_schedule) \cup {Requested("firmware", i, d, k)}
<1>1. WriteDeadline(d) \in 0 .. LastCycle + 1 + MaxDelay
  BY DrainAssumption DEF WriteDeadline, MachineInv, LastCycle
<1>2. Requested("firmware", i, d, k) \in PendingWake
  BY <1>1, Zenon DEF Requested, PendingWake
<1>3. pending_schedule' = Append(pending_schedule, Requested("firmware", i, d, k))
  BY Zenon DEF MmioWrite, Request
<1>4. pending_schedule \in Seq(PendingWake)
  BY Zenon DEF MachineInv
<1>. QED BY <1>2, <1>3, <1>4, BufferedAppend

(* Every step keeps the two clocks equal and every cycle within its bound. *)
LEMMA MachineStep ==
  ASSUME IInv, MachineInv, [DrainNext]_allVars
  PROVE  IInv' /\ MachineInv'
<1>1. CASE Plan
  <2>1. IInv' /\ now' = now
    BY <1>1, StutterIInv, Zenon DEF Plan, vars
  <2>2. PICK n \in 1 .. Window : window_end' = total_cycles + n
    BY <1>1, Zenon DEF Plan
  <2>3. n \in Nat /\ n <= peripheral_tick_interval
    BY WindowBounds, Zenon
  <2>. QED BY <1>1, <2>1, <2>2, <2>3, DrainAssumption DEF Plan, MachineInv, LastCycle
<1>2. CASE Compute
  BY <1>2, RetireMachine, Zenon DEF Compute, MachineInv
<1>3. ASSUME NEW i \in Slots, NEW d \in 0 .. MaxDelay, NEW k \in Tokens, MmioWrite(i, d, k)
      PROVE  IInv' /\ MachineInv'
  BY <1>3, RetireMachine, WriteEffect, Zenon DEF MmioWrite
<1>4. ASSUME NEW i \in ClockedTick, SwitchClock(i)
      PROVE  IInv' /\ MachineInv'
  BY <1>4, RetireMachine, Zenon DEF SwitchClock, MachineInv
<1>5. CASE Commit
  <2>1. /\ window_end \in Nat /\ total_cycles <= window_end /\ window_end <= LastCycle
        /\ phase = "cpu" /\ batch = {}
    BY <1>5, DrainAssumption, Zenon DEF Commit, MachineInv, LastCycle
  <2>2. StartDrain(window_end)
    BY <1>5, Zenon DEF Commit
  <2>3. /\ IInv' /\ now' = window_end /\ phase' = "enqueue"
        /\ UNCHANGED <<alarm, batch>> /\ pending_schedule' \in Seq(PendingWake)
    BY <2>1, <2>2, StartDrainEffect, Zenon
  <2>. QED BY <1>5, <2>1, <2>3, Zenon DEF Commit, MachineInv
<1>6. CASE BeginIdle
  <2>1. StartDrain(total_cycles) /\ phase = "plan"
    BY <1>6, Zenon DEF BeginIdle
  <2>2. total_cycles \in Nat /\ total_cycles <= total_cycles /\ total_cycles <= LastCycle
        /\ batch = {}
    BY <2>1 DEF MachineInv
  <2>3. /\ IInv' /\ now' = total_cycles /\ phase' = "enqueue"
        /\ UNCHANGED <<alarm, batch>> /\ pending_schedule' \in Seq(PendingWake)
    BY <2>1, <2>2, StartDrainEffect, Zenon
  <2>. QED BY <1>6, <2>2, <2>3, Zenon DEF BeginIdle, MachineInv
<1>7. CASE Skip
  <2>1. PICK n \in 1 .. Horizon - total_cycles :
               /\ total_cycles' = total_cycles + n /\ current_cycle' = total_cycles + n
               /\ StartDrain(total_cycles + n)
    BY <1>7, Zenon DEF Skip
  <2>2. /\ total_cycles + n \in Nat /\ total_cycles <= total_cycles + n
        /\ total_cycles + n <= LastCycle /\ batch = {}
    BY <1>7, DrainAssumption DEF Skip, MachineInv, LastCycle
  <2>3. /\ IInv' /\ now' = total_cycles + n /\ phase' = "enqueue"
        /\ UNCHANGED <<alarm, batch>> /\ pending_schedule' \in Seq(PendingWake)
    BY <2>1, <2>2, StartDrainEffect, Zenon
  <2>. QED BY <1>7, <2>1, <2>2, <2>3, Zenon DEF Skip, MachineInv
<1>8. CASE SkipNothing
  <2>1. IInv' /\ now' = now
    BY <1>8, StutterIInv, Zenon DEF SkipNothing, vars
  <2>. QED BY <1>8, <2>1, Zenon DEF SkipNothing, MachineInv
<1>9. CASE Enqueue
  <2>1. IInv' /\ now' = now /\ pending_schedule' \in Seq(PendingWake)
    BY <1>9, EnqueueEffect, Zenon
  <2>. QED BY <1>9, <2>1, Zenon DEF Enqueue, MachineInv
<1>10. CASE Collect
  <2>1. /\ IInv' /\ now' = now /\ phase' \in {after, "dispatch"}
        /\ phase' # "dispatch" => batch' = {}
        /\ pending_schedule' = pending_schedule /\ batch' \in SUBSET ScheduledEvent
        /\ \A e \in batch' : e.deadline <= now
    BY <1>10, CollectEffect, Zenon
  <2>. QED BY <1>10, <2>1, Zenon DEF Collect, MachineInv
<1>11. ASSUME NEW e \in batch, TakeFromBatch(e), IInv', now' = now,
              pending_schedule' \in Seq(PendingWake)
       PROVE  IInv' /\ MachineInv'
  BY <1>11, Zenon DEF TakeFromBatch, MachineInv
<1>12. ASSUME NEW e \in batch, DispatchGated(e)
       PROVE  IInv' /\ MachineInv'
  <2>1. IInv' /\ now' = now /\ pending_schedule' \in Seq(PendingWake)
    BY <1>12, GatedEffect, Zenon DEF MachineInv
  <2>. QED BY <1>11, <1>12, <2>1, Zenon DEF DispatchGated
<1>13. ASSUME NEW e \in batch, NEW delays \in AtMostOne(0 .. MaxDelay),
              NEW writes \in AtMostOne(HandlerWrites), Handler(e, delays, writes)
       PROVE  IInv' /\ MachineInv'
  BY <1>11, <1>13, HandlerEffect, Zenon DEF Handler
<1>14. CASE UNCHANGED allVars
  <2>1. IInv'
    BY <1>14, StutterIInv, Zenon DEF allVars
  <2>. QED BY <1>14, <2>1, Zenon DEF allVars, vars, machineVars, historyVars, MachineInv
<1>15. CASE Stopped
  BY <1>14, <1>15, Zenon DEF Stopped
<1>. QED
  BY <1>1, <1>2, <1>3, <1>4, <1>5, <1>6, <1>7, <1>8, <1>9, <1>10, <1>12, <1>13, <1>14,
     <1>15, Zenon DEF DrainNext

(* Cycles and deadlines are numbers. *)
LEMMA CyclesAreNumbers ==
  ASSUME IInv, MachineInv
  PROVE  /\ now \in Nat /\ total_cycles \in Nat /\ now = total_cycles
         /\ current_cycle \in Nat /\ window_end \in Nat
         /\ \A e \in heap \cup batch : e.deadline \in Nat
         /\ \A b \in Buffered(pending_schedule) : b \in PendingWake /\ b.deadline \in Nat
<1>1. \A e \in heap \cup batch : e.deadline \in Nat
  BY DEF IInv, TypeOK, MachineInv, ScheduledEvent, Cycles
<1>2. \A b \in Buffered(pending_schedule) : b \in PendingWake
  BY BufferedSeq, Zenon DEF MachineInv
<1>3. \A b \in PendingWake : b.deadline \in Nat
  BY DEF PendingWake
<1>. QED BY <1>1, <1>2, <1>3, Zenon DEF MachineInv

-------------------------------------------------------------------------------
(* How late a wake may be, and what becomes of it. *)

(* The planned window runs past a queued deadline by at most one cycle, and *)
(* past one that is still ahead not at all.                                 *)
WindowCut ==
  \A e \in heap : IF e.deadline > total_cycles THEN window_end <= e.deadline
                  ELSE window_end <= total_cycles + 1

(* A wake in the buffer that its drain must not be late for: any but those  *)
(* that a handler of the drain before an idle skip left there.              *)
Bounded(b) == b.by # "handler" \/ total_cycles = window_end

(* A queued event that is no longer ahead of cycle c runs in it, or was     *)
(* re-armed by its own handler in the cycle before.                         *)
NotPassed(e, c) == e.deadline >= c \/ (e.deadline + 1 = c /\ Ran(e, e.deadline))

(* How late a wake may be, by where it is and what phase the advance is in. *)
LatenessInv ==
  /\ total_cycles <= current_cycle
  /\ phase # "cpu" => window_end <= total_cycles
  /\ \A b \in Buffered(pending_schedule) :
       /\ phase # "enqueue" => b.deadline > total_cycles
       /\ phase \notin {"cpu", "enqueue"} => b.by = "handler"
       /\ phase = "enqueue" /\ Bounded(b) => now - b.deadline < peripheral_tick_interval
  /\ \A e \in heap :
       IF phase = "enqueue" THEN NotPassed(e, now)
       ELSE e.deadline >= now /\ (e.deadline = now => Ran(e, now))
  /\ \A e \in batch : e.deadline <= now /\ NotPassed(e, now)
  /\ phase = "cpu" => WindowCut

(* A request has been honoured, or its wake is on its way and not too soon. *)
Honoured(w) ==
  \/ \E s \in served : s.idx = w.idx /\ s.token = w.token /\ s.at >= w.deadline
  \/ \E b \in Buffered(pending_schedule) :
       b.idx = w.idx /\ b.token = w.token /\ b.deadline >= w.deadline
  \/ \E e \in heap \cup batch :
       e.peripheral_idx = w.idx /\ e.event_token = w.token /\ e.deadline >= w.deadline

(* No accepted request is lost, or moved before its deadline. *)
RequestInv == \A w \in armed : w.deadline \in Nat /\ Honoured(w)

(* An alarm beyond the first window, of a peripheral that is never gated,   *)
(* and where its wake may be once the scheduler is bootstrapped.            *)
FarAlarm(i) ==
  i \in Slots \ ClockedTick /\ alarm[i] # NoAlarm /\ alarm[i] > peripheral_tick_interval
(* The event of an alarm, and the four places of its wake. *)
IsAlarm(e, i) ==
  e.peripheral_idx = i /\ e.event_token = AlarmToken /\ e.deadline = alarm[i]
AlarmServed(i) == [idx |-> i, token |-> AlarmToken, at |-> alarm[i]] \in served
AlarmBuffered(i) ==
  /\ phase = "enqueue" /\ now < alarm[i]
  /\ \E b \in Buffered(pending_schedule) :
       b.idx = i /\ b.token = AlarmToken /\ b.deadline = alarm[i]
AlarmQueued(i) ==
  /\ now < alarm[i] \/ (phase = "enqueue" /\ now = alarm[i])
  /\ \E e \in heap : IsAlarm(e, i)
AlarmCollected(i) ==
  /\ phase = "dispatch" /\ now = alarm[i]
  /\ \E e \in batch : IsAlarm(e, i)
AlarmSafe(i) == AlarmServed(i) \/ AlarmBuffered(i) \/ AlarmQueued(i) \/ AlarmCollected(i)

(* From the bootstrap on, the wake of every far alarm is in one of them.    *)
AlarmInv ==
  /\ ~ scheduler_bootstrapped => total_cycles = 0 /\ phase \in {"plan", "cpu"}
  /\ scheduler_bootstrapped => \A i \in Slots : FarAlarm(i) => AlarmSafe(i)

--------------------------------------------------------------------------------
(* How late a wake may be. *)

(* A drain that starts at a cycle which has passed no queued wake, and no   *)
(* buffered one by too much, keeps every wake within its bound.             *)
LEMMA StartDrainOnTime ==
  ASSUME IInv, MachineInv, LatenessInv, batch = {},
         NEW cycle \in Nat, total_cycles <= cycle, cycle <= LastCycle, StartDrain(cycle),
         total_cycles' = cycle, cycle <= current_cycle', window_end' <= cycle,
         \A e \in heap : NotPassed(e, cycle),
         \A b \in Buffered(pending_schedule) :
           Bounded(b)' => cycle - b.deadline < peripheral_tick_interval
  PROVE  LatenessInv'
<1>1. /\ now' = cycle /\ heap' = heap /\ phase' = "enqueue" /\ batch' = {}
      /\ served' = served
      /\ Buffered(pending_schedule')
           = Buffered(pending_schedule)
               \cup (IF scheduler_bootstrapped THEN {} ELSE BootWakes(cycle))
  BY StartDrainEffect, Zenon
<1>2. \A b \in BootWakes(cycle) : cycle - b.deadline < peripheral_tick_interval
  <2>. SUFFICES ASSUME NEW i \in Slots, alarm[i] # NoAlarm
                PROVE  cycle - (cycle + BootDelay(cycle, i)) < peripheral_tick_interval
    BY DEF BootWakes
  <2>. QED BY DrainAssumption DEF BootDelay, MachineInv
<1>3. \A b \in Buffered(pending_schedule') :
        Bounded(b)' => cycle - b.deadline < peripheral_tick_interval
  BY <1>1, <1>2, Zenon
<1>4. \A e \in heap : NotPassed(e, cycle)'
  BY <1>1, Zenon DEF NotPassed, Ran
<1>. QED BY <1>1, <1>3, <1>4, Zenon DEF LatenessInv

(* Every step keeps buffered, queued and collected wakes within their bound. *)
LEMMA LatenessStep ==
  ASSUME IInv, MachineInv, MachineInv', LatenessInv, [DrainNext]_allVars
  PROVE  LatenessInv'
<1>. USE CyclesAreNumbers
<1>1. CASE Plan
  <2>1. PICK n \in 1 .. Window : window_end' = total_cycles + n
    BY <1>1, Zenon DEF Plan
  <2>2. /\ UNCHANGED <<now, heap, total_cycles, pending_schedule, batch, served>>
        /\ phase = "plan" /\ phase' = "cpu" /\ current_cycle' = total_cycles
    BY <1>1, Zenon DEF Plan, vars, historyVars
  <2>3. WindowCut'
    BY <2>1, <2>2, WindowBounds DEF WindowCut
  <2>4. total_cycles' <= current_cycle'
    BY <2>2
  <2>. QED BY <2>2, <2>3, <2>4, Zenon DEF LatenessInv, NotPassed, Ran
<1>2. ASSUME Retire, pending_schedule' = pending_schedule
      PROVE  LatenessInv'
  <2>1. /\ UNCHANGED <<now, heap, total_cycles, window_end, pending_schedule, batch, served>>
        /\ phase = "cpu" /\ phase' = "cpu" /\ current_cycle' = current_cycle + 1
    BY <1>2, Zenon DEF Retire, vars
  <2>2. total_cycles' <= current_cycle'
    BY <2>1 DEF LatenessInv
  <2>. QED BY <2>1, <2>2, Zenon DEF LatenessInv, WindowCut, NotPassed, Ran
<1>3. ASSUME NEW i \in Slots, NEW d \in 0 .. MaxDelay, NEW k \in Tokens, MmioWrite(i, d, k)
      PROVE  LatenessInv'
  <2>1. /\ Buffered(pending_schedule')
             = Buffered(pending_schedule) \cup {Requested("firmware", i, d, k)}
        /\ phase = "cpu" /\ phase' = "cpu" /\ current_cycle' = current_cycle + 1
        /\ UNCHANGED <<now, heap, total_cycles, window_end, batch, served>>
    BY <1>3, WriteEffect, Zenon DEF MmioWrite, Retire, vars
  <2>2. /\ Requested("firmware", i, d, k).deadline > total_cycles
        /\ total_cycles' <= current_cycle'
    BY <2>1, DrainAssumption DEF Requested, WriteDeadline, MachineInv
  <2>. QED BY <2>1, <2>2, Zenon DEF LatenessInv, WindowCut, NotPassed, Ran
<1>4. CASE Commit
  <2>1. /\ phase = "cpu" /\ batch = {} /\ StartDrain(window_end)
        /\ total_cycles <= window_end /\ window_end <= LastCycle
        /\ window_end <= total_cycles + peripheral_tick_interval
        /\ total_cycles' = window_end /\ current_cycle' = window_end
        /\ window_end' = window_end
    BY <1>4, DrainAssumption, Zenon DEF Commit, MachineInv, LastCycle
  <2>2. \A e \in heap : NotPassed(e, window_end)
    <3>. SUFFICES ASSUME NEW e \in heap PROVE NotPassed(e, window_end)
      BY Zenon
    <3>1. CASE e.deadline > total_cycles
      BY <2>1, <3>1, Zenon DEF LatenessInv, WindowCut, NotPassed
    <3>2. CASE ~ (e.deadline > total_cycles)
      <4>1. e.deadline = now /\ Ran(e, now) /\ window_end <= total_cycles + 1
        BY <2>1, <3>2 DEF LatenessInv, WindowCut
      <4>. QED BY <2>1, <4>1 DEF NotPassed
    <3>. QED BY <3>1, <3>2, Zenon
  <2>3. \A b \in Buffered(pending_schedule) : window_end - b.deadline < peripheral_tick_interval
    BY <2>1, DrainAssumption DEF LatenessInv
  <2>4. window_end <= window_end
    OBVIOUS
  <2>. QED BY <2>1, <2>2, <2>3, <2>4, StartDrainOnTime, Zenon
<1>5. CASE BeginIdle
  <2>1. /\ phase = "plan" /\ batch = {} /\ StartDrain(total_cycles)
        /\ total_cycles <= total_cycles /\ total_cycles <= LastCycle
        /\ UNCHANGED <<total_cycles, current_cycle, window_end>>
    BY <1>5 DEF BeginIdle, MachineInv
  <2>2. \A e \in heap : NotPassed(e, total_cycles)
    BY <2>1, Zenon DEF LatenessInv, NotPassed
  <2>3. \A b \in Buffered(pending_schedule) : total_cycles - b.deadline < peripheral_tick_interval
    BY <2>1, DrainAssumption DEF LatenessInv
  <2>4. total_cycles <= current_cycle /\ window_end <= total_cycles
    BY <2>1, Zenon DEF LatenessInv
  <2>. QED BY <2>1, <2>2, <2>3, <2>4, StartDrainOnTime, Zenon
<1>6. CASE Skip
  <2>1. PICK n \in 1 .. Horizon - total_cycles :
               /\ SkipAllowed(n) /\ StartDrain(total_cycles + n)
               /\ total_cycles' = total_cycles + n /\ current_cycle' = total_cycles + n
    BY <1>6, Zenon DEF Skip
  <2>2. /\ phase = "skip" /\ batch = {} /\ window_end' = window_end
        /\ total_cycles + n \in Nat /\ total_cycles <= total_cycles + n
        /\ total_cycles + n <= LastCycle
    BY <1>6, DrainAssumption DEF Skip, MachineInv, LastCycle
  <2>3. \A e \in heap : NotPassed(e, total_cycles + n)
    <3>1. \A e \in heap : n <= e.deadline - total_cycles
      BY <2>1, Zenon DEF SkipAllowed, Deadlines
    <3>. QED BY <2>2, <3>1, DrainAssumption DEF NotPassed
  <2>4. window_end < total_cycles'
    BY <2>1, <2>2 DEF LatenessInv
  <2>5. \A b \in Buffered(pending_schedule) : ~ Bounded(b)'
    BY <2>2, <2>4 DEF LatenessInv, Bounded
  <2>6. total_cycles + n <= current_cycle' /\ window_end' <= total_cycles + n
    BY <2>1, <2>2, <2>4
  <2>. QED BY <2>1, <2>2, <2>3, <2>5, <2>6, StartDrainOnTime, Zenon
<1>7. CASE SkipNothing
  BY <1>7, Zenon DEF SkipNothing, vars, historyVars, LatenessInv, NotPassed, Ran
<1>8. CASE Enqueue
  <2>. DEFINE b == Head(pending_schedule)
              d == EnqueueAt(b.deadline)
  <2>1. /\ now' = now /\ phase = "enqueue"
        /\ Buffered(pending_schedule) = {b} \cup Buffered(pending_schedule')
        /\ d \in Nat /\ d >= now
        /\ \A e \in heap' : e \in heap \/ e.deadline = d
    BY <1>8, EnqueueEffect, Zenon
  <2>. HIDE DEF b, d
  <2>2. phase' = "enqueue" /\ UNCHANGED <<batch, total_cycles, current_cycle, window_end, served>>
    BY <1>8, <2>1, Zenon DEF Enqueue, historyVars
  <2>3. \A e \in heap' : NotPassed(e, now)'
    BY <2>1, <2>2, Zenon DEF LatenessInv, NotPassed, Ran
  <2>. QED BY <2>1, <2>2, <2>3, Zenon DEF LatenessInv, NotPassed, Ran, Bounded
<1>9. CASE Collect
  <2>1. /\ now' = now /\ phase = "enqueue" /\ phase' \in {"plan", "skip", "dispatch"}
        /\ Buffered(pending_schedule') = {}
        /\ \A e \in batch' : e \in heap /\ e.deadline <= now
        /\ \A e \in heap' : e \in heap /\ e.deadline > now
    BY <1>9, CollectEffect, Zenon DEF MachineInv
  <2>2. UNCHANGED <<total_cycles, current_cycle, window_end, served>>
    BY <1>9, Zenon DEF Collect, historyVars
  <2>3. \A e \in heap' : e.deadline >= now /\ e.deadline # now
    BY <2>1
  <2>4. \A e \in batch' : e.deadline <= now' /\ NotPassed(e, now)'
    BY <2>1, <2>2, Zenon DEF LatenessInv, NotPassed, Ran
  <2>5. phase' # "cpu" /\ phase' # "enqueue" /\ phase # "cpu"
    BY <2>1
  <2>. QED BY <2>1, <2>2, <2>3, <2>4, <2>5, Zenon DEF LatenessInv
<1>10. ASSUME NEW e \in batch, TakeFromBatch(e), now' = now, served \subseteq served',
              \A b \in Buffered(pending_schedule') :
                \/ b \in Buffered(pending_schedule)
                \/ b.by = "handler" /\ b.deadline > total_cycles,
              \A f \in heap' :
                f \in heap \/ (f.deadline >= now /\ (f.deadline = now => Ran(f, now)'))
       PROVE  LatenessInv'
  <2>1. /\ phase = "dispatch" /\ phase' \in {"plan", "skip", "dispatch"}
        /\ batch' \in SUBSET batch
        /\ UNCHANGED <<total_cycles, current_cycle, window_end>>
    BY <1>10, Zenon DEF TakeFromBatch, MachineInv
  <2>2. phase # "cpu" /\ phase # "enqueue" /\ phase' # "cpu" /\ phase' # "enqueue"
    BY <2>1
  <2>3. \A f, c : Ran(f, c) => Ran(f, c)'
    BY <1>10, Zenon DEF Ran
  <2>4. \A f \in heap' : f.deadline >= now' /\ (f.deadline = now' => Ran(f, now)')
    BY <1>10, <2>2, <2>3, Zenon DEF LatenessInv
  <2>5. \A f \in batch' : f.deadline <= now' /\ NotPassed(f, now)'
    BY <1>10, <2>1, <2>3, Zenon DEF LatenessInv, NotPassed
  <2>6. \A b \in Buffered(pending_schedule') : b.by = "handler" /\ b.deadline > total_cycles'
    BY <1>10, <2>1, <2>2, Zenon DEF LatenessInv
  <2>. QED BY <2>1, <2>2, <2>4, <2>5, <2>6, Zenon DEF LatenessInv
<1>11. ASSUME NEW e \in batch, DispatchGated(e)
       PROVE  LatenessInv'
  <2>1. /\ now' = now /\ pending_schedule' = pending_schedule /\ served' = served
        /\ \A f \in heap' : f \in heap \/ f.deadline = now + 1
    BY <1>11, GatedEffect, Zenon DEF DispatchGated, historyVars
  <2>2. now + 1 >= now /\ now + 1 # now
    OBVIOUS
  <2>3. \A b \in Buffered(pending_schedule') : b \in Buffered(pending_schedule)
    BY <2>1, Zenon DEF Buffered
  <2>. QED BY <1>10, <1>11, <2>1, <2>2, <2>3, Zenon DEF DispatchGated
<1>12. ASSUME NEW e \in batch, NEW delays \in AtMostOne(0 .. MaxDelay),
              NEW writes \in AtMostOne(HandlerWrites), Handler(e, delays, writes)
       PROVE  LatenessInv'
  <2>1. /\ now' = now
        /\ Buffered(pending_schedule') = Buffered(pending_schedule) \cup writes
        /\ \A f \in heap' :
             \/ f \in heap
             \/ /\ f.deadline >= now
                /\ f.peripheral_idx = e.peripheral_idx /\ f.event_token = e.event_token
    BY <1>12, HandlerEffect, Zenon
  <2>2. TakeFromBatch(e) /\ served' = served \cup
          {[idx |-> e.peripheral_idx, token |-> e.event_token, at |-> now]}
    BY <1>12, Zenon DEF Handler
  <2>3. \A b \in writes : b.by = "handler" /\ b.deadline > total_cycles
    <3>1. writes \in SUBSET HandlerWrites
      BY AtMostOneElement, Zenon
    <3>2. \A d \in 0 .. MaxDelay : WriteDeadline(d) > total_cycles
      BY DrainAssumption DEF WriteDeadline, LatenessInv
    <3>. QED BY <3>1, <3>2 DEF HandlerWrites, Requested
  <2>4. \A f \in heap' :
          f \in heap \/ (f.deadline >= now /\ (f.deadline = now => Ran(f, now)'))
    BY <2>1, <2>2, Zenon DEF Ran
  <2>. QED BY <1>10, <2>1, <2>2, <2>3, <2>4, Zenon
<1>13. CASE UNCHANGED allVars
  BY <1>13, Zenon DEF allVars, vars, machineVars, historyVars, LatenessInv, WindowCut,
     NotPassed, Ran, Bounded
<1>. QED
  BY <1>1, <1>2, <1>3, <1>4, <1>5, <1>6, <1>7, <1>8, <1>9, <1>11, <1>12, <1>13, Zenon
     DEF DrainNext, Compute, SwitchClock, Stopped

--------------------------------------------------------------------------------
(* No request is forgotten. *)

(* A step that takes nothing out of the buffer, the heap, the batch and the *)
(* served wakes loses no request.                                           *)
LEMMA NothingRemoved ==
  ASSUME NEW w, Honoured(w), served \in SUBSET served',
         Buffered(pending_schedule) \in SUBSET Buffered(pending_schedule'),
         heap \cup batch \in SUBSET (heap' \cup batch')
  PROVE  Honoured(w)'
BY Zenon DEF Honoured

(* Every step keeps every request's wake, or serves it late enough.         *)
LEMMA RequestStep ==
  ASSUME IInv, MachineInv, RequestInv, [DrainNext]_allVars
  PROVE  RequestInv'
<1>. USE CyclesAreNumbers
<1>1. ASSUME UNCHANGED <<heap, batch, pending_schedule, armed, served>>
      PROVE  RequestInv'
  BY <1>1, Zenon DEF RequestInv, Honoured
<1>2. CASE Plan \/ SkipNothing
  BY <1>1, <1>2, Zenon DEF Plan, SkipNothing, vars, historyVars
<1>3. CASE Compute \/ \E i \in ClockedTick : SwitchClock(i)
  BY <1>1, <1>3, Zenon DEF Compute, SwitchClock, Retire, vars
<1>4. ASSUME NEW i \in Slots, NEW d \in 0 .. MaxDelay, NEW k \in Tokens, MmioWrite(i, d, k)
      PROVE  RequestInv'
  <2>1. PICK b : b = Requested("firmware", i, d, k)
    BY Zenon
  <2>2. /\ Buffered(pending_schedule') = Buffered(pending_schedule) \cup {b}
        /\ armed' = armed \cup {[idx |-> i, token |-> k, deadline |-> WriteDeadline(d)]}
        /\ UNCHANGED <<heap, batch, served>>
    BY <1>4, <2>1, WriteEffect, Zenon DEF MmioWrite, Request, Retire, vars
  <2>3. ASSUME NEW w \in armed', w \notin armed
        PROVE  w.deadline \in Nat /\ Honoured(w)'
    <3>1. w.deadline \in Nat /\ w.idx = b.idx /\ w.token = b.token /\ b.deadline = w.deadline
      BY <2>1, <2>2, <2>3, DrainAssumption DEF Requested, WriteDeadline
    <3>. QED BY <2>2, <3>1 DEF Honoured
  <2>4. \A w \in armed : Honoured(w)'
    BY <2>2, NothingRemoved, Zenon DEF RequestInv
  <2>. QED BY <2>3, <2>4, Zenon DEF RequestInv
<1>5. ASSUME NEW cycle \in Nat, total_cycles <= cycle, cycle <= LastCycle, StartDrain(cycle)
      PROVE  RequestInv'
  <2>1. /\ UNCHANGED <<heap, batch, armed, served>>
        /\ Buffered(pending_schedule) \in SUBSET Buffered(pending_schedule')
    BY <1>5, StartDrainEffect, Zenon
  <2>2. \A v \in armed : Honoured(v)'
    BY <2>1, NothingRemoved, Zenon DEF RequestInv
  <2>. QED BY <2>1, <2>2, Zenon DEF RequestInv
<1>6. CASE Commit
  <2>1. window_end <= LastCycle /\ total_cycles <= window_end /\ StartDrain(window_end)
    BY <1>6, DrainAssumption, Zenon DEF Commit, MachineInv, LastCycle
  <2>. QED BY <1>5, <2>1, Zenon
<1>7. CASE BeginIdle
  <2>1. total_cycles <= LastCycle /\ total_cycles <= total_cycles /\ StartDrain(total_cycles)
    BY <1>7 DEF BeginIdle, MachineInv
  <2>. QED BY <1>5, <2>1, Zenon
<1>8. CASE Skip
  <2>1. PICK n \in 1 .. Horizon - total_cycles : StartDrain(total_cycles + n)
    BY <1>8, Zenon DEF Skip
  <2>2. /\ total_cycles + n \in Nat /\ total_cycles <= total_cycles + n
        /\ total_cycles + n <= LastCycle
    BY DrainAssumption DEF LastCycle
  <2>. QED BY <1>5, <2>1, <2>2, Zenon
<1>9. CASE Enqueue
  <2>. DEFINE b == Head(pending_schedule)
              d == EnqueueAt(b.deadline)
  <2>1. /\ Buffered(pending_schedule) = {b} \cup Buffered(pending_schedule')
        /\ d \in Nat /\ d >= b.deadline
        /\ \A e \in heap : e \in heap'
        /\ \E e \in heap' : e.peripheral_idx = b.idx /\ e.event_token = b.token
                              /\ e.deadline = d
    BY <1>9, EnqueueEffect, Zenon
  <2>. HIDE DEF b, d
  <2>2. UNCHANGED <<batch, armed, served>> /\ b.deadline \in Nat
    BY <1>9, <2>1, Zenon DEF Enqueue, historyVars
  <2>3. ASSUME NEW w \in armed
        PROVE  Honoured(w)'
    <3>1. CASE b.idx = w.idx /\ b.token = w.token /\ b.deadline >= w.deadline
      <4>1. PICK e \in heap' : e.peripheral_idx = b.idx /\ e.event_token = b.token
                                 /\ e.deadline = d
        BY <2>1, Zenon
      <4>2. e.deadline >= w.deadline /\ e.peripheral_idx = w.idx /\ e.event_token = w.token
        BY <2>1, <2>2, <3>1, <4>1 DEF RequestInv
      <4>. QED BY <4>2, Zenon DEF Honoured
    <3>2. CASE ~ (b.idx = w.idx /\ b.token = w.token /\ b.deadline >= w.deadline)
      BY <2>1, <2>2, <3>2, Zenon DEF Honoured, RequestInv
    <3>. QED BY <3>1, <3>2, Zenon
  <2>. QED BY <2>2, <2>3, Zenon DEF RequestInv
<1>10. CASE Collect
  <2>1. /\ UNCHANGED <<pending_schedule, armed, served>> /\ batch = {}
        /\ heap \in SUBSET (heap' \cup batch')
    BY <1>10, CollectEffect, Zenon DEF Collect, historyVars, MachineInv
  <2>2. \A v \in armed : Honoured(v)'
    BY <2>1, NothingRemoved, Zenon DEF RequestInv
  <2>. QED BY <2>1, <2>2, Zenon DEF RequestInv
<1>11. ASSUME NEW e \in batch, DispatchGated(e)
       PROVE  RequestInv'
  <2>1. /\ pending_schedule' = pending_schedule
        /\ \A f \in heap : f \in heap'
        /\ \E f \in heap' : f.peripheral_idx = e.peripheral_idx
                              /\ f.event_token = e.event_token /\ f.deadline = now + 1
    BY <1>11, GatedEffect, Zenon
  <2>2. batch' = batch \ {e} /\ UNCHANGED <<armed, served>> /\ e.deadline <= now
    BY <1>11, Zenon DEF DispatchGated, TakeFromBatch, historyVars, MachineInv
  <2>3. ASSUME NEW w \in armed
        PROVE  Honoured(w)'
    <3>1. CASE e.peripheral_idx = w.idx /\ e.event_token = w.token /\ e.deadline >= w.deadline
      <4>1. PICK f \in heap' : f.peripheral_idx = e.peripheral_idx
                                 /\ f.event_token = e.event_token /\ f.deadline = now + 1
        BY <2>1, Zenon
      <4>2. f.deadline >= w.deadline /\ f.peripheral_idx = w.idx /\ f.event_token = w.token
        BY <2>2, <3>1, <4>1 DEF RequestInv
      <4>. QED BY <4>2, Zenon DEF Honoured
    <3>2. CASE ~ (e.peripheral_idx = w.idx /\ e.event_token = w.token
                    /\ e.deadline >= w.deadline)
      BY <2>1, <2>2, <3>2, Zenon DEF Honoured, RequestInv
    <3>. QED BY <3>1, <3>2, Zenon
  <2>. QED BY <2>2, <2>3, Zenon DEF RequestInv
<1>12. ASSUME NEW e \in batch, NEW delays \in AtMostOne(0 .. MaxDelay),
              NEW writes \in AtMostOne(HandlerWrites), Handler(e, delays, writes)
       PROVE  RequestInv'
  <2>. DEFINE own(d)   == [idx |-> e.peripheral_idx, token |-> e.event_token,
                           deadline |-> now + d]
              other(b) == [idx |-> b.idx, token |-> b.token, deadline |-> b.deadline]
              run      == [idx |-> e.peripheral_idx, token |-> e.event_token, at |-> now]
  <2>1. /\ Buffered(pending_schedule') = Buffered(pending_schedule) \cup writes
        /\ writes \in SUBSET PendingWake
        /\ \A f \in heap : f \in heap'
        /\ \A d \in delays : \E f \in heap' : /\ f.peripheral_idx = e.peripheral_idx
                                              /\ f.event_token = e.event_token
                                              /\ f.deadline = now + d
        /\ delays \in SUBSET (0 .. MaxDelay)
    <3>1. delays \in SUBSET (0 .. MaxDelay)
      BY AtMostOneElement, Zenon
    <3>. QED BY <1>12, <3>1, HandlerEffect, Zenon
  <2>2. /\ batch' = batch \ {e} /\ served' = served \cup {run} /\ e.deadline <= now
        /\ armed' = armed \cup {own(d) : d \in delays} \cup {other(b) : b \in writes}
    BY <1>12, Zenon DEF Handler, TakeFromBatch, MachineInv
  <2>3. ASSUME NEW w \in armed
        PROVE  w.deadline \in Nat /\ Honoured(w)'
    <3>1. CASE e.peripheral_idx = w.idx /\ e.event_token = w.token /\ e.deadline >= w.deadline
      <4>1. run \in served' /\ run.idx = w.idx /\ run.token = w.token /\ run.at = now
        BY <2>2, <3>1, Zenon
      <4>2. run.at >= w.deadline
        <5>1. w.deadline \in Nat
          BY Zenon DEF RequestInv
        <5>2. e.deadline \in Int /\ now \in Int
          BY DEF IInv, TypeOK, ScheduledEvent, MachineInv
        <5>. HIDE DEF run
        <5>. QED BY ONLY <2>2, <3>1, <4>1, <5>1, <5>2
      <4>. HIDE DEF run
      <4>. QED BY <4>1, <4>2, Zenon DEF Honoured, RequestInv
    <3>2. CASE ~ (e.peripheral_idx = w.idx /\ e.event_token = w.token
                    /\ e.deadline >= w.deadline)
      <4>1. Honoured(w) /\ w.deadline \in Nat
        BY Zenon DEF RequestInv
      <4>2. /\ served \in SUBSET served'
            /\ Buffered(pending_schedule) \in SUBSET Buffered(pending_schedule')
            /\ (heap \cup batch) \ {e} \in SUBSET (heap' \cup batch')
        BY <2>1, <2>2, Zenon
      <4>. QED BY <3>2, <4>1, <4>2, Zenon DEF Honoured
    <3>. QED BY <3>1, <3>2, Zenon
  <2>4. ASSUME NEW w \in armed', NEW d \in delays, w = own(d)
        PROVE  w.deadline \in Nat /\ Honoured(w)'
    <3>1. PICK f \in heap' : /\ f.peripheral_idx = w.idx /\ f.event_token = w.token
                             /\ f.deadline = w.deadline
      BY <2>1, <2>4, Zenon
    <3>2. w.deadline \in Nat /\ f.deadline >= w.deadline
      BY <2>1, <2>4, <3>1, DrainAssumption
    <3>. QED BY <3>1, <3>2, Zenon DEF Honoured
  <2>5. ASSUME NEW w \in armed', NEW b \in writes, w = other(b)
        PROVE  w.deadline \in Nat /\ Honoured(w)'
    <3>1. /\ b \in Buffered(pending_schedule') /\ w.deadline \in Nat
          /\ b.idx = w.idx /\ b.token = w.token /\ b.deadline >= w.deadline
      BY <2>1, <2>5 DEF PendingWake
    <3>. QED BY <3>1, Zenon DEF Honoured
  <2>. HIDE DEF own, other, run
  <2>6. \A w \in armed' : w \in armed \/ (\E d \in delays : w = own(d))
                          \/ (\E b \in writes : w = other(b))
    BY <2>2, Zenon
  <2>. QED BY <2>3, <2>4, <2>5, <2>6, Zenon DEF RequestInv
<1>13. CASE UNCHANGED allVars
  BY <1>1, <1>13, Zenon DEF allVars, vars, machineVars, historyVars
<1>. QED
  BY <1>2, <1>3, <1>4, <1>6, <1>7, <1>8, <1>9, <1>10, <1>11, <1>12, <1>13, Zenon
     DEF DrainNext, Stopped

--------------------------------------------------------------------------------
(* An alarm set up before the run fires at its own cycle. *)

(* An alarm's cycle is a number. *)
LEMMA AlarmCycle ==
  ASSUME MachineInv, NEW i, FarAlarm(i)
  PROVE  alarm[i] \in Nat /\ i \in Slots
BY DrainAssumption DEF MachineInv, FarAlarm

(* The wake an alarm beyond the first drain is bootstrapped with is exact.  *)
LEMMA BootWakeExact ==
  ASSUME MachineInv, NEW i, FarAlarm(i), NEW cycle \in Nat, cycle < alarm[i]
  PROVE  \E b \in BootWakes(cycle) :
           b.idx = i /\ b.token = AlarmToken /\ b.deadline = alarm[i]
<1>. DEFINE b == [idx |-> i, deadline |-> cycle + BootDelay(cycle, i), token |-> AlarmToken,
                  by |-> "setup"]
<1>1. b \in BootWakes(cycle)
  BY Zenon DEF BootWakes, FarAlarm
<1>2. cycle + BootDelay(cycle, i) = alarm[i]
  BY AlarmCycle DEF BootDelay
<1>. QED BY <1>1, <1>2, Zenon

(* A drain that starts at a cycle no later than any deadline still ahead    *)
(* leaves every alarm's wake where the drain will find it.                  *)
LEMMA StartDrainAlarm ==
  ASSUME IInv, MachineInv, AlarmInv, phase \in {"plan", "cpu", "skip"},
         NEW cycle \in Nat, total_cycles <= cycle, cycle <= LastCycle, StartDrain(cycle),
         \A e \in heap : e.deadline > total_cycles => cycle <= e.deadline,
         ~ scheduler_bootstrapped => cycle <= peripheral_tick_interval
  PROVE  AlarmInv'
<1>1. /\ now' = cycle /\ heap' = heap /\ phase' = "enqueue"
      /\ scheduler_bootstrapped' = TRUE /\ UNCHANGED <<alarm, served>>
      /\ Buffered(pending_schedule')
           = Buffered(pending_schedule)
               \cup (IF scheduler_bootstrapped THEN {} ELSE BootWakes(cycle))
  BY StartDrainEffect, Zenon
<1>. SUFFICES ASSUME NEW i, FarAlarm(i) PROVE AlarmSafe(i)'
  BY <1>1, Zenon DEF AlarmInv, FarAlarm
<1>2. alarm[i] \in Nat /\ alarm[i] > peripheral_tick_interval
  BY AlarmCycle, Zenon DEF FarAlarm
<1>3. CASE ~ scheduler_bootstrapped
  <2>1. cycle < alarm[i]
    BY <1>2, <1>3, DrainAssumption
  <2>2. \E b \in Buffered(pending_schedule') :
          b.idx = i /\ b.token = AlarmToken /\ b.deadline = alarm[i]
    BY <1>1, <1>3, <2>1, BootWakeExact, Zenon
  <2>. QED BY <1>1, <2>1, <2>2, Zenon DEF AlarmSafe, AlarmBuffered
<1>4. CASE scheduler_bootstrapped
  <2>1. AlarmServed(i) \/ AlarmQueued(i)
    BY <1>4, AlarmCycle, Zenon DEF AlarmInv, AlarmSafe, AlarmBuffered, AlarmCollected
  <2>2. CASE AlarmServed(i)
    BY <1>1, <2>2, Zenon DEF AlarmSafe, AlarmServed
  <2>3. CASE AlarmQueued(i)
    <3>1. PICK e \in heap : IsAlarm(e, i)
      BY <2>3, Zenon DEF AlarmQueued
    <3>2. total_cycles < alarm[i]
      BY <2>3, Zenon DEF AlarmQueued, MachineInv
    <3>3. cycle <= alarm[i]
      BY <3>1, <3>2, Zenon DEF IsAlarm
    <3>4. IsAlarm(e, i)' /\ e \in heap'
      BY <1>1, <3>1, Zenon DEF IsAlarm
    <3>. QED BY <1>1, <1>2, <3>3, <3>4 DEF AlarmSafe, AlarmQueued
  <2>. QED BY <2>1, <2>2, <2>3, Zenon
<1>. QED BY <1>3, <1>4, Zenon

(* Every step keeps the wake of a far alarm on its way or serves it at its  *)
(* own cycle.                                                               *)
LEMMA AlarmStep ==
  ASSUME IInv, MachineInv, LatenessInv, AlarmInv, [DrainNext]_allVars
  PROVE  AlarmInv'
<1>. USE CyclesAreNumbers
<1>1. ASSUME UNCHANGED <<now, total_cycles, heap, batch, scheduler_bootstrapped, alarm, served>>,
             phase \notin {"enqueue", "dispatch"}, phase' \notin {"enqueue", "dispatch"},
             ~ scheduler_bootstrapped => phase' \in {"plan", "cpu"}
      PROVE  AlarmInv'
  BY <1>1, Zenon DEF AlarmInv, FarAlarm, AlarmSafe, AlarmServed, AlarmBuffered, AlarmQueued,
              AlarmCollected, IsAlarm
<1>2. CASE Plan
  BY <1>1, <1>2, Zenon DEF Plan, vars, historyVars
<1>3. CASE Retire
  BY <1>1, <1>3, Zenon DEF Retire, vars
<1>4. CASE SkipNothing
  BY <1>1, <1>4, Zenon DEF SkipNothing, vars, historyVars
<1>5. CASE Commit
  <2>1. /\ phase = "cpu" /\ StartDrain(window_end)
        /\ total_cycles <= window_end /\ window_end <= LastCycle
        /\ window_end <= total_cycles + peripheral_tick_interval
    BY <1>5, DrainAssumption, Zenon DEF Commit, MachineInv, LastCycle
  <2>2. \A e \in heap : e.deadline > total_cycles => window_end <= e.deadline
    BY <2>1, Zenon DEF LatenessInv, WindowCut
  <2>3. ~ scheduler_bootstrapped => window_end <= peripheral_tick_interval
    BY <2>1, DrainAssumption DEF AlarmInv
  <2>. QED BY <2>1, <2>2, <2>3, StartDrainAlarm, Zenon
<1>6. CASE BeginIdle
  <2>1. /\ phase = "plan" /\ StartDrain(total_cycles)
        /\ total_cycles <= total_cycles /\ total_cycles <= LastCycle
    BY <1>6 DEF BeginIdle, MachineInv
  <2>2. \A e \in heap : e.deadline > total_cycles => total_cycles <= e.deadline
    OBVIOUS
  <2>3. ~ scheduler_bootstrapped => total_cycles <= peripheral_tick_interval
    BY DrainAssumption DEF AlarmInv
  <2>. QED BY <2>1, <2>2, <2>3, StartDrainAlarm, Zenon
<1>7. CASE Skip
  <2>1. PICK n \in 1 .. Horizon - total_cycles :
               SkipAllowed(n) /\ StartDrain(total_cycles + n)
    BY <1>7, Zenon DEF Skip
  <2>2. /\ phase = "skip"
        /\ total_cycles + n \in Nat /\ total_cycles <= total_cycles + n
        /\ total_cycles + n <= LastCycle
    BY <1>7, DrainAssumption DEF Skip, LastCycle
  <2>3. \A e \in heap : n <= e.deadline - total_cycles
    BY <2>1, Zenon DEF SkipAllowed, Deadlines
  <2>4. \A e \in heap : e.deadline > total_cycles => total_cycles + n <= e.deadline
    BY <2>3, DrainAssumption
  <2>5. scheduler_bootstrapped
    BY <2>2, Zenon DEF AlarmInv
  <2>. QED BY <2>1, <2>2, <2>4, <2>5, StartDrainAlarm, Zenon
<1>8. CASE Enqueue
  <2>. DEFINE b == Head(pending_schedule)
              d == EnqueueAt(b.deadline)
  <2>1. /\ now' = now /\ phase = "enqueue"
        /\ Buffered(pending_schedule) = {b} \cup Buffered(pending_schedule')
        /\ d \in Nat /\ d >= now /\ d >= b.deadline /\ (d = now \/ d = b.deadline)
        /\ \A e \in heap : e \in heap'
        /\ \E e \in heap' : e.peripheral_idx = b.idx /\ e.event_token = b.token
                              /\ e.deadline = d
    BY <1>8, EnqueueEffect, Zenon
  <2>. HIDE DEF b, d
  <2>2. phase' = "enqueue" /\ UNCHANGED <<scheduler_bootstrapped, alarm, served>>
        /\ b.deadline \in Nat
    BY <1>8, <2>1, Zenon DEF Enqueue, historyVars
  <2>3. scheduler_bootstrapped
    BY <2>1, Zenon DEF AlarmInv
  <2>. SUFFICES ASSUME NEW i, FarAlarm(i) PROVE AlarmSafe(i)'
    BY <2>2, <2>3, Zenon DEF AlarmInv, FarAlarm
  <2>4. AlarmServed(i) \/ AlarmBuffered(i) \/ AlarmQueued(i)
    BY <2>1, <2>3, AlarmCycle, Zenon DEF AlarmInv, AlarmSafe, AlarmCollected
  <2>5. CASE AlarmServed(i) \/ AlarmQueued(i)
    BY <2>1, <2>2, <2>5, Zenon DEF AlarmSafe, AlarmServed, AlarmQueued, IsAlarm
  <2>6. CASE AlarmBuffered(i) /\ b.idx = i /\ b.token = AlarmToken /\ b.deadline = alarm[i]
    <3>1. now < alarm[i] /\ alarm[i] \in Nat /\ d = alarm[i]
      BY <2>1, <2>6, AlarmCycle DEF AlarmBuffered
    <3>2. \E e \in heap' : IsAlarm(e, i)'
      BY <2>1, <2>2, <2>6, <3>1, Zenon DEF IsAlarm
    <3>. QED BY <2>1, <2>2, <3>1, <3>2, Zenon DEF AlarmSafe, AlarmQueued
  <2>7. CASE AlarmBuffered(i) /\ ~ (b.idx = i /\ b.token = AlarmToken
                                      /\ b.deadline = alarm[i])
    <3>1. \E c \in Buffered(pending_schedule') :
            c.idx = i /\ c.token = AlarmToken /\ c.deadline = alarm[i]
      BY <2>1, <2>7, Zenon DEF AlarmBuffered
    <3>. QED BY <2>1, <2>2, <2>7, <3>1, Zenon DEF AlarmSafe, AlarmBuffered
  <2>. QED BY <2>4, <2>5, <2>6, <2>7, Zenon
<1>9. CASE Collect
  <2>1. /\ now' = now /\ phase = "enqueue"
        /\ Buffered(pending_schedule) = {}
        /\ \A e \in heap : IF e.deadline <= now THEN e \in batch' /\ phase' = "dispatch"
                           ELSE e \in heap'
    BY <1>9, CollectEffect, Zenon
  <2>2. scheduler_bootstrapped /\ UNCHANGED <<scheduler_bootstrapped, alarm, served>>
    BY <1>9, <2>1, Zenon DEF Collect, historyVars, AlarmInv
  <2>. SUFFICES ASSUME NEW i, FarAlarm(i) PROVE AlarmSafe(i)'
    BY <2>2, Zenon DEF AlarmInv, FarAlarm
  <2>3. AlarmServed(i) \/ AlarmQueued(i)
    BY <2>1, <2>2, AlarmCycle, Zenon DEF AlarmInv, AlarmSafe, AlarmBuffered, AlarmCollected
  <2>4. CASE AlarmServed(i)
    BY <2>2, <2>4, Zenon DEF AlarmSafe, AlarmServed
  <2>5. CASE AlarmQueued(i)
    <3>1. PICK e \in heap : IsAlarm(e, i)
      BY <2>5, Zenon DEF AlarmQueued
    <3>2. alarm[i] \in Nat /\ now <= alarm[i] /\ e.deadline = alarm[i] /\ IsAlarm(e, i)'
      BY <2>2, <2>5, <3>1, AlarmCycle DEF AlarmQueued, IsAlarm
    <3>3. CASE now = alarm[i]
      BY <2>1, <2>2, <3>2, <3>3, Zenon DEF AlarmSafe, AlarmCollected
    <3>4. CASE now < alarm[i]
      BY <2>1, <2>2, <3>2, <3>4 DEF AlarmSafe, AlarmQueued
    <3>. QED BY <3>2, <3>3, <3>4
  <2>. QED BY <2>3, <2>4, <2>5, Zenon
<1>10. ASSUME NEW e \in batch, TakeFromBatch(e), now' = now, served \in SUBSET served',
              \A f \in heap : f \in heap',
              \A i : FarAlarm(i) /\ IsAlarm(e, i) /\ now = alarm[i] => AlarmServed(i)'
       PROVE  AlarmInv'
  <2>1. /\ phase = "dispatch" /\ batch' = batch \ {e}
        /\ phase' = IF batch' = {} THEN after ELSE "dispatch"
        /\ UNCHANGED <<scheduler_bootstrapped, alarm>>
    BY <1>10, Zenon DEF TakeFromBatch
  <2>2. scheduler_bootstrapped
    BY <2>1, Zenon DEF AlarmInv
  <2>. SUFFICES ASSUME NEW i, FarAlarm(i) PROVE AlarmSafe(i)'
    BY <2>1, <2>2, Zenon DEF AlarmInv, FarAlarm
  <2>3. AlarmServed(i) \/ AlarmQueued(i) \/ AlarmCollected(i)
    BY <2>1, <2>2, AlarmCycle, Zenon DEF AlarmInv, AlarmSafe, AlarmBuffered
  <2>4. CASE AlarmServed(i)
    BY <1>10, <2>1, <2>4, Zenon DEF AlarmSafe, AlarmServed
  <2>5. CASE AlarmQueued(i)
    BY <1>10, <2>1, <2>5, Zenon DEF AlarmSafe, AlarmQueued, IsAlarm
  <2>6. CASE AlarmCollected(i)
    <3>1. PICK f \in batch : IsAlarm(f, i)
      BY <2>6, Zenon DEF AlarmCollected
    <3>2. CASE f = e
      BY <1>10, <2>6, <3>1, <3>2, Zenon DEF AlarmSafe, AlarmCollected
    <3>3. CASE f # e
      BY <1>10, <2>1, <2>6, <3>1, <3>3, Zenon DEF AlarmSafe, AlarmCollected, IsAlarm
    <3>. QED BY <3>2, <3>3, Zenon
  <2>. QED BY <2>3, <2>4, <2>5, <2>6, Zenon
<1>11. ASSUME NEW e \in batch, DispatchGated(e)
       PROVE  AlarmInv'
  <2>1. now' = now /\ \A f \in heap : f \in heap'
    BY <1>11, GatedEffect, Zenon
  <2>2. TakeFromBatch(e) /\ served' = served /\ e.peripheral_idx \in ClockedTick
    BY <1>11, Zenon DEF DispatchGated, Gated, historyVars
  <2>3. \A i : ~ (FarAlarm(i) /\ IsAlarm(e, i))
    BY <2>2, Zenon DEF FarAlarm, IsAlarm
  <2>. QED BY <1>10, <2>1, <2>2, <2>3, Zenon
<1>12. ASSUME NEW e \in batch, NEW delays \in AtMostOne(0 .. MaxDelay),
              NEW writes \in AtMostOne(HandlerWrites), Handler(e, delays, writes)
       PROVE  AlarmInv'
  <2>1. now' = now /\ \A f \in heap : f \in heap'
    BY <1>12, HandlerEffect, Zenon
  <2>2. /\ TakeFromBatch(e) /\ UNCHANGED alarm
        /\ served' = served
             \cup {[idx |-> e.peripheral_idx, token |-> e.event_token, at |-> now]}
    BY <1>12, Zenon DEF Handler, TakeFromBatch
  <2>3. \A i : FarAlarm(i) /\ IsAlarm(e, i) /\ now = alarm[i] => AlarmServed(i)'
    BY <2>2, Zenon DEF IsAlarm, AlarmServed
  <2>. QED BY <1>10, <2>1, <2>2, <2>3, Zenon
<1>13. CASE UNCHANGED allVars
  BY <1>13, Zenon DEF allVars, vars, machineVars, historyVars, AlarmInv, FarAlarm, AlarmSafe,
               AlarmServed, AlarmBuffered, AlarmQueued, AlarmCollected, IsAlarm
<1>. QED
  BY <1>2, <1>3, <1>4, <1>5, <1>6, <1>7, <1>8, <1>9, <1>11, <1>12, <1>13, Zenon
     DEF DrainNext, Stopped, Compute, MmioWrite, SwitchClock

--------------------------------------------------------------------------------
(* The inductive invariant of the composition. *)
DrainInv == IInv /\ MachineInv /\ LatenessInv /\ RequestInv /\ AlarmInv

(* Every instruction, drain phase and handler preserves the conjunction.    *)
THEOREM DrainInductive == DrainSpec => []DrainInv
<1>1. DrainInit => DrainInv
  <2>. SUFFICES ASSUME DrainInit PROVE DrainInv
    BY Zenon
  <2>1. Buffered(pending_schedule) = {} /\ heap = {} /\ batch = {} /\ armed = {}
    BY DEF DrainInit, Init, Buffered
  <2>2. phase = "plan" /\ total_cycles = 0 /\ scheduler_bootstrapped = FALSE
    BY Zenon DEF DrainInit
  <2>3. total_cycles <= current_cycle /\ window_end <= total_cycles
    BY DEF DrainInit
  <2>4. LatenessInv /\ RequestInv /\ AlarmInv
    BY <2>1, <2>2, <2>3, Zenon DEF LatenessInv, RequestInv, AlarmInv
  <2>. QED BY <2>4, MachineInit, Zenon DEF DrainInv
<1>2. DrainInv /\ [DrainNext]_allVars => DrainInv'
  BY MachineStep, LatenessStep, RequestStep, AlarmStep, Zenon DEF DrainInv
<1>. QED BY <1>1, <1>2, PTL DEF DrainSpec

(* A wake asked for in mid-window is queued less than one tick interval     *)
(* after its deadline (a handler's write in front of an idle skip excepted) *)
(* and a queued one runs in the cycle of its deadline, or one cycle later   *)
(* if its own handler re-armed it for the cycle it ran in: whatever the     *)
(* window planner, the idle fast-forward and the handlers do.               *)
THEOREM WakesAreOnTime == DrainSpec => []WakesOnTime
<1>1. DrainInv => WakesOnTime
  <2>. SUFFICES ASSUME DrainInv PROVE WakesOnTime
    BY Zenon
  <2>1. LatenessInv /\ now \in Nat /\ \A e \in batch : e.deadline \in Nat
    BY CyclesAreNumbers, Zenon DEF DrainInv
  <2>2. \A e \in batch : e.deadline = now \/ (e.deadline + 1 = now /\ Ran(e, e.deadline))
    BY <2>1 DEF LatenessInv, NotPassed
  <2>. QED BY <2>1, <2>2, Zenon DEF LatenessInv, WakesOnTime, Buffered, Bounded
<1>. QED BY <1>1, DrainInductive, PTL

(* A wake that was asked for is served at or after its deadline or still on *)
(* its way, through the buffer, the de-duplication and every gated retry.   *)
THEOREM RequestsAreKept == DrainSpec => []NoRequestForgotten
<1>1. DrainInv => NoRequestForgotten
  BY DEF DrainInv, RequestInv, Honoured, NoRequestForgotten, Buffered
<1>. QED BY <1>1, DrainInductive, PTL

(* An alarm set up before the first advance and beyond the first window     *)
(* runs its handler at the alarm's own cycle.                               *)
THEOREM BootstrapIsExact == DrainSpec => []BootstrapExact
<1>1. DrainInv => BootstrapExact
  <2>. SUFFICES ASSUME DrainInv, NEW i \in Slots \ ClockedTick, alarm[i] # NoAlarm,
                       alarm[i] > peripheral_tick_interval, phase = "plan", now >= alarm[i]
                PROVE  [idx |-> i, token |-> AlarmToken, at |-> alarm[i]] \in served
    BY Zenon DEF BootstrapExact
  <2>1. FarAlarm(i) /\ IInv /\ MachineInv /\ AlarmInv
    BY Zenon DEF FarAlarm, DrainInv
  <2>2. alarm[i] \in Nat /\ now \in Nat /\ now = total_cycles
    BY <2>1, AlarmCycle, CyclesAreNumbers, Zenon
  <2>3. scheduler_bootstrapped
    BY <2>1, <2>2, DrainAssumption DEF AlarmInv
  <2>4. AlarmSafe(i)
    BY <2>1, <2>3, Zenon DEF AlarmInv
  <2>. QED
    BY <2>2, <2>4 DEF AlarmSafe, AlarmServed, AlarmBuffered, AlarmQueued, AlarmCollected
<1>. QED BY <1>1, DrainInductive, PTL

=============================================================================
