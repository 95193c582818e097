----------------------------- MODULE LogicObserver -----------------------------
(****************************************************************************)
(* One machine's logic capture and the two parties that read it: the world  *)
(* (markers and gpio_net pads) and an instrument that arms and re-arms.     *)
(*                                                                          *)
(* Pads push their changes into the tap with a provisional stamp, the       *)
(* machine ingests them at the boundary into the level ring and the         *)
(* four-state ring (LogicCapture), and ObserverMux files what the rings     *)
(* hold under its owner. The reference is a sampler that reads every pad    *)
(* at every instruction boundary.                                           *)
(****************************************************************************)
EXTENDS Integers, Sequences, FiniteSets, SequencesExt

CONSTANTS Markers, NetPads,     \* the world's pads, in channel order
          Pads,                 \* every pad
          PadValues,            \* bound: the values [level, drive] of each pad
          InputPads,            \* bound: pads driven from outside while paused
          Setups,               \* bound: [poll, ticked, drained, cost]: pads whose port
                                \*   cannot push, pads that peripheral ticks and that
                                \*   scheduler events write, what a tick may cost
          RefPlan,              \* bound: what the instrument arms, arm after arm
          MaxChanges,           \* bound: how often pads change
          LateArm,              \* bound: it may first arm after the world has read
          LOGIC_RING_CAPACITY, OBSERVER_CAP,
          TickInterval,         \* peripheral_tick_interval
          MaxBatch, MaxStep,    \* bounds: instructions in a window, cycles in one
          RunCycles, MaxCycle   \* bounds: cycles of a run, of all runs

HighZ == 2
World == Markers \o NetPads
Limit == Len(World)
NetChannels == (Len(Markers) + 1)..Limit
Clamp(x, lo, hi) == IF x < lo THEN lo ELSE IF x > hi THEN hi ELSE x
Smaller(a, b) == IF a < b THEN a ELSE b

VARIABLES total_cycles,
          pads,       \* level and drive of each pad
          tap,        \* the provisional clock and the queued PadEvents
          cap,        \* LogicCapture
          mux,        \* ObserverMux
          world,      \* the world's own cursors
          ui,         \* the instrument's cursors and times armed
          run,        \* the run in progress: target, net_drive_stop_from, the
                      \*   instructions of the open window; NoRun when paused
          setup, changes,
          sampler,    \* history: what a boundary sampler saw, for each party
          got,        \* history: what each party was given
          lossy       \* history: an arm fell between an input on a pad of the world's
                      \*   and the boundary that records it, or restarted a ring
                      \*   that had overflowed

vars == <<total_cycles, pads, tap, cap, mux, world, ui, run, setup, changes, sampler, got, lossy>>

----------------------------------------------------------------------------
(* LogicCapture                                                             *)

PadState(v) == IF v.drive = "high_z" THEN HighZ ELSE v.level

\* Where push_edge and refresh_state insert: before the trailing edges of the
\* same cycle on higher channels.
After(ring, e) ==
  CHOOSE at \in 0..Len(ring) :
    /\ \A i \in (at + 1)..Len(ring) : ring[i].cycle = e.cycle /\ ring[i].ch > e.ch
    /\ at > 0 => ~(ring[at].cycle = e.cycle /\ ring[at].ch > e.ch)
Inserted(ring, e) == InsertAt(ring, After(ring, e) + 1, e)
Full(ring) == Len(ring) = LOGIC_RING_CAPACITY

PushEdge(c, e) ==
  [c EXCEPT !.ring = Inserted(IF Full(@) THEN Tail(@) ELSE @, e),
            !.dropped = IF Full(c.ring) THEN @ + 1 ELSE @,
            !.counts[e.ch] = @ + 1,
            !.next_seq = @ + 1]

\* A second change of a channel in one cycle replaces the first.
RefreshState(c, ch, cycle) ==
  LET now == PadState(c.channels[ch].value)
      e == [ch |-> ch, cycle |-> cycle, x |-> now]
      same == {i \in DOMAIN c.states : c.states[i].cycle = cycle /\ c.states[i].ch = ch}
      changed == [c EXCEPT !.channels[ch].state = now]
  IN  IF c.channels[ch].state = now THEN c
      ELSE IF same # {} THEN [changed EXCEPT !.states[CHOOSE i \in same : TRUE] = e]
      ELSE [changed EXCEPT !.states = Inserted(IF Full(@) THEN Tail(@) ELSE @, e),
                           !.state_dropped = IF Full(c.states) THEN @ + 1 ELSE @,
                           !.state_next_seq = @ + 1]

\* Channel ch is seen to have value v.
See(c, ch, v, cycle) ==
  LET moved == c.channels[ch].value.level # v.level
      known == [c EXCEPT !.channels[ch].value = v]
  IN  RefreshState(IF moved THEN PushEdge(known, [ch |-> ch, cycle |-> cycle, x |-> v.level])
                   ELSE known, ch, cycle)

Channels(c) == [i \in DOMAIN c.channels |-> i]

\* One cycle's events: the last one of each channel counts, in channel order.
IngestCycle(c, events, stamp) ==
  LET Ingested(d, ch) ==
        LET mine == SelectSeq(events, LAMBDA e : e.ch = ch)
        IN  IF mine = <<>> \/ ~d.channels[ch].push THEN d ELSE See(d, ch, Last(mine).value, stamp)
  IN  FoldLeft(Ingested, c, Channels(c))

\* ingest_push, of events in stamp order.
IngestPush(c, events, boundary, now) ==
  LET cycles == SetToSortSeq({e.cycle : e \in Range(events)}, <)
      Step(d, cyc) == IngestCycle(d, SelectSeq(events, LAMBDA e : e.cycle = cyc),
                                  IF cyc >= boundary THEN now ELSE cyc)
  IN  FoldLeft(Step, c, cycles)

SampleWithDrive(c, ps, now) ==
  LET Sampled(d, ch) == IF d.channels[ch].push THEN d ELSE See(d, ch, ps[d.channels[ch].pad], now)
  IN  FoldLeft(Sampled, c, Channels(c))

PushActive(c) == \E i \in DOMAIN c.channels : c.channels[i].push
PollActive(c) == \E i \in DOMAIN c.channels : ~c.channels[i].push

\* read_edges and read_states: what is left of a ring once everything before
\* the cursor is acknowledged. All of it is newer than the cursor.
Unread(ring, next_seq, cursor) ==
  LET base == next_seq - Len(ring)
  IN  SubSeq(ring, Clamp(cursor, base, next_seq) - base + 1, Len(ring))

\* install and install_drives.
Installed(sources, ps, poll) ==
  [channels |-> [i \in DOMAIN sources |->
                   [pad |-> sources[i], push |-> sources[i] \notin poll,
                    value |-> ps[sources[i]], state |-> PadState(ps[sources[i]])]],
   ring |-> <<>>, next_seq |-> 0, dropped |-> 0,
   states |-> <<>>, state_next_seq |-> 0, state_dropped |-> 0,
   counts |-> [i \in DOMAIN sources |-> 0]]

----------------------------------------------------------------------------
(* The tap                                                                  *)

\* PadWatch::report: every channel on a pad that changed pushes its value.
Reported(queue, ps, new, clock) ==
  LET changed == SelectSeq(Channels(cap), LAMBDA ch :
                   cap.channels[ch].push /\ ps[cap.channels[ch].pad] # new[cap.channels[ch].pad])
  IN  queue \o [i \in DOMAIN changed |->
                  [ch |-> changed[i], value |-> new[cap.channels[changed[i]].pad], cycle |-> clock]]

\* Mutant of BatchStopHit: no push ends a batch.
BatchStopNever(queue) == FALSE

BatchStopHit(queue) == \E e \in Range(queue) : e.ch \in NetChannels

\* Mutant of Restamped: a push keeps its provisional stamp.
RestampedNever(queue, from, provisional, post) == queue

\* restamp_pending_from: an instruction's pushes move to the boundary after it.
Restamped(queue, from, provisional, post) ==
  [i \in DOMAIN queue |->
     IF i > from /\ queue[i].cycle = provisional THEN [queue[i] EXCEPT !.cycle = post] ELSE queue[i]]

----------------------------------------------------------------------------
(* ObserverMux                                                              *)

Renumbered(edges) ==
  LET mine == SelectSeq(edges, LAMBDA e : e.ch > Limit)
  IN  [i \in DOMAIN mine |-> [mine[i] EXCEPT !.ch = @ - Limit]]

\* Mutant of Filed: an edge is numbered after itself.
FiledFromOne(wbuf, ubuf, seq, edges) ==
  LET mine == Renumbered(edges)
  IN  [world |-> wbuf \o SelectSeq(edges, LAMBDA e : e.ch <= Limit),
       ui |-> ubuf \o [i \in DOMAIN mine |-> [seq |-> seq + i, e |-> mine[i]]],
       seq |-> seq + Len(mine)]

\* An edge of a ring goes to the world's buffer or, renumbered, to the
\* instrument's, whose oldest entry makes room.
Filed(wbuf, ubuf, seq, edges) ==
  LET mine == Renumbered(edges)
      numbered == [i \in DOMAIN mine |-> [seq |-> seq + i - 1, e |-> mine[i]]]
      all == ubuf \o numbered
      extra == IF Len(all) > OBSERVER_CAP THEN Len(all) - OBSERVER_CAP ELSE 0
  IN  [world |-> wbuf \o SelectSeq(edges, LAMBDA e : e.ch <= Limit),
       ui |-> SubSeq(all, extra + 1, Len(all)),
       seq |-> seq + Len(mine)]

\* observer_pull, on the capture c and the mux m.
ObserverPull(c, m) ==
  LET ring == Unread(c.ring, c.next_seq, m.level_pulled)
      states == Unread(c.states, c.state_next_seq, m.state_pulled)
      levels == Filed(m.world_levels, m.ui_edges, m.ui_edge_seq, ring)
      four == Filed(m.world_states, m.ui_states, m.ui_state_seq, states)
  IN  [cap |-> [c EXCEPT !.ring = ring, !.states = states],
       mux |-> [m EXCEPT !.level_pulled = c.next_seq, !.state_pulled = c.state_next_seq,
                         !.ui_dropped = c.dropped,
                         !.world_levels = levels.world, !.world_states = four.world,
                         !.ui_edges = levels.ui, !.ui_states = four.ui,
                         !.ui_edge_seq = levels.seq, !.ui_state_seq = four.seq]]

----------------------------------------------------------------------------
(* The reference: a sampler of the watched pads at instruction boundaries   *)

Sampler0(ps) == [last |-> ps, edges |-> [p \in Pads |-> <<>>], states |-> [p \in Pads |-> <<>>]]

Sampled(s, ps, watched, cycle) ==
  [last |-> ps,
   edges |-> [p \in Pads |-> IF p \in watched /\ s.last[p].level # ps[p].level
                               THEN Append(s.edges[p], <<cycle, ps[p].level>>) ELSE s.edges[p]],
   states |-> [p \in Pads |-> IF p \in watched /\ PadState(s.last[p]) # PadState(ps[p])
                                THEN Append(s.states[p], <<cycle, PadState(ps[p])>>)
                                ELSE s.states[p]]]

BothSample(ps, cycle, s) ==
  [world |-> Sampled(s.world, ps, Range(World), cycle),
   ui |-> Sampled(s.ui, ps, Range(ui.refs), cycle)]

----------------------------------------------------------------------------
NoRun == [target |-> 0, from |-> 0, done |-> 0]
Paused == run = NoRun
NothingGot == [edges |-> <<>>, states |-> <<>>]

\* watch_world_pins: the world arms its pads; no instrument yet.
Init ==
  /\ total_cycles = 0
  /\ setup \in Setups /\ changes = 0
  /\ pads = [p \in Pads |-> CHOOSE v \in PadValues[p] : v.level = 0 /\ v.drive = "driven"]
  /\ tap = [clock |-> 1, queue |-> <<>>]
  /\ cap = Installed(World, pads, setup.poll)
  /\ mux = [engaged |-> FALSE, level_pulled |-> 0, state_pulled |-> 0,
            world_levels |-> <<>>, world_states |-> <<>>, ui_edges |-> <<>>, ui_states |-> <<>>,
            ui_edge_seq |-> 0, ui_state_seq |-> 0, ui_dropped |-> 0]
  /\ world = [level |-> 0, state |-> 0]
  /\ ui = [refs |-> <<>>, level |-> 0, state |-> 0, arms |-> 0]
  /\ run = NoRun
  /\ sampler = [world |-> Sampler0(pads), ui |-> Sampler0(pads)]
  /\ got = [world |-> NothingGot, ui |-> NothingGot]
  /\ lossy = FALSE

----------------------------------------------------------------------------
(* The machine                                                              *)

\* From ps, at most one pad of who takes another of its values.
Writes(ps, who) == {ps} \cup UNION {{[ps EXCEPT ![p] = v] : v \in PadValues[p]} : p \in who}
Changed(ps) == changes' = changes + Cardinality({p \in Pads : ps[p] # pads[p]})
                 /\ changes' <= MaxChanges

\* logic_observe at the end of the boundary's work.
Observed(c, queue, ps, boundary, now) ==
  LET pushed == IF PushActive(c) THEN IngestPush(c, queue, boundary, now) ELSE c
  IN  IF PollActive(c) THEN SampleWithDrive(pushed, ps, now) ELSE pushed

\* advance_to_cycle_or_net_drive_change is called.
BeginRun ==
  /\ Paused /\ total_cycles < MaxCycle
  /\ run' = [target |-> Smaller(total_cycles + RunCycles, MaxCycle),
             from |-> cap.state_next_seq, done |-> 0]
  /\ UNCHANGED <<total_cycles, pads, tap, cap, mux, world, ui, setup, changes, sampler, got, lossy>>

\* An instruction of a window: it may write a pad, and may take several cycles.
\* The window ends at a tick, at a stop push, and after one instruction while
\* a channel is polled.
Instruction(ps, cost) ==
  LET start == IF run.done = 0 THEN total_cycles ELSE tap.clock
      post == start + cost
      pushed == Reported(tap.queue, pads, ps, start + 1)
  IN  /\ ~Paused
      /\ start < run.target /\ cap.state_next_seq = run.from
      /\ run.done < (IF PollActive(cap) THEN 1 ELSE MaxBatch)
      /\ run.done > 0 => /\ ~BatchStopHit(tap.queue)
                         /\ start \div TickInterval = total_cycles \div TickInterval
      /\ pads' = ps /\ Changed(ps)
      /\ tap' = [clock |-> post,
                 queue |-> Restamped(pushed, IF run.done = 0 THEN 0 ELSE Len(tap.queue),
                                     start + 1, post)]
      /\ run' = [run EXCEPT !.done = @ + 1]
      /\ sampler' = IF run.done = 0 THEN sampler ELSE BothSample(pads, start, sampler)
      /\ UNCHANGED <<total_cycles, cap, mux, world, ui, setup, got, lossy>>

\* commit_advance_boundary: the tick and its cost, scheduler events, then
\* logic_observe.
Commit(ticked, cost, drained) ==
  LET boundary == tap.clock
      ticks == boundary \div TickInterval # total_cycles \div TickInterval
      now == boundary + cost
      queue == Reported(Reported(tap.queue, pads, ticked, boundary), ticked, drained, now)
  IN  /\ run.done > 0
      /\ ~ticks => ticked = pads /\ cost = 0
      /\ total_cycles' = now
      /\ pads' = drained /\ Changed(drained)
      /\ cap' = Observed(cap, queue, drained, boundary, now)
      /\ tap' = [clock |-> now + 1, queue |-> <<>>]
      /\ run' = [run EXCEPT !.done = 0]
      /\ sampler' = BothSample(drained, now, sampler)
      /\ UNCHANGED <<mux, world, ui, setup, got, lossy>>

\* try_idle_fast_forward, to an event that may write a pad.
IdleSkip(n, drained) ==
  LET now == total_cycles + n
  IN  /\ ~Paused /\ run.done = 0 /\ ~PollActive(cap)
      /\ now <= run.target /\ cap.state_next_seq = run.from
      /\ total_cycles' = now
      /\ pads' = drained /\ Changed(drained)
      /\ cap' = Observed(cap, Reported(tap.queue, pads, drained, now), drained, now, now)
      /\ tap' = [clock |-> now + 1, queue |-> <<>>]
      /\ sampler' = BothSample(drained, now,
                               IF n > 1 THEN BothSample(pads, total_cycles + 1, sampler)
                               ELSE sampler)
      /\ UNCHANGED <<mux, world, ui, run, setup, got, lossy>>

----------------------------------------------------------------------------
(* The world                                                                *)

\* net_pad_states, into the world's hands. The run ends at its target, or when
\* a four-state change was recorded.
Return ==
  LET engaged == ObserverPull(cap, mux)
      own == Unread(cap.states, cap.state_next_seq, world.state)
  IN  /\ ~Paused /\ run.done = 0
      /\ total_cycles >= run.target \/ cap.state_next_seq > run.from
      /\ run' = NoRun
      /\ IF mux.engaged
           THEN /\ cap' = engaged.cap
                /\ mux' = [engaged.mux EXCEPT !.world_states = <<>>]
                /\ got' = [got EXCEPT !.world.states = @ \o engaged.mux.world_states]
                /\ world' = world
           ELSE /\ cap' = [cap EXCEPT !.states = own]
                /\ got' = [got EXCEPT !.world.states = @ \o own]
                /\ world' = [world EXCEPT !.state = cap.state_next_seq]
                /\ mux' = mux
      /\ UNCHANGED <<total_cycles, pads, tap, ui, setup, changes, sampler, lossy>>

\* marker_edges, at the end of a round.
MarkerEdges ==
  LET engaged == ObserverPull(cap, mux)
      own == Unread(cap.ring, cap.next_seq, world.level)
  IN  /\ Paused
      /\ IF mux.engaged
           THEN /\ cap' = engaged.cap
                /\ mux' = [engaged.mux EXCEPT !.world_levels = <<>>]
                /\ got' = [got EXCEPT !.world.edges = @ \o engaged.mux.world_levels]
                /\ world' = world
           ELSE /\ cap' = [cap EXCEPT !.ring = own]
                /\ got' = [got EXCEPT !.world.edges = @ \o own]
                /\ world' = [world EXCEPT !.level = cap.next_seq]
                /\ mux' = mux
      /\ UNCHANGED <<total_cycles, pads, tap, ui, run, setup, changes, sampler, lossy>>

\* A pad is driven from outside while the machine is paused.
PausedInput(ps) ==
  /\ Paused /\ total_cycles < MaxCycle /\ ps # pads
  /\ pads' = ps /\ Changed(ps)
  /\ tap' = [tap EXCEPT !.queue = Reported(@, pads, ps, tap.clock)]
  /\ UNCHANGED <<total_cycles, cap, mux, world, ui, run, setup, sampler, got, lossy>>

----------------------------------------------------------------------------
(* The instrument                                                           *)

\* observer_watch: what the rings hold is filed first, then the combined watch
\* set starts afresh.
ObserverWatch ==
  LET pulled == ObserverPull(cap, mux)
      refs == RefPlan[ui.arms + 1]
  IN  /\ Paused /\ ui.arms < Len(RefPlan)
      /\ LateArm \/ mux.engaged \/ world = [level |-> 0, state |-> 0]
      /\ cap' = Installed(World \o refs, pads, setup.poll)
      /\ mux' = [pulled.mux EXCEPT !.engaged = TRUE, !.level_pulled = 0, !.state_pulled = 0,
                                   !.ui_edges = <<>>, !.ui_states = <<>>,
                                   !.ui_edge_seq = 0, !.ui_state_seq = 0, !.ui_dropped = 0]
      /\ tap' = [clock |-> total_cycles + 1, queue |-> <<>>]
      /\ ui' = [refs |-> refs, level |-> 0, state |-> 0, arms |-> ui.arms + 1]
      /\ sampler' = [sampler EXCEPT !.ui = Sampler0(pads)]
      /\ got' = [got EXCEPT !.ui = NothingGot]
      /\ lossy' = (\/ lossy \/ cap.dropped + cap.state_dropped > 0
                   \/ \E p \in Range(World) : pads[p] # sampler.world.last[p])
      /\ UNCHANGED <<total_cycles, pads, world, run, setup, changes>>

Edges(buffer) == [i \in DOMAIN buffer |-> buffer[i].e]
Newer(buffer, cursor) == SelectSeq(buffer, LAMBDA b : b.seq >= cursor)

\* observer_edges and observer_states, with the cursor of the last answer.
ObserverEdges ==
  LET pulled == ObserverPull(cap, mux)
      kept == Newer(pulled.mux.ui_edges, ui.level)
  IN  /\ Paused /\ ui.arms > 0
      /\ cap' = pulled.cap
      /\ mux' = [pulled.mux EXCEPT !.ui_edges = kept]
      /\ ui' = [ui EXCEPT !.level = pulled.mux.ui_edge_seq]
      /\ got' = [got EXCEPT !.ui.edges = @ \o Edges(kept)]
      /\ UNCHANGED <<total_cycles, pads, tap, world, run, setup, changes, sampler, lossy>>

ObserverStates ==
  LET pulled == ObserverPull(cap, mux)
      kept == Newer(pulled.mux.ui_states, ui.state)
  IN  /\ Paused /\ ui.arms > 0
      /\ cap' = pulled.cap
      /\ mux' = [pulled.mux EXCEPT !.ui_states = kept]
      /\ ui' = [ui EXCEPT !.state = pulled.mux.ui_state_seq]
      /\ got' = [got EXCEPT !.ui.states = @ \o Edges(kept)]
      /\ UNCHANGED <<total_cycles, pads, tap, world, run, setup, changes, sampler, lossy>>

Machine ==
  \/ BeginRun
  \/ \E ps \in Writes(pads, Pads), cost \in 1..MaxStep : Instruction(ps, cost)
  \/ \E ticked \in Writes(pads, setup.ticked) :
       \E drained \in Writes(ticked, setup.drained), cost \in setup.cost :
         Commit(ticked, cost, drained)
  \/ \E n \in 1..RunCycles, drained \in Writes(pads, setup.drained) : IdleSkip(n, drained)
Parties ==
  \/ Return \/ MarkerEdges
  \/ \E ps \in Writes(pads, InputPads) : PausedInput(ps)
  \/ ObserverWatch \/ ObserverEdges \/ ObserverStates
Next == Machine \/ Parties

Spec == Init /\ [][Next]_vars

----------------------------------------------------------------------------

OnChannel(edges, ch) ==
  LET mine == SelectSeq(edges, LAMBDA e : e.ch = ch)
  IN  [i \in DOMAIN mine |-> <<mine[i].cycle, mine[i].x>>]

\* What the world has been given, is owed and will find in a ring.
WorldStream(given, buffer, ring, next_seq, pulled, cursor) ==
  given \o buffer \o Unread(ring, next_seq, IF mux.engaged THEN pulled ELSE cursor)
WorldEdges == WorldStream(got.world.edges, mux.world_levels, cap.ring, cap.next_seq,
                          mux.level_pulled, world.level)
WorldStates == WorldStream(got.world.states, mux.world_states, cap.states, cap.state_next_seq,
                           mux.state_pulled, world.state)

\* The world gets every edge of its pads exactly once, in order and at the
\* cycle a sampler of every boundary would give it, however the instrument
\* arms and reads; unless the ring overflowed, which it counts, or an arm
\* fell between an input and its boundary (ObserverMux, ingest_push).
WorldHearsAll == run.done = 0 /\ ~lossy =>
  \A ch \in 1..Limit :
    /\ cap.dropped = 0 => OnChannel(WorldEdges, ch) = sampler.world.edges[World[ch]]
    /\ cap.state_dropped = 0 => OnChannel(WorldStates, ch) = sampler.world.states[World[ch]]

\* The instrument gets every edge of the pads it armed since it armed them,
\* exactly once, whatever the world reads; unless a ring overflowed
\* (observer_pull).
UiEdges == got.ui.edges \o Edges(Newer(mux.ui_edges, ui.level))
             \o Renumbered(Unread(cap.ring, cap.next_seq, mux.level_pulled))
UiStates == got.ui.states \o Edges(Newer(mux.ui_states, ui.state))
              \o Renumbered(Unread(cap.states, cap.state_next_seq, mux.state_pulled))
InstrumentHearsAll == run.done = 0 =>
  \A ch \in DOMAIN ui.refs :
    /\ cap.dropped = 0 => OnChannel(UiEdges, ch) = sampler.ui.edges[ui.refs[ch]]
    /\ cap.state_dropped = 0 => OnChannel(UiStates, ch) = sampler.ui.states[ui.refs[ch]]

\* A run that watches for drive changes ends at the very boundary a net pad's
\* change is recorded at: none it hands to the world is older
\* (advance_to_cycle_or_net_drive_change).
NetChangeEndsRun == [][~Paused /\ run' = NoRun =>
  \A i \in (Len(got.world.states) + 1)..Len(got'.world.states) :
    got'.world.states[i].ch \in NetChannels => got'.world.states[i].cycle = total_cycles]_vars
============================================================================
