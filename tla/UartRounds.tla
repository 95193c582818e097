------------------------------- MODULE UartRounds -------------------------------
(****************************************************************************)
(* A world of two nodes whose USARTs share a timed link: the rounds of      *)
(* World::step_all_rounds, the wire of TimedUartNet (characters in flight,  *)
(* the receiver that samples them, cuts, delays and resets) and the part of *)
(* the USART that moves characters and claims scheduler wakes.              *)
(*                                                                          *)
(* Direction n is the one node n sends; its receiver is Peer(n). A node     *)
(* executes one-cycle instructions; between two of them its due wake is     *)
(* served. What firmware does is chosen freely.                             *)
(****************************************************************************)
EXTENDS Integers, Sequences, FiniteSets, SequencesExt

CONSTANTS Hz,              \* core clock of each node
          PS_PER_SEC,      \* world time units in a second
          DataBits,        \* data bits of a character (no parity, one stop bit)
          SampleHalfBits,  \* half bits from the start edge to the earliest sample
          OversampleTick,  \* oversampling ticks in a bit (16)
          MaxQuantum,      \* max_quantum_ps
          MinRound,        \* shortest round
          StepCycles,      \* UART_NET_STEP_CYCLES
          BitCycles,       \* bound: the bit times of each node, in its cycles
          StartOff,        \* bound: nodes whose USART is off at first
          Scripts,         \* bound: the scripts of link and reset events
          Delay0,          \* the link's first delay
          Messages,        \* bound: the characters each node sends, in order
          ActBy,           \* bound: the cycle by which each node writes them, or
                           \*   switches its USART on
          Readers,         \* bound: nodes that read DR
          HaltAt,          \* bound: the cycles at which each node may lock up
          Horizon          \* bound: the world time the caller runs to

Nodes == 1..2
Peer(n) == 3 - n
Never == 1000000           \* u64::MAX
Values == 0..(2^DataBits - 1)
NoChar == -1
Larger(a, b) == IF a > b THEN a ELSE b
Smaller(a, b) == IF a < b THEN a ELSE b
EarliestOf(S) == IF S = {} THEN Never ELSE CHOOSE x \in S : \A y \in S : x <= y

CyclesToPs(c, n) == (c * PS_PER_SEC) \div Hz[n]
PsToCyclesCeil(t, n) == (t * Hz[n] + PS_PER_SEC - 1) \div PS_PER_SEC

\* Every receiver samples its first stop bit at least SampleHalfBits after the
\* edge: lookahead_ps relies on it.
ASSUME SampleAssumption == SampleHalfBits <= 2 * (1 + DataBits) + 1

VARIABLES cyc, halted,     \* total_cycles of each node; it makes no progress
          usart,           \* of each node: brr (its bit time in cycles, 0 when it
                           \*   is off) and TimedRegs: tdr, tdr_written_cycle,
                           \*   shift_busy_until, tx_active, rdr, rxne, next_wake;
                           \*   history: onAt, the cycle it was switched on; in rdr, the
                           \*   character sent, when it was due and taken, and the
                           \*   cycle the round of that began in
          wakes,           \* the USART's wakes in the node's event heap
          port,            \* inbox, serviced_ps and hunt_ps of each node's port
          link,            \* delay_ps, connected
          free,            \* wire_free_ps of each direction
          stats,           \* DirStats of each direction; history: mixed, a receiver
                           \*   of another format took one of its characters
          round,           \* now_ps, end_ps
          script,          \* the events still to come
          turn, before, allThere,   \* a call of step_all_rounds in progress
          sent             \* history: characters firmware wrote

vars == <<cyc, halted, usart, wakes, port, link, free, stats, round, script,
          turn, before, allThere, sent>>

----------------------------------------------------------------------------
(* LineFormat                                                               *)

BitPs(n, u) == CyclesToPs(u.brr, n)
BitsBeforeStop == 1 + DataBits
SampleOffset(bit) == bit * BitsBeforeStop + bit \div 2
FramePs(bit) == bit * BitsBeforeStop + bit
FrameCycles(u) == u.brr * BitsBeforeStop + u.brr
LevelOfBit(v, k) == k > 0 /\ (k <= DataBits => (v \div 2^(k - 1)) % 2 = 1)
FormatsMatch(tx, rx) == Larger(tx - rx, rx - tx) <= tx \div 32

----------------------------------------------------------------------------
(* The wire                                                                 *)

EndPs(w) == Smaller(w.t0 + FramePs(w.bit), w.cut)
LevelAt(w, t) == t < w.t0 \/ t >= w.cut \/ LevelOfBit(w.v, (t - w.t0) \div w.bit)

\* line_level: the first character that has not ended decides.
LineLevel(inbox, t) ==
  LET live == {i \in DOMAIN inbox : t < EndPs(inbox[i])}
  IN  live = {} \/ LevelAt(inbox[EarliestOf(live)], t)

\* next_falling_edge, as <<time, character>>: the bit boundaries of a
\* character that still reach it and where the line falls.
FallsAt(w, k) == ~LevelOfBit(w.v, k) /\ (k = 0 \/ LevelOfBit(w.v, k - 1))
FallingEdges(inbox, from) ==
  {e \in {<<inbox[i].t0 + k * inbox[i].bit, i, k>> :
            i \in DOMAIN inbox, k \in 0..BitsBeforeStop} :
     LET w == inbox[e[2]]
     IN  /\ EndPs(w) > from /\ e[1] >= from /\ e[1] < EndPs(w)
         /\ FallsAt(w, e[3])}
NextFallingEdge(inbox, from) ==
  LET edges == FallingEdges(inbox, from)
      i == EarliestOf({e[2] : e \in edges})
  IN  <<EarliestOf({e[1] : e \in {x \in edges : x[2] = i}}), i>>

\* Mutant of Decode: the samples are taken at the end of each cell.
DecodeAtCellEnd(inbox, edge, bit) ==
  LET at(k) == LineLevel(inbox, edge + (k + 1) * bit)
      data[k \in 0..DataBits] ==
        IF k = 0 THEN 0 ELSE data[k - 1] + (IF at(k) THEN 2^(k - 1) ELSE 0)
  IN  IF at(0) THEN NoChar ELSE data[DataBits]

\* decode_with: the start bit, the data bits and the stop bit at mid-cell;
\* NoChar for a false start.
Decode(inbox, edge, bit) ==
  LET at(k) == LineLevel(inbox, edge + k * bit + bit \div 2)
      data[k \in 0..DataBits] ==
        IF k = 0 THEN 0 ELSE data[k - 1] + (IF at(k) THEN 2^(k - 1) ELSE 0)
  IN  IF at(0) THEN NoChar ELSE data[DataBits]

\* lookahead_ps of one direction; Never when its sender has no baud rate.
LookaheadOf(n, delay) ==
  LET tx == BitPs(n, usart[n])
      rx == BitPs(Peer(n), usart[Peer(n)])
      bit == IF rx > 0 THEN Smaller(tx, rx) ELSE tx
  IN  IF tx = 0 THEN Never
      ELSE delay + (IF rx > 0 /\ ~FormatsMatch(tx, rx)
                      THEN bit \div OversampleTick
                      ELSE (bit * SampleHalfBits) \div 2)
LookaheadPs(delay) == Smaller(LookaheadOf(1, delay), LookaheadOf(2, delay))

----------------------------------------------------------------------------
(* The receiver: next_due_ps and receive_due                                *)

\* The character a disabled receiver drops next, at its end.
Undropped(p) == {i \in DOMAIN p.inbox : ~p.inbox[i].decoded /\ EndPs(p.inbox[i]) > p.hunt}

NextDuePs(n, u, p) ==
  IF \A i \in DOMAIN p.inbox : EndPs(p.inbox[i]) <= p.hunt THEN Never
  ELSE IF u.brr = 0
    THEN IF Undropped(p) = {} THEN Never ELSE EndPs(p.inbox[EarliestOf(Undropped(p))])
  ELSE IF FallingEdges(p.inbox, p.hunt) = {} THEN Never
  ELSE NextFallingEdge(p.inbox, p.hunt)[1] + SampleOffset(BitPs(n, u))

\* Retire the characters the receiver has passed; one it never started on is
\* misframed. m holds the port p, the statistics st of the direction toward
\* it, the register (full, loaded) and the overruns of this service.
RECURSIVE Retire(_)
Retire(m) ==
  IF m.p.inbox = <<>> \/ EndPs(Head(m.p.inbox)) > m.p.hunt THEN m
  ELSE Retire([m EXCEPT !.p.inbox = Tail(@),
                        !.st.misframed = IF Head(m.p.inbox).decoded THEN @ ELSE @ + 1])

\* Mutant of DropDisabled: the character is not marked as dealt with.
DropDisabledUnmarked(m, due) == [m EXCEPT !.p.hunt = due, !.st.disabled = @ + 1]

\* A disabled receiver drops the character.
DropDisabled(m, due) ==
  LET i == EarliestOf(Undropped(m.p))
  IN  [m EXCEPT !.p.hunt = due, !.p.inbox[i].decoded = TRUE, !.st.disabled = @ + 1]

\* An enabled one samples it: a false start, an overrun, or a delivery.
Sample(n, now, u, m, due) ==
  LET e == NextFallingEdge(m.p.inbox, m.p.hunt)
      v == Decode(m.p.inbox, e[1], BitPs(n, u))
      w == m.p.inbox[e[2]]
      match == FormatsMatch(w.bit, BitPs(n, u))
      heard == [m EXCEPT !.p.hunt = due + 1, !.p.inbox[e[2]].decoded = TRUE,
                         !.st.mixed = @ \/ ~match]
  IN  IF v = NoChar
        THEN [m EXCEPT !.p.hunt = e[1] + 1, !.st.falseStarts = @ + 1]
      ELSE IF m.full
        THEN [heard EXCEPT !.st.overruns = @ + 1]
      ELSE [heard EXCEPT !.full = TRUE, !.st.delivered = @ + 1,
              !.loaded = [v |-> v, sent |-> w.v, at |-> now,
                          due |-> PsToCyclesCeil(due, n),
                          began |-> PsToCyclesCeil(round.now, n),
                          whole |-> w.cut = Never /\ match]]

\* Mutant of Passed: the cycle that begins at now is taken to be over.
PassedCycle(n, now) == CyclesToPs(now + 1, n)

\* The time the receiver's own clock has passed once it was served at now.
Passed(n, now) == CyclesToPs(now, n)

RECURSIVE ReceiveDue(_, _, _, _)
ReceiveDue(n, now, u, m) ==
  LET c == Retire(m)
      due == NextDuePs(n, u, c.p)
      late == [c EXCEPT !.st.late = IF due < c.p.serviced THEN @ + 1 ELSE @]
  IN  IF due > CyclesToPs(now, n)
        THEN [c EXCEPT !.p.serviced = Larger(@, Passed(n, now))]
      ELSE ReceiveDue(n, now, u, IF u.brr = 0 THEN DropDisabled(late, due)
                                 ELSE Sample(n, now, u, late, due))

----------------------------------------------------------------------------
(* The USART: timed_service, timed_due and timed_claim_wake                 *)

\* transmit: the start bit leaves at startPs. A cut link loses the character;
\* otherwise it follows whatever the wire still carries.
Wire(n, u, startPs) ==
  [v |-> u.tdr, bit |-> BitPs(n, u), start |-> startPs,
   t0 |-> Larger(startPs + link.delay, free[n]), cut |-> Never, decoded |-> FALSE]

TdrStart(u) == Larger(u.busy, u.tdrAt + 1)

\* A service of node n at cycle now, given its registers u, as the next value
\* of everything it touches.
Service(n, now, u) ==
  LET idle == ~u.active \/ now >= u.busy
      start == TdrStart(u)
      moves == u.tdr # NoChar /\ idle /\ start <= now
      starts == moves /\ u.brr > 0
      w == Wire(n, u, CyclesToPs(start, n))
      heard == ReceiveDue(n, now, u, [p |-> port[n], st |-> stats[Peer(n)],
                                      full |-> u.rxne, loaded |-> u.rdr])
  IN  [u |-> [u EXCEPT !.tdr = IF moves THEN NoChar ELSE @,
                       !.busy = IF starts THEN start + FrameCycles(u) ELSE @,
                       !.active = IF starts THEN now < start + FrameCycles(u) ELSE ~idle,
                       !.rxne = heard.full,
                       !.rdr = heard.loaded],
       own |-> heard.p,
       heard |-> heard.st,
       out |-> IF starts /\ link.up THEN <<w>> ELSE <<>>,
       free |-> IF starts /\ link.up THEN w.t0 + FramePs(w.bit) ELSE free[n],
       said |-> [stats[n] EXCEPT !.sent = IF starts THEN @ + 1 ELSE @,
                                 !.cut = IF starts /\ ~link.up THEN @ + 1 ELSE @]]

\* timed_due: the next cycle after now at which the USART must be served.
TimedDue(n, now, u, p) ==
  LET rx == NextDuePs(n, u, p)
      wants == (IF u.active THEN {u.busy} ELSE {})
                 \cup (IF u.tdr # NoChar /\ ~u.active THEN {TdrStart(u)} ELSE {})
                 \cup (IF rx # Never THEN {PsToCyclesCeil(rx, n)} ELSE {})
  IN  IF wants = {} THEN Never ELSE Larger(now + 1, EarliestOf(wants))

\* Mutant of ClaimsWake: any pending wake will do.
ClaimsWakeOnce(now, u, due) == due # Never /\ u.nextWake <= now

\* timed_claim_wake: nothing when an earlier or equal wake is pending.
ClaimsWake(now, u, due) == due # Never /\ ~(u.nextWake > now /\ u.nextWake <= due)
Claim(n, now, u, p) ==
  LET due == TimedDue(n, now, u, p)
  IN  IF ClaimsWake(now, u, due) THEN <<[u EXCEPT !.nextWake = due], {due}>>
      ELSE <<u, {}>>

----------------------------------------------------------------------------
NoRdr == [v |-> NoChar, sent |-> NoChar, at |-> 0, due |-> 0, began |-> 0, whole |-> TRUE]
Regs0(b) == [brr |-> b, onAt |-> 0, tdr |-> NoChar, tdrAt |-> 0, busy |-> 0, active |-> FALSE,
             rdr |-> NoRdr, rxne |-> FALSE, nextWake |-> 0]
DirStats0 == [sent |-> 0, delivered |-> 0, overruns |-> 0, cut |-> 0, disabled |-> 0,
              falseStarts |-> 0, misframed |-> 0, late |-> 0, mixed |-> FALSE]

Init ==
  /\ cyc = [n \in Nodes |-> 0]
  /\ halted = {}
  /\ \E b \in [Nodes -> UNION {BitCycles[n] : n \in Nodes}] :
       /\ \A n \in Nodes : b[n] \in BitCycles[n]
       /\ usart = [n \in Nodes |-> Regs0(IF n \in StartOff THEN 0 ELSE b[n])]
  /\ wakes = [n \in Nodes |-> {}]
  /\ port = [n \in Nodes |-> [inbox |-> <<>>, serviced |-> 0, hunt |-> 0]]
  /\ link = [delay |-> Delay0, up |-> TRUE]
  /\ free = [n \in Nodes |-> 0]
  /\ stats = [n \in Nodes |-> DirStats0]
  /\ round = [now |-> 0, end |-> Never]
  /\ script \in Scripts
  /\ turn = 0 /\ before = 0 /\ allThere = TRUE
  /\ sent = [n \in Nodes |-> 0]

----------------------------------------------------------------------------
(* A node, in its turn                                                      *)

SliceEnd(n) == Smaller(PsToCyclesCeil(round.end, n), before + StepCycles)
WakeDue(n) == \E w \in wakes[n] : w <= cyc[n]
Running(n) == turn = n /\ n \notin halted /\ ~WakeDue(n) /\ cyc[n] < SliceEnd(n)

NodeOnly == UNCHANGED <<halted, port, link, free, stats, round, script, turn, before, allThere>>

\* An instruction that leaves registers u; a store lets the USART claim a wake.
Executed(n, u, stores) ==
  LET claim == IF stores THEN Claim(n, cyc[n], u, port[n]) ELSE <<u, {}>>
  IN  /\ Running(n)
      /\ usart' = [usart EXCEPT ![n] = claim[1]]
      /\ wakes' = [wakes EXCEPT ![n] = @ \cup claim[2]]
      /\ cyc' = [cyc EXCEPT ![n] = @ + 1]
      /\ NodeOnly

Compute(n) ==
  /\ Executed(n, usart[n], FALSE)
  /\ UNCHANGED sent

\* timed_write of DR, by firmware that waits for TXE.
WriteDr(n) ==
  /\ usart[n].brr > 0 /\ usart[n].tdr = NoChar
  /\ sent[n] < Len(Messages[n]) /\ cyc[n] <= ActBy[n]
  /\ Executed(n, [usart[n] EXCEPT !.tdr = Messages[n][sent[n] + 1], !.tdrAt = cyc[n]], TRUE)
  /\ sent' = [sent EXCEPT ![n] = @ + 1]

\* timed_read of DR.
ReadDr(n) ==
  /\ usart[n].rxne /\ n \in Readers
  /\ Executed(n, [usart[n] EXCEPT !.rxne = FALSE, !.rdr = NoRdr], FALSE)
  /\ UNCHANGED sent

\* timed_config_written: a USART that was off from the start is switched on.
Configure(n) ==
  /\ usart[n].brr = 0 /\ n \in StartOff /\ cyc[n] <= ActBy[n]
  /\ \E b \in BitCycles[n] : Executed(n, [usart[n] EXCEPT !.brr = b, !.onAt = cyc[n]], TRUE)
  /\ UNCHANGED sent

\* drain_due_events and on_event: the wakes that are due are served and the
\* next one is claimed.
Serve(n) ==
  /\ turn = n /\ n \notin halted /\ WakeDue(n)
  /\ LET now == cyc[n]
         s == Service(n, now, usart[n])
         claim == Claim(n, now, s.u, s.own)
     IN  /\ usart' = [usart EXCEPT ![n] = claim[1]]
         /\ wakes' = [wakes EXCEPT ![n] = {w \in @ : w > now} \cup claim[2]]
         /\ port' = [port EXCEPT ![n] = s.own, ![Peer(n)].inbox = @ \o s.out]
         /\ free' = [free EXCEPT ![n] = s.free]
         /\ stats' = [stats EXCEPT ![n] = s.said, ![Peer(n)] = s.heard]
  /\ UNCHANGED <<cyc, halted, link, round, script, turn, before, allThere, sent>>

\* The core locks up: it makes no progress from here on.
Halt(n) ==
  /\ cyc[n] \in HaltAt[n] /\ Running(n)
  /\ halted' = halted \cup {n}
  /\ UNCHANGED <<cyc, usart, wakes, port, link, free, stats, round, script,
                 turn, before, allThere, sent>>

----------------------------------------------------------------------------
(* Rounds                                                                   *)

\* set_link_connected(false): what has not started is lost, what is on the
\* wire is truncated. W is the network [link, port, stats, free, usart].
CutDirection(W, n, t) ==
  LET inbox == W.port[Peer(n)].inbox
      begun == SelectSeq(inbox, LAMBDA w : w.t0 < t)
      Truncated(w) == IF w.t0 + FramePs(w.bit) > t THEN [w EXCEPT !.cut = Smaller(@, t)] ELSE w
  IN  [W EXCEPT !.port[Peer(n)].inbox = [i \in DOMAIN begun |-> Truncated(begun[i])],
                !.stats[n].cut = @ + Len(inbox) - Len(begun)]

\* abort_tx: the character being shifted out at t stops there.
AbortTx(W, n, t) ==
  LET Aborted(w) == IF w.start < t /\ w.start + FramePs(w.bit) > t
                      THEN [w EXCEPT !.cut = t + w.t0 - w.start] ELSE w
      inbox == W.port[Peer(n)].inbox
  IN  [W EXCEPT !.port[Peer(n)].inbox = [i \in DOMAIN inbox |-> Aborted(inbox[i])],
                !.free[n] = Smaller(@, t + W.link.delay)]

\* timed_reset.
ResetUsart(W, n) ==
  LET u == W.usart[n]
      stopped == IF u.active /\ cyc[n] < u.busy THEN AbortTx(W, n, CyclesToPs(cyc[n], n)) ELSE W
  IN  [stopped EXCEPT !.usart[n] = Regs0(0)]

\* The scripted events due at t; resets wait until the round's end is fixed.
LinkEvent(W, e, t) ==
  CASE e.kind = "slow"    -> [W EXCEPT !.link.delay = e.arg]
    [] e.kind = "cut"     -> [CutDirection(CutDirection(W, 1, t), 2, t) EXCEPT !.link.up = FALSE]
    [] e.kind = "restore" -> [W EXCEPT !.link.up = TRUE]
    [] e.kind = "reset"   -> W
ResetEvent(W, e) == IF e.kind = "reset" THEN ResetUsart(W, e.arg) ELSE W

Network == [link |-> link, port |-> port, stats |-> stats, free |-> free, usart |-> usart]

RoundEnd(t, delay, rest) ==
  LET end == t + Larger(Smaller(LookaheadPs(delay), MaxQuantum), MinRound)
  IN  IF rest # <<>> /\ rest[1].at > t THEN Smaller(end, rest[1].at) ELSE end

\* start_round: events, the round's end, resets, then timed_uart_sync.
StartRound ==
  LET t == round.now
      due == SelectSeq(script, LAMBDA e : e.at <= t)
      rest == SelectSeq(script, LAMBDA e : e.at > t)
      wired == FoldLeft(LAMBDA W, e : LinkEvent(W, e, t), Network, due)
      reset == FoldLeft(ResetEvent, wired, due)
      claim == [n \in Nodes |-> Claim(n, cyc[n], reset.usart[n], reset.port[n])]
  IN  /\ script' = rest
      /\ round' = [round EXCEPT !.end = RoundEnd(t, wired.link.delay, rest)]
      /\ link' = reset.link /\ port' = reset.port /\ stats' = reset.stats /\ free' = reset.free
      /\ usart' = [n \in Nodes |-> claim[n][1]]
      /\ wakes' = [n \in Nodes |-> wakes[n] \cup claim[n][2]]
      /\ halted' = halted \ {e.arg : e \in {x \in Range(due) : x.kind = "reset"}}

\* A call of step_all_rounds: the nodes take their turns in id order.
BeginCall ==
  /\ turn = 0 /\ round.now < Horizon
  /\ IF round.end = Never THEN StartRound
     ELSE UNCHANGED <<script, round, link, port, stats, free, usart, wakes, halted>>
  /\ turn' = 1 /\ before' = cyc[1] /\ allThere' = TRUE
  /\ UNCHANGED <<cyc, sent>>

\* Mutant of HoldsRoundOpen: a node that stands still is waited for.
HoldsRoundOpenHalted(n) == cyc[n] < PsToCyclesCeil(round.end, n)

HoldsRoundOpen(n) == cyc[n] < PsToCyclesCeil(round.end, n) /\ cyc[n] > before

\* A node that got no further does not hold the round open.
EndTurn ==
  /\ turn \in Nodes
  /\ turn \in halted \/ (~WakeDue(turn) /\ cyc[turn] >= SliceEnd(turn))
  /\ LET there == allThere /\ ~HoldsRoundOpen(turn)
     IN  /\ allThere' = there
         /\ turn' = (turn + 1) % 3
         /\ before' = IF turn = 1 THEN cyc[2] ELSE 0
         /\ round' = IF turn = 2 /\ there THEN [now |-> round.end, end |-> Never] ELSE round
  /\ UNCHANGED <<cyc, halted, usart, wakes, port, link, free, stats, script, sent>>

\* The caller has what it asked for.
CallerDone == turn = 0 /\ round.now >= Horizon /\ UNCHANGED vars

Firmware(n) == Compute(n) \/ WriteDr(n) \/ ReadDr(n) \/ Configure(n)
Next == BeginCall \/ EndTurn \/ CallerDone \/ \E n \in Nodes : Firmware(n) \/ Serve(n) \/ Halt(n)

Spec == Init /\ [][Next]_vars

\* The caller keeps calling until the horizon and a call runs to its end.
FairSpec == Spec /\ ([]<>(turn = 0 /\ round.now >= Horizon) \/ []<><<TRUE>>_vars)

----------------------------------------------------------------------------

\* No receiver acts on a character whose time its own clock had passed
\* (DirStats::late: 0 in a correct run).
NeverLate == \A n \in Nodes : stats[n].late = 0

\* RXNE is set in the cycle of the sample point. The only exception is a
\* character due in the very cycle in which the receiver learns of it, at the
\* start of a round (timed_uart_sync, timed_due's max(now + 1)): it is acted on
\* in the next one, and never later. A receiver switched on after the sample
\* point is on its own.
ActedOnInTime == \A n \in Nodes :
  LET r == usart[n].rdr
  IN  usart[n].rxne /\ r.due > usart[n].onAt =>
        r.at = r.due \/ (r.at = r.due + 1 /\ r.began = r.due)

\* step_all_rounds' promise: a peer learns of a character before its time
\* comes, and acts on it at the exact cycle.
ActedOnAtExactCycle == \A n \in Nodes :
  LET r == usart[n].rdr
  IN  usart[n].rxne /\ r.due > usart[n].onAt => r.at = r.due

\* As long as receivers share the format of what they hear, every character
\* that left a sender is delivered, lost in an overrun, lost to a cut or a
\* disabled receiver, misframed, or still on the wire: none is lost without a
\* trace and none counts twice (DirStats).
CharsAccounted == \A n \in Nodes :
  LET s == stats[n]
      flying == {i \in DOMAIN port[Peer(n)].inbox : ~port[Peer(n)].inbox[i].decoded}
  IN  ~s.mixed => s.sent = s.delivered + s.overruns + s.cut + s.disabled + s.misframed
                             + Cardinality(flying)

\* What a receiver reads of a character that reached it whole, in its own
\* format, is what was sent (decode_line).
ReadAsSent == \A n \in Nodes :
  usart[n].rxne /\ usart[n].rdr.whole => usart[n].rdr.v = usart[n].rdr.sent

\* The round clock reaches any time the caller runs to, halted nodes or not.
RoundClockMoves == <>(round.now >= Horizon)
============================================================================
