-------------------------------- MODULE GpioNets --------------------------------
(****************************************************************************)
(* A world whose nodes are joined by GPIO nets: WorldGpio::run_to, which    *)
(* lets every node run ahead on its own clock as far as the latencies of    *)
(* the nets make safe, and GpioNet, which resolves the drives of a wire and *)
(* queues its level changes for delivery one latency later.                 *)
(*                                                                          *)
(* One net pad per node and net, so a member of a net is a node. A call of  *)
(* run_to visits the nodes in id order; a visit is a run of instructions,   *)
(* each its own step, with the deliveries that fall due applied between     *)
(* them. What firmware does (how long an instruction is, what it drives,    *)
(* when it sleeps, when it locks up or faults) is chosen freely.            *)
(****************************************************************************)
EXTENDS Integers, Sequences, FiniteSets, FiniteSetsExt

CONSTANTS N,             \* nodes 1..N, in id order
          Hz,            \* core clock of each node
          PS_PER_SEC,    \* world time units in a second
          Nets,
          NetNodes,      \* the members of each net
          Pull,          \* the board resistor of each net: "Up", "Down", "None"
          Latency,       \* latency_ps of each net
          Exact,         \* nodes that can stop at their own drive changes
          Sleepers,      \* nodes whose idle time is fast-forwarded
          RoundPs,       \* WorldGpio::round_ps
          StepCycles,    \* UART_NET_STEP_CYCLES
          Keep,          \* deliveries kept after every member consumed them
          Drives,        \* bound: what the firmware of each node drives
          Naps,          \* bound: cycles slept before the next event
          Mortals,       \* bound: nodes that may stop for good
          MaxInstr,      \* bound: cycles of one instruction, per node
          MaxChanges,    \* bound: drive changes
          LastRound,     \* bound: the last time a single round is asked for
          Targets        \* bound: the times run_until_ps is asked for

Nodes == 1..N
NetsOf(n) == {ni \in Nets : n \in NetNodes[ni]}
Own == {"Z", "Low", "High", "PullUp", "PullDown"}
Never == 1000000             \* u64::MAX
SatAdd(a, b) == IF a = Never THEN Never ELSE a + b
Larger(a, b) == IF a > b THEN a ELSE b
Smaller(a, b) == IF a < b THEN a ELSE b

CyclesToPs(c, n) == (c * PS_PER_SEC) \div Hz[n]
PsToCyclesCeil(t, n) == (t * Hz[n] + PS_PER_SEC - 1) \div PS_PER_SEC
MinLatency == Min({Latency[ni] : ni \in Nets})

\* A cycle is no shorter than a unit of world time. WorldGpio::build refuses a
\* latency below one cycle of a member, and set_round_ps a round longer than
\* the shortest latency. An event is in the future, and the times asked for
\* are far from the end of time.
ASSUME NetAssumption ==
  /\ N \in Nat /\ PS_PER_SEC \in Nat
  /\ Hz \in [Nodes -> 1..PS_PER_SEC]
  /\ Nets # {} /\ IsFiniteSet(Nets) /\ Nets \subseteq Nat \ {0}
  /\ NetNodes \in [Nets -> (SUBSET Nodes) \ {{}}]
  /\ Pull \in [Nets -> {"Up", "Down", "None"}]
  /\ Latency \in [Nets -> Nat]
  /\ \A ni \in Nets : \A n \in NetNodes[ni] : Latency[ni] * Hz[n] >= PS_PER_SEC
  /\ RoundPs \in 1..MinLatency
  /\ StepCycles \in 1 .. Never - 1 /\ Keep \in Nat
  /\ \A n \in Nodes : Drives[n] \subseteq Own
  /\ Naps \subseteq Nat \ {0}
  /\ LastRound \in Nat /\ LastRound + RoundPs <= Never /\ Targets \subseteq 0..Never

VARIABLES cyc, prev,     \* total_cycles; the boundary before it (history)
          drive,         \* what each pad drives now
          ring,          \* state ring: drive changes of each pad not yet read
          wake,          \* 0 when awake, else the cycle of the next event
          health         \* "ok", "halted" (no progress), "broken" (errors)
VARIABLES net,           \* GpioNet: own, level, deliveries, base, next
          pending,       \* changes read from a node and not yet merged
          due            \* NodeGpio::due: the cached earliest delivery
VARIABLES pc, node,      \* where run_to is: "idle", "visit", "run"; which slot
          until, short, start, goal, stalled, failed, quiet_ps,
          limit, from, hit
VARIABLES now_ps, end_ps \* World::round; end_ps = 0 for None
VARIABLE hist            \* history: every drive change, by net and node

machineVars == <<cyc, prev, drive, ring, wake, health>>
netVars == <<net, pending, due>>
callVars == <<until, short, start, goal>>
slotVars == <<stalled, failed, quiet_ps>>
runVars == <<limit, from, hit>>
roundVars == <<now_ps, end_ps>>
vars == <<machineVars, netVars, pc, node, callVars, slotVars, runVars, roundVars, hist>>

T(n) == CyclesToPs(cyc[n], n)

\* --------------------------------------------------------------------------
\* GpioNet

\* A strong driver wins, low over high; else the pulls, the board's own
\* resistor first; else the wire floats and reads low.
Resolve(drives, pull) ==
  LET up == "PullUp" \in drives \/ pull = "Up"
      down == "PullDown" \in drives \/ pull = "Down"
  IN  IF drives \cap {"Low", "High"} # {} THEN "Low" \notin drives
      ELSE up /\ (down => pull = "Up")

WireLevel(g, pull) == Resolve({g.own[n] : n \in DOMAIN g.own}, pull)

Apply(ni, g, t, changes) ==
  LET own == [n \in DOMAIN g.own |-> IF n \in DOMAIN changes THEN changes[n] ELSE g.own[n]]
      h == [g EXCEPT !.own = own]
      l == WireLevel(h, Pull[ni])
  IN  IF l = g.level THEN h
      ELSE [h EXCEPT !.level = l,
                     !.deliveries = Append(@, [t_ps |-> t + Latency[ni], level |-> l])]

\* The deliveries member n has not been handed yet.
Undelivered(g, n) == SubSeq(g.deliveries, g.next[n] - g.base + 1, Len(g.deliveries))

Consume(g, n) ==
  LET nx == [g.next EXCEPT ![n] = @ + 1]
      m == Min({nx[k] : k \in DOMAIN nx})
  IN  IF m - g.base >= Keep
      THEN [g EXCEPT !.next = nx, !.base = m,
                     !.deliveries = SubSeq(@, m - g.base + 1, Len(@))]
      ELSE [g EXCEPT !.next = nx]

\* --------------------------------------------------------------------------
\* WorldGpio: dues, merging, horizons

NoDue == [cycle |-> Never, net |-> 0]
Unknown == [cycle |-> 0, net |-> 0]

\* The cached due, or the first delivery over the node's nets.
EarliestDue(n, nt, cache) ==
  LET waiting == {ni \in NetsOf(n) : Undelivered(nt[ni], n) # <<>>}
      cycle(ni) == PsToCyclesCeil(Head(Undelivered(nt[ni], n)).t_ps, n)
      first == Min({cycle(ni) : ni \in waiting})
  IN  IF cache[n] # Unknown THEN cache[n]
      ELSE IF waiting = {} THEN NoDue
      ELSE [cycle |-> first, net |-> Min({ni \in waiting : cycle(ni) = first})]

ForgetDues(nis, cache) ==
  [n \in Nodes |-> IF NetsOf(n) \cap nis # {} THEN Unknown ELSE cache[n]]

Fronts(q) == {q[n][1].t_ps : n \in {k \in DOMAIN q : q[k] # <<>>}}

\* A net and the changes of its members that wait to be merged into it.
Change == [t_ps : Nat, own : Own]
Delivery == [t_ps : Nat, level : BOOLEAN]
GpioNet(ni) ==
  [own : [NetNodes[ni] -> Own], level : BOOLEAN, deliveries : Seq(Delivery), base : Nat,
   next : [NetNodes[ni] -> Nat]]
MergeState(ni) == [net : GpioNet(ni), pending : [NetNodes[ni] -> Seq(Change)]]

\* Merge the changes of the earliest time, the last one of each member.
MergeFirst(ni, s) ==
  LET q == s.pending
      t == Min(Fronts(q))
      at(n) == {i \in DOMAIN q[n] : \A j \in 1..i : q[n][j].t_ps = t}
      movers == {n \in DOMAIN q : at(n) # {}}
      changes == [n \in movers |-> q[n][Max(at(n))].own]
  IN  [net |-> Apply(ni, s.net, t, changes),
       pending |-> [n \in DOMAIN q |-> SubSeq(q[n], Cardinality(at(n)) + 1, Len(q[n]))]]

\* Merge a net's changes at or before horizon, time by time.
MergeNet(ni, g, q, horizon) ==
  LET merge[s \in MergeState(ni)] ==
        IF \A t \in Fronts(s.pending) : t > horizon THEN s ELSE merge[MergeFirst(ni, s)]
  IN  merge[[net |-> g, pending |-> q]]

\* Mutant: a net is merged up to its fastest member.
MergeHorizonFastest(ni, out) == Max({T(n) : n \in NetNodes[ni]})

\* The time every live member of the net has reached.
MergeHorizon(ni, out) ==
  IF NetNodes[ni] \subseteq out THEN -1 ELSE Min({T(n) : n \in NetNodes[ni] \ out})

MergePending(q, out) ==
  [ni \in Nets |-> MergeNet(ni, net[ni], q[ni], MergeHorizon(ni, out))]

Quiet(n, exclude) == n \notin stalled \cup exclude /\ quiet_ps[n] > T(n)

\* Mutant: a sleeping node is trusted past the deliveries queued for it.
QuietBoundIgnoresDues(n) == quiet_ps[n]

\* What a sleeping node's own nets already hold against it.
QuietBound(n) ==
  Min({quiet_ps[n]}
      \cup {Head(Undelivered(net[ni], n)).t_ps - 1 :
              ni \in {k \in NetsOf(n) : Undelivered(net[k], n) # <<>>}}
      \cup UNION {{t + Latency[ni] - 1 : t \in {Min(Fronts(pending[ni]))}} :
              ni \in {k \in NetsOf(n) : Fronts(pending[k]) # {}}})

\* A change a peer has not made yet reaches a sleeping node one latency on.
RelaxOnce(known, exclude) ==
  [n \in Nodes |->
     IF Quiet(n, exclude)
     THEN Larger(Min({known[n]} \cup UNION {{SatAdd(known[r], Latency[ni]) :
                                               r \in NetNodes[ni] \ {n}} : ni \in NetsOf(n)}),
                 T(n))
     ELSE known[n]]

Relax(start_known, exclude) ==
  LET relax[known \in [Nodes -> Nat]] ==
        IF RelaxOnce(known, exclude) = known THEN known ELSE relax[RelaxOnce(known, exclude)]
  IN  relax[start_known]

\* Mutant: a node that cannot move still holds its peers back.
KnownPsStalledCounts(exclude) ==
  Relax([n \in Nodes |-> IF n \in exclude THEN Never
                         ELSE IF Quiet(n, exclude) THEN Larger(QuietBound(n), T(n))
                         ELSE T(n)], exclude)

\* Per node, the time up to which its drive changes are all known.
KnownPs(exclude) ==
  Relax([n \in Nodes |-> IF n \in stalled \cup exclude THEN Never
                         ELSE IF Quiet(n, exclude) THEN Larger(QuietBound(n), T(n))
                         ELSE T(n)], exclude)

\* The latest time node n may run to.
HorizonPs(n) ==
  LET known == KnownPs(IF n \in Exact THEN {n} ELSE {})
      m(ni) == Min({IF n \in Exact THEN Never ELSE T(n)}
                   \cup {known[r] : r \in NetNodes[ni] \ {n}} \cup Fronts(pending[ni]))
  IN  Min({Never} \cup {SatAdd(m(ni), Latency[ni]) : ni \in NetsOf(n)})

Limit(n) ==
  LET h == IF short THEN Never ELSE HorizonPs(n)
  IN  IF h = Never THEN goal[n] ELSE Smaller(goal[n], PsToCyclesCeil(h, n))

QuietUntil(n, w) == IF w = 0 THEN -1 ELSE CyclesToPs(w, n) - 1

\* --------------------------------------------------------------------------
\* The world's calls and run_to

Init ==
  /\ cyc = [n \in Nodes |-> 0] /\ prev = [n \in Nodes |-> -1]
  /\ drive = [n \in Nodes |-> [ni \in NetsOf(n) |-> "Z"]]
  /\ ring = [n \in Nodes |-> [ni \in NetsOf(n) |-> <<>>]]
  /\ wake = [n \in Nodes |-> 0]
  /\ health = [n \in Nodes |-> "ok"]
  /\ net = [ni \in Nets |->
              [own |-> [n \in NetNodes[ni] |-> "Z"], level |-> Resolve({"Z"}, Pull[ni]),
               deliveries |-> <<>>, base |-> 0, next |-> [n \in NetNodes[ni] |-> 0]]]
  /\ pending = [ni \in Nets |-> [n \in NetNodes[ni] |-> <<>>]]
  /\ due = [n \in Nodes |-> Unknown]
  /\ pc = "idle" /\ node = 1
  /\ until = 0 /\ short = FALSE
  /\ start = [n \in Nodes |-> 0] /\ goal = [n \in Nodes |-> 0]
  /\ stalled = {} /\ failed = {}
  /\ quiet_ps = [n \in Nodes |-> -1]
  /\ limit = 0 /\ from = 0 /\ hit = FALSE
  /\ now_ps = 0 /\ end_ps = 0
  /\ hist = [ni \in Nets |-> [n \in NetNodes[ni] |-> <<>>]]

RoundGoal(n, t) == PsToCyclesCeil(t, n)

\* The head of run_to: fresh slots, goals, and whether the call needs horizons.
RunTo(t, budget) ==
  LET brief == t <= Min({T(n) : n \in UNION {NetNodes[ni] : ni \in Nets}}) + MinLatency
  IN  /\ pc' = "visit" /\ node' = 1
      /\ until' = t /\ short' = brief
      /\ start' = cyc
      /\ goal' = [n \in Nodes |-> Smaller(RoundGoal(n, t), SatAdd(budget, cyc[n]))]
      /\ stalled' = {} /\ failed' = {}
      /\ quiet_ps' = IF brief THEN quiet_ps
                     ELSE [n \in Nodes |-> QuietUntil(n, wake[n])]
      /\ UNCHANGED <<machineVars, netVars, runVars, now_ps, hist>>

\* step_all_gpio: open a round, or go on with one a step budget cut short.
StepAllGpio ==
  /\ pc = "idle" /\ (end_ps # 0 \/ now_ps <= LastRound)
  /\ LET target == IF end_ps # 0 THEN end_ps ELSE now_ps + RoundPs
     IN  RunTo(target, StepCycles) /\ end_ps' = target

\* run_until_ps between rounds: everything to the target in one call.
RunUntilPs(target) ==
  /\ pc = "idle" /\ end_ps = 0 /\ now_ps < target
  /\ RunTo(target, Never) /\ UNCHANGED end_ps

\* The nodes that may run now, and the next one in id order, from the first
\* again once the last was tried.
Runnable == {n \in Nodes \ (stalled \cup failed) : Limit(n) > cyc[n]}
NextOf(able) == IF \E n \in able : n >= node THEN Min({n \in able : n >= node}) ELSE Min(able)

EnterRun ==
  /\ pc = "visit"
  /\ \E able \in {Runnable} : able # {} /\ \E n \in {NextOf(able)} :
         /\ node' = n /\ limit' = Limit(n) /\ from' = cyc[n]
         /\ due' = [due EXCEPT ![n] = EarliestDue(n, net, due)]
  /\ pc' = "run" /\ hit' = FALSE
  /\ UNCHANGED <<machineVars, net, pending, callVars, slotVars, roundVars, hist>>

\* apply_due: hand the pad its new level; an input may wake a sleeper.
ApplyDue ==
  /\ pc = "run" /\ ~hit /\ due[node] # NoDue /\ due[node].cycle <= cyc[node]
  /\ LET ni == due[node].net
         nt == [net EXCEPT ![ni] = Consume(@, node)]
         cache == ForgetDues({ni}, due)
     IN  /\ net' = nt
         /\ due' = [cache EXCEPT ![node] = EarliestDue(node, nt, cache)]
  /\ \E w \in {0, wake[node]} : wake' = [wake EXCEPT ![node] = w]
  /\ UNCHANGED <<cyc, prev, drive, ring, health, pending, pc, node, callVars, slotVars,
                 runVars, roundVars, hist>>

\* The machine is being advanced: short of its limit and of the next delivery.
Advancing == pc = "run" /\ ~hit /\ cyc[node] < limit /\ due[node].cycle > cyc[node]
             /\ health[node] = "ok"
Boundary(c, before) == cyc' = [cyc EXCEPT ![node] = c] /\ prev' = [prev EXCEPT ![node] = before]

Changes(h) == MapThenSumSet(LAMBDA ni :
                MapThenSumSet(LAMBDA n : Len(h[ni][n]), NetNodes[ni]), Nets)

\* The pad records a change at the boundary the instruction ended at.
Record(c, ni, own) ==
  /\ drive' = [drive EXCEPT ![node][ni] = own]
  /\ ring' = [ring EXCEPT ![node][ni] = Append(@, [cycle |-> c, own |-> own])]
  /\ hist' = [hist EXCEPT ![ni][node] =
                Append(@, [t_ps |-> CyclesToPs(c, node), own |-> own])]
  /\ hit' = (node \in Exact)
NoRecord == UNCHANGED <<drive, ring, hist, hit>>
MayRecord(c) ==
  \/ NoRecord
  \/ \E ni \in NetsOf(node) : \E own \in Drives[node] \ {drive[node][ni]} :
       Changes(hist) < MaxChanges /\ Record(c, ni, own)

Instruction ==
  /\ Advancing /\ wake[node] = 0
  /\ \E k \in 1..MaxInstr[node] :
       Boundary(cyc[node] + k, cyc[node]) /\ MayRecord(cyc[node] + k)
  /\ UNCHANGED <<wake, health, netVars, pc, node, callVars, slotVars, limit, from, roundVars>>

\* WFI with an event scheduled and nothing else to wake for.
WaitForEvent ==
  /\ Advancing /\ wake[node] = 0 /\ node \in Sleepers
  /\ Boundary(cyc[node] + 1, cyc[node])
  /\ \E w \in {cyc[node] + 1 + d : d \in Naps} : wake' = [wake EXCEPT ![node] = w]
  /\ NoRecord
  /\ UNCHANGED <<health, netVars, pc, node, callVars, slotVars, limit, from, roundVars>>

\* Idle fast-forward: to the event or to where the machine must stop. The
\* event may drive a pad, and may leave the core asleep until a later one.
IdleSkip ==
  /\ Advancing /\ wake[node] # 0
  /\ LET stop == Smaller(limit, due[node].cycle)
         c == Smaller(stop, wake[node])
     IN  /\ Boundary(c, c - 1)
         /\ IF c < wake[node] THEN NoRecord /\ UNCHANGED wake
            ELSE /\ MayRecord(c)
                 /\ \E w \in {0} \cup {c + d : d \in Naps} : wake' = [wake EXCEPT ![node] = w]
  /\ UNCHANGED <<health, netVars, pc, node, callVars, slotVars, limit, from, roundVars>>

\* A core locks up, halts, or faults on the instruction ahead of it.
Die ==
  /\ Advancing /\ wake[node] = 0 /\ node \in Mortals
  /\ \E h \in {"halted", "broken"} : health' = [health EXCEPT ![node] = h]
  /\ UNCHANGED <<cyc, prev, drive, ring, wake, netVars, pc, node, callVars, slotVars,
                 runVars, roundVars, hist>>

\* A node that stops at its drive changes and did not stop recorded none.
Collected(n) == hit \/ n \notin Exact

CollectEdges(n) ==
  [ni \in Nets |-> [k \in NetNodes[ni] |->
     IF k # n THEN pending[ni][k]
     ELSE pending[ni][k] \o [i \in DOMAIN ring[n][ni] |->
                               [t_ps |-> CyclesToPs(ring[n][ni][i].cycle, n),
                                own |-> ring[n][ni][i].own]]]]

\* run_node returned: slot, collection, merge, and the node again if it
\* stopped at its own change.
FinishRun ==
  /\ pc = "run"
  /\ \/ hit
     \/ due[node].cycle > cyc[node] /\ (cyc[node] >= limit \/ health[node] # "ok")
  /\ LET err == ~hit /\ cyc[node] < limit /\ health[node] = "broken"
         out == stalled \cup (IF cyc[node] = from /\ ~hit THEN {node} ELSE {})
         q == IF Collected(node) THEN CollectEdges(node) ELSE pending
         merged == MergePending(q, out)
     IN  /\ stalled' = out
         /\ failed' = failed \cup (IF err THEN {node} ELSE {})
         /\ ring' = IF Collected(node) THEN [ring EXCEPT ![node] = [ni \in NetsOf(node) |-> <<>>]] ELSE ring
         /\ net' = [ni \in Nets |-> merged[ni].net]
         /\ pending' = [ni \in Nets |-> merged[ni].pending]
         /\ due' = ForgetDues({ni \in Nets : merged[ni].pending # q[ni]}, due)
         /\ quiet_ps' = IF short THEN quiet_ps
                        ELSE [quiet_ps EXCEPT ![node] = QuietUntil(node, wake[node])]
         /\ node' = IF hit /\ cyc[node] # from THEN node ELSE node + 1
  /\ pc' = "visit"
  /\ UNCHANGED <<cyc, prev, drive, wake, health, callVars, runVars, roundVars, hist>>

\* Mutant: a round ends only when every node is at its end.
AllThereNoStall == \A n \in Nodes : cyc[n] >= RoundGoal(n, until)

\* Mutant: a round ends as soon as some node is at its end.
AllThereSome == \E n \in Nodes : cyc[n] >= RoundGoal(n, until)

\* No node is short of the round end that made progress.
AllThere == \A n \in Nodes : cyc[n] >= RoundGoal(n, until) \/ cyc[n] = start[n]

Return ==
  /\ pc = "visit" /\ Runnable = {}
  /\ pc' = "idle" /\ node' = 1
  /\ now_ps' = IF AllThere THEN until ELSE now_ps
  /\ end_ps' = IF AllThere THEN 0 ELSE end_ps
  /\ limit' = 0 /\ from' = 0 /\ hit' = FALSE          \* locals of the call
  /\ start' = cyc /\ goal' = cyc /\ stalled' = {} /\ failed' = {}
  /\ short' = FALSE /\ until' = 0
  /\ UNCHANGED <<machineVars, netVars, quiet_ps, hist>>

\* The host has the time it wanted.
LeftAlone == pc = "idle" /\ now_ps >= Max(Targets) /\ UNCHANGED vars

Call == StepAllGpio \/ \E target \in Targets : RunUntilPs(target)
Machine == Instruction \/ WaitForEvent \/ IdleSkip \/ Die
Scheduler == EnterRun \/ ApplyDue \/ FinishRun \/ Return
Next == Call \/ Machine \/ Scheduler \/ LeftAlone

Spec == Init /\ [][Next]_vars

\* The host calls until it has the time it wanted, and a call runs on: the
\* scheduler is sequential code and an advancing machine advances. Weak
\* fairness of Next, which is enabled while Busy.
Busy == pc # "idle" \/ now_ps < Max(Targets)
FairSpec == Spec /\ ([]<>~Busy \/ []<><<TRUE>>_vars)

\* --------------------------------------------------------------------------
\* Properties

\* No node passes an instruction boundary at or after the time a level change
\* of one of its nets is due without having been given it, however far it was
\* let run ahead: run_node applies every delivery at the first boundary at or
\* after its time, and horizon_ps never lets a delivery appear in a node's
\* past ("no node can be told about an edge too late").
DeliveredOnTime ==
  \A ni \in Nets : \A n \in NetNodes[ni] :
    LET u == Undelivered(net[ni], n)
    IN  u # <<>> => PsToCyclesCeil(u[1].t_ps, n) > prev[n]

Merged(ni, n) ==
  LET waiting == Len(pending[ni][n]) + Len(ring[n][ni])
  IN  SubSeq(hist[ni][n], 1, Len(hist[ni][n]) - waiting)
DriveAt(ni, n, t) ==
  LET past == {i \in DOMAIN Merged(ni, n) : Merged(ni, n)[i].t_ps <= t}
  IN  IF past = {} THEN "Z" ELSE Merged(ni, n)[Max(past)].own
LevelAt(ni, t) == Resolve({DriveAt(ni, n, t) : n \in NetNodes[ni]}, Pull[ni])
ChangeTimes(ni) ==
  UNION {{Merged(ni, n)[i].t_ps : i \in DOMAIN Merged(ni, n)} : n \in NetNodes[ni]}

\* The level changes a net queues are exactly those of the wire that all
\* members' merged drives put together in time order: changes read from nodes
\* at different times are merged in nondecreasing time (the caller's side of
\* GpioNet::apply), none twice, and a change that leaves the level alone queues
\* nothing. Trimming consumed deliveries drops only what every member has had.
WireFollowsDrives ==
  \A ni \in Nets :
    LET moves == {t \in ChangeTimes(ni) : LevelAt(ni, t) # LevelAt(ni, t - 1)}
        d == net[ni].deliveries
    IN  /\ Cardinality(moves) = net[ni].base + Len(d)
        /\ \A i \in DOMAIN d : /\ d[i].t_ps - Latency[ni] \in moves
                               /\ d[i].level = LevelAt(ni, d[i].t_ps - Latency[ni])
                               /\ \A j \in 1 .. i - 1 : d[j].t_ps < d[i].t_ps

\* A call that returns without an error leaves no node behind: each is at its
\* goal unless it cannot move at all. The horizons of nodes that wait for each
\* other never hold each other up, whether they sleep, spin or are locked up.
NoNodeLeftBehind ==
  pc = "visit" /\ failed = {} /\ Runnable = {}
    => \A n \in Nodes : cyc[n] >= goal[n] \/ health[n] # "ok"

\* The round clock is honest: World::round_now_ps never claims a time that a
\* node able to run has not reached, whatever the step budget cut short.
RoundClockHonest ==
  \A n \in Nodes : health[n] = "ok" => cyc[n] >= RoundGoal(n, now_ps)

\* "A round ends once every node got there or made no progress, so the round
\* clock always moves": the host gets the time it asks for, dead nodes and
\* step budgets notwithstanding.
RoundClockMoves == <>(now_ps >= Max(Targets))
================================================================================
