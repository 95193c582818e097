---------------------------- MODULE GpioWorldProofs ---------------------------
(***************************************************************************)
(* Nodes that wait for each other's horizons never hold each other up, the *)
(* round clock is honest, and every wire is what its drives make it.       *)
(***************************************************************************)
EXTENDS GpioNetsProofs, GpioWireProofs

(* Where a node stood when its visit began. *)
Before(n) == IF pc = "run" /\ n = node THEN CyclesToPs(from, n) ELSE T(n)

(* What a call asks of its nodes and what they have done so far.  Only a   *)
(* step budget sets a goal short of the round, and then above the start. A *)
(* node that failed had moved, unless it is stalled as well.               *)
Asked(n) == \/ goal[n] = RoundGoal(n, until)
            \/ start[n] < goal[n] /\ until <= now_ps + RoundPs

GoalInv ==
  pc # "idle" =>
    /\ \A n \in Nodes : start[n] <= cyc[n] /\ Asked(n)
    /\ \A n \in failed \ stalled : start[n] < cyc[n] /\ cyc[n] < goal[n]
    /\ pc = "run" => /\ node \notin stalled \cup failed
                     /\ start[node] <= from /\ limit <= goal[node]

(* A round that is open is one round long. *)
RoundInv == end_ps # 0 => end_ps = now_ps + RoundPs

(* No node that can move, or has moved in this call, is behind the clock.  *)
HonestInv ==
  \A n \in Nodes : health[n] = "ok" \/ (pc # "idle" /\ start[n] < cyc[n])
                     => cyc[n] >= RoundGoal(n, now_ps)

(* A change that waits to be merged is held back by a member that had not  *)
(* reached it, and that is not stalled unless every member is.             *)
HeldInv ==
  \A ni \in Nets : \A n \in NetNodes[ni] : \A x \in Waiting(ni, n) :
    \E r \in NetNodes[ni] : Before(r) < x /\ (r \notin stalled \/ NetNodes[ni] \subseteq stalled)

ProgressInv == GoalInv /\ RoundInv /\ HonestInv /\ HeldInv

-------------------------------------------------------------------------------
(* known_ps gives no live node less than where it stands.                  *)
LEMMA KnownPsFloor ==
  ASSUME Inv, pc = "visit", NEW ex
  PROVE  /\ KnownPs(ex) \in [Nodes -> Nat]
         /\ \A n \in stalled \cup ex : n \in Nodes => KnownPs(ex)[n] = Never
         /\ \A n \in Nodes \ (stalled \cup ex) : KnownPs(ex)[n] >= T(n)
<1>. DEFINE k0 == [n \in Nodes |-> IF n \in stalled \cup ex THEN Never
                                   ELSE IF Quiet(n, ex) THEN Larger(QuietBound(n), T(n))
                                   ELSE T(n)]
            K == Relax(k0, ex)
<1>1. \A n \in Nodes : T(n) \in Nat /\ QuietBound(n) \in Int
  BY Typed, QuietBoundResult, Zenon DEF Inv, TypeFacts
<1>2. \A n \in Nodes : Larger(QuietBound(n), T(n)) \in Nat /\ Larger(QuietBound(n), T(n)) >= T(n)
  BY <1>1 DEF Larger
<1>3. /\ k0 \in [Nodes -> Nat] /\ \A n \in Nodes : Quiet(n, ex) => k0[n] >= T(n)
      /\ \A n \in stalled \cup ex : n \in Nodes => k0[n] = Never /\ ~Quiet(n, ex)
      /\ \A n \in Nodes \ (stalled \cup ex) : ~Quiet(n, ex) => k0[n] = T(n)
  BY <1>1, <1>2, NeverNat, Zenon DEF Quiet
<1>. HIDE DEF k0
<1>4. /\ K \in [Nodes -> Nat]
      /\ \A n \in Nodes : /\ ~Quiet(n, ex) => K[n] = k0[n]
                          /\ Quiet(n, ex) => K[n] >= T(n)
  BY <1>1, <1>3, RelaxResult, SMTT(30)
<1>5. KnownPs(ex) = K
  BY Zenon DEF KnownPs, k0
<1>. HIDE DEF K
<1>6. \A n \in Nodes \ (stalled \cup ex) : K[n] >= T(n)
  BY <1>1, <1>3, <1>4, SMTT(30)
<1>. QED BY <1>3, <1>4, <1>5, <1>6, Zenon

(* A node may run on when everything that bounds it is within a latency.   *)
LEMMA HorizonAhead ==
  ASSUME Inv, pc = "visit", NEW m \in Nodes,
         \A ni \in NetsOf(m) :
           /\ \A r \in NetNodes[ni] \ stalled : T(m) < T(r) + Latency[ni]
           /\ \A t \in Fronts(pending[ni]) : T(m) < t + Latency[ni]
  PROVE  HorizonPs(m) \in Nat /\ (HorizonPs(m) = Never \/ T(m) < HorizonPs(m))
<1>. DEFINE ex == IF m \in Exact THEN {m} ELSE {}
            K == KnownPs(ex)
            own == IF m \in Exact THEN Never ELSE T(m)
            M(ni) == {own} \cup {K[r] : r \in NetNodes[ni] \ {m}} \cup Fronts(pending[ni])
            H == {Never} \cup {SatAdd(Min(M(ni)), Latency[ni]) : ni \in NetsOf(m)}
<1>1. HorizonPs(m) = Min(H)
  BY Zenon DEF HorizonPs
<1>2. /\ K \in [Nodes -> Nat] /\ \A n \in stalled \cup ex : n \in Nodes => K[n] = Never
      /\ \A n \in Nodes \ (stalled \cup ex) : K[n] >= T(n)
  BY KnownPsFloor, Zenon
<1>3. own \in Nat /\ Never \in Nat /\ \A r \in Nodes : T(r) \in Nat
  BY NeverNat, Typed, Zenon DEF Inv, TypeFacts
<1>. HIDE DEF K
<1>4. ASSUME NEW ni \in NetsOf(m)
      PROVE  /\ Min(M(ni)) \in Nat /\ Latency[ni] \in Nat
             /\ Min(M(ni)) = Never \/ T(m) < Min(M(ni)) + Latency[ni]
  <2>1. /\ ni \in Nets /\ m \in NetNodes[ni] /\ Latency[ni] \in Nat \ {0}
        /\ NetNodes[ni] \subseteq Nodes /\ Fronts(pending[ni]) \subseteq Nat
    BY Constants, VisitFacts, Zenon DEF NetsOf
  <2>2. \A r \in NetNodes[ni] : K[r] \in Nat
    BY <1>2, <2>1, Zenon
  <2>3. M(ni) \subseteq Nat /\ M(ni) # {}
    BY <1>3, <2>1, <2>2, Zenon
  <2>4. ASSUME NEW y \in M(ni) PROVE y = Never \/ T(m) < y + Latency[ni]
    <3>1. CASE y = own
      BY <1>3, <2>1, <3>1
    <3>2. CASE y \in Fronts(pending[ni])
      BY <3>2, Zenon
    <3>3. ASSUME NEW r \in NetNodes[ni] \ {m}, y = K[r] PROVE y = Never \/ T(m) < y + Latency[ni]
      <4>1. r \in Nodes /\ T(r) \in Nat /\ K[r] \in Nat /\ T(m) \in Nat
        BY <1>3, <2>1, <2>2, Zenon
      <4>2. CASE r \in stalled \cup ex
        BY <1>2, <3>3, <4>1, <4>2, Zenon
      <4>3. CASE r \notin stalled \cup ex
        <5>1. K[r] >= T(r) /\ T(m) < T(r) + Latency[ni]
          BY <1>2, <2>1, <4>1, <4>3, Zenon
        <5>. QED BY <2>1, <3>3, <4>1, <5>1, SMTT(30)
      <4>. QED BY <4>2, <4>3, Zenon
    <3>. QED BY <3>1, <3>2, <3>3, Zenon
  <2>. HIDE DEF M
  <2>5. M(ni) \subseteq Int /\ \A x \in M(ni) : x >= -1
    BY <2>3
  <2>6. Min(M(ni)) \in M(ni)
    BY <2>3, <2>5, MinOf, Zenon
  <2>. QED BY <2>1, <2>3, <2>4, <2>6, Zenon
<1>5. ASSUME NEW y \in H PROVE y \in Nat /\ (y = Never \/ T(m) < y)
  <2>1. ASSUME NEW ni \in NetsOf(m), y = SatAdd(Min(M(ni)), Latency[ni])
        PROVE  y \in Nat /\ (y = Never \/ T(m) < y)
    <3>. HIDE DEF M
    <3>. QED BY <1>3, <1>4, <2>1, SMTT(30) DEF SatAdd
  <2>. QED BY <1>3, <2>1, Zenon
<1>6. Never \in H
  BY Zenon
<1>. HIDE DEF H
<1>7. H \subseteq Int /\ \A x \in H : x >= -1
  BY <1>5
<1>8. Min(H) \in H
  BY <1>6, <1>7, MinOf, Zenon
<1>. QED BY <1>1, <1>5, <1>8, Zenon

(* Of the nodes short of their goal, the one furthest behind may run.      *)
LEMMA ClosestRuns ==
  ASSUME Inv, ProgressInv, pc = "visit", failed \subseteq stalled,
         NEW s \in Nodes \ stalled, cyc[s] < goal[s]
  PROVE  Runnable # {}
<1>. DEFINE behind == {n \in Nodes \ stalled : cyc[n] < goal[n]}
            times == {T(n) : n \in behind}
<1>1. /\ \A n \in Nodes : /\ T(n) \in Nat /\ cyc[n] \in Nat /\ goal[n] \in Nat /\ start[n] \in Nat
                          /\ goal[n] <= PsToCyclesCeil(until, n)
      /\ until \in Nat /\ now_ps \in Nat /\ RoundPs \in Nat
  <2>1. until \in 0 .. Never /\ RoundPs \in 1 .. MinLatency /\ Never \in Nat /\ MinLatency \in Nat
    BY NetAssumption, NeverNat, MinLatencyNat, Zenon DEF Inv, TypeInv
  <2>. QED BY <2>1, Typed, SMTT(30) DEF Inv, TypeInv, TypeFacts, CallInv, RoundGoal
<1>2. PICK m \in behind : \A n \in behind : T(m) <= T(n)
  <2>1. times \subseteq Nat /\ times # {}
    BY <1>1, Zenon
  <2>2. \A n \in behind : T(n) \in times
    BY Zenon
  <2>3. \A x \in times : \E n \in behind : x = T(n)
    BY Zenon
  <2>. HIDE DEF times, behind
  <2>4. times \subseteq Int /\ \A x \in times : x >= -1
    BY ONLY <2>1
  <2>5. Min(times) \in times /\ \A x \in times : Min(times) <= x
    BY <2>1, <2>4, MinOf, Zenon
  <2>. QED BY <2>2, <2>3, <2>5, Zenon
<1>3. m \in Nodes \ (stalled \cup failed) /\ cyc[m] < goal[m]
  BY Zenon
<1>4. T(m) < until
  <2>1. ~(PsToCyclesCeil(until, m) <= cyc[m])
    <3>1. PsToCyclesCeil(until, m) \in Nat
      BY <1>1, <1>3, Conversions, Zenon
    <3>. QED BY <1>1, <1>3, <3>1
  <2>2. until <= T(m) => PsToCyclesCeil(until, m) <= cyc[m]
    BY <1>1, <1>3, Conversions, Zenon DEF T
  <2>. QED BY <1>1, <1>3, <2>1, <2>2, SMTT(30)
<1>5. ASSUME NEW ni \in Nets, NEW r \in NetNodes[ni] \ stalled
      PROVE  T(m) < T(r) + Latency[ni]
  <2>1. r \in Nodes /\ Latency[ni] \in Nat \ {0} /\ MinLatency <= Latency[ni] /\ MinLatency \in Nat
    BY Constants, MinLatencyNat, Zenon
  <2>2. RoundPs <= Latency[ni]
    <3>1. RoundPs \in 1 .. MinLatency
      BY NetAssumption, Zenon
    <3>. QED BY <1>1, <2>1, <3>1
  <2>3. CASE r \in behind
    <3>1. T(m) <= T(r) /\ T(m) \in Nat /\ T(r) \in Nat
      BY <1>1, <1>2, <2>3, Zenon
    <3>. QED BY ONLY <2>1, <3>1, SMTT(30)
  <2>4. CASE r \notin behind
    <3>1. goal[r] <= cyc[r]
      BY <1>1, <2>1, <2>4, SMTT(30)
    <3>2. CASE goal[r] = RoundGoal(r, until)
      <4>1. until <= T(r)
        BY <1>1, <2>1, <3>1, <3>2, Conversions, Zenon DEF RoundGoal, T
      <4>. QED BY <1>1, <1>3, <1>4, <2>1, <4>1, SMTT(30)
    <3>3. CASE start[r] < goal[r] /\ until <= now_ps + RoundPs
      <4>1. cyc[r] >= RoundGoal(r, now_ps)
        <5>1. start[r] < cyc[r]
          BY <1>1, <2>1, <3>1, <3>3, SMTT(30)
        <5>. QED BY <2>1, <5>1, Zenon DEF ProgressInv, HonestInv
      <4>2. now_ps <= T(r)
        <5>1. PsToCyclesCeil(now_ps, r) <= cyc[r]
          <6>1. PsToCyclesCeil(now_ps, r) \in Nat
            BY <1>1, <2>1, Conversions, Zenon
          <6>. QED BY <1>1, <2>1, <4>1, <6>1, Zenon DEF RoundGoal
        <5>. QED BY <1>1, <2>1, <5>1, Conversions, Zenon DEF T
      <4>. QED BY <1>1, <1>3, <1>4, <2>1, <2>2, <3>3, <4>2, SMTT(30)
    <3>. QED BY <2>1, <3>2, <3>3, Zenon DEF ProgressInv, GoalInv, Asked
  <2>. QED BY <2>3, <2>4, Zenon
<1>6. ASSUME NEW ni \in NetsOf(m), NEW t \in Fronts(pending[ni])
      PROVE  T(m) < t + Latency[ni]
  <2>1. ni \in Nets /\ m \in NetNodes[ni] /\ Fronts(pending[ni]) \subseteq Nat /\ NetNodes[ni] \subseteq Nodes
    BY VisitFacts, Constants, Zenon DEF NetsOf
  <2>2. PICK n \in NetNodes[ni] : t \in Waiting(ni, n)
    <3>1. pending[ni] \in [NetNodes[ni] -> Seq(Change)]
      BY <2>1, Zenon DEF Inv, TypeInv
    <3>2. PICK k \in NetNodes[ni] : pending[ni][k] # <<>> /\ t = pending[ni][k][1].t_ps
      BY <3>1, Zenon DEF Fronts
    <3>3. 1 \in DOMAIN pending[ni][k]
      BY <3>1, <3>2
    <3>. QED BY <3>2, <3>3, Zenon DEF Waiting
  <2>3. PICK r \in NetNodes[ni] : T(r) < t /\ r \notin stalled
    <3>1. PICK r \in NetNodes[ni] : Before(r) < t /\ (r \notin stalled \/ NetNodes[ni] \subseteq stalled)
      BY <2>1, <2>2, Zenon DEF ProgressInv, HeldInv
    <3>. QED BY <1>3, <2>1, <3>1, Zenon DEF Before
  <2>4. T(m) < T(r) + Latency[ni] /\ T(r) \in Nat /\ T(m) \in Nat /\ Latency[ni] \in Nat /\ t \in Nat
    BY <1>1, <1>3, <1>5, <2>1, <2>3, Constants, Zenon
  <2>. QED BY <2>3, <2>4, SMTT(30)
<1>7. HorizonPs(m) \in Nat /\ (HorizonPs(m) = Never \/ T(m) < HorizonPs(m))
  <2>1. \A ni \in NetsOf(m) : ni \in Nets
    BY Zenon DEF NetsOf
  <2>. QED BY <1>3, <1>5, <1>6, <2>1, HorizonAhead, Zenon
<1>8. cyc[m] < Limit(m)
  <2>1. T(m) < HorizonPs(m) => cyc[m] < PsToCyclesCeil(HorizonPs(m), m)
    <3>1. PsToCyclesCeil(HorizonPs(m), m) \in Nat
      BY <1>3, <1>7, Conversions, Zenon
    <3>2. PsToCyclesCeil(HorizonPs(m), m) <= cyc[m] => HorizonPs(m) <= T(m)
      BY <1>1, <1>3, <1>7, Conversions, Zenon DEF T
    <3>. QED BY <1>1, <1>3, <1>7, <3>1, <3>2, SMTT(30)
  <2>. QED BY <1>3, <1>7, <2>1, Zenon DEF Limit, Smaller
<1>. QED BY <1>3, <1>8, Zenon DEF Runnable

-------------------------------------------------------------------------------
(* Steps that at most move the running node on.                            *)
LEMMA ForwardStep ==
  ASSUME Inv, ProgressInv, pc = "run", NEW c \in Nat, cyc[node] <= c,
         cyc' = [cyc EXCEPT ![node] = c], c = cyc[node] \/ health[node] = "ok",
         \A n \in Nodes : health'[n] = "ok" => health[n] = "ok",
         UNCHANGED <<pending, pc, node, until, start, goal, stalled, failed, limit, from,
                     now_ps, end_ps>>
  PROVE  ProgressInv'
<1>1. /\ node \in Nodes /\ cyc \in [Nodes -> Nat] /\ start \in [Nodes -> Nat] /\ goal \in [Nodes -> Nat]
      /\ now_ps \in Nat /\ from \in Nat
  BY Zenon DEF Inv, TypeInv
<1>2. \A n \in Nodes : cyc'[n] = IF n = node THEN c ELSE cyc[n]
  BY <1>1, Zenon
<1>3. GoalInv'
  <2>1. /\ \A n \in Nodes : start[n] <= cyc[n] /\ Asked(n)
        /\ \A n \in failed \ stalled : start[n] < cyc[n] /\ cyc[n] < goal[n]
        /\ node \notin stalled \cup failed /\ start[node] <= from /\ limit <= goal[node]
    BY Zenon DEF ProgressInv, GoalInv
  <2>2. \A n \in Nodes : Asked(n)'
    BY <2>1, Zenon DEF Asked, RoundGoal
  <2>3. \A n \in Nodes : start[n] <= cyc'[n]
    <3>1. start[node] <= c
      BY <1>1, <2>1
    <3>. QED BY <1>2, <2>1, <3>1, Zenon
  <2>4. \A n \in failed \ stalled : cyc'[n] = cyc[n]
    <3>1. failed \subseteq Nodes
      BY Zenon DEF Inv, TypeInv
    <3>. QED BY <1>2, <2>1, <3>1, Zenon
  <2>. QED BY <2>1, <2>2, <2>3, <2>4, Zenon DEF GoalInv
<1>4. RoundInv'
  BY Zenon DEF ProgressInv, RoundInv
<1>5. HonestInv'
  <2>. SUFFICES ASSUME NEW n \in Nodes, health'[n] = "ok" \/ start[n] < cyc'[n]
                PROVE  cyc'[n] >= RoundGoal(n, now_ps)
    BY Zenon DEF HonestInv, RoundGoal
  <2>1. RoundGoal(n, now_ps) \in Nat
    BY <1>1, Conversions, Zenon DEF RoundGoal
  <2>2. cyc[n] >= RoundGoal(n, now_ps)
    BY <1>2, Zenon DEF ProgressInv, HonestInv
  <2>. QED BY <1>1, <1>2, <2>1, <2>2, SMTT(30)
<1>6. HeldInv'
  <2>1. \A n \in Nodes : Before(n)' = Before(n)
    BY <1>2 DEF Before, T
  <2>2. \A ni \in Nets : \A n \in NetNodes[ni] : Waiting(ni, n)' = Waiting(ni, n)
    BY Zenon DEF Waiting
  <2>3. \A ni \in Nets : NetNodes[ni] \subseteq Nodes
    BY Constants, Zenon
  <2>. QED BY <2>1, <2>2, <2>3, Zenon DEF ProgressInv, HeldInv
<1>. QED BY <1>3, <1>4, <1>5, <1>6, Zenon DEF ProgressInv

(* The steps of a machine keep ProgressInv.                                *)
LEMMA MachineForward ==
  ASSUME Inv, ProgressInv, Machine
  PROVE  ProgressInv'
<1>1. pc = "run" /\ health[node] = "ok" /\ node \in Nodes /\ cyc \in [Nodes -> Nat] /\ cyc[node] \in Nat
  BY Zenon DEF Inv, TypeInv, Machine, Instruction, WaitForEvent, IdleSkip, Die, Advancing
<1>2. CASE Instruction
  <2>1. PICK k \in 1..MaxInstr[node] : cyc' = [cyc EXCEPT ![node] = cyc[node] + k]
    BY <1>2, Zenon DEF Instruction, Boundary
  <2>2. UNCHANGED <<health, pending, pc, node, until, start, goal, stalled, failed, limit, from,
                    now_ps, end_ps>>
    BY <1>2, Zenon DEF Instruction, netVars, callVars, slotVars, roundVars
  <2>3. cyc[node] + k \in Nat /\ cyc[node] <= cyc[node] + k
    BY <1>1
  <2>. QED BY <1>1, <2>1, <2>2, <2>3, ForwardStep, Zenon
<1>3. CASE WaitForEvent
  <2>1. /\ cyc' = [cyc EXCEPT ![node] = cyc[node] + 1]
        /\ UNCHANGED <<health, pending, pc, node, until, start, goal, stalled, failed, limit, from,
                       now_ps, end_ps>>
    BY <1>3, Zenon DEF WaitForEvent, Boundary, netVars, callVars, slotVars, roundVars
  <2>2. cyc[node] + 1 \in Nat /\ cyc[node] <= cyc[node] + 1
    BY <1>1
  <2>. QED BY <1>1, <2>1, <2>2, ForwardStep, Zenon
<1>4. CASE IdleSkip
  <2>. DEFINE c == Smaller(Smaller(limit, due[node].cycle), wake[node])
  <2>1. /\ cyc' = [cyc EXCEPT ![node] = c]
        /\ UNCHANGED <<health, pending, pc, node, until, start, goal, stalled, failed, limit, from,
                       now_ps, end_ps>>
    BY <1>4, Zenon DEF IdleSkip, Boundary, netVars, callVars, slotVars, roundVars
  <2>2. /\ wake[node] \in Nat /\ limit \in Nat /\ due[node].cycle \in Nat /\ wake[node] > cyc[node]
        /\ cyc[node] < limit /\ cyc[node] < due[node].cycle
    BY <1>1, <1>4, Zenon DEF IdleSkip, Inv, TypeInv, CallInv, Advancing, Due
  <2>3. c \in Nat /\ cyc[node] <= c
    BY <1>1, <2>2, SMTT(30) DEF Smaller
  <2>. HIDE DEF c
  <2>. QED BY <1>1, <2>1, <2>3, ForwardStep, Zenon
<1>5. CASE Die
  <2>1. UNCHANGED <<cyc, pending, pc, node, until, start, goal, stalled, failed, limit, from,
                    now_ps, end_ps>>
    BY <1>5, Zenon DEF Die, netVars, callVars, slotVars, runVars, roundVars
  <2>2. \A n \in Nodes : health'[n] = "ok" => health[n] = "ok"
    <3>1. health \in [Nodes -> {"ok", "halted", "broken"}]
      BY Zenon DEF Inv, TypeInv
    <3>2. PICK h \in {"halted", "broken"} : health' = [health EXCEPT ![node] = h]
      BY <1>5, Zenon DEF Die
    <3>. QED BY <1>1, <3>1, <3>2, Zenon
  <2>3. cyc' = [cyc EXCEPT ![node] = cyc[node]] /\ cyc[node] <= cyc[node]
    BY <1>1, <2>1
  <2>. QED BY <1>1, <2>1, <2>2, <2>3, ForwardStep, Zenon
<1>. QED BY <1>2, <1>3, <1>4, <1>5, Zenon DEF Machine

(* apply_due keeps ProgressInv.                                            *)
LEMMA ApplyDueForward ==
  ASSUME Inv, ProgressInv, ApplyDue
  PROVE  ProgressInv'
<1>1. /\ pc = "run" /\ node \in Nodes /\ cyc \in [Nodes -> Nat] /\ cyc[node] \in Nat
      /\ UNCHANGED <<cyc, health, pending, pc, node, until, start, goal, stalled, failed, limit,
                     from, now_ps, end_ps>>
  BY Zenon DEF Inv, TypeInv, ApplyDue, callVars, slotVars, runVars, roundVars
<1>2. cyc' = [cyc EXCEPT ![node] = cyc[node]] /\ cyc[node] <= cyc[node]
  BY <1>1
<1>. QED BY <1>1, <1>2, ForwardStep, Zenon

-------------------------------------------------------------------------------
(* A visit: it begins with a node that may run and ends with a merge.      *)
LEMMA EnterRunForward ==
  ASSUME Inv, ProgressInv, EnterRun
  PROVE  ProgressInv'
<1>1. /\ pc = "visit" /\ pc' = "run"
      /\ UNCHANGED <<cyc, health, pending, until, start, goal, stalled, failed, now_ps, end_ps>>
  BY Zenon DEF EnterRun, machineVars, callVars, slotVars, roundVars
<1>2. PICK n \in Runnable : node' = n /\ limit' = Limit(n) /\ from' = cyc[n]
  BY EnteredNode, Zenon
<1>3. /\ n \in Nodes \ (stalled \cup failed) /\ Limit(n) \in Nat /\ goal[n] \in Nat
  BY <1>1, <1>2, LimitResult, Zenon DEF Runnable, Inv, TypeInv
<1>4. Limit(n) <= goal[n]
  BY <1>3 DEF Limit, Smaller
<1>5. GoalInv'
  <2>1. /\ \A r \in Nodes : start[r] <= cyc[r] /\ Asked(r)
        /\ \A r \in failed \ stalled : start[r] < cyc[r] /\ cyc[r] < goal[r]
    BY <1>1, Zenon DEF ProgressInv, GoalInv
  <2>2. \A r \in Nodes : Asked(r)'
    BY <1>1, <2>1, Zenon DEF Asked, RoundGoal
  <2>. QED BY <1>1, <1>2, <1>3, <1>4, <2>1, <2>2, Zenon DEF GoalInv
<1>6. RoundInv' /\ HonestInv'
  BY <1>1, Zenon DEF ProgressInv, RoundInv, HonestInv, RoundGoal
<1>7. HeldInv'
  <2>1. \A r \in Nodes : Before(r)' = Before(r)
    BY <1>1, <1>2, Zenon DEF Before, T
  <2>2. \A ni \in Nets : \A r \in NetNodes[ni] : Waiting(ni, r)' = Waiting(ni, r)
    BY <1>1, Zenon DEF Waiting
  <2>. QED BY <1>1, <2>1, <2>2, Constants, SMTT(30) DEF ProgressInv, HeldInv
<1>. QED BY <1>5, <1>6, <1>7, Zenon DEF ProgressInv

(* The end of a run keeps ProgressInv: a node that did not move is passed  *)
(* over only when it may not move.                                         *)
LEMMA FinishRunForward ==
  ASSUME Inv, ProgressInv, FinishRun
  PROVE  ProgressInv'
<1>1. /\ pc = "run" /\ pc' = "visit" /\ node \in Nodes
      /\ UNCHANGED <<cyc, health, until, start, goal, limit, from, now_ps, end_ps>>
      /\ cyc[node] \in Nat /\ start[node] \in Nat /\ from \in Nat /\ limit \in Nat /\ goal[node] \in Nat
      /\ from <= cyc[node] /\ stalled \subseteq Nodes
  BY Zenon DEF FinishRun, Inv, TypeInv, CallInv, callVars, runVars, roundVars
<1>2. /\ stalled' = stalled \cup (IF cyc[node] = from /\ ~hit THEN {node} ELSE {})
      /\ failed' = failed \cup (IF ~hit /\ cyc[node] < limit /\ health[node] = "broken"
                                THEN {node} ELSE {})
  BY Zenon DEF FinishRun
<1>3. /\ \A n \in Nodes : start[n] <= cyc[n] /\ Asked(n)
      /\ \A n \in failed \ stalled : start[n] < cyc[n] /\ cyc[n] < goal[n]
      /\ node \notin stalled \cup failed /\ start[node] <= from /\ limit <= goal[node]
  BY <1>1, Zenon DEF ProgressInv, GoalInv
<1>4. GoalInv'
  <2>1. \A n \in Nodes : Asked(n)'
    BY <1>1, <1>3, Zenon DEF Asked, RoundGoal
  <2>2. ASSUME NEW n \in failed' \ stalled' PROVE start[n] < cyc[n] /\ cyc[n] < goal[n]
    <3>1. CASE n \in failed
      BY <1>2, <1>3, <3>1, ZenonT(30)
    <3>2. CASE n \notin failed
      <4>1. n = node /\ ~hit /\ cyc[node] < limit /\ cyc[node] # from
        BY <1>2, <3>2, Zenon
      <4>. QED BY <1>1, <1>3, <4>1, SMTT(30)
    <3>. QED BY <3>1, <3>2, Zenon
  <2>. QED BY <1>1, <1>3, <2>1, <2>2, Zenon DEF GoalInv
<1>5. RoundInv' /\ HonestInv'
  BY <1>1, Zenon DEF ProgressInv, RoundInv, HonestInv, RoundGoal
<1>6. HeldInv'
  <2>. SUFFICES ASSUME NEW ni \in Nets, NEW n \in NetNodes[ni], NEW x \in Waiting(ni, n)'
                PROVE  \E r \in NetNodes[ni] :
                         Before(r)' < x /\ (r \notin stalled' \/ NetNodes[ni] \subseteq stalled')
    BY Zenon DEF HeldInv
  <2>1. \A r \in Nodes : Before(r)' = T(r)
    BY <1>1, Zenon DEF Before, T
  <2>2. NetNodes[ni] \subseteq Nodes /\ \A r \in NetNodes[ni] : ni \in NetsOf(r)
    BY Constants, Zenon DEF NetsOf
  <2>3. MergedAs(ni, stalled', net'[ni], pending'[ni])
    BY FinishFacts, Zenon
  <2>4. /\ x \in Waiting(ni, n) \cup Recorded(ni, n)
        /\ (\E r \in NetNodes[ni] \ stalled' : x > T(r)) \/ NetNodes[ni] \subseteq stalled'
    BY <2>3, Zenon DEF MergedAs, Waiting
  <2>5. x \in Nat /\ \A r \in Nodes : T(r) \in Nat
    <3>1. Unmerged(ni) \subseteq Nat /\ \A r \in Nodes : T(r) \in Nat
      BY Typed, Zenon DEF Inv, TypeFacts
    <3>. QED BY <2>4, <3>1, Zenon DEF Unmerged
  <2>6. CASE \E r \in NetNodes[ni] \ stalled' : x > T(r)
    BY <2>1, <2>2, <2>5, <2>6, Zenon
  <2>7. CASE NetNodes[ni] \subseteq stalled'
    <3>1. node \in NetNodes[ni] => cyc[node] = from /\ ~hit
      BY <1>2, <1>3, <2>7, Zenon
    <3>2. ring[n][ni] = <<>>
      <4>1. CASE n = node
        BY <1>1, <2>2, <3>1, <4>1, Zenon DEF Inv, CallInv, NoneRecorded
      <4>2. CASE n # node
        BY <2>2, <4>2, Zenon DEF Inv, CallInv, NoneRecorded
      <4>. QED BY <4>1, <4>2, Zenon
    <3>3. x \in Waiting(ni, n)
      BY <2>4, <3>2, SMTT(30) DEF Recorded
    <3>4. PICK r \in NetNodes[ni] : Before(r) < x
      BY <3>3, Zenon DEF ProgressInv, HeldInv
    <3>5. Before(r) = T(r)
      BY <3>1, Zenon DEF Before, T
    <3>. QED BY <2>1, <2>2, <2>7, <3>4, <3>5, Zenon
  <2>. QED BY <2>4, <2>6, <2>7, Zenon
<1>. QED BY <1>4, <1>5, <1>6, Zenon DEF ProgressInv

-------------------------------------------------------------------------------
(* The calls and their end. *)
LEMMA RunToForward ==
  ASSUME Inv, ProgressInv, pc = "idle", NEW t \in Nat, NEW budget \in Nat, RunTo(t, budget),
         RoundInv',
         \/ budget = Never /\ t <= Never
         \/ budget \in 1 .. Never - 1 /\ t <= now_ps + RoundPs
  PROVE  ProgressInv'
<1>1. /\ pc' = "visit" /\ until' = t /\ start' = cyc /\ stalled' = {} /\ failed' = {}
      /\ goal' = [n \in Nodes |-> Smaller(RoundGoal(n, t), SatAdd(budget, cyc[n]))]
      /\ UNCHANGED <<cyc, health, pending, now_ps>>
  BY Zenon DEF RunTo, machineVars, netVars
<1>2. cyc \in [Nodes -> Nat] /\ now_ps \in Nat /\ Never \in Nat
  BY NeverNat, Zenon DEF Inv, TypeInv
<1>3. ASSUME NEW n \in Nodes PROVE start'[n] <= cyc'[n] /\ Asked(n)'
  <2>1. /\ cyc[n] \in Nat /\ RoundGoal(n, t) \in Nat /\ RoundGoal(n, t) <= t
        /\ goal'[n] = Smaller(RoundGoal(n, t), SatAdd(budget, cyc[n]))
    BY <1>1, <1>2, Conversions, Zenon DEF RoundGoal
  <2>2. CASE budget = Never /\ t <= Never
    <3>1. goal'[n] = RoundGoal(n, t)
      BY <1>2, <2>1, <2>2, SMTT(30) DEF Smaller, SatAdd
    <3>. QED BY <1>1, <2>1, <3>1, SMTT(30) DEF Asked, RoundGoal
  <2>3. CASE budget \in 1 .. Never - 1 /\ t <= now_ps + RoundPs
    <3>1. SatAdd(budget, cyc[n]) = budget + cyc[n]
      BY <1>2, <2>3 DEF SatAdd
    <3>2. goal'[n] = RoundGoal(n, t) \/ cyc[n] < goal'[n]
      BY <1>2, <2>1, <2>3, <3>1, SMTT(30) DEF Smaller
    <3>. QED BY <1>1, <2>1, <2>3, <3>2, SMTT(30) DEF Asked, RoundGoal
  <2>. QED BY <2>2, <2>3, Zenon
<1>4. GoalInv'
  BY <1>1, <1>3, Zenon DEF GoalInv
<1>5. HonestInv'
  <2>1. \A n \in Nodes : ~(start'[n] < cyc'[n])
    BY <1>1, <1>2
  <2>. QED BY <1>1, <2>1, Zenon DEF ProgressInv, HonestInv, RoundGoal
<1>6. HeldInv'
  <2>1. \A n \in Nodes : Before(n)' = Before(n)
    BY <1>1, Zenon DEF Before, T
  <2>2. \A ni \in Nets : \A n \in NetNodes[ni] : Waiting(ni, n)' = Waiting(ni, n)
    BY <1>1, Zenon DEF Waiting
  <2>. QED BY <1>1, <2>1, <2>2, Constants, Zenon DEF ProgressInv, HeldInv
<1>. QED BY <1>4, <1>5, <1>6, Zenon DEF ProgressInv

(* The calls of the host keep ProgressInv.                                 *)
LEMMA CallForward ==
  ASSUME Inv, ProgressInv, Call
  PROVE  ProgressInv'
<1>1. now_ps \in Nat /\ end_ps \in Nat /\ RoundPs \in Nat /\ Never \in Nat /\ pc = "idle"
  <2>1. RoundPs \in 1 .. MinLatency /\ MinLatency \in Nat /\ Never \in Nat /\ end_ps \in 0 .. Never
    BY NetAssumption, MinLatencyNat, NeverNat, Zenon DEF Inv, TypeInv
  <2>. QED BY <2>1 DEF Inv, TypeInv, Call, StepAllGpio, RunUntilPs
<1>2. CASE StepAllGpio
  <2>. DEFINE t == IF end_ps # 0 THEN end_ps ELSE now_ps + RoundPs
  <2>1. RunTo(t, StepCycles) /\ end_ps' = t
    BY <1>2, Zenon DEF StepAllGpio
  <2>2. t = now_ps + RoundPs /\ t \in Nat
    BY <1>1 DEF ProgressInv, RoundInv
  <2>3. StepCycles \in 1 .. Never - 1 /\ StepCycles \in Nat
    BY <1>1, NetAssumption
  <2>4. now_ps' = now_ps
    BY <2>1, Zenon DEF RunTo
  <2>. HIDE DEF t
  <2>5. RoundInv'
    BY <2>1, <2>2, <2>4, Zenon DEF RoundInv
  <2>. QED BY <1>1, <2>1, <2>2, <2>3, <2>5, RunToForward, SMTT(30)
<1>3. ASSUME NEW t \in Targets, RunUntilPs(t) PROVE ProgressInv'
  <2>1. RunTo(t, Never) /\ end_ps = 0 /\ end_ps' = end_ps
    BY <1>3, Zenon DEF RunUntilPs
  <2>2. t \in 0 .. Never
    BY NetAssumption, Zenon
  <2>3. t \in Nat /\ t <= Never
    BY <1>1, <2>2
  <2>4. RoundInv'
    BY <2>1, Zenon DEF RoundInv
  <2>. QED BY <1>1, <2>1, <2>3, <2>4, RunToForward, Zenon
<1>. QED BY <1>2, <1>3, ZenonT(30) DEF Call

(* A call is over only when every node that can move is at its goal.       *)
LEMMA AllAtGoal ==
  ASSUME Inv, ProgressInv, pc = "visit", Runnable = {}, failed \subseteq stalled
  PROVE  \A n \in Nodes : health[n] = "ok" => cyc[n] >= goal[n]
<1>. SUFFICES ASSUME NEW n \in Nodes, health[n] = "ok" PROVE cyc[n] >= goal[n]
  BY Zenon
<1>1. n \notin stalled /\ cyc[n] \in Nat /\ goal[n] \in Nat
  BY Zenon DEF Inv, CallInv, TypeInv
<1>2. ~(cyc[n] < goal[n])
  BY <1>1, ClosestRuns, Zenon
<1>. QED BY <1>1, <1>2

(* The return of run_to keeps ProgressInv: when it says the time was       *)
(* reached, everyone who lives is there.                                   *)
LEMMA ReturnForward ==
  ASSUME Inv, ProgressInv, Return
  PROVE  ProgressInv'
<1>1. /\ pc = "visit" /\ Runnable = {} /\ pc' = "idle" /\ stalled' = {}
      /\ now_ps' = (IF AllThere THEN until ELSE now_ps)
      /\ end_ps' = (IF AllThere THEN 0 ELSE end_ps)
      /\ UNCHANGED <<cyc, health, pending>>
  BY Zenon DEF Return, machineVars, netVars
<1>2. GoalInv' /\ RoundInv'
  BY <1>1, Zenon DEF GoalInv, ProgressInv, RoundInv
<1>3. HonestInv'
  <2>1. CASE ~AllThere
    BY <1>1, <2>1, Zenon DEF ProgressInv, HonestInv, RoundGoal
  <2>2. CASE AllThere
    <3>1. \A n \in Nodes : /\ cyc[n] \in Nat /\ goal[n] \in Nat /\ start[n] \in Nat
                           /\ RoundGoal(n, until) \in Nat /\ goal[n] <= RoundGoal(n, until)
                           /\ Asked(n)
      <4>1. until \in 0 .. Never /\ Never \in Nat
        BY NeverNat, Zenon DEF Inv, TypeInv
      <4>2. until \in Nat
        BY <4>1
      <4>. QED BY <1>1, <4>2, Conversions, Zenon DEF Inv, TypeInv, CallInv, ProgressInv, GoalInv, RoundGoal
    <3>2. \A n \in Nodes : cyc[n] >= RoundGoal(n, until) \/ cyc[n] = start[n]
      BY <2>2, Zenon DEF AllThere
    <3>3. failed \subseteq stalled
      <4>. SUFFICES ASSUME NEW n \in failed \ stalled PROVE FALSE
        BY Zenon
      <4>1. n \in Nodes /\ start[n] < cyc[n] /\ cyc[n] < goal[n]
        BY <1>1, Zenon DEF Inv, TypeInv, ProgressInv, GoalInv
      <4>. QED BY <3>1, <3>2, <4>1, SMTT(30)
    <3>4. \A n \in Nodes : health[n] = "ok" => cyc[n] >= goal[n]
      BY <1>1, <3>3, AllAtGoal, Zenon
    <3>5. ASSUME NEW n \in Nodes, health[n] = "ok" PROVE cyc[n] >= RoundGoal(n, until)
      <4>1. cyc[n] >= goal[n]
        BY <3>4, <3>5, Zenon
      <4>. QED BY <3>1, <3>2, <4>1, SMTT(30) DEF Asked
    <3>. QED BY <1>1, <2>2, <3>5, Zenon DEF HonestInv, RoundGoal
  <2>. QED BY <2>1, <2>2, Zenon
<1>4. HeldInv'
  <2>1. \A n \in Nodes : Before(n)' = Before(n)
    BY <1>1, Zenon DEF Before, T
  <2>2. \A ni \in Nets : \A n \in NetNodes[ni] : Waiting(ni, n)' = Waiting(ni, n)
    BY <1>1, Zenon DEF Waiting
  <2>. QED BY <1>1, <2>1, <2>2, Constants, Zenon DEF ProgressInv, HeldInv
<1>. QED BY <1>2, <1>3, <1>4, Zenon DEF ProgressInv

(* No call is under way at the start.                                      *)
LEMMA InitProgress == Init => ProgressInv
<1>. SUFFICES ASSUME Init PROVE ProgressInv
  BY Zenon
<1>1. GoalInv /\ RoundInv
  BY Zenon DEF Init, GoalInv, RoundInv
<1>2. HonestInv
  <2>1. \A n \in Nodes : RoundGoal(n, 0) \in Nat /\ RoundGoal(n, 0) <= 0
    BY Conversions, Zenon DEF RoundGoal
  <2>. QED BY <2>1, Zenon DEF Init, HonestInv
<1>3. HeldInv
  <2>1. \A ni \in Nets : \A n \in NetNodes[ni] : Waiting(ni, n) = {}
    BY DEF Init, Waiting
  <2>. QED BY <2>1, Zenon DEF HeldInv
<1>. QED BY <1>1, <1>2, <1>3, Zenon DEF ProgressInv

(* Every step keeps ProgressInv.                                           *)
LEMMA ProgressStep == Inv /\ ProgressInv /\ [Next]_vars => ProgressInv'
<1>. SUFFICES ASSUME Inv, ProgressInv, [Next]_vars PROVE ProgressInv'
  BY Zenon
<1>1. CASE UNCHANGED vars
  <2>1. UNCHANGED <<cyc, health, pending, pc, node, until, start, goal, stalled, failed, limit,
                    from, now_ps, end_ps>>
    BY <1>1, Zenon DEF vars, machineVars, netVars, callVars, slotVars, runVars, roundVars
  <2>2. GoalInv' /\ RoundInv' /\ HonestInv'
    BY <2>1, Zenon DEF ProgressInv, GoalInv, RoundInv, HonestInv, Asked, RoundGoal
  <2>3. HeldInv'
    BY <2>1 DEF ProgressInv, HeldInv, Before, T, Waiting
  <2>. QED BY <2>2, <2>3, Zenon DEF ProgressInv
<1>2. CASE Next
  <2>1. LeftAlone => UNCHANGED vars
    BY Zenon DEF LeftAlone
  <2>. QED BY <1>1, <1>2, <2>1, CallForward, MachineForward, EnterRunForward, ApplyDueForward,
              FinishRunForward, ReturnForward, Zenon DEF Next, Scheduler
<1>. QED BY <1>1, <1>2, Zenon

(* WorldGpio::run_to leaves nobody behind and World::round_now_ps claims   *)
(* nothing that is not so: the clauses of ProgressInv hold in every state  *)
(* of every world.                                                         *)
THEOREM RoundsProgress == Spec => []ProgressInv
<1>1. Init => ProgressInv
  BY InitProgress, Zenon
<1>2. Inv /\ ProgressInv /\ [Next]_vars => ProgressInv'
  BY ProgressStep, Zenon
<1>. QED BY <1>1, <1>2, HorizonSafe, PTL DEF Spec

(* A call of run_to that returns without an error has brought every node   *)
(* that can move to its goal: the scan over the nodes never ends with two  *)
(* of them waiting for each other's horizon.                               *)
THEOREM NobodyLeftBehind == Spec => []NoNodeLeftBehind
<1>1. Inv /\ ProgressInv => NoNodeLeftBehind
  <2>. SUFFICES ASSUME Inv, ProgressInv, pc = "visit", failed = {}, Runnable = {}
                PROVE  \A n \in Nodes : cyc[n] >= goal[n] \/ health[n] # "ok"
    BY Zenon DEF NoNodeLeftBehind
  <2>. QED BY AllAtGoal, Zenon
<1>. QED BY <1>1, HorizonSafe, RoundsProgress, PTL

(* World::round_now_ps never runs ahead of a node that can move, however   *)
(* step budgets, sleeps, stops and errors cut the rounds.                  *)
THEOREM ClockHonest == Spec => []RoundClockHonest
<1>1. ProgressInv => RoundClockHonest
  BY Zenon DEF ProgressInv, HonestInv, RoundClockHonest
<1>. QED BY <1>1, RoundsProgress, PTL

-------------------------------------------------------------------------------
(* Wires. *)

(* Every net is the wire of the changes merged into it: WorldGpio merges   *)
(* changes collected at different times in time order, none twice, none    *)
(* before a live member has reached its time.                              *)
THEOREM WiresMerged == Spec => []WireInv
<1>1. Inv /\ WireInv /\ [Next]_vars => WireInv'
  BY NextWire, Zenon
<1>. QED BY <1>1, InitWire, HorizonSafe, PTL DEF Spec

(* The level changes a net queues are exactly those of the wire that the   *)
(* drives of all its members put together in time order: no change is      *)
(* merged late, twice or out of order, whatever the nodes' clocks and the  *)
(* order in which they were run, and trimming loses nothing a member has   *)
(* not had.                                                                *)
THEOREM WiresFollowDrives == Spec => []WireFollowsDrives
<1>1. Inv /\ WireInv => WireFollowsDrives
  BY WireShown, Zenon DEF Inv
<1>. QED BY <1>1, HorizonSafe, WiresMerged, PTL

===============================================================================
