---------------------------- MODULE GpioNetsProofs ----------------------------
(***************************************************************************)
(* The conservative horizon of WorldGpio::run_to, for every number of      *)
(* nodes, every set of clocks, nets and latencies, and all firmware: every *)
(* action keeps Inv, and with it no delivery comes too late.               *)
(***************************************************************************)
EXTENDS GpioNetsLemmas

(* Types give times as numbers in the next state, too.                     *)
LEMMA TypedNext == TypeInv' => TypeFacts'
BY Typed, PTL

-------------------------------------------------------------------------------
(* What depends on the machines and the queues alone stays while they do.  *)
LEMMA SameTimes ==
  ASSUME UNCHANGED <<cyc, prev, health>>
  PROVE  \A n \in Nodes : T(n)' = T(n) /\ Passed(n)' = Passed(n)
BY Zenon DEF T, Passed

(* The changes that are not merged stay while the rings and the queues do. *)
LEMMA SameQueues ==
  ASSUME UNCHANGED <<ring, pending>>
  PROVE  \A ni \in Nets :
           /\ Unmerged(ni)' = Unmerged(ni)
           /\ \A n \in NetNodes[ni] : Recorded(ni, n)' = Recorded(ni, n) /\ Waiting(ni, n)' = Waiting(ni, n)
<1>1. ASSUME NEW ni, NEW n
      PROVE  Recorded(ni, n)' = Recorded(ni, n) /\ Waiting(ni, n)' = Waiting(ni, n)
  BY DEF Recorded, Waiting
<1>. QED BY <1>1, Zenon DEF Unmerged

(* Promises stay kept while nothing they depend on changes.                *)
LEMMA SameSound ==
  ASSUME UNCHANGED <<cyc, ring, wake, health, net, pending>>, NEW K, NEW ex, Sound(K, ex)
  PROVE  Sound(K, ex)'
<1>1. ASSUME NEW r \in Nodes, Kept(K, r, ex) PROVE Kept(K, r, ex)'
  <2>1. T(r)' = T(r) /\ \A ni \in NetsOf(r) : Unmerged(ni)' = Unmerged(ni)
    BY SameQueues, Zenon DEF T, NetsOf
  <2>. QED BY <1>1, <2>1, Zenon DEF Kept
<1>. QED BY <1>1, Zenon DEF Sound

(* The invariants about times stay while the machines and the nets do.     *)
LEMMA SameTiming ==
  ASSUME UNCHANGED <<cyc, prev, ring, wake, health, net, pending>>, QueueInv, ArrivalInv, HorizonInv
  PROVE  QueueInv' /\ ArrivalInv' /\ HorizonInv'
<1>1. /\ \A n \in Nodes : T(n)' = T(n) /\ Passed(n)' = Passed(n)
      /\ \A ni \in Nets :
           /\ Unmerged(ni)' = Unmerged(ni)
           /\ \A n \in NetNodes[ni] :
                n \in Nodes /\ Recorded(ni, n)' = Recorded(ni, n) /\ Waiting(ni, n)' = Waiting(ni, n)
  BY SameTimes, SameQueues, Constants, Zenon
<1>2. QueueInv'
  <2>1. ASSUME NEW ni \in Nets, NEW n \in NetNodes[ni]
        PROVE  /\ \A x \in Waiting(ni, n)' : x <= T(n)' /\ \A y \in Recorded(ni, n)' : x <= y
               /\ \A i \in DOMAIN ring[n][ni] : ring[n][ni][i].cycle <= cyc[n]
    BY <1>1, Zenon DEF QueueInv
  <2>2. ASSUME NEW ni \in Nets, NEW i \in DOMAIN net[ni].deliveries
        PROVE  /\ \A x \in Unmerged(ni)' : net[ni].deliveries[i].t_ps <= x + Latency[ni]
               /\ \A r \in NetNodes[ni] :
                    health[r] = "ok" => net[ni].deliveries[i].t_ps <= T(r)' + Latency[ni]
    BY <1>1, Zenon DEF QueueInv
  <2>. QED BY <2>1, <2>2, ZenonT(30) DEF QueueInv
<1>3. ArrivalInv'
  BY <1>1, Zenon DEF ArrivalInv, InTime
<1>4. HorizonInv'
  <2>1. PICK K \in [Nodes -> Nat] : Sound(K, {}) /\ Covers(K)
    BY Zenon DEF HorizonInv
  <2>2. Sound(K, {})'
    BY <2>1, SameSound, Zenon
  <2>3. Covers(K)'
    BY <1>1, <2>1, Zenon DEF Covers, InTime
  <2>. QED BY <2>2, <2>3, Zenon DEF HorizonInv
<1>. QED BY <1>2, <1>3, <1>4, Zenon

-------------------------------------------------------------------------------
(* A step of the running machine: it stands at boundary c now, has passed  *)
(* b for good, and has recorded a change on the nets rec.                  *)
Stepped(c, b, rec) ==
  /\ c \in Nat /\ b \in Nat /\ cyc[node] <= b /\ b <= c /\ b < limit /\ b < due[node].cycle
  /\ cyc' = [cyc EXCEPT ![node] = c]
  /\ \A n \in Nodes : Passed(n)' = IF n = node THEN b ELSE Passed(n)
  /\ \A n \in Nodes : health'[n] = "ok" => health[n] = "ok"
  /\ \A n \in Nodes \ {node} : wake'[n] = wake[n] /\ health'[n] = health[n]
  /\ rec \subseteq NetsOf(node) /\ (rec # {} => c > cyc[node])
  /\ \A ni \in Nets : Unmerged(ni)' = Unmerged(ni) \cup (IF ni \in rec THEN {CyclesToPs(c, node)} ELSE {})
  /\ wake[node] # 0 => c <= wake[node] /\ (c < wake[node] => rec = {} /\ wake'[node] = wake[node])
  /\ UNCHANGED <<net, pc, node, limit, from>>

(* A step of the running machine moves its time alone, and forward.        *)
LEMMA StepTimes ==
  ASSUME TypeInv, pc = "run", NEW c, NEW b, NEW rec, Stepped(c, b, rec)
  PROVE  /\ node \in Nodes /\ node' = node /\ T(node)' = CyclesToPs(c, node)
         /\ T(node)' \in Nat /\ T(node) <= T(node)'
         /\ \A n \in Nodes : T(n)' \in Nat /\ T(n) <= T(n)'
         /\ \A n \in Nodes \ {node} : T(n)' = T(n)
         /\ rec # {} => T(node) < T(node)'
<1>1. node \in Nodes /\ cyc \in [Nodes -> Nat] /\ c \in Nat /\ cyc[node] <= c
  BY DEF TypeInv, Stepped
<1>2. cyc' = [cyc EXCEPT ![node] = c] /\ (rec # {} => c > cyc[node]) /\ node' = node
  BY Zenon DEF Stepped
<1>3. \A n \in Nodes : cyc'[n] = IF n = node THEN c ELSE cyc[n]
  BY <1>1, <1>2, Zenon
<1>. QED BY <1>1, <1>2, <1>3, Conversions DEF T

(* What node promised before it recorded a change it had not reached. *)
LEMMA PromiseReached ==
  ASSUME TypeInv, pc = "run", NEW c, NEW b, NEW rec, Stepped(c, b, rec),
         NEW K \in [Nodes -> Nat], NEW ex, Kept(K, node, ex)
  PROVE  /\ rec # {} => K[node] < T(node)'
         /\ K[node] <= T(node)' \/ c < wake[node]
<1>1. /\ node \in Nodes /\ T(node)' = CyclesToPs(c, node) /\ T(node)' \in Nat /\ T(node) <= T(node)'
      /\ rec # {} => T(node) < T(node)'
  BY StepTimes, Zenon
<1>2. K[node] \in Nat /\ T(node) \in Nat /\ wake[node] \in Nat /\ c \in Nat
  BY <1>1, Typed, Zenon DEF TypeFacts, Stepped
<1>3. CASE K[node] <= T(node)
  BY <1>1, <1>2, <1>3
<1>4. CASE wake[node] # 0 /\ K[node] < CyclesToPs(wake[node], node)
  <2>1. c <= wake[node] /\ (c < wake[node] => rec = {})
    BY <1>4, Zenon DEF Stepped
  <2>2. c < wake[node] \/ c = wake[node]
    BY <1>2, <2>1
  <2>3. CASE c = wake[node]
    BY <1>1, <1>2, <1>4, <2>3
  <2>. QED BY <2>1, <2>2, <2>3, Zenon
<1>. QED BY <1>3, <1>4, Zenon DEF Kept

(* A promise stays kept, unless the change recorded is one that it leaves  *)
(* out of account.                                                         *)
LEMMA StepSound ==
  ASSUME TypeInv, pc = "run", health[node] = "ok", NEW c, NEW b, NEW rec, Stepped(c, b, rec),
         NEW K \in [Nodes -> Nat], NEW ex, Sound(K, ex), rec = {} \/ node \notin ex
  PROVE  Sound(K, ex)'
<1>1. /\ node \in Nodes /\ T(node)' = CyclesToPs(c, node) /\ T(node)' \in Nat
      /\ \A n \in Nodes : T(n)' \in Nat /\ T(n) <= T(n)'
  BY StepTimes, Zenon
<1>2. /\ \A n \in Nodes : T(n) \in Nat /\ K[n] \in Nat /\ wake[n] \in Nat
      /\ \A ni \in Nets : Unmerged(ni) \subseteq Nat /\ Latency[ni] \in Nat \ {0}
      /\ \A r \in Nodes : NetsOf(r) \subseteq Nets
      /\ \A r \in Nodes : \A ni \in NetsOf(r) : NetNodes[ni] \subseteq Nodes
  BY Typed, Constants, Zenon DEF TypeFacts, NetsOf
<1>3. /\ net' = net /\ rec \subseteq NetsOf(node)
      /\ \A n \in Nodes : health'[n] = "ok" => health[n] = "ok"
      /\ \A n \in Nodes \ {node} : wake'[n] = wake[n]
      /\ \A ni \in Nets : Unmerged(ni)' = Unmerged(ni) \cup (IF ni \in rec THEN {CyclesToPs(c, node)} ELSE {})
  BY Zenon DEF Stepped
<1>4. node \notin ex => Kept(K, node, ex)
  BY <1>1, Zenon DEF Sound
<1>5. ASSUME NEW r \in Nodes \ ex, health'[r] = "ok"
      PROVE  Kept(K, r, ex)'
  <2>1. Kept(K, r, ex)
    BY <1>3, <1>5, Zenon DEF Sound
  <2>2. CASE K[r] <= T(r)'
    BY <2>2, Zenon DEF Kept
  <2>3. CASE ~(K[r] <= T(r)')
    <3>1. ~(K[r] <= T(r))
      BY <1>1, <1>2, <2>3
    <3>2. /\ wake[r] # 0 /\ K[r] < CyclesToPs(wake[r], r)
          /\ \A ni \in NetsOf(r) :
               /\ \A u \in Awaited(net[ni], r) : K[r] < u
               /\ \A x \in Unmerged(ni) : K[r] < x + Latency[ni]
               /\ \A p \in NetNodes[ni] \ ({r} \cup ex) :
                    health[p] = "ok" => K[r] <= K[p] + Latency[ni]
      BY <2>1, <3>1, Zenon DEF Kept
    <3>3. wake'[r] = wake[r] /\ (r = node => rec = {})
      <4>1. CASE r = node
        BY <1>4, <2>3, <3>2, <4>1, PromiseReached, Zenon DEF Stepped
      <4>. QED BY <1>3, <4>1, Zenon
    <3>4. ASSUME NEW ni \in NetsOf(r), NEW x \in Unmerged(ni)'
          PROVE  K[r] < x + Latency[ni]
      <4>1. CASE x \in Unmerged(ni)
        BY <3>2, <4>1, Zenon
      <4>2. CASE x \notin Unmerged(ni)
        <5>1. ni \in Nets /\ ni \in rec /\ x = T(node)' /\ rec # {}
          BY <1>1, <1>2, <1>3, <4>2, Zenon
        <5>2. node \notin ex /\ r # node /\ node \in NetNodes[ni]
          BY <1>3, <3>3, <5>1, Zenon DEF NetsOf
        <5>3. K[r] <= K[node] + Latency[ni]
          BY <3>2, <5>2, Zenon
        <5>4. K[node] < T(node)'
          BY <1>4, <5>1, <5>2, PromiseReached, Zenon
        <5>5. K[r] \in Nat /\ K[node] \in Nat /\ Latency[ni] \in Nat /\ T(node)' \in Nat
          BY <1>1, <1>2, <5>1, Zenon
        <5>. QED BY ONLY <5>1, <5>3, <5>4, <5>5
      <4>. QED BY <4>1, <4>2, Zenon
    <3>5. \A ni \in NetsOf(r) : \A p \in NetNodes[ni] \ ({r} \cup ex) :
            health'[p] = "ok" => K[r] <= K[p] + Latency[ni]
      BY <1>2, <1>3, <3>2, Zenon
    <3>. QED BY <1>3, <3>2, <3>3, <3>4, <3>5, Zenon DEF Kept
  <2>. QED BY <2>2, <2>3, Zenon
<1>. QED BY <1>5, Zenon DEF Sound

(* The promises after the step: the old ones where they reach further; the *)
(* running node promises where it stands, and its peers what its limit was *)
(* taken from, but no more than that.                                      *)
LEMMA StepHorizon ==
  ASSUME TypeInv, pc = "run", ~hit, health[node] = "ok", HorizonInv, LimitInv,
         NEW c, NEW b, NEW rec, Stepped(c, b, rec)
  PROVE  HorizonInv'
<1>1. PICK Kg \in [Nodes -> Nat] : Sound(Kg, {}) /\ Covers(Kg)
  BY Zenon DEF HorizonInv
<1>2. PICK Kx \in [Nodes -> Nat] : Sound(Kx, Excluded) /\ LimitCovered(Kx)
  BY Zenon DEF LimitInv
<1>. DEFINE t == CyclesToPs(c, node)
            Km == [r \in Nodes |-> IF r = node THEN t ELSE Smaller(Kx[r], t)]
            Ks == [r \in Nodes |-> Larger(Kg[r], Km[r])]
<1>3. /\ node \in Nodes /\ node' = node /\ T(node)' = t /\ t \in Nat
      /\ \A n \in Nodes : T(n)' \in Nat /\ T(n) <= T(n)'
      /\ \A n \in Nodes \ {node} : T(n)' = T(n)
  BY StepTimes, Zenon
<1>4. /\ \A n \in Nodes : T(n) \in Nat /\ Passed(n) \in Int
      /\ \A ni \in Nets : Unmerged(ni) \subseteq Nat /\ Latency[ni] \in Nat \ {0}
      /\ \A ni \in Nets : NetNodes[ni] \subseteq Nodes
      /\ \A r \in Nodes : NetsOf(r) \subseteq Nets
  BY Typed, Constants, Zenon DEF TypeFacts, NetsOf
<1>5. /\ net' = net /\ limit \in Nat
      /\ c \in Nat /\ b \in Nat /\ b <= c /\ b < limit
      /\ \A n \in Nodes : Passed(n)' = IF n = node THEN b ELSE Passed(n)
      /\ \A n \in Nodes : health'[n] = "ok" => health[n] = "ok"
      /\ \A n \in Nodes \ {node} : wake'[n] = wake[n]
      /\ \A ni \in Nets : Unmerged(ni)' \subseteq Unmerged(ni) \cup {t}
  <2>1. limit \in Nat
    BY Zenon DEF TypeInv
  <2>2. /\ net' = net /\ c \in Nat /\ b \in Nat /\ b <= c /\ b < limit
        /\ \A n \in Nodes : Passed(n)' = IF n = node THEN b ELSE Passed(n)
        /\ \A n \in Nodes : health'[n] = "ok" => health[n] = "ok"
        /\ \A n \in Nodes \ {node} : wake'[n] = wake[n]
        /\ \A ni \in Nets : Unmerged(ni)' \subseteq Unmerged(ni) \cup {t}
    BY Zenon DEF Stepped
  <2>. QED BY <2>1, <2>2, Zenon
<1>. HIDE DEF t
<1>6. PICK K \in [Nodes -> Nat] :
      /\ Km \in [Nodes -> Nat] /\ Km[node] = t
      /\ \A r \in Nodes : K[r] >= Kg[r] /\ K[r] >= Km[r] /\ (K[r] = Kg[r] \/ K[r] = Km[r])
      /\ \A r \in Nodes \ {node} : Km[r] <= t /\ Km[r] <= Kx[r] /\ (Km[r] = t \/ Km[r] = Kx[r])
  <2>1. Km \in [Nodes -> Nat]
    BY <1>2, <1>3 DEF Smaller
  <2>2. Ks \in [Nodes -> Nat]
    BY <1>1, <2>1 DEF Larger
  <2>3. \A r \in Nodes : Kg[r] \in Nat /\ Kx[r] \in Nat /\ Km[r] \in Nat
    BY <1>1, <1>2, <2>1, Zenon
  <2>4. /\ \A r \in Nodes : Ks[r] = Larger(Kg[r], Km[r])
        /\ \A r \in Nodes \ {node} : Km[r] = Smaller(Kx[r], t)
        /\ Km[node] = t
    BY <1>3, Zenon
  <2>. HIDE DEF Ks, Km
  <2>5. \A r \in Nodes : Ks[r] >= Kg[r] /\ Ks[r] >= Km[r] /\ (Ks[r] = Kg[r] \/ Ks[r] = Km[r])
    BY <2>3, <2>4 DEF Larger
  <2>6. \A r \in Nodes \ {node} : Km[r] <= t /\ Km[r] <= Kx[r] /\ (Km[r] = t \/ Km[r] = Kx[r])
    BY <1>3, <2>3, <2>4 DEF Smaller
  <2>. QED BY <2>1, <2>2, <2>4, <2>5, <2>6, Zenon
<1>. HIDE DEF Ks, Km
<1>7. Sound(Kg, {})'
  BY <1>1, StepSound
<1>8. ASSUME NEW r \in Nodes, health'[r] = "ok", K[r] = Kg[r]
      PROVE  Kept(K, r, {})'
  <2>1. Kept(Kg, r, {})'
    BY <1>7, <1>8, Zenon DEF Sound
  <2>2. \A ni \in NetsOf(r) : \A p \in NetNodes[ni] \ ({r} \cup {}) :
          Kg[r] <= Kg[p] + Latency[ni] => K[r] <= K[p] + Latency[ni]
    BY <1>4, <1>6, <1>8
  <2>. QED BY <1>8, <2>1, <2>2, Zenon DEF Kept
<1>9. ASSUME NEW r \in Nodes \ {node}, health'[r] = "ok", K[r] = Km[r], Kx[r] > T(r)
      PROVE  Kept(K, r, {})'
  <2>1. r \notin Excluded /\ health[r] = "ok"
    BY <1>5, <1>9, Zenon DEF Excluded
  <2>2. Kept(Kx, r, Excluded)
    BY <1>2, <2>1, Zenon DEF Sound
  <2>3. ~(Kx[r] <= T(r)) /\ Kx[r] \in Nat
    BY <1>4, <1>9
  <2>4. /\ wake[r] # 0 /\ Kx[r] < CyclesToPs(wake[r], r)
        /\ \A ni \in NetsOf(r) :
             /\ \A u \in Awaited(net[ni], r) : Kx[r] < u
             /\ \A x \in Unmerged(ni) : Kx[r] < x + Latency[ni]
             /\ \A p \in NetNodes[ni] \ ({r} \cup Excluded) :
                  health[p] = "ok" => Kx[r] <= Kx[p] + Latency[ni]
    BY <2>2, <2>3, Zenon DEF Kept
  <2>5. K[r] \in Nat /\ K[r] <= Kx[r] /\ K[r] <= t
    BY <1>6, <1>9, Zenon
  <2>6. wake'[r] # 0 /\ K[r] < CyclesToPs(wake'[r], r)
    <3>1. wake'[r] = wake[r] /\ CyclesToPs(wake[r], r) \in Nat
      BY <1>5, Conversions, Zenon DEF TypeInv
    <3>. QED BY <2>3, <2>4, <2>5, <3>1
  <2>7. ASSUME NEW ni \in NetsOf(r)
        PROVE  /\ \A u \in Awaited(net'[ni], r) : K[r] < u
               /\ \A x \in Unmerged(ni)' : K[r] < x + Latency[ni]
               /\ \A p \in NetNodes[ni] \ ({r} \cup {}) :
                    health'[p] = "ok" => K[r] <= K[p] + Latency[ni]
    <3>1. ni \in Nets /\ Latency[ni] \in Nat \ {0} /\ NetNodes[ni] \subseteq Nodes /\ r \in NetNodes[ni]
      BY <1>4, Zenon DEF NetsOf
    <3>2. Awaited(net[ni], r) \subseteq Nat
      BY <3>1, Typed, Zenon DEF TypeFacts
    <3>3. \A u \in Awaited(net'[ni], r) : K[r] < u
      <4>1. ASSUME NEW u \in Awaited(net[ni], r) PROVE K[r] < u
        <5>1. Kx[r] < u /\ u \in Nat
          BY <2>4, <3>2, Zenon
        <5>. QED BY ONLY <2>3, <2>5, <5>1
      <4>. QED BY <1>5, <4>1, Zenon
    <3>4. ASSUME NEW x \in Unmerged(ni)' PROVE K[r] < x + Latency[ni]
      <4>1. x \in Unmerged(ni) \/ x = t
        BY <1>5, <3>1, Zenon
      <4>2. x \in Nat
        BY <1>3, <1>4, <3>1, <4>1, Zenon
      <4>3. x # t => Kx[r] < x + Latency[ni]
        BY <2>4, <4>1, Zenon
      <4>. QED BY <1>3, <2>3, <2>5, <3>1, <4>2, <4>3, SMTT(30)
    <3>5. ASSUME NEW p \in NetNodes[ni] \ {r}, health'[p] = "ok"
          PROVE  K[r] <= K[p] + Latency[ni]
      <4>1. p \in Nodes /\ K[p] \in Nat /\ K[p] >= Km[p] /\ Km[p] \in Nat /\ Kx[p] \in Nat
        BY <1>6, <3>1, Zenon
      <4>2. CASE p = node
        BY <1>6, <2>5, <3>1, <4>1, <4>2, SMTT(30)
      <4>3. CASE p # node
        <5>1. Kx[r] <= Kx[p] + Latency[ni] /\ (Km[p] = t \/ Km[p] = Kx[p])
          BY <1>5, <1>6, <2>4, <3>5, <4>1, <4>3, Zenon DEF Excluded
        <5>. QED BY <1>3, <2>3, <2>5, <3>1, <4>1, <5>1, SMTT(30)
      <4>. QED BY <4>2, <4>3, Zenon
    <3>. QED BY <3>3, <3>4, <3>5, Zenon
  <2>. QED BY <2>6, <2>7, Zenon DEF Kept
<1>10. Sound(K, {})'
  <2>1. ASSUME NEW r \in Nodes, health'[r] = "ok", K[r] # Kg[r], r = node \/ Kx[r] <= T(r)
        PROVE  Kept(K, r, {})'
    <3>1. K[r] = Km[r] /\ K[r] \in Nat /\ T(r) \in Nat /\ T(r)' \in Nat /\ T(r) <= T(r)' /\ Kx[r] \in Nat
      BY <1>3, <1>4, <1>6, <2>1, Zenon
    <3>2. r = node => K[r] = T(r)'
      BY <1>3, <1>6, <3>1, Zenon
    <3>3. r # node => K[r] <= Kx[r]
      BY <1>6, <3>1, Zenon
    <3>4. K[r] <= T(r)'
      BY <2>1, <3>1, <3>2, <3>3
    <3>. QED BY <3>4, Zenon DEF Kept
  <2>2. \A r \in Nodes : Kx[r] <= T(r) \/ Kx[r] > T(r)
    BY <1>4
  <2>. QED BY <1>6, <1>8, <1>9, <2>1, <2>2, Zenon DEF Sound
<1>11. Covers(K)'
  <2>. SUFFICES ASSUME NEW ni \in Nets, NEW n \in NetNodes[ni], NEW r \in NetNodes[ni] \ {n},
                       health'[r] = "ok"
                PROVE  PsToCyclesCeil(K[r] + Latency[ni], n) > Passed(n)'
    BY Zenon DEF Covers, InTime
  <2>1. /\ n \in Nodes /\ r \in Nodes /\ health[r] = "ok" /\ Latency[ni] \in Nat \ {0}
        /\ K[r] \in Nat /\ Kg[r] \in Nat /\ Km[r] \in Nat /\ Kx[r] \in Nat
    BY <1>4, <1>5, <1>6, Zenon
  <2>2. ASSUME NEW k \in Nat, k <= K[r]
        PROVE  /\ PsToCyclesCeil(k + Latency[ni], n) <= PsToCyclesCeil(K[r] + Latency[ni], n)
               /\ PsToCyclesCeil(k + Latency[ni], n) \in Nat
               /\ PsToCyclesCeil(K[r] + Latency[ni], n) \in Nat
    <3>1. k + Latency[ni] \in Nat /\ K[r] + Latency[ni] \in Nat /\ k + Latency[ni] <= K[r] + Latency[ni]
      BY <2>1, <2>2
    <3>. QED BY <2>1, <3>1, Conversions, Zenon
  <2>3. CASE n # node
    <3>1. PsToCyclesCeil(Kg[r] + Latency[ni], n) > Passed(n) /\ Passed(n)' = Passed(n) /\ Passed(n) \in Int
      BY <1>1, <1>4, <1>5, <2>1, <2>3, Zenon DEF Covers, InTime
    <3>. QED BY <1>6, <2>1, <2>2, <3>1
  <2>4. CASE n = node
    <3>1. r # node /\ Passed(n)' = b /\ b \in Nat /\ b < limit /\ b <= c /\ c \in Nat /\ limit \in Nat
      BY <1>3, <1>5, <2>4, Zenon
    <3>2. CASE Km[r] = Kx[r]
      <4>1. limit <= PsToCyclesCeil(Kx[r] + Latency[ni], n)
        BY <1>2, <2>1, <2>4, <3>1, Zenon DEF LimitCovered, NetsOf
      <4>. QED BY <1>6, <2>1, <2>2, <3>1, <3>2, <4>1
    <3>3. CASE Km[r] = t
      <4>1. t + Latency[ni] \in Nat /\ ~(t + Latency[ni] <= t)
        BY <1>3, <2>1
      <4>2. ~(PsToCyclesCeil(t + Latency[ni], n) <= c)
        BY <2>1, <2>4, <3>1, <4>1, Conversions, Zenon DEF t
      <4>3. PsToCyclesCeil(t + Latency[ni], n) \in Nat
        BY <2>1, <4>1, Conversions, Zenon
      <4>. QED BY <1>6, <2>1, <2>2, <3>1, <3>3, <4>2, <4>3, SMTT(30)
    <3>. QED BY <1>6, <2>1, <3>1, <3>2, <3>3, Zenon
  <2>. QED BY <2>3, <2>4, Zenon
<1>. QED BY <1>6, <1>10, <1>11, Zenon DEF HorizonInv

(* Nothing recorded or queued is passed by the step. *)
LEMMA StepArrival ==
  ASSUME TypeInv, pc = "run", ~hit, health[node] = "ok", HorizonInv, LimitInv, ArrivalInv, DueInv,
         NEW c, NEW b, NEW rec, Stepped(c, b, rec)
  PROVE  ArrivalInv'
<1>1. PICK Kg \in [Nodes -> Nat] : Sound(Kg, {}) /\ Covers(Kg)
  BY Zenon DEF HorizonInv
<1>2. PICK Kx \in [Nodes -> Nat] : Sound(Kx, Excluded) /\ LimitCovered(Kx)
  BY Zenon DEF LimitInv
<1>. DEFINE t == CyclesToPs(c, node)
<1>3. node \in Nodes /\ T(node)' = t /\ t \in Nat
  BY StepTimes, Zenon
<1>4. /\ \A n \in Nodes : Passed(n) \in Int
      /\ \A ni \in Nets : Unmerged(ni) \subseteq Nat /\ Latency[ni] \in Nat \ {0}
      /\ \A ni \in Nets : NetNodes[ni] \subseteq Nodes
      /\ \A ni \in Nets : \A n \in NetNodes[ni] : Awaited(net[ni], n) \subseteq Nat
  BY Typed, Constants, Zenon DEF TypeFacts
<1>5. /\ net' = net /\ limit \in Nat /\ cyc[node] \in Nat /\ due[node].cycle \in Nat
      /\ c \in Nat /\ b \in Nat /\ b <= c /\ b < limit /\ b < due[node].cycle
      /\ \A n \in Nodes : Passed(n)' = IF n = node THEN b ELSE Passed(n)
      /\ \A ni \in Nets : \A x \in Unmerged(ni)' : x \in Unmerged(ni) \/ (x = t /\ ni \in rec)
      /\ rec \subseteq NetsOf(node)
  <2>1. limit \in Nat /\ cyc[node] \in Nat /\ due[node] \in Due
    BY <1>3, Zenon DEF TypeInv
  <2>2. due[node].cycle \in Nat
    BY <2>1, Zenon DEF Due
  <2>3. /\ net' = net /\ c \in Nat /\ b \in Nat /\ b <= c /\ b < limit /\ b < due[node].cycle
        /\ \A n \in Nodes : Passed(n)' = IF n = node THEN b ELSE Passed(n)
        /\ \A ni \in Nets : \A x \in Unmerged(ni)' : x \in Unmerged(ni) \/ (x = t /\ ni \in rec)
        /\ rec \subseteq NetsOf(node)
    BY Zenon DEF Stepped
  <2>. QED BY <2>1, <2>2, <2>3, Zenon
<1>6. rec # {} => Kg[node] < t
  BY <1>1, <1>3, PromiseReached, Zenon DEF Sound
<1>. HIDE DEF t
<1>7. ASSUME NEW ni \in Nets, NEW n \in NetNodes[ni], NEW x \in Unmerged(ni)'
      PROVE  PsToCyclesCeil(x + Latency[ni], n) > Passed(n)'
  <2>1. /\ n \in Nodes /\ x \in Nat /\ Latency[ni] \in Nat \ {0} /\ x + Latency[ni] \in Nat
        /\ PsToCyclesCeil(x + Latency[ni], n) \in Nat
    <3>1. n \in Nodes /\ x \in Nat /\ Latency[ni] \in Nat \ {0}
      BY <1>3, <1>4, <1>5, Zenon
    <3>2. x + Latency[ni] \in Nat
      BY <3>1
    <3>. QED BY <3>1, <3>2, Conversions, Zenon
  <2>2. CASE n # node /\ x \in Unmerged(ni)
    BY <1>5, <2>1, <2>2, Zenon DEF ArrivalInv, InTime
  <2>3. CASE n # node /\ x = t /\ ni \in rec
    <3>1. node \in NetNodes[ni] \ {n} /\ Kg[node] < x /\ Kg[node] \in Nat
      BY <1>3, <1>5, <1>6, <2>3, Zenon DEF NetsOf
    <3>2. PsToCyclesCeil(Kg[node] + Latency[ni], n) > Passed(n) /\ Passed(n) \in Int
      BY <1>1, <1>4, <2>1, <3>1, Zenon DEF Covers, InTime
    <3>3. Kg[node] + Latency[ni] \in Nat /\ Kg[node] + Latency[ni] <= x + Latency[ni]
      BY <2>1, <3>1
    <3>4. /\ PsToCyclesCeil(Kg[node] + Latency[ni], n) <= PsToCyclesCeil(x + Latency[ni], n)
          /\ PsToCyclesCeil(Kg[node] + Latency[ni], n) \in Nat
      BY <2>1, <3>3, Conversions, Zenon
    <3>5. Passed(n)' = Passed(n)
      BY <1>5, <2>1, <2>3, Zenon
    <3>. QED BY <2>1, <3>2, <3>4, <3>5
  <2>4. CASE n = node /\ x \in Unmerged(ni)
    <3>1. limit <= PsToCyclesCeil(x + Latency[ni], n)
      BY <1>2, <2>4, Zenon DEF LimitCovered, NetsOf
    <3>. QED BY <1>5, <2>1, <2>4, <3>1
  <2>5. CASE n = node /\ x = t
    <3>1. ~(x + Latency[ni] <= t)
      BY <1>3, <2>1, <2>5
    <3>2. ~(PsToCyclesCeil(x + Latency[ni], n) <= c)
      BY <1>5, <2>1, <2>5, <3>1, Conversions, Zenon DEF t
    <3>. QED BY <1>5, <2>1, <2>5, <3>2
  <2>. QED BY <1>5, <2>2, <2>3, <2>4, <2>5, Zenon
<1>8. ASSUME NEW ni \in Nets, NEW n \in NetNodes[ni], NEW u \in Awaited(net[ni], n)
      PROVE  PsToCyclesCeil(u, n) > Passed(n)'
  <2>1. n \in Nodes /\ u \in Nat /\ PsToCyclesCeil(u, n) \in Nat
    <3>1. n \in Nodes /\ u \in Nat
      BY <1>4, Zenon
    <3>. QED BY <3>1, Conversions, Zenon
  <2>2. CASE n # node
    BY <1>5, <2>1, <2>2, Zenon DEF ArrivalInv, InTime
  <2>3. CASE n = node
    <3>1. due[node].cycle <= PsToCyclesCeil(u, n)
      <4>1. DueFor(due[node], node, net) /\ ni \in NetsOf(node)
        BY <1>3, <2>3, Zenon DEF DueInv, NetsOf
      <4>. QED BY <2>3, <4>1, Zenon DEF DueFor
    <3>. QED BY <1>5, <2>1, <2>3, <3>1
  <2>. QED BY <2>2, <2>3, Zenon
<1>. QED BY <1>5, <1>7, <1>8, Zenon DEF ArrivalInv, InTime

(* The limit keeps what it rests on. *)
LEMMA StepLimit ==
  ASSUME TypeInv, pc = "run", ~hit, health[node] = "ok", LimitInv, from <= cyc[node],
         NEW c, NEW b, NEW rec, Stepped(c, b, rec), hit' \/ rec = {} \/ node \notin Exact
  PROVE  LimitInv'
<1>1. PICK Kx \in [Nodes -> Nat] : Sound(Kx, Excluded) /\ LimitCovered(Kx)
  BY Zenon DEF LimitInv
<1>. SUFFICES ASSUME ~hit' PROVE Sound(Kx, Excluded)' /\ LimitCovered(Kx)'
  BY Zenon DEF LimitInv
<1>. DEFINE t == CyclesToPs(c, node)
<1>2. /\ node \in Nodes /\ t \in Nat /\ node' = node /\ limit' = limit /\ from' = from
      /\ c \in Nat /\ from \in Nat /\ from <= c /\ limit \in Nat
      /\ \A n \in Nodes : health'[n] = "ok" => health[n] = "ok"
      /\ \A ni \in Nets : \A x \in Unmerged(ni)' : x \in Unmerged(ni) \/ (x = t /\ ni \in rec)
  <2>1. node \in Nodes /\ t \in Nat /\ node' = node /\ cyc[node] \in Nat
    BY StepTimes, Zenon DEF TypeInv
  <2>2. /\ c \in Nat /\ cyc[node] <= c /\ from \in Nat /\ limit \in Nat
        /\ limit' = limit /\ from' = from
    <3>1. b \in Nat /\ cyc[node] <= b /\ b <= c /\ c \in Nat
      BY Zenon DEF Stepped
    <3>2. from \in Nat /\ limit \in Nat /\ limit' = limit /\ from' = from
      BY Zenon DEF Stepped, TypeInv
    <3>. QED BY <2>1, <3>1, <3>2
  <2>3. from <= c
    BY <2>1, <2>2
  <2>. QED BY <2>1, <2>2, <2>3, Zenon DEF Stepped
<1>3. Sound(Kx, Excluded)'
  <2>1. rec = {} \/ node \notin Excluded
    BY Zenon DEF Excluded
  <2>2. PICK ex : ex = Excluded
    BY Zenon
  <2>3. Sound(Kx, ex)'
    BY <1>1, <2>1, <2>2, StepSound, Zenon
  <2>4. Excluded' = ex
    BY <1>2, <2>2, Zenon DEF Excluded
  <2>. QED BY <2>3, <2>4, Zenon DEF Sound, Kept
<1>. HIDE DEF t
<1>4. ASSUME NEW ni \in NetsOf(node)
      PROVE  /\ \A r \in NetNodes[ni] \ {node} :
                  health'[r] = "ok" => limit <= PsToCyclesCeil(Kx[r] + Latency[ni], node)
             /\ \A x \in Unmerged(ni)' : limit <= PsToCyclesCeil(x + Latency[ni], node)
             /\ node \notin Exact =>
                  limit <= PsToCyclesCeil(CyclesToPs(from, node) + Latency[ni], node)
  <2>1. ni \in Nets /\ NetNodes[ni] \subseteq Nodes /\ Latency[ni] \in Nat
    BY Constants, Zenon DEF NetsOf
  <2>2. /\ \A r \in NetNodes[ni] \ {node} :
             health[r] = "ok" => limit <= PsToCyclesCeil(Kx[r] + Latency[ni], node)
        /\ \A x \in Unmerged(ni) : limit <= PsToCyclesCeil(x + Latency[ni], node)
        /\ node \notin Exact => limit <= PsToCyclesCeil(CyclesToPs(from, node) + Latency[ni], node)
    BY <1>1, Zenon DEF LimitCovered
  <2>3. node \notin Exact => limit <= PsToCyclesCeil(t + Latency[ni], node)
    <3>. DEFINE f == CyclesToPs(from, node)
    <3>1. f \in Nat /\ f <= t
      BY <1>2, Conversions, Zenon DEF t
    <3>2. f + Latency[ni] \in Nat /\ t + Latency[ni] \in Nat /\ f + Latency[ni] <= t + Latency[ni]
      BY <1>2, <2>1, <3>1
    <3>. HIDE DEF f
    <3>3. /\ PsToCyclesCeil(f + Latency[ni], node) <= PsToCyclesCeil(t + Latency[ni], node)
          /\ PsToCyclesCeil(f + Latency[ni], node) \in Nat
          /\ PsToCyclesCeil(t + Latency[ni], node) \in Nat
      BY <1>2, <3>2, Conversions, Zenon
    <3>. QED BY <1>2, <2>2, <3>3 DEF f
  <2>4. \A x \in Unmerged(ni)' : x \in Unmerged(ni) \/ (x = t /\ node \notin Exact)
    BY <1>2, <2>1, Zenon
  <2>. QED BY <1>2, <2>1, <2>2, <2>3, <2>4, Zenon
<1>5. LimitCovered(Kx)'
  BY <1>2, <1>4, Zenon DEF LimitCovered
<1>. QED BY <1>3, <1>5, Zenon

(* A boundary at which the node may have recorded a change. *)
Grew(c) ==
  /\ DOMAIN ring' = Nodes /\ \A n \in Nodes \ {node} : ring'[n] = ring[n]
  /\ ring'[node] \in [NetsOf(node) -> Seq(RingEntry)]
  /\ \A ni \in NetsOf(node) :
       \/ ring'[node][ni] = ring[node][ni]
       \/ \E own \in Own : ring'[node][ni] = Append(ring[node][ni], [cycle |-> c, own |-> own])

(* What a machine records at boundary c: one entry on each of the nets     *)
(* rec, all of the time of c.                                              *)
LEMMA RecordResult ==
  ASSUME TypeInv, pc = "run", NEW c \in Nat, MayRecord(c), UNCHANGED <<pending, node>>
  PROVE  \E rec \in SUBSET NetsOf(node) :
           /\ \A ni \in Nets : Unmerged(ni)' =
                Unmerged(ni) \cup (IF ni \in rec THEN {CyclesToPs(c, node)} ELSE {})
           /\ NoRecord => rec = {}
           /\ rec = {} => ring' = ring /\ hit' = hit
           /\ rec # {} => hit' = (node \in Exact)
           /\ Grew(c)
<1>1. /\ node \in Nodes /\ DOMAIN ring = Nodes
      /\ \A n \in Nodes : ring[n] \in [NetsOf(n) -> Seq(RingEntry)]
      /\ \A n \in Nodes : DOMAIN ring[n] = NetsOf(n)
  BY Zenon DEF TypeInv
<1>2. CASE NoRecord
  <2>1. ring' = ring /\ hit' = hit
    BY <1>2, Zenon DEF NoRecord
  <2>2. \A ni \in Nets : Unmerged(ni)' = Unmerged(ni) \cup (IF ni \in {} THEN {CyclesToPs(c, node)} ELSE {})
    BY <2>1, SameQueues, Zenon
  <2>3. Grew(c)
    BY <1>1, <2>1, Zenon DEF Grew
  <2>. QED BY <2>1, <2>2, <2>3, Zenon
<1>3. ASSUME NEW mi \in NetsOf(node), NEW own \in Drives[node], Record(c, mi, own)
      PROVE  /\ \A ni \in Nets : Unmerged(ni)' =
                  Unmerged(ni) \cup (IF ni \in {mi} THEN {CyclesToPs(c, node)} ELSE {})
             /\ hit' = (node \in Exact) /\ Grew(c)
  <2>. DEFINE e == [cycle |-> c, own |-> own]
              s == ring[node][mi]
  <2>1. hit' = (node \in Exact) /\ ring' = [ring EXCEPT ![node][mi] = Append(@, e)]
    BY <1>3, Zenon DEF Record
  <2>2. own \in Own /\ mi \in Nets /\ node \in NetNodes[mi]
    BY <1>1, NetAssumption, Zenon DEF NetsOf
  <2>3. s \in Seq(RingEntry) /\ Len(s) \in Nat /\ DOMAIN s = 1 .. Len(s)
    BY <1>1
  <2>4. /\ DOMAIN ring' = Nodes /\ \A n \in Nodes \ {node} : ring'[n] = ring[n]
        /\ ring'[node] = [ring[node] EXCEPT ![mi] = Append(s, e)]
        /\ \A ni \in NetsOf(node) \ {mi} : ring'[node][ni] = ring[node][ni]
        /\ ring'[node][mi] = Append(s, e)
    BY <1>1, <2>1, Zenon
  <2>5. Grew(c)
    <3>1. e \in RingEntry
      BY <2>2, Zenon DEF RingEntry
    <3>2. Append(s, e) \in Seq(RingEntry)
      BY <2>3, <3>1
    <3>3. ring'[node] \in [NetsOf(node) -> Seq(RingEntry)]
      BY <1>1, <2>4, <3>2, Zenon
    <3>. QED BY <2>2, <2>4, <3>3, Zenon DEF Grew
  <2>6. /\ DOMAIN Append(s, e) = DOMAIN s \cup {Len(s) + 1}
        /\ \A i \in DOMAIN s : Append(s, e)[i] = s[i]
        /\ Append(s, e)[Len(s) + 1] = e
    BY <2>3, SMTT(30)
  <2>. HIDE DEF s
  <2>7. Recorded(mi, node)' = Recorded(mi, node) \cup {CyclesToPs(c, node)}
    <3>. DEFINE f(q, i) == CyclesToPs(q[i].cycle, node)
    <3>1. {f(Append(s, e), i) : i \in DOMAIN Append(s, e)}
            = {f(s, i) : i \in DOMAIN s} \cup {CyclesToPs(c, node)}
      <4>1. \A i \in DOMAIN s : f(Append(s, e), i) = f(s, i)
        BY <2>6, Zenon
      <4>2. f(Append(s, e), Len(s) + 1) = CyclesToPs(c, node)
        BY <2>6
      <4>. HIDE DEF f
      <4>. QED BY <2>6, <4>1, <4>2
    <3>2. Recorded(mi, node) = {f(s, i) : i \in DOMAIN s}
      BY Zenon DEF Recorded, s
    <3>3. {CyclesToPs(ring'[node][mi][i].cycle, node) : i \in DOMAIN ring'[node][mi]}
            = {f(Append(s, e), i) : i \in DOMAIN Append(s, e)}
      BY <2>4, Zenon
    <3>4. Recorded(mi, node)'
            = {CyclesToPs(ring'[node][mi][i].cycle, node) : i \in DOMAIN ring'[node][mi]}
      BY Zenon DEF Recorded
    <3>. QED BY <3>1, <3>2, <3>3, <3>4, Zenon
  <2>8. ASSUME NEW ni \in Nets, NEW n \in NetNodes[ni], ni # mi \/ n # node
        PROVE  Recorded(ni, n)' = Recorded(ni, n)
    <3>1. n \in Nodes /\ ni \in NetsOf(n)
      BY Constants, Zenon DEF NetsOf
    <3>2. ring'[n][ni] = ring[n][ni]
      BY <2>4, <2>8, <3>1, Zenon
    <3>. QED BY <3>2, Zenon DEF Recorded
  <2>9. \A ni \in Nets : \A n \in NetNodes[ni] : Waiting(ni, n)' = Waiting(ni, n)
    BY Zenon DEF Waiting
  <2>10. ASSUME NEW ni \in Nets, ni # mi PROVE Unmerged(ni)' = Unmerged(ni)
    <3>1. \A n \in NetNodes[ni] : (Recorded(ni, n) \cup Waiting(ni, n))' = Recorded(ni, n) \cup Waiting(ni, n)
      BY <2>8, <2>9, <2>10, Zenon
    <3>. QED BY <3>1, Zenon DEF Unmerged
  <2>11. Unmerged(mi)' = Unmerged(mi) \cup {CyclesToPs(c, node)}
    <3>. DEFINE t == CyclesToPs(c, node)
    <3>1. \A n \in NetNodes[mi] : (Recorded(mi, n) \cup Waiting(mi, n))' =
            (Recorded(mi, n) \cup Waiting(mi, n)) \cup (IF n = node THEN {t} ELSE {})
      BY <2>2, <2>7, <2>8, <2>9, Zenon
    <3>. HIDE DEF t
    <3>2. \A x : x \in Unmerged(mi)' <=> \E n \in NetNodes[mi] : x \in (Recorded(mi, n) \cup Waiting(mi, n))'
      BY Zenon DEF Unmerged
    <3>3. \A x : x \in Unmerged(mi) <=> \E n \in NetNodes[mi] : x \in Recorded(mi, n) \cup Waiting(mi, n)
      BY Zenon DEF Unmerged
    <3>4. Unmerged(mi)' = Unmerged(mi) \cup {t}
      BY <2>2, <3>1, <3>2, <3>3
    <3>. QED BY <3>4, Zenon DEF t
  <2>. QED BY <2>1, <2>5, <2>10, <2>11, Zenon
<1>4. CASE /\ ~NoRecord
           /\ \E ni \in NetsOf(node) : \E own \in Drives[node] \ {drive[node][ni]} :
                Changes(hist) < MaxChanges /\ Record(c, ni, own)
  <2>1. PICK mi \in NetsOf(node) : \E own \in Drives[node] : Record(c, mi, own)
    BY <1>4, Zenon
  <2>2. {mi} \in SUBSET NetsOf(node) /\ {mi} # {}
    BY Zenon
  <2>3. /\ \A ni \in Nets : Unmerged(ni)' =
             Unmerged(ni) \cup (IF ni \in {mi} THEN {CyclesToPs(c, node)} ELSE {})
        /\ hit' = (node \in Exact) /\ Grew(c)
    BY <1>3, <2>1, Zenon
  <2>. QED BY <1>4, <2>2, <2>3, Zenon
<1>. QED BY <1>2, <1>4, Zenon DEF MayRecord

RingGrew(n, ni, c) ==
  /\ ring'[n][ni] \in Seq(RingEntry)
  /\ Len(ring[n][ni]) \in Nat
  /\ \A i \in DOMAIN ring[n][ni] : i \in 1 .. Len(ring[n][ni]) /\ ring[n][ni][i].cycle \in Nat
  /\ \A i \in DOMAIN ring'[n][ni] :
       \/ i \in DOMAIN ring[n][ni] /\ ring'[n][ni][i] = ring[n][ni][i]
       \/ n = node /\ i = Len(ring[n][ni]) + 1 /\ ring'[n][ni][i].cycle = c

(* A ring is as it was, or has one entry more, of the boundary reached.    *)
LEMMA RingAfter ==
  ASSUME TypeInv, pc = "run", NEW c \in Nat, Grew(c), NEW n \in Nodes, NEW ni \in NetsOf(n)
  PROVE  RingGrew(n, ni, c)
<1>. DEFINE s == ring[n][ni]
<1>1. s \in Seq(RingEntry) /\ Len(s) \in Nat /\ DOMAIN s = 1 .. Len(s) /\ node \in Nodes
  BY DEF TypeInv
<1>2. \A i \in DOMAIN s : s[i] \in RingEntry
  BY <1>1
<1>3. \A i \in DOMAIN s : i \in 1 .. Len(s) /\ s[i].cycle \in Nat
  BY <1>1, <1>2, Zenon DEF RingEntry
<1>4. CASE ring'[n][ni] = s
  BY <1>1, <1>3, <1>4, Zenon DEF RingGrew
<1>5. ASSUME NEW own \in Own, ring'[n][ni] = Append(s, [cycle |-> c, own |-> own]), n = node
      PROVE  /\ ring'[n][ni] \in Seq(RingEntry)
             /\ \A i \in DOMAIN ring'[n][ni] :
                  \/ i \in DOMAIN s /\ ring'[n][ni][i] = s[i]
                  \/ n = node /\ i = Len(s) + 1 /\ ring'[n][ni][i].cycle = c
  <2>. DEFINE e == [cycle |-> c, own |-> own]
  <2>1. e \in RingEntry /\ e.cycle = c
    BY Zenon DEF RingEntry
  <2>. HIDE DEF e, s
  <2>2. /\ Append(s, e) \in Seq(RingEntry)
        /\ DOMAIN Append(s, e) = DOMAIN s \cup {Len(s) + 1}
        /\ \A i \in DOMAIN s : Append(s, e)[i] = s[i]
        /\ Append(s, e)[Len(s) + 1] = e
    BY <1>1, <2>1
  <2>. QED BY <1>5, <2>1, <2>2, Zenon DEF e
<1>6. \/ ring'[n][ni] = s
      \/ n = node /\ \E own \in Own : ring'[n][ni] = Append(s, [cycle |-> c, own |-> own])
  BY ZenonT(30) DEF Grew
<1>. QED BY <1>1, <1>3, <1>4, <1>5, <1>6, Zenon DEF RingGrew

(* The queues stay in order. *)
LEMMA StepQueue ==
  ASSUME TypeInv, pc = "run", health[node] = "ok", QueueInv,
         NEW c, NEW b, NEW rec, Stepped(c, b, rec), Grew(c), pending' = pending
  PROVE  QueueInv'
<1>. DEFINE t == CyclesToPs(c, node)
<1>1. /\ node \in Nodes /\ node' = node /\ t \in Nat /\ T(node)' = t /\ T(node) <= t
      /\ \A n \in Nodes : T(n)' \in Nat /\ T(n) <= T(n)'
  BY StepTimes, Zenon
<1>2. /\ \A n \in Nodes : T(n) \in Nat /\ cyc[n] \in Nat
      /\ \A ni \in Nets : Unmerged(ni) \subseteq Nat /\ Latency[ni] \in Nat
      /\ \A ni \in Nets : NetNodes[ni] \subseteq Nodes
      /\ \A ni \in Nets : \A n \in NetNodes[ni] : ni \in NetsOf(n)
  BY Typed, Constants, ZenonT(30) DEF TypeFacts, NetsOf
<1>3. /\ net' = net /\ c \in Nat /\ cyc[node] <= c
      /\ \A n \in Nodes : cyc'[n] \in Nat /\ cyc[n] <= cyc'[n] /\ (n = node => cyc'[n] = c)
      /\ \A n \in Nodes : health'[n] = "ok" => health[n] = "ok"
      /\ \A ni \in Nets : \A x \in Unmerged(ni)' : x \in Unmerged(ni) \/ (x = t /\ ni \in rec)
      /\ rec \subseteq NetsOf(node)
  <2>1. c \in Nat /\ b \in Nat /\ cyc[node] <= b /\ b <= c /\ cyc' = [cyc EXCEPT ![node] = c]
    BY Zenon DEF Stepped
  <2>2. cyc \in [Nodes -> Nat]
    BY Zenon DEF TypeInv
  <2>3. cyc[node] <= c /\ \A n \in Nodes : cyc'[n] = IF n = node THEN c ELSE cyc[n]
    BY <1>1, <2>1, <2>2
  <2>. QED BY <1>2, <2>1, <2>3 DEF Stepped
<1>. HIDE DEF t
<1>4. ASSUME NEW ni \in Nets, NEW n \in NetNodes[ni]
      PROVE  /\ \A i, j \in DOMAIN pending'[ni][n] :
                  i <= j => pending'[ni][n][i].t_ps <= pending'[ni][n][j].t_ps
             /\ \A i, j \in DOMAIN ring'[n][ni] :
                  i <= j => ring'[n][ni][i].cycle <= ring'[n][ni][j].cycle
             /\ \A x \in Waiting(ni, n)' : x <= T(n)' /\ \A y \in Recorded(ni, n)' : x <= y
             /\ \A i \in DOMAIN ring'[n][ni] : ring'[n][ni][i].cycle <= cyc'[n]
  <2>1. n \in Nodes /\ ni \in NetsOf(n) /\ T(n) \in Nat /\ T(n)' \in Nat /\ T(n) <= T(n)'
    BY <1>1, <1>2, Zenon
  <2>2. /\ \A i, j \in DOMAIN pending[ni][n] :
             i <= j => pending[ni][n][i].t_ps <= pending[ni][n][j].t_ps
        /\ \A i, j \in DOMAIN ring[n][ni] :
             i <= j => ring[n][ni][i].cycle <= ring[n][ni][j].cycle
        /\ \A x \in Waiting(ni, n) : x <= T(n) /\ \A y \in Recorded(ni, n) : x <= y
        /\ \A i \in DOMAIN ring[n][ni] : ring[n][ni][i].cycle <= cyc[n]
    BY Zenon DEF QueueInv
  <2>3. /\ Len(ring[n][ni]) \in Nat
        /\ \A i \in DOMAIN ring[n][ni] : i \in 1 .. Len(ring[n][ni]) /\ ring[n][ni][i].cycle \in Nat
        /\ \A i \in DOMAIN ring'[n][ni] :
             \/ i \in DOMAIN ring[n][ni] /\ ring'[n][ni][i] = ring[n][ni][i]
             \/ n = node /\ i = Len(ring[n][ni]) + 1 /\ ring'[n][ni][i].cycle = c
    <3>1. RingGrew(n, ni, c)
      BY <1>3, <2>1, RingAfter, Zenon
    <3>. QED BY <3>1, Zenon DEF RingGrew
  <2>4. /\ \A i, j \in DOMAIN ring'[n][ni] :
             i <= j => ring'[n][ni][i].cycle <= ring'[n][ni][j].cycle
        /\ \A i \in DOMAIN ring'[n][ni] : ring'[n][ni][i].cycle <= cyc'[n]
    <3>1. cyc[n] \in Nat /\ cyc'[n] \in Nat /\ cyc[n] <= cyc'[n] /\ (n = node => cyc'[n] = c) /\ c \in Nat
      BY <1>2, <1>3, <2>1, Zenon
    <3>. DEFINE p == ring[n][ni]
                q == ring'[n][ni]
    <3>2. ASSUME NEW i \in DOMAIN q PROVE q[i].cycle <= cyc'[n] /\ q[i].cycle \in Nat
      BY <2>2, <2>3, <3>1, SMTT(30)
    <3>3. ASSUME NEW i \in DOMAIN q, NEW j \in DOMAIN q, i <= j
          PROVE  q[i].cycle <= q[j].cycle
      <4>1. CASE j \in DOMAIN p /\ q[j] = p[j]
        <5>1. i \in DOMAIN p /\ q[i] = p[i]
          BY <2>3, <3>3, <4>1
        <5>. QED BY <2>2, <3>3, <4>1, <5>1, Zenon
      <4>2. CASE n = node /\ q[j].cycle = c
        BY <3>1, <3>2, <4>2, Zenon
      <4>. QED BY <2>3, <4>1, <4>2, Zenon
    <3>. QED BY <3>2, <3>3, Zenon
  <2>5. \A y \in Recorded(ni, n)' : y \in Recorded(ni, n) \/ (n = node /\ y = t)
    <3>1. \A y \in Recorded(ni, n)' : \E i \in DOMAIN ring'[n][ni] : y = CyclesToPs(ring'[n][ni][i].cycle, n)
      BY Zenon DEF Recorded
    <3>. QED BY <2>3, <3>1, Zenon DEF Recorded, t
  <2>6. Waiting(ni, n)' = Waiting(ni, n) /\ Waiting(ni, n) \subseteq Nat
    <3>1. Waiting(ni, n) \subseteq Unmerged(ni)
      BY DEF Unmerged
    <3>2. Waiting(ni, n)' = Waiting(ni, n)
      BY Zenon DEF Waiting
    <3>. QED BY <1>2, <3>1, <3>2, Zenon
  <2>7. ASSUME NEW x \in Waiting(ni, n) PROVE x <= T(n)' /\ \A y \in Recorded(ni, n)' : x <= y
    <3>1. x \in Nat /\ x <= T(n)
      BY <2>2, <2>6, Zenon
    <3>2. x <= T(n)'
      BY <2>1, <3>1
    <3>3. n = node => x <= t
      BY <1>1, <2>1, <3>1
    <3>. QED BY <2>2, <2>5, <3>2, <3>3, Zenon
  <2>. QED BY <2>2, <2>4, <2>6, <2>7, Zenon
<1>5. ASSUME NEW ni \in Nets, NEW i \in DOMAIN net[ni].deliveries
      PROVE  /\ \A x \in Unmerged(ni)' : net[ni].deliveries[i].t_ps <= x + Latency[ni]
             /\ \A r \in NetNodes[ni] : health'[r] = "ok" =>
                  net[ni].deliveries[i].t_ps <= T(r)' + Latency[ni]
  <2>. DEFINE d == net[ni].deliveries[i].t_ps
  <2>1. /\ \A x \in Unmerged(ni) : d <= x + Latency[ni]
        /\ \A r \in NetNodes[ni] : health[r] = "ok" => d <= T(r) + Latency[ni]
    BY Zenon DEF QueueInv
  <2>2. d \in Nat /\ Latency[ni] \in Nat /\ NetNodes[ni] \subseteq Nodes
    BY <1>2, NetTypes, Zenon DEF TypeInv
  <2>. HIDE DEF d
  <2>3. ASSUME NEW r \in NetNodes[ni], health'[r] = "ok" PROVE d <= T(r)' + Latency[ni]
    <3>1. r \in Nodes /\ T(r) \in Nat /\ T(r)' \in Nat /\ T(r) <= T(r)' /\ d <= T(r) + Latency[ni]
      BY <1>1, <1>2, <1>3, <2>1, <2>2, <2>3, Zenon
    <3>. QED BY <2>2, <3>1
  <2>4. ni \in rec => d <= t + Latency[ni]
    <3>. SUFFICES ASSUME ni \in rec PROVE d <= t + Latency[ni]
      BY Zenon
    <3>1. node \in NetNodes[ni]
      BY <1>3, Zenon DEF NetsOf
    <3>2. d <= T(node) + Latency[ni] /\ T(node) \in Nat /\ T(node) <= t
      BY <1>1, <1>2, <2>1, <3>1, Zenon
    <3>. QED BY <1>1, <2>2, <3>2
  <2>5. \A x \in Unmerged(ni)' : d <= x + Latency[ni]
    BY <1>3, <2>1, <2>4, Zenon
  <2>. QED BY <2>3, <2>5, Zenon DEF d
<1>6. \A ni \in Nets : \A i, j \in DOMAIN net[ni].deliveries :
        i <= j => net[ni].deliveries[i].t_ps <= net[ni].deliveries[j].t_ps
  BY Zenon DEF QueueInv
<1>. QED BY <1>3, <1>4, <1>5, <1>6, SMTT(30) DEF QueueInv

-------------------------------------------------------------------------------
(* The steps of a machine. *)

(* A step of the running machine keeps the invariants about times.         *)
LEMMA StepTiming ==
  ASSUME Inv, Advancing, NEW c, NEW b, NEW rec, Stepped(c, b, rec), Grew(c),
         hit' \/ rec = {} \/ node \notin Exact, UNCHANGED <<pending, due>>
  PROVE  QueueInv' /\ DueInv' /\ FrontInv' /\ ArrivalInv' /\ HorizonInv' /\ LimitInv'
<1>1. /\ TypeInv /\ CallInv /\ QueueInv /\ DueInv /\ ArrivalInv /\ HorizonInv /\ LimitInv
      /\ pc = "run" /\ ~hit /\ health[node] = "ok" /\ from <= cyc[node]
  BY Zenon DEF Inv, Advancing, CallInv
<1>2. net' = net /\ pc' = pc /\ node' = node
  BY Zenon DEF Stepped
<1>3. DueInv' /\ FrontInv'
  BY <1>1, <1>2, Zenon DEF DueInv, FrontInv, DueFor
<1>. QED BY <1>1, <1>3, StepQueue, StepArrival, StepHorizon, StepLimit, Zenon

(* A machine that moves on, by an instruction or over its sleep, keeps     *)
(* Inv.                                                                    *)
LEMMA MoveStep ==
  ASSUME Inv, Advancing, NEW c \in Nat, NEW b \in Nat, NEW w \in Nat,
         Boundary(c, b), MayRecord(c), wake' = [wake EXCEPT ![node] = w], w # 0 => w > c,
         cyc[node] <= b, b < c, b < limit, b < due[node].cycle,
         wake[node] # 0 => c <= wake[node] /\ (c < wake[node] => NoRecord /\ w = wake[node]),
         UNCHANGED <<health, netVars, pc, node, callVars, slotVars, limit, from, roundVars>>
  PROVE  Inv'
<1>1. /\ TypeInv /\ CallInv /\ pc = "run" /\ ~hit /\ health[node] = "ok" /\ node \in Nodes
      /\ UNCHANGED <<health, net, pending, due, pc, node, until, short, start, goal,
                     stalled, failed, quiet_ps, limit, from, now_ps, end_ps>>
  BY Zenon DEF Inv, Advancing, TypeInv, netVars, callVars, slotVars, roundVars
<1>2. /\ cyc \in [Nodes -> Nat] /\ wake \in [Nodes -> Nat] /\ prev \in [Nodes -> Nat \cup {-1}]
      /\ cyc' = [cyc EXCEPT ![node] = c] /\ prev' = [prev EXCEPT ![node] = b]
      /\ wake' = [wake EXCEPT ![node] = w] /\ cyc[node] < c
  BY <1>1, SMTT(30) DEF TypeInv, Boundary
<1>3. PICK rec \in SUBSET NetsOf(node) :
           /\ \A ni \in Nets : Unmerged(ni)' =
                Unmerged(ni) \cup (IF ni \in rec THEN {CyclesToPs(c, node)} ELSE {})
           /\ NoRecord => rec = {}
           /\ rec = {} => ring' = ring /\ hit' = hit
           /\ rec # {} => hit' = (node \in Exact)
           /\ Grew(c)
  BY <1>1, RecordResult, Zenon
<1>4. Stepped(c, b, rec)
  <2>1. \A n \in Nodes : Passed(n)' = IF n = node THEN b ELSE Passed(n)
    BY <1>1, <1>2, Zenon DEF Passed
  <2>2. \A n \in Nodes \ {node} : wake'[n] = wake[n] /\ health'[n] = health[n]
    BY <1>1, <1>2, Zenon
  <2>3. wake'[node] = w
    BY <1>1, <1>2, Zenon
  <2>. QED BY <1>1, <1>2, <1>3, <2>1, <2>2, <2>3, SMTT(30) DEF Stepped
<1>5. hit' \/ rec = {} \/ node \notin Exact
  BY <1>3, Zenon
<1>6. QueueInv' /\ DueInv' /\ FrontInv' /\ ArrivalInv' /\ HorizonInv' /\ LimitInv'
  BY <1>1, <1>3, <1>4, <1>5, StepTiming, Zenon
<1>7. TypeInv'
  <2>1. /\ cyc' \in [Nodes -> Nat] /\ wake' \in [Nodes -> Nat] /\ prev' \in [Nodes -> Nat \cup {-1}]
    BY <1>2, Zenon
  <2>2. \A n \in Nodes : ring'[n] \in [NetsOf(n) -> Seq(RingEntry)]
    <3>1. \A n \in Nodes \ {node} : ring'[n] = ring[n] /\ ring[n] \in [NetsOf(n) -> Seq(RingEntry)]
      BY <1>1, <1>3, Zenon DEF Grew, TypeInv
    <3>2. ring'[node] \in [NetsOf(node) -> Seq(RingEntry)]
      BY <1>3, Zenon DEF Grew
    <3>. QED BY <3>1, <3>2, Zenon
  <2>3. DOMAIN ring' = Nodes
    BY <1>3, Zenon DEF Grew
  <2>4. hit' \in BOOLEAN
    <3>1. hit \in BOOLEAN
      BY <1>1, Zenon DEF TypeInv
    <3>2. CASE rec = {}
      BY <1>3, <3>1, <3>2, Zenon
    <3>3. CASE rec # {}
      <4>1. hit' = (node \in Exact)
        BY <1>3, <3>3, Zenon
      <4>. QED BY ONLY <4>1
    <3>. QED BY <3>2, <3>3, Zenon
  <2>. QED BY <1>1, <2>1, <2>2, <2>3, <2>4, Zenon DEF TypeInv
<1>8. CallInv'
  <2>1. \A n \in Nodes : prev'[n] < cyc'[n] /\ (wake'[n] # 0 => wake'[n] > cyc'[n])
    BY <1>1, <1>2, Zenon DEF CallInv
  <2>2. \A n \in Nodes \ {node} : NoneRecorded(n)'
    BY <1>1, <1>3, SMTT(30) DEF CallInv, NoneRecorded, Grew
  <2>3. from < limit /\ from <= cyc'[node] /\ cyc'[node] # from
    BY <1>1, <1>2 DEF CallInv, TypeInv
  <2>4. ~hit' /\ node \in Exact => NoneRecorded(node)'
    BY <1>1, <1>3, Zenon DEF CallInv, NoneRecorded
  <2>5. \A n \in Nodes : T(n) \in Nat /\ T(n)' \in Nat /\ T(n) <= T(n)'
    BY <1>1, <1>4, StepTimes, Typed, ZenonT(30) DEF TypeFacts
  <2>6. short => \A ni \in Nets : \A n \in NetNodes[ni] : until <= T(n)' + MinLatency
    <3>. SUFFICES ASSUME short, NEW ni \in Nets, NEW n \in NetNodes[ni]
                  PROVE  until <= T(n)' + MinLatency
      BY Zenon
    <3>1. until <= T(n) + MinLatency /\ n \in Nodes
      BY <1>1, Constants, Zenon DEF CallInv
    <3>2. until \in Nat /\ MinLatency \in Nat
      BY <1>1, MinLatencyNat DEF TypeInv
    <3>. QED BY <2>5, <3>1, <3>2
  <2>7. /\ \A n \in stalled : health[n] # "ok"
        /\ \A n \in Nodes : goal[n] <= RoundGoal(n, until)
        /\ ~short => \A n \in Nodes \ {node} : quiet_ps[n] = QuietUntil(n, wake'[n])
    BY <1>1, <1>2, Zenon DEF CallInv
  <2>. QED BY <1>1, <2>1, <2>2, <2>3, <2>4, <2>6, <2>7, Zenon DEF CallInv, RoundGoal, QuietUntil
<1>. QED BY <1>6, <1>7, <1>8, Zenon DEF Inv

(* The four steps of an advancing machine. *)
LEMMA InstructionStep ==
  ASSUME Inv, Instruction
  PROVE  Inv'
<1>1. /\ Advancing /\ wake[node] = 0 /\ wake' = wake
      /\ UNCHANGED <<health, netVars, pc, node, callVars, slotVars, limit, from, roundVars>>
  BY Zenon DEF Instruction
<1>2. PICK k \in 1..MaxInstr[node] :
        Boundary(cyc[node] + k, cyc[node]) /\ MayRecord(cyc[node] + k)
  BY Zenon DEF Instruction
<1>3. node \in Nodes /\ cyc[node] \in Nat /\ wake \in [Nodes -> Nat] /\ limit \in Nat
      /\ due[node].cycle > cyc[node] /\ cyc[node] < limit
  BY <1>1, Zenon DEF Inv, TypeInv, Advancing
<1>4. wake' = [wake EXCEPT ![node] = 0] /\ 0 \in Nat
  BY <1>1, <1>3, Zenon
<1>5. cyc[node] + k \in Nat /\ cyc[node] <= cyc[node] /\ cyc[node] < cyc[node] + k
  BY <1>3
<1>6. cyc[node] < due[node].cycle
  <2>1. due[node].cycle \in Nat
    BY <1>3, Zenon DEF Inv, TypeInv, Due
  <2>. QED BY <1>3, <2>1, Zenon
<1>. QED BY <1>1, <1>2, <1>3, <1>4, <1>5, <1>6, MoveStep, Zenon

(* A machine that goes to sleep keeps Inv.                                 *)
LEMMA WaitForEventStep ==
  ASSUME Inv, WaitForEvent
  PROVE  Inv'
<1>1. /\ Advancing /\ wake[node] = 0 /\ Boundary(cyc[node] + 1, cyc[node]) /\ NoRecord
      /\ UNCHANGED <<health, netVars, pc, node, callVars, slotVars, limit, from, roundVars>>
  BY Zenon DEF WaitForEvent
<1>2. PICK d \in Naps : wake' = [wake EXCEPT ![node] = cyc[node] + 1 + d]
  BY Zenon DEF WaitForEvent
<1>3. node \in Nodes /\ cyc[node] \in Nat /\ d \in Nat \ {0} /\ due[node].cycle \in Nat
  BY <1>1, NetAssumption, Zenon DEF Inv, TypeInv, Advancing, Due
<1>4. cyc[node] < limit /\ cyc[node] < due[node].cycle
  BY <1>1, <1>3, Zenon DEF Advancing
<1>5. /\ cyc[node] + 1 \in Nat /\ cyc[node] + 1 + d \in Nat /\ cyc[node] <= cyc[node]
      /\ cyc[node] < cyc[node] + 1 /\ cyc[node] + 1 + d > cyc[node] + 1
  BY <1>3
<1>6. MayRecord(cyc[node] + 1)
  BY <1>1, Zenon DEF MayRecord
<1>. QED BY <1>1, <1>2, <1>3, <1>4, <1>5, <1>6, MoveStep, Zenon

(* A machine that skips idle cycles keeps Inv: it stops at its event, its  *)
(* limit or its due.                                                       *)
LEMMA IdleSkipStep ==
  ASSUME Inv, IdleSkip
  PROVE  Inv'
<1>. DEFINE stop == Smaller(limit, due[node].cycle)
            c == Smaller(stop, wake[node])
<1>1. /\ Advancing /\ wake[node] # 0 /\ Boundary(c, c - 1)
      /\ UNCHANGED <<health, netVars, pc, node, callVars, slotVars, limit, from, roundVars>>
  BY Zenon DEF IdleSkip
<1>2. /\ node \in Nodes /\ cyc[node] \in Nat /\ wake \in [Nodes -> Nat] /\ wake[node] \in Nat
      /\ limit \in Nat /\ due[node].cycle \in Nat /\ wake[node] > cyc[node]
      /\ cyc[node] < limit /\ cyc[node] < due[node].cycle
  BY <1>1, Zenon DEF Inv, TypeInv, CallInv, Advancing, Due
<1>3. /\ c \in Nat /\ c - 1 \in Nat /\ cyc[node] <= c - 1 /\ c - 1 < c
      /\ c - 1 < limit /\ c - 1 < due[node].cycle /\ c <= wake[node]
  BY <1>2 DEF Smaller
<1>4. \/ c < wake[node] /\ NoRecord /\ wake' = wake
      \/ /\ ~(c < wake[node]) /\ MayRecord(c)
         /\ \E w \in {0} \cup {c + d : d \in Naps} : wake' = [wake EXCEPT ![node] = w]
  BY Zenon DEF IdleSkip
<1>. HIDE DEF c
<1>5. CASE c < wake[node] /\ NoRecord /\ wake' = wake
  <2>1. wake' = [wake EXCEPT ![node] = wake[node]] /\ wake[node] > c /\ MayRecord(c)
    BY <1>2, <1>3, <1>5, Zenon DEF MayRecord
  <2>. QED BY <1>1, <1>2, <1>3, <1>5, <2>1, MoveStep, Zenon
<1>6. ASSUME ~(c < wake[node]), MayRecord(c),
             NEW w \in {0} \cup {c + d : d \in Naps}, wake' = [wake EXCEPT ![node] = w]
      PROVE  Inv'
  <2>1. w \in Nat /\ (w # 0 => w > c)
    <3>1. \A d \in Naps : d \in Nat \ {0}
      BY NetAssumption, Zenon
    <3>. QED BY <1>3, <3>1
  <2>. QED BY <1>1, <1>3, <1>6, <2>1, MoveStep, Zenon
<1>. QED BY <1>4, <1>5, <1>6, Zenon

(* A machine that halts or breaks keeps Inv: it will record nothing more.  *)
LEMMA DieStep ==
  ASSUME Inv, Die
  PROVE  Inv'
<1>1. /\ Advancing /\ wake[node] = 0
      /\ UNCHANGED <<cyc, prev, drive, ring, wake, net, pending, due, pc, node, until, short,
                     start, goal, stalled, failed, quiet_ps, limit, from, hit, now_ps, end_ps>>
  BY Zenon DEF Die, netVars, callVars, slotVars, runVars, roundVars
<1>2. PICK h \in {"halted", "broken"} : health' = [health EXCEPT ![node] = h]
  BY Zenon DEF Die
<1>3. /\ TypeInv /\ CallInv /\ pc = "run" /\ node \in Nodes /\ cyc \in [Nodes -> Nat]
      /\ health \in [Nodes -> {"ok", "halted", "broken"}] /\ health[node] = "ok"
      /\ cyc[node] < limit /\ due[node].cycle > cyc[node]
      /\ due[node].cycle \in Nat /\ limit \in Nat
  BY <1>1, Zenon DEF Inv, TypeInv, Advancing, Due
<1>4. /\ \A n \in Nodes : health'[n] = IF n = node THEN h ELSE health[n]
      /\ health' \in [Nodes -> {"ok", "halted", "broken"}]
  BY <1>2, <1>3, Zenon
<1>5. \A ni \in Nets : Unmerged(ni)' = Unmerged(ni)
  BY <1>1, SameQueues, Zenon
<1>6. Stepped(cyc[node], cyc[node], {})
  <2>1. \A n \in Nodes : Passed(n)' = IF n = node THEN cyc[node] ELSE Passed(n)
    BY <1>1, <1>2, <1>3, <1>4, Zenon DEF Passed
  <2>2. cyc[node] < due[node].cycle /\ cyc[node] \in Nat /\ cyc[node] <= cyc[node]
    BY <1>3
  <2>3. cyc' = [cyc EXCEPT ![node] = cyc[node]]
    BY <1>1, <1>3, Zenon
  <2>4. \A n \in Nodes : health'[n] = "ok" => health[n] = "ok"
    BY <1>3, <1>4, Zenon
  <2>. QED BY <1>1, <1>3, <1>4, <1>5, <2>1, <2>2, <2>3, <2>4, Zenon DEF Stepped
<1>7. Grew(cyc[node])
  BY <1>1, <1>3, Zenon DEF Grew, TypeInv
<1>8. QueueInv' /\ DueInv' /\ FrontInv' /\ ArrivalInv' /\ HorizonInv' /\ LimitInv'
  BY <1>1, <1>6, <1>7, StepTiming, Zenon
<1>9. TypeInv'
  BY <1>1, <1>3, <1>4, Zenon DEF TypeInv
<1>10. CallInv'
  <2>1. \A n \in stalled : health'[n] # "ok"
    BY <1>2, <1>3, <1>4, Zenon DEF CallInv, TypeInv
  <2>. QED BY <1>1, <1>3, <2>1, Zenon DEF CallInv, NoneRecorded, T, RoundGoal, QuietUntil
<1>. QED BY <1>8, <1>9, <1>10, Zenon DEF Inv

-------------------------------------------------------------------------------
(* A delivery is handed to the running node. *)

(* Promises stay kept: whoever is woken had promised nothing.              *)
LEMMA ApplySound ==
  ASSUME Inv, ApplyDue, NEW K \in [Nodes -> Nat], NEW ex, Sound(K, ex)
  PROVE  Sound(K, ex)'
<1>1. /\ node \in Nodes /\ \A ni \in Nets : \A k \in NetNodes[ni] :
                             Awaited(net'[ni], k) \subseteq Awaited(net[ni], k)
  BY ApplyFacts, Zenon
<1>2. PICK mi \in NetsOf(node) : \E x \in Awaited(net[mi], node) : x <= T(node)
  BY ApplyFacts, Zenon
<1>3. PICK u \in Awaited(net[mi], node) : u <= T(node)
  BY <1>2, Zenon
<1>4. /\ TypeInv /\ UNCHANGED <<cyc, ring, health, pending>>
      /\ \E w \in {0, wake[node]} : wake' = [wake EXCEPT ![node] = w]
  BY Zenon DEF Inv, ApplyDue
<1>5. /\ \A n \in Nodes : T(n)' = T(n) /\ T(n) \in Nat /\ K[n] \in Nat
      /\ \A ni \in Nets : Unmerged(ni)' = Unmerged(ni)
      /\ \A n \in Nodes \ {node} : wake'[n] = wake[n]
  <2>1. \A n \in Nodes : T(n)' = T(n)
    BY <1>4, Zenon DEF T
  <2>2. \A ni \in Nets : Unmerged(ni)' = Unmerged(ni)
    BY <1>4, SameQueues, Zenon
  <2>. QED BY <1>4, <2>1, <2>2, Typed, Zenon DEF TypeFacts, TypeInv
<1>6. u \in Nat
  BY <1>3, <1>2, <1>4, Typed, Zenon DEF TypeFacts, NetsOf
<1>7. ASSUME NEW r \in Nodes \ ex, health'[r] = "ok"
      PROVE  Kept(K, r, ex)'
  <2>1. Kept(K, r, ex)
    BY <1>4, <1>7, Zenon DEF Sound
  <2>2. CASE K[r] <= T(r)
    BY <1>5, <2>2, Zenon DEF Kept
  <2>3. CASE ~(K[r] <= T(r))
    <3>1. /\ wake[r] # 0 /\ K[r] < CyclesToPs(wake[r], r)
          /\ \A ni \in NetsOf(r) :
               /\ \A x \in Awaited(net[ni], r) : K[r] < x
               /\ \A x \in Unmerged(ni) : K[r] < x + Latency[ni]
               /\ \A p \in NetNodes[ni] \ ({r} \cup ex) :
                    health[p] = "ok" => K[r] <= K[p] + Latency[ni]
      BY <2>1, <2>3, Zenon DEF Kept
    <3>2. r # node
      BY <1>3, <1>2, <1>5, <1>6, <2>3, <3>1, SMTT(30)
    <3>3. \A ni \in NetsOf(r) : ni \in Nets /\ r \in NetNodes[ni]
      BY Zenon DEF NetsOf
    <3>. QED BY <1>1, <1>4, <1>5, <3>1, <3>2, <3>3, Zenon DEF Kept
  <2>. QED BY <2>2, <2>3, Zenon
<1>. QED BY <1>7, Zenon DEF Sound

(* The queues stay in order when a delivery is handed out.                 *)
LEMMA ApplyQueue ==
  ASSUME Inv, ApplyDue
  PROVE  QueueInv'
<1>1. /\ TypeInv /\ QueueInv /\ UNCHANGED <<cyc, ring, health, pending>>
  BY Zenon DEF Inv, ApplyDue
<1>2. /\ \A n \in Nodes : T(n)' = T(n)
      /\ \A ni \in Nets : Unmerged(ni)' = Unmerged(ni)
      /\ \A ni \in Nets : \A n \in NetNodes[ni] :
           Recorded(ni, n)' = Recorded(ni, n) /\ Waiting(ni, n)' = Waiting(ni, n)
      /\ \A ni \in Nets : NetNodes[ni] \subseteq Nodes
  BY <1>1, SameQueues, Constants, Zenon DEF T
<1>3. ASSUME NEW ni \in Nets
      PROVE  LET d == net'[ni].deliveries
             IN  /\ \A i, j \in DOMAIN d : i <= j => d[i].t_ps <= d[j].t_ps
                 /\ \A i \in DOMAIN d :
                      /\ \A x \in Unmerged(ni) : d[i].t_ps <= x + Latency[ni]
                      /\ \A r \in NetNodes[ni] : health[r] = "ok" => d[i].t_ps <= T(r) + Latency[ni]
  <2>. DEFINE d == net'[ni].deliveries
              o == net[ni].deliveries
  <2>1. Rest(d, o) /\ net'[ni] \in GpioNet(ni)
    BY ApplyFacts, Zenon
  <2>2. /\ Len(d) \in Nat /\ DOMAIN d = 1 .. Len(d) /\ Len(o) \in Nat /\ DOMAIN o = 1 .. Len(o)
    BY <1>1, <2>1, NetTypes, Zenon DEF TypeInv
  <2>3. /\ \A i, j \in DOMAIN o : i <= j => o[i].t_ps <= o[j].t_ps
        /\ \A i \in DOMAIN o :
             /\ \A x \in Unmerged(ni) : o[i].t_ps <= x + Latency[ni]
             /\ \A r \in NetNodes[ni] : health[r] = "ok" => o[i].t_ps <= T(r) + Latency[ni]
    BY <1>1, Zenon DEF QueueInv
  <2>. HIDE DEF d, o
  <2>4. PICK c \in 0 .. Len(o) : Len(d) = Len(o) - c /\ \A i \in DOMAIN d : d[i] = o[c + i]
    BY <2>1, Zenon DEF Rest
  <2>5. \A i \in DOMAIN d : i \in Nat /\ c + i \in DOMAIN o /\ d[i] = o[c + i]
    BY <2>2, <2>4
  <2>6. \A i, j \in DOMAIN d : i <= j => d[i].t_ps <= d[j].t_ps
    <3>1. \A i, j \in DOMAIN d : i <= j => c + i <= c + j
      BY <2>2, <2>4
    <3>. QED BY <2>3, <2>5, <3>1, Zenon
  <2>. QED BY <2>3, <2>5, <2>6, Zenon DEF d
<1>. QED BY <1>1, <1>2, <1>3, ZenonT(30) DEF QueueInv

(* apply_due keeps Inv.                                                    *)
LEMMA ApplyDueStep ==
  ASSUME Inv, ApplyDue
  PROVE  Inv'
<1>. DEFINE mi == due[node].net
            cache == ForgetDues({mi}, due)
            e == EarliestDue(node, net', cache)
<1>1. /\ TypeInv /\ CallInv /\ DueInv /\ ArrivalInv /\ HorizonInv /\ LimitInv /\ pc = "run" /\ ~hit
      /\ UNCHANGED <<cyc, prev, drive, ring, health, pending, pc, node, until, short, start,
                     goal, stalled, failed, quiet_ps, limit, from, hit, now_ps, end_ps>>
      /\ due' = [cache EXCEPT ![node] = e]
  BY Zenon DEF Inv, ApplyDue, callVars, slotVars, runVars, roundVars
<1>2. PICK w \in {0, wake[node]} : wake' = [wake EXCEPT ![node] = w]
  BY Zenon DEF ApplyDue
<1>3. /\ node \in Nodes /\ mi \in NetsOf(node) /\ DOMAIN net' = Nets
      /\ \A ni \in Nets :
           /\ net'[ni] \in GpioNet(ni) /\ (ni # mi => net'[ni] = net[ni])
           /\ \A k \in NetNodes[ni] : /\ net'[ni].base <= net'[ni].next[k]
                                      /\ Awaited(net'[ni], k) \subseteq Awaited(net[ni], k)
  BY ApplyFacts, Zenon
<1>4. QueueInv'
  BY ApplyQueue, Zenon
<1>5. /\ \A n \in Nodes : T(n)' = T(n) /\ Passed(n)' = Passed(n)
      /\ \A ni \in Nets : Unmerged(ni)' = Unmerged(ni) /\ NetNodes[ni] \subseteq Nodes
      /\ \A n \in Nodes : \A ni \in NetsOf(n) : ni \in Nets /\ n \in NetNodes[ni]
      /\ wake \in [Nodes -> Nat] /\ wake' \in [Nodes -> Nat]
      /\ \A n \in Nodes : wake'[n] = wake[n] \/ (n = node /\ wake'[n] = 0)
  <2>1. /\ \A n \in Nodes : T(n)' = T(n) /\ Passed(n)' = Passed(n)
    BY <1>1, Zenon DEF T, Passed
  <2>2. \A ni \in Nets : Unmerged(ni)' = Unmerged(ni)
    BY <1>1, SameQueues, Zenon
  <2>3. wake \in [Nodes -> Nat]
    BY <1>1, Zenon DEF TypeInv
  <2>. QED BY <1>2, <1>3, <2>1, <2>2, <2>3, Constants, SMTT(30) DEF NetsOf
<1>6. /\ cache \in [Nodes -> Due] /\ cache[node] = Unknown
      /\ \A n \in Nodes : cache[n] # Unknown => cache[n] = due[n] /\ mi \notin NetsOf(n)
  <2>1. due \in [Nodes -> Due] /\ Unknown \in Due
    BY <1>1, Zenon DEF TypeInv, Unknown, Due
  <2>. QED BY <1>3, <2>1, Zenon DEF ForgetDues
<1>. HIDE DEF mi, cache
<1>7. e \in Due /\ e # Unknown /\ DueFor(e, node, net')
  <2>1. \A ni \in NetsOf(node) : SortedNet(net'[ni])
    <3>1. \A ni \in Nets : \A i, j \in DOMAIN net'[ni].deliveries :
            i <= j => net'[ni].deliveries[i].t_ps <= net'[ni].deliveries[j].t_ps
      BY <1>4, Zenon DEF QueueInv
    <3>. QED BY <1>3, <1>5, <3>1, Zenon DEF SortedNet
  <2>. QED BY <1>3, <1>5, <1>6, <2>1, EarliestDueResult, Zenon
<1>. HIDE DEF e
<1>8. /\ due' \in [Nodes -> Due] /\ due'[node] = e
      /\ \A n \in Nodes \ {node} : due'[n] = cache[n]
  BY <1>1, <1>3, <1>6, <1>7, Zenon
<1>9. DueInv'
  <2>1. ASSUME NEW n \in Nodes, n # node, due'[n] # Unknown PROVE DueFor(due'[n], n, net')
    <3>1. due'[n] = due[n] /\ mi \notin NetsOf(n) /\ DueFor(due[n], n, net)
      BY <1>1, <1>6, <1>8, <2>1, Zenon DEF DueInv
    <3>2. \A ni \in NetsOf(n) : net'[ni] = net[ni]
      BY <1>3, <1>5, <3>1, Zenon
    <3>. QED BY <3>1, <3>2, Zenon DEF DueFor
  <2>2. \A n \in Nodes : due'[n] # Unknown => DueFor(due'[n], n, net')
    BY <1>7, <1>8, <2>1, Zenon
  <2>3. due'[node] # Unknown /\ node' = node
    BY <1>1, <1>7, <1>8, ZenonT(30)
  <2>. QED BY <2>2, <2>3, Zenon DEF DueInv
<1>10. ArrivalInv'
  <2>1. \A n \in Nodes : \A t : InTime(n, t)' = InTime(n, t)
    BY <1>5, Zenon DEF InTime
  <2>. QED BY <1>1, <1>3, <1>5, <2>1 DEF ArrivalInv, InTime
<1>11. HorizonInv'
  <2>1. PICK K \in [Nodes -> Nat] : Sound(K, {}) /\ Covers(K)
    BY <1>1, Zenon DEF HorizonInv
  <2>2. Sound(K, {})'
    BY <2>1, ApplySound, Zenon
  <2>3. Covers(K)'
    BY <1>1, <1>5, <2>1 DEF Covers, InTime
  <2>. QED BY <2>2, <2>3, Zenon DEF HorizonInv
<1>12. LimitInv'
  <2>. SUFFICES ASSUME health[node] = "ok"
                PROVE  \E K \in [Nodes -> Nat] : Sound(K, Excluded)' /\ LimitCovered(K)'
    BY <1>1, Zenon DEF LimitInv
  <2>1. PICK K \in [Nodes -> Nat] : Sound(K, Excluded) /\ LimitCovered(K)
    BY <1>1, Zenon DEF LimitInv
  <2>2. PICK ex : ex = Excluded
    BY Zenon
  <2>3. Sound(K, ex)'
    BY <2>1, <2>2, ApplySound, Zenon
  <2>4. Excluded' = ex
    BY <1>1, <2>2, Zenon DEF Excluded
  <2>5. LimitCovered(K)'
    <3>1. NetsOf(node)' = NetsOf(node) /\ node' = node
      BY <1>1, Zenon
    <3>. QED BY <1>1, <1>3, <1>5, <2>1, <3>1, Zenon DEF LimitCovered
  <2>. QED BY <2>3, <2>4, <2>5, Zenon
<1>13. FrontInv'
  BY <1>1, Zenon DEF FrontInv
<1>14. TypeInv'
  BY <1>1, <1>3, <1>5, <1>8, Zenon DEF TypeInv
<1>15. CallInv'
  <2>1. \A n \in Nodes : wake'[n] # 0 => wake'[n] > cyc[n]
    BY <1>1, <1>5, Zenon DEF CallInv
  <2>2. \A n \in Nodes : n # node => wake'[n] = wake[n]
    BY <1>5, Zenon
  <2>. QED BY <1>1, <1>3, <2>1, <2>2, Zenon DEF CallInv, NoneRecorded, T, RoundGoal, QuietUntil
<1>. QED BY <1>4, <1>9, <1>10, <1>11, <1>12, <1>13, <1>14, <1>15, Zenon DEF Inv

-------------------------------------------------------------------------------
(* A node is let run. *)

(* A visit that lets a node run to its limit keeps Inv: what the limit     *)
(* rests on is what known_ps found the others to promise.                  *)
LEMMA EnterRunStep ==
  ASSUME Inv, EnterRun
  PROVE  Inv'
<1>1. /\ TypeInv /\ CallInv /\ QueueInv /\ DueInv /\ ArrivalInv /\ HorizonInv /\ pc = "visit"
      /\ pc' = "run" /\ hit' = FALSE
      /\ UNCHANGED <<cyc, prev, drive, ring, wake, health, net, pending, until, short, start,
                     goal, stalled, failed, quiet_ps, now_ps, end_ps>>
  BY Zenon DEF Inv, EnterRun, machineVars, callVars, slotVars, roundVars
<1>2. PICK n \in Runnable : /\ node' = n /\ limit' = Limit(n) /\ from' = cyc[n]
                            /\ due' = [due EXCEPT ![n] = EarliestDue(n, net, due)]
  BY EnteredNode, Zenon
<1>3. n \in Nodes /\ cyc[n] \in Nat /\ Limit(n) > cyc[n] /\ Limit(n) \in Nat
  BY <1>1, <1>2, LimitResult, Zenon DEF Runnable, TypeInv
<1>4. /\ \A r \in Nodes : T(r)' = T(r) /\ Passed(r)' = Passed(r)
      /\ \A ni \in Nets : Unmerged(ni)' = Unmerged(ni)
  BY <1>1, SameTimes, SameQueues, Zenon
<1>5. \A K, ex : Sound(K, ex) => Sound(K, ex)'
  BY <1>1, SameSound, Zenon
<1>6. LimitInv'
  <2>. SUFFICES ASSUME health[n] = "ok"
                PROVE  \E K \in [Nodes -> Nat] : Sound(K, Excluded)' /\ LimitCovered(K)'
    BY <1>1, <1>2, Zenon DEF LimitInv
  <2>. DEFINE ex == IF n \in Exact THEN {n} ELSE {}
  <2>1. PICK K \in [Nodes -> Nat] :
                /\ Sound(K, ex)
                /\ \A ni \in NetsOf(n) :
                     /\ \A r \in NetNodes[ni] \ {n} :
                          health[r] = "ok" => Limit(n) <= PsToCyclesCeil(K[r] + Latency[ni], n)
                     /\ \A x \in Unmerged(ni) : Limit(n) <= PsToCyclesCeil(x + Latency[ni], n)
                     /\ n \notin Exact => Limit(n) <= PsToCyclesCeil(T(n) + Latency[ni], n)
    BY <1>1, <1>3, LimitResult, Zenon
  <2>2. Excluded' = ex
    BY <1>2, Zenon DEF Excluded
  <2>3. PICK fx : fx = ex
    BY Zenon
  <2>4. Sound(K, fx)'
    BY <1>5, <2>1, <2>3, Zenon
  <2>5. Sound(K, Excluded)'
    BY <2>2, <2>3, <2>4, Zenon DEF Sound, Kept
  <2>6. LimitCovered(K)'
    <3>1. \A ni \in NetsOf(n) : ni \in Nets
      BY Zenon DEF NetsOf
    <3>2. T(n) = CyclesToPs(cyc[n], n)
      BY Zenon DEF T
    <3>. QED BY <1>1, <1>2, <1>4, <2>1, <3>1, <3>2, Zenon DEF LimitCovered, NetsOf
  <2>. QED BY <2>5, <2>6, Zenon
<1>7. EarliestDue(n, net, due) \in Due /\ EarliestDue(n, net, due) # Unknown
      /\ DueFor(EarliestDue(n, net, due), n, net)
  <2>1. CASE due[n] # Unknown
    BY <1>1, <1>3, <2>1, Zenon DEF EarliestDue, DueInv, TypeInv
  <2>2. CASE due[n] = Unknown
    <3>1. \A ni \in NetsOf(n) : /\ net[ni] \in GpioNet(ni) /\ SortedNet(net[ni])
                                /\ net[ni].base <= net[ni].next[n]
      BY <1>1, <1>3, Zenon DEF TypeInv, QueueInv, SortedNet, NetsOf
    <3>. QED BY <1>3, <2>2, <3>1, EarliestDueResult, Zenon
  <2>. QED BY <2>1, <2>2, Zenon
<1>8. /\ due' \in [Nodes -> Due] /\ due'[n] = EarliestDue(n, net, due)
      /\ \A r \in Nodes \ {n} : due'[r] = due[r]
  <2>1. due \in [Nodes -> Due]
    BY <1>1, Zenon DEF TypeInv
  <2>. QED BY <1>2, <1>3, <1>7, <2>1, Zenon
<1>9. DueInv'
  <2>1. \A r \in Nodes : due'[r] # Unknown => DueFor(due'[r], r, net)
    BY <1>1, <1>3, <1>7, <1>8, Zenon DEF DueInv
  <2>. QED BY <1>1, <1>2, <1>7, <1>8, <2>1, Zenon DEF DueInv
<1>10. TypeInv'
  <2>1. n \in Nat
    BY <1>3, Constants, Zenon
  <2>. QED BY <1>1, <1>2, <1>3, <1>8, <2>1, Zenon DEF TypeInv
<1>11. CallInv'
  <2>1. \A r \in Nodes : NoneRecorded(r)' /\ prev[r] < cyc[r]
    BY <1>1, Zenon DEF CallInv, NoneRecorded
  <2>2. from' < limit' /\ from' <= cyc[n]
    BY <1>2, <1>3
  <2>. QED BY <1>1, <1>2, <1>3, <1>4, <2>1, <2>2, Zenon DEF CallInv, RoundGoal, QuietUntil, T
<1>12. QueueInv' /\ ArrivalInv' /\ HorizonInv'
  BY <1>1, SameTiming, Zenon
<1>13. FrontInv'
  BY <1>1, Zenon DEF FrontInv
<1>. QED BY <1>6, <1>9, <1>10, <1>11, <1>12, <1>13, Zenon DEF Inv

-------------------------------------------------------------------------------
(* A run is over. *)

(* The time a node is quiet until is a time, or none.                      *)
LEMMA QuietUntilType ==
  ASSUME NEW n \in Nodes, NEW w \in Nat
  PROVE  QuietUntil(n, w) \in Nat \cup {-1}
<1>1. CASE w = 0
  BY <1>1, Zenon DEF QuietUntil
<1>2. CASE w # 0
  <2>1. 0 < w /\ CyclesToPs(0, n) \in Nat /\ CyclesToPs(w, n) \in Nat /\ CyclesToPs(0, n) < CyclesToPs(w, n)
    BY <1>2, Conversions
  <2>2. CyclesToPs(w, n) - 1 \in Nat
    BY <2>1
  <2>. QED BY <1>2, <2>2, Zenon DEF QuietUntil
<1>. QED BY <1>1, <1>2, Zenon

(* The end of a run keeps Inv: what is merged is behind every live member, *)
(* and what is not is in front of one.                                     *)
LEMMA FinishRunStep ==
  ASSUME Inv, FinishRun
  PROVE  Inv'
<1>1. /\ TypeInv /\ CallInv /\ QueueInv /\ DueInv /\ ArrivalInv /\ HorizonInv /\ pc = "run" /\ node \in Nodes
      /\ pc' = "visit" /\ node' \in {node, node + 1}
      /\ failed' = failed \cup (IF ~hit /\ cyc[node] < limit /\ health[node] = "broken" THEN {node} ELSE {})
      /\ quiet_ps' = IF short THEN quiet_ps
                     ELSE [quiet_ps EXCEPT ![node] = QuietUntil(node, wake[node])]
      /\ UNCHANGED <<cyc, prev, drive, wake, health, until, short, start, goal, limit, from, hit,
                     now_ps, end_ps>>
  BY Zenon DEF Inv, TypeInv, FinishRun, callVars, runVars, roundVars
<1>2. /\ stalled' \subseteq Nodes /\ \A r \in stalled' : health[r] # "ok"
      /\ DOMAIN net' = Nets /\ DOMAIN pending' = Nets /\ DOMAIN ring' = Nodes
      /\ \A n \in Nodes : ring'[n] \in [NetsOf(n) -> Seq(RingEntry)] /\ NoneRecorded(n)'
      /\ \A ni \in Nets : MergedAs(ni, stalled', net'[ni], pending'[ni])
      /\ due' \in [Nodes -> Due]
      /\ \A n \in Nodes : due'[n] # Unknown =>
           due'[n] = due[n] /\ \A ni \in NetsOf(n) : net'[ni] = net[ni]
  BY FinishFacts, Zenon
<1>3. /\ \A n \in Nodes : T(n)' = T(n) /\ Passed(n)' = Passed(n)
      /\ \A ni \in Nets : NetNodes[ni] \subseteq Nodes /\ \A n \in NetNodes[ni] : ni \in NetsOf(n)
      /\ \A n \in Nodes : \A ni \in NetsOf(n) : ni \in Nets /\ n \in NetNodes[ni]
      /\ \A n \in Nodes : cyc[n] \in Nat
  BY <1>1, Constants, Zenon DEF T, Passed, NetsOf, TypeInv
<1>4. ASSUME NEW ni \in Nets
      PROVE  /\ \A n \in NetNodes[ni] : Recorded(ni, n)' = {} /\ ring'[n][ni] = <<>>
             /\ \A n \in NetNodes[ni] : Waiting(ni, n)' \subseteq Waiting(ni, n) \cup Recorded(ni, n)
             /\ \A x \in Unmerged(ni)' : \E n \in NetNodes[ni] : \E i \in DOMAIN pending'[ni][n] :
                  x = pending'[ni][n][i].t_ps
             /\ Unmerged(ni)' \subseteq Unmerged(ni)
  <2>1. ASSUME NEW n \in NetNodes[ni]
        PROVE  ring'[n][ni] = <<>> /\ Recorded(ni, n)' = {}
               /\ Waiting(ni, n)' = {pending'[ni][n][i].t_ps : i \in DOMAIN pending'[ni][n]}
    <3>1. ring'[n][ni] = <<>>
      BY <1>2, <1>3, Zenon DEF NoneRecorded
    <3>. QED BY <3>1 DEF Recorded, Waiting
  <2>2. \A n \in NetNodes[ni] : \A i \in DOMAIN pending'[ni][n] :
          pending'[ni][n][i].t_ps \in Waiting(ni, n) \cup Recorded(ni, n)
    BY <1>2, Zenon DEF MergedAs
  <2>3. \A n \in NetNodes[ni] : Waiting(ni, n)' \subseteq Waiting(ni, n) \cup Recorded(ni, n)
    BY <2>1, <2>2
  <2>4. Unmerged(ni)' = UNION {Waiting(ni, n)' : n \in NetNodes[ni]}
    <3>1. Unmerged(ni)' = UNION {Recorded(ni, n)' \cup Waiting(ni, n)' : n \in NetNodes[ni]}
      BY Zenon DEF Unmerged
    <3>. QED BY <2>1, <3>1, Zenon
  <2>5. Unmerged(ni) = UNION {Recorded(ni, n) \cup Waiting(ni, n) : n \in NetNodes[ni]}
    BY Zenon DEF Unmerged
  <2>. QED BY <2>1, <2>3, <2>4, <2>5, SMTT(30)
<1>5. QueueInv'
  <2>1. ASSUME NEW ni \in Nets, NEW n \in NetNodes[ni]
        PROVE  /\ \A i, j \in DOMAIN pending'[ni][n] :
                    i <= j => pending'[ni][n][i].t_ps <= pending'[ni][n][j].t_ps
               /\ ring'[n][ni] = <<>>
               /\ \A x \in Waiting(ni, n)' : x <= T(n) /\ \A y \in Recorded(ni, n)' : x <= y
    <3>1. InOrder(pending'[ni]) /\ DOMAIN pending'[ni] = NetNodes[ni]
      BY <1>2, Zenon DEF MergedAs
    <3>2. \A i, j \in DOMAIN pending'[ni][n] :
                    i <= j => pending'[ni][n][i].t_ps <= pending'[ni][n][j].t_ps
      BY <3>1, Zenon DEF InOrder
    <3>3. \A x \in Waiting(ni, n) : x <= T(n)
      BY <1>1, Zenon DEF QueueInv
    <3>4. ASSUME NEW y \in Recorded(ni, n) PROVE y <= T(n)
      <4>1. PICK i \in DOMAIN ring[n][ni] : y = CyclesToPs(ring[n][ni][i].cycle, n)
        BY Zenon DEF Recorded
      <4>2. ring[n][ni] \in Seq(RingEntry)
        <5>1. n \in Nodes /\ ni \in NetsOf(n)
          BY <1>3, Zenon
        <5>2. ring[n] \in [NetsOf(n) -> Seq(RingEntry)]
          BY <1>1, <5>1, Zenon DEF TypeInv
        <5>. QED BY <5>1, <5>2, Zenon
      <4>3. ring[n][ni][i] \in RingEntry
        BY <4>1, <4>2
      <4>4. ring[n][ni][i].cycle \in Nat /\ ring[n][ni][i].cycle <= cyc[n]
        BY <1>1, <4>1, <4>3, ZenonT(30) DEF QueueInv, RingEntry
      <4>. QED BY <1>3, <4>1, <4>4, Conversions, Zenon DEF T
    <3>. QED BY <1>4, <3>2, <3>3, <3>4, Zenon
  <2>2. ASSUME NEW ni \in Nets
        PROVE  /\ \A i, j \in DOMAIN net'[ni].deliveries :
                    i <= j => net'[ni].deliveries[i].t_ps <= net'[ni].deliveries[j].t_ps
               /\ \A i \in DOMAIN net'[ni].deliveries :
                    /\ \A x \in Unmerged(ni)' : net'[ni].deliveries[i].t_ps <= x + Latency[ni]
                    /\ \A r \in NetNodes[ni] :
                         health[r] = "ok" => net'[ni].deliveries[i].t_ps <= T(r) + Latency[ni]
    <3>1. MergedAs(ni, stalled', net'[ni], pending'[ni])
      BY <1>2, Zenon
    <3>2. \A n \in NetNodes[ni] : \A i \in DOMAIN pending'[ni][n] : \A k \in DOMAIN net'[ni].deliveries :
            net'[ni].deliveries[k].t_ps <= pending'[ni][n][i].t_ps + Latency[ni]
      BY <3>1, Zenon DEF MergedAs
    <3>3. \A k \in DOMAIN net'[ni].deliveries : \A r \in NetNodes[ni] :
            health[r] = "ok" => net'[ni].deliveries[k].t_ps <= T(r) + Latency[ni]
      BY <3>1, Zenon DEF MergedAs
    <3>4. SortedNet(net'[ni])
      BY <3>1, Zenon DEF MergedAs
    <3>. QED BY <1>4, <3>2, <3>3, <3>4, SMTT(30) DEF SortedNet
  <2>3. DOMAIN <<>> = {}
    BY ONLY TRUE
  <2>4. ASSUME NEW ni \in Nets, NEW n \in NetNodes[ni]
        PROVE  /\ \A i, j \in DOMAIN ring'[n][ni] : i <= j => ring'[n][ni][i].cycle <= ring'[n][ni][j].cycle
               /\ \A i \in DOMAIN ring'[n][ni] : ring'[n][ni][i].cycle <= cyc'[n]
               /\ \A x \in Waiting(ni, n)' : x <= T(n)' /\ \A y \in Recorded(ni, n)' : x <= y
    BY <1>3, <2>1, <2>3, Zenon
  <2>5. ASSUME NEW ni \in Nets, NEW r \in NetNodes[ni] PROVE health'[r] = health[r] /\ T(r)' = T(r)
    BY <1>1, <1>3, Zenon
  <2>. QED BY <2>1, <2>2, <2>4, <2>5, Zenon DEF QueueInv
<1>6. \A ni \in Nets : \A n \in NetNodes[ni] : \A u \in Awaited(net'[ni], n) :
        u \in Awaited(net[ni], n) \/ \E y \in Unmerged(ni) : u = y + Latency[ni]
  BY <1>2, Zenon DEF MergedAs
<1>7. ArrivalInv'
  <2>1. \A ni \in Nets : \A n \in NetNodes[ni] :
          /\ \A x \in Unmerged(ni) : PsToCyclesCeil(x + Latency[ni], n) > Passed(n)
          /\ \A u \in Awaited(net[ni], n) : PsToCyclesCeil(u, n) > Passed(n)
    BY <1>1, Zenon DEF ArrivalInv, InTime
  <2>2. ASSUME NEW ni \in Nets, NEW n \in NetNodes[ni]
        PROVE  /\ \A x \in Unmerged(ni)' : PsToCyclesCeil(x + Latency[ni], n) > Passed(n)
               /\ \A u \in Awaited(net'[ni], n) : PsToCyclesCeil(u, n) > Passed(n)
    <3>1. \A x \in Unmerged(ni)' : x \in Unmerged(ni)
      BY <1>4, Zenon
    <3>2. ASSUME NEW u \in Awaited(net'[ni], n) PROVE PsToCyclesCeil(u, n) > Passed(n)
      BY <1>6, <2>1, Zenon
    <3>. QED BY <2>1, <3>1, <3>2, Zenon
  <2>. QED BY <1>3, <2>2, Zenon DEF ArrivalInv, InTime
<1>8. HorizonInv'
  <2>1. PICK K \in [Nodes -> Nat] : Sound(K, {}) /\ Covers(K)
    BY <1>1, Zenon DEF HorizonInv
  <2>2. Covers(K)'
    BY <1>1, <1>3, <2>1, Zenon DEF Covers, InTime
  <2>3. ASSUME NEW r \in Nodes, health[r] = "ok" PROVE Kept(K, r, {})'
    <3>1. Kept(K, r, {})
      BY <2>1, <2>3, Zenon DEF Sound
    <3>2. CASE K[r] <= T(r)
      BY <1>3, <3>2, Zenon DEF Kept
    <3>3. CASE ~(K[r] <= T(r))
      <4>1. /\ wake[r] # 0 /\ K[r] < CyclesToPs(wake[r], r)
            /\ \A ni \in NetsOf(r) :
                 /\ \A u \in Awaited(net[ni], r) : K[r] < u
                 /\ \A x \in Unmerged(ni) : K[r] < x + Latency[ni]
                 /\ \A p \in NetNodes[ni] \ ({r} \cup {}) : health[p] = "ok" => K[r] <= K[p] + Latency[ni]
        BY <3>1, <3>3, Zenon DEF Kept
      <4>2. \A ni \in NetsOf(r) :
                 /\ \A u \in Awaited(net'[ni], r) : K[r] < u
                 /\ \A x \in Unmerged(ni)' : K[r] < x + Latency[ni]
        <5>. SUFFICES ASSUME NEW ni \in NetsOf(r)
                      PROVE  /\ \A u \in Awaited(net'[ni], r) : K[r] < u
                             /\ \A x \in Unmerged(ni)' : K[r] < x + Latency[ni]
          BY Zenon
        <5>1. ni \in Nets /\ r \in NetNodes[ni]
          BY <1>3, Zenon
        <5>2. \A x \in Unmerged(ni)' : K[r] < x + Latency[ni]
          BY <1>4, <4>1, <5>1, Zenon
        <5>3. ASSUME NEW u \in Awaited(net'[ni], r) PROVE K[r] < u
          <6>1. u \in Awaited(net[ni], r) \/ \E y \in Unmerged(ni) : u = y + Latency[ni]
            BY <1>6, <5>1, Zenon
          <6>. QED BY <4>1, <6>1, Zenon
        <5>. QED BY <5>2, <5>3, Zenon
      <4>. QED BY <1>1, <4>1, <4>2, Zenon DEF Kept
    <3>. QED BY <3>2, <3>3, Zenon
  <2>. QED BY <1>1, <2>2, <2>3, Zenon DEF HorizonInv, Sound
<1>9. LimitInv'
  BY <1>1, Zenon DEF LimitInv
<1>10. DueInv'
  <2>1. \A n \in Nodes : due'[n] # Unknown => DueFor(due'[n], n, net')
    BY <1>1, <1>2, ZenonT(30) DEF DueInv, DueFor
  <2>. QED BY <1>1, <2>1, Zenon DEF DueInv
<1>11. FrontInv'
  <2>1. ASSUME NEW ni \in Nets, NEW x \in Unmerged(ni)'
        PROVE  (\E r \in NetNodes[ni] \ stalled' : x > T(r)) \/ NetNodes[ni] \subseteq stalled'
    <3>1. PICK n \in NetNodes[ni] : \E i \in DOMAIN pending'[ni][n] : x = pending'[ni][n][i].t_ps
      BY <1>4, Zenon
    <3>2. PICK i \in DOMAIN pending'[ni][n] : x = pending'[ni][n][i].t_ps
      BY <3>1, Zenon
    <3>3. \/ \E r \in NetNodes[ni] \ stalled' : pending'[ni][n][i].t_ps > T(r)
          \/ NetNodes[ni] \subseteq stalled'
      BY <1>2, Zenon DEF MergedAs
    <3>. QED BY <3>2, <3>3, Zenon
  <2>2. health' = health /\ \A ni \in Nets : \A n \in NetNodes[ni] : T(n)' = T(n)
    BY <1>1, <1>3, Zenon
  <2>3. ASSUME NEW ni \in Nets, NEW x \in Unmerged(ni)'
        PROVE  \/ \E r \in NetNodes[ni] \ stalled' : x > T(r)'
               \/ \A r \in NetNodes[ni] : health'[r] # "ok"
    <3>1. CASE \E r \in NetNodes[ni] \ stalled' : x > T(r)
      BY <2>2, <3>1, Zenon
    <3>2. CASE NetNodes[ni] \subseteq stalled'
      BY <1>2, <2>2, <3>2, Zenon
    <3>. QED BY <2>1, <3>1, <3>2, Zenon
  <2>. QED BY <2>3, Zenon DEF FrontInv
<1>12. TypeInv'
  <2>1. \A ni \in Nets : /\ net'[ni] \in GpioNet(ni) /\ pending'[ni] \in [NetNodes[ni] -> Seq(Change)]
                         /\ net'[ni].base = net[ni].base /\ net'[ni].next = net[ni].next
    BY <1>2, Zenon DEF MergedAs
  <2>2. \A ni \in Nets : \A n \in NetNodes[ni] : net'[ni].base <= net'[ni].next[n]
    BY <1>1, <2>1, Zenon DEF TypeInv
  <2>3. quiet_ps' \in [Nodes -> Nat \cup {-1}]
    <3>1. quiet_ps \in [Nodes -> Nat \cup {-1}] /\ wake[node] \in Nat
      BY <1>1, Zenon DEF TypeInv
    <3>2. QuietUntil(node, wake[node]) \in Nat \cup {-1}
      BY <1>1, <3>1, QuietUntilType, Zenon
    <3>. QED BY <1>1, <3>1, <3>2, Zenon
  <2>4. node' \in Nat /\ failed' \subseteq Nodes
    <3>1. node \in Nat /\ failed \subseteq Nodes
      BY <1>1, Zenon DEF TypeInv
    <3>. QED BY <1>1, <3>1
  <2>. QED BY <1>1, <1>2, <2>1, <2>2, <2>3, <2>4, Zenon DEF TypeInv
<1>13. CallInv'
  <2>1. ~short => \A n \in Nodes : quiet_ps'[n] = QuietUntil(n, wake[n])
    <3>1. quiet_ps \in [Nodes -> Nat \cup {-1}]
      BY <1>1, Zenon DEF TypeInv
    <3>. QED BY <1>1, <3>1, Zenon DEF CallInv
  <2>2. /\ \A n \in Nodes : prev[n] < cyc[n] /\ (wake[n] # 0 => wake[n] > cyc[n])
        /\ \A n \in Nodes : goal[n] <= RoundGoal(n, until)
        /\ short => \A ni \in Nets : \A n \in NetNodes[ni] : until <= T(n) + MinLatency
    BY <1>1, Zenon DEF CallInv
  <2>3. short => \A ni \in Nets : \A n \in NetNodes[ni] : until <= T(n)' + MinLatency
    BY <1>3, <2>2, Zenon
  <2>. QED BY <1>1, <1>2, <2>1, <2>2, <2>3, Zenon DEF CallInv, RoundGoal, QuietUntil
<1>. QED BY <1>5, <1>7, <1>8, <1>9, <1>10, <1>11, <1>12, <1>13, Zenon DEF Inv

-------------------------------------------------------------------------------
(* The host's calls. *)

(* Between visits, what the machines and the nets are in stays true however *)
(* calls begin and end.                                                    *)
LEMMA CallTiming ==
  ASSUME Inv, pc # "run", pc' # "run", UNCHANGED <<machineVars, netVars>>, stalled' = {}
  PROVE  QueueInv' /\ DueInv' /\ FrontInv' /\ ArrivalInv' /\ HorizonInv' /\ LimitInv'
<1>1. /\ QueueInv /\ DueInv /\ FrontInv /\ ArrivalInv /\ HorizonInv
      /\ UNCHANGED <<cyc, prev, drive, ring, wake, health, net, pending, due>>
  BY Zenon DEF Inv, machineVars, netVars
<1>2. QueueInv' /\ ArrivalInv' /\ HorizonInv'
  BY <1>1, SameTiming, Zenon
<1>3. DueInv' /\ LimitInv'
  BY <1>1, Zenon DEF DueInv, LimitInv
<1>4. FrontInv'
  <2>1. \A ni \in Nets : \A x \in Unmerged(ni) :
          (\E r \in NetNodes[ni] : x > T(r)) \/ \A r \in NetNodes[ni] : health[r] # "ok"
    BY <1>1, Zenon DEF FrontInv
  <2>2. /\ \A ni \in Nets : NetNodes[ni] \subseteq Nodes /\ Unmerged(ni)' = Unmerged(ni)
        /\ \A n \in Nodes : T(n)' = T(n)
    BY <1>1, SameTimes, SameQueues, Constants, Zenon
  <2>. QED BY <1>1, <2>1, <2>2, Zenon DEF FrontInv
<1>. QED BY <1>2, <1>3, <1>4, Zenon

(* The start of run_to keeps Inv.                                          *)
LEMMA RunToStep ==
  ASSUME Inv, pc = "idle", NEW t \in 0 .. Never, NEW budget \in Nat, RunTo(t, budget),
         end_ps' \in 0 .. Never
  PROVE  Inv'
<1>. DEFINE S == {T(n) : n \in UNION {NetNodes[ni] : ni \in Nets}}
            brief == t <= Min(S) + MinLatency
<1>1. /\ TypeInv /\ CallInv /\ pc' = "visit" /\ node' = 1
      /\ until' = t /\ short' = brief /\ start' = cyc /\ stalled' = {} /\ failed' = {}
      /\ goal' = [n \in Nodes |-> Smaller(RoundGoal(n, t), SatAdd(budget, cyc[n]))]
      /\ quiet_ps' = IF brief THEN quiet_ps ELSE [n \in Nodes |-> QuietUntil(n, wake[n])]
      /\ UNCHANGED <<cyc, prev, ring, wake, health, net, pending, due, limit, from, hit, now_ps>>
      /\ UNCHANGED <<machineVars, netVars>>
  BY Zenon DEF Inv, RunTo, machineVars, netVars, runVars
<1>2. QueueInv' /\ DueInv' /\ FrontInv' /\ ArrivalInv' /\ HorizonInv' /\ LimitInv'
  BY <1>1, CallTiming, Zenon
<1>3. brief => \A ni \in Nets : \A n \in NetNodes[ni] : t <= T(n) + MinLatency
  <2>1. S \subseteq Nat /\ S # {} /\ \A ni \in Nets : \A n \in NetNodes[ni] : T(n) \in S
    <3>1. \A ni \in Nets : \A n \in NetNodes[ni] : T(n) \in Nat
      BY <1>1, Typed, Constants, Zenon DEF TypeFacts
    <3>2. PICK ni \in Nets : NetNodes[ni] # {}
      BY Constants, Zenon
    <3>. QED BY <3>1, <3>2, Zenon
  <2>. HIDE DEF S
  <2>2. S \subseteq Int /\ \A x \in S : x >= -1
    BY <2>1
  <2>3. Min(S) \in Int /\ \A x \in S : Min(S) <= x
    BY <2>1, <2>2, MinOf, Zenon
  <2>4. ASSUME brief, NEW ni \in Nets, NEW n \in NetNodes[ni] PROVE t <= T(n) + MinLatency
    <3>1. T(n) \in Nat /\ Min(S) <= T(n)
      BY <2>1, <2>3, Zenon
    <3>2. t \in Int /\ MinLatency \in Nat
      BY MinLatencyNat, NeverNat, SMTT(30)
    <3>. QED BY <2>3, <2>4, <3>1, <3>2, SMTT(30)
  <2>. QED BY <2>4, Zenon
<1>. HIDE DEF S
<1>4. \A n \in Nodes : goal'[n] \in Nat /\ goal'[n] <= RoundGoal(n, t)
  <2>. SUFFICES ASSUME NEW n \in Nodes PROVE goal'[n] \in Nat /\ goal'[n] <= RoundGoal(n, t)
    BY Zenon
  <2>1. RoundGoal(n, t) \in Nat
    BY Conversions, NeverNat, SMTT(30) DEF RoundGoal
  <2>2. SatAdd(budget, cyc[n]) \in Nat
    BY <1>1, NeverNat DEF SatAdd, TypeInv
  <2>3. goal'[n] = Smaller(RoundGoal(n, t), SatAdd(budget, cyc[n]))
    BY <1>1, Zenon
  <2>. QED BY <2>1, <2>2, <2>3 DEF Smaller
<1>5. quiet_ps' \in [Nodes -> Nat \cup {-1}]
  BY <1>1, QuietUntilType, Zenon DEF TypeInv
<1>6. TypeInv'
  <2>1. short' \in BOOLEAN
    BY ONLY <1>1
  <2>2. goal' \in [Nodes -> Nat]
    <3>1. goal' = [n \in Nodes |-> goal'[n]]
      BY <1>1, Zenon
    <3>. QED BY <1>4, <3>1, Zenon
  <2>. QED BY <1>1, <1>5, <2>1, <2>2, ZenonT(30) DEF TypeInv
<1>7. CallInv'
  <2>1. ~brief => \A n \in Nodes : quiet_ps'[n] = QuietUntil(n, wake[n])
    BY <1>1, Zenon
  <2>2. \A ni \in Nets : \A n \in NetNodes[ni] : T(n)' = T(n)
    BY <1>1, Zenon DEF T
  <2>3. /\ \A n \in Nodes : prev[n] < cyc[n] /\ (wake[n] # 0 => wake[n] > cyc[n])
        /\ \A n \in Nodes : NoneRecorded(n)'
    BY <1>1, Zenon DEF CallInv, NoneRecorded
  <2>4. (short' <=> brief) /\ until' = t
    BY <1>1, Zenon
  <2>. HIDE DEF brief
  <2>. QED BY <1>1, <1>3, <1>4, <2>1, <2>2, <2>3, <2>4, Zenon DEF CallInv, RoundGoal, QuietUntil
<1>. QED BY <1>2, <1>6, <1>7, Zenon DEF Inv

(* step_all_gpio and run_until_ps keep Inv.                                *)
LEMMA CallStep ==
  ASSUME Inv, Call
  PROVE  Inv'
<1>1. /\ now_ps \in Nat /\ end_ps \in 0 .. Never
      /\ RoundPs \in Nat /\ LastRound \in Nat /\ LastRound + RoundPs <= Never
      /\ StepCycles \in Nat /\ Targets \subseteq 0 .. Never /\ Never \in Nat
  <2>1. RoundPs \in Nat
    BY NetAssumption, MinLatencyNat
  <2>2. StepCycles \in Nat
    BY NetAssumption, NeverNat
  <2>. QED BY <2>1, <2>2, NetAssumption, NeverNat, Zenon DEF Inv, TypeInv
<1>2. CASE StepAllGpio
  <2>. DEFINE target == IF end_ps # 0 THEN end_ps ELSE now_ps + RoundPs
  <2>1. pc = "idle" /\ RunTo(target, StepCycles) /\ end_ps' = target /\ (end_ps # 0 \/ now_ps <= LastRound)
    BY <1>2, Zenon DEF StepAllGpio
  <2>2. target \in 0 .. Never
    BY <1>1, <2>1
  <2>. HIDE DEF target
  <2>. QED BY <1>1, <2>1, <2>2, RunToStep, Zenon
<1>3. ASSUME NEW target \in Targets, RunUntilPs(target) PROVE Inv'
  <2>1. pc = "idle" /\ RunTo(target, Never) /\ end_ps' = end_ps /\ target \in 0 .. Never
    BY <1>1, <1>3, Zenon DEF RunUntilPs
  <2>. QED BY <1>1, <2>1, RunToStep, Zenon
<1>. QED BY <1>2, <1>3, Zenon DEF Call

(* The return of run_to keeps Inv.                                         *)
LEMMA ReturnStep ==
  ASSUME Inv, Return
  PROVE  Inv'
<1>1. /\ TypeInv /\ CallInv /\ pc = "visit" /\ pc' = "idle" /\ node' = 1
      /\ now_ps' \in {until, now_ps} /\ end_ps' \in {0, end_ps}
      /\ limit' = 0 /\ from' = 0 /\ hit' = FALSE /\ start' = cyc /\ goal' = cyc
      /\ stalled' = {} /\ failed' = {} /\ short' = FALSE /\ until' = 0
      /\ UNCHANGED <<cyc, prev, ring, wake, health, net, pending, due, quiet_ps>>
      /\ UNCHANGED <<machineVars, netVars>>
  BY Zenon DEF Inv, Return, machineVars, netVars
<1>2. QueueInv' /\ DueInv' /\ FrontInv' /\ ArrivalInv' /\ HorizonInv' /\ LimitInv'
  BY <1>1, CallTiming, Zenon
<1>3. TypeInv'
  <2>1. until \in 0 .. Never /\ now_ps \in Nat /\ end_ps \in 0 .. Never
    BY <1>1, Zenon DEF TypeInv
  <2>2. now_ps' \in Nat /\ end_ps' \in 0 .. Never /\ until' \in 0 .. Never
    BY <1>1, <2>1, NeverNat
  <2>. QED BY <1>1, <2>2, Zenon DEF TypeInv
<1>4. CallInv'
  BY <1>1, Zenon DEF CallInv, NoneRecorded
<1>. QED BY <1>2, <1>3, <1>4, Zenon DEF Inv

-------------------------------------------------------------------------------
(* The world starts with everything at rest. *)
LEMMA InitInv ==
  ASSUME Init
  PROVE  Inv
<1>1. /\ cyc = [n \in Nodes |-> 0] /\ prev = [n \in Nodes |-> -1]
      /\ ring = [n \in Nodes |-> [ni \in NetsOf(n) |-> <<>>]]
      /\ wake = [n \in Nodes |-> 0] /\ health = [n \in Nodes |-> "ok"]
      /\ pending = [ni \in Nets |-> [n \in NetNodes[ni] |-> <<>>]]
      /\ due = [n \in Nodes |-> Unknown] /\ pc = "idle" /\ node = 1 /\ until = 0 /\ short = FALSE
      /\ start = [n \in Nodes |-> 0] /\ goal = [n \in Nodes |-> 0]
      /\ stalled = {} /\ failed = {} /\ quiet_ps = [n \in Nodes |-> -1]
      /\ limit = 0 /\ from = 0 /\ hit = FALSE /\ now_ps = 0 /\ end_ps = 0
  BY Zenon DEF Init
<1>2. \A n \in Nodes : \A ni \in NetsOf(n) : ni \in Nets /\ n \in NetNodes[ni]
  BY Zenon DEF NetsOf
<1>3. ASSUME NEW ni \in Nets
      PROVE  /\ net[ni] \in GpioNet(ni) /\ net[ni].deliveries = <<>>
             /\ \A n \in NetNodes[ni] : net[ni].base <= net[ni].next[n]
             /\ Unmerged(ni) = {} /\ \A n : Awaited(net[ni], n) = {}
             /\ \A n \in NetNodes[ni] : pending[ni][n] = <<>> /\ ring[n][ni] = <<>>
             /\ \A n \in NetNodes[ni] : Recorded(ni, n) = {} /\ Waiting(ni, n) = {}
  <2>. DEFINE l == Resolve({"Z"}, Pull[ni])
  <2>1. net[ni] = [own |-> [n \in NetNodes[ni] |-> "Z"], level |-> l,
                   deliveries |-> <<>>, base |-> 0, next |-> [n \in NetNodes[ni] |-> 0]]
    BY Zenon DEF Init
  <2>2. l \in BOOLEAN
    BY Zenon DEF Resolve
  <2>. HIDE DEF l
  <2>3. net[ni] \in GpioNet(ni)
    <3>1. [n \in NetNodes[ni] |-> "Z"] \in [NetNodes[ni] -> Own]
      BY Zenon DEF Own
    <3>2. <<>> \in Seq(Delivery) /\ [n \in NetNodes[ni] |-> 0] \in [NetNodes[ni] -> Nat]
      OBVIOUS
    <3>. QED BY <2>1, <2>2, <3>1, <3>2, SMTT(30) DEF GpioNet
  <2>4. net[ni].deliveries = <<>> /\ \A n \in NetNodes[ni] : net[ni].base <= net[ni].next[n]
    BY <2>1
  <2>5. \A n : Awaited(net[ni], n) = {}
    BY <2>4 DEF Awaited, Ahead
  <2>6. \A n \in NetNodes[ni] : n \in Nodes /\ ni \in NetsOf(n)
    BY Constants, Zenon DEF NetsOf
  <2>7. \A n \in NetNodes[ni] : pending[ni][n] = <<>> /\ ring[n][ni] = <<>>
    BY <1>1, <2>6, Zenon
  <2>8. \A n \in NetNodes[ni] : Recorded(ni, n) = {} /\ Waiting(ni, n) = {}
    BY <2>7 DEF Recorded, Waiting
  <2>9. Unmerged(ni) = {}
    BY <2>8, Zenon DEF Unmerged
  <2>. QED BY <2>3, <2>4, <2>5, <2>7, <2>8, <2>9, Zenon
<1>4. TypeInv
  <2>1. DOMAIN net = Nets
    BY Zenon DEF Init
  <2>2. /\ DOMAIN ring = Nodes /\ \A n \in Nodes : ring[n] \in [NetsOf(n) -> Seq(RingEntry)]
    <3>1. <<>> \in Seq(RingEntry)
      OBVIOUS
    <3>. QED BY <1>1, <3>1, Zenon
  <2>3. DOMAIN pending = Nets /\ \A ni \in Nets : pending[ni] \in [NetNodes[ni] -> Seq(Change)]
    <3>1. <<>> \in Seq(Change)
      OBVIOUS
    <3>. QED BY <1>1, <3>1, Zenon
  <2>4. due \in [Nodes -> Due]
    BY <1>1, Zenon DEF Unknown, Due
  <2>5. 0 \in 0 .. Never
    BY NeverNat, SMTT(30)
  <2>. QED BY <1>1, <1>3, <2>1, <2>2, <2>3, <2>4, <2>5, Zenon DEF TypeInv
<1>5. CallInv
  BY <1>1 DEF CallInv, NoneRecorded
<1>6. QueueInv
  <2>1. ASSUME NEW ni \in Nets
        PROVE  /\ DOMAIN net[ni].deliveries = {}
               /\ \A n \in NetNodes[ni] : /\ DOMAIN pending[ni][n] = {} /\ DOMAIN ring[n][ni] = {}
                                          /\ Waiting(ni, n) = {}
    BY <1>3
  <2>. QED BY ONLY <2>1, ZenonT(30) DEF QueueInv
<1>7. DueInv /\ FrontInv /\ ArrivalInv /\ LimitInv
  <2>1. DueInv
    BY <1>1, Zenon DEF DueInv
  <2>. QED BY <1>1, <1>3, <2>1, Zenon DEF FrontInv, ArrivalInv, LimitInv
<1>8. HorizonInv
  <2>1. PICK K \in [Nodes -> Nat] : \A n \in Nodes : K[n] = 0
    <3>. DEFINE Z == [n \in Nodes |-> 0]
    <3>1. Z \in [Nodes -> Nat] /\ \A n \in Nodes : Z[n] = 0
      BY ONLY TRUE
    <3>. HIDE DEF Z
    <3>. QED BY <3>1, Zenon
  <2>2. \A n \in Nodes : T(n) \in Nat
    BY <1>4, Typed, Zenon DEF TypeFacts
  <2>3. Sound(K, {})
    <3>1. \A n \in Nodes : K[n] <= T(n)
      BY ONLY <2>1, <2>2
    <3>. QED BY <3>1, Zenon DEF Sound, Kept
  <2>4. Covers(K)
    <3>. SUFFICES ASSUME NEW ni \in Nets, NEW n \in NetNodes[ni], NEW r \in NetNodes[ni]
                  PROVE  InTime(n, K[r] + Latency[ni])
      BY Zenon DEF Covers
    <3>1. n \in Nodes /\ r \in Nodes /\ Latency[ni] \in Nat
      BY Constants, Zenon
    <3>2. Passed(n) = -1
      BY <1>1, <3>1, Zenon DEF Passed
    <3>3. PsToCyclesCeil(K[r] + Latency[ni], n) \in Nat
      <4>1. K[r] + Latency[ni] \in Nat
        BY <2>1, <3>1
      <4>. QED BY <3>1, <4>1, Conversions, Zenon
    <3>. QED BY <3>2, <3>3 DEF InTime
  <2>. QED BY <2>3, <2>4, Zenon DEF HorizonInv
<1>. QED BY <1>4, <1>5, <1>6, <1>7, <1>8, Zenon DEF Inv

(* Inv depends on the state of the world alone.                            *)
LEMMA StutterInv ==
  ASSUME Inv, UNCHANGED vars
  PROVE  Inv'
<1>1. /\ TypeInv /\ CallInv /\ QueueInv /\ DueInv /\ FrontInv /\ ArrivalInv /\ HorizonInv /\ LimitInv
      /\ UNCHANGED <<cyc, prev, drive, ring, wake, health, net, pending, due, pc, node, until,
                     short, start, goal, stalled, failed, quiet_ps, limit, from, hit, now_ps,
                     end_ps, hist>>
  BY Zenon DEF Inv, vars, machineVars, netVars, callVars, slotVars, runVars, roundVars
<1>2. /\ \A n \in Nodes : T(n)' = T(n)
      /\ \A ni \in Nets : Unmerged(ni)' = Unmerged(ni) /\ NetNodes[ni] \subseteq Nodes
  BY <1>1, SameTimes, SameQueues, Constants, Zenon
<1>3. TypeInv' /\ CallInv'
  BY <1>1, Zenon DEF TypeInv, CallInv, NoneRecorded, T, RoundGoal, QuietUntil
<1>4. QueueInv' /\ ArrivalInv' /\ HorizonInv'
  BY <1>1, SameTiming, Zenon
<1>5. DueInv' /\ FrontInv'
  BY <1>1, <1>2, Zenon DEF DueInv, FrontInv
<1>6. \A K, ex : Sound(K, ex) => Sound(K, ex)'
  BY <1>1, SameSound, Zenon
<1>7. LimitInv'
  <2>. SUFFICES ASSUME pc = "run", ~hit, health[node] = "ok"
                PROVE  \E K \in [Nodes -> Nat] : Sound(K, Excluded)' /\ LimitCovered(K)'
    BY <1>1, Zenon DEF LimitInv
  <2>1. PICK K \in [Nodes -> Nat] : Sound(K, Excluded) /\ LimitCovered(K)
    BY <1>1, Zenon DEF LimitInv
  <2>2. PICK ex : ex = Excluded
    BY Zenon
  <2>3. Sound(K, ex)' /\ Excluded' = ex
    BY <1>1, <1>6, <2>1, <2>2, Zenon DEF Excluded
  <2>4. LimitCovered(K)'
    <3>1. \A ni \in NetsOf(node) : Unmerged(ni)' = Unmerged(ni)
      BY <1>2, Zenon DEF NetsOf
    <3>2. NetsOf(node)' = NetsOf(node)
      BY <1>1, Zenon
    <3>. QED BY <1>1, <2>1, <3>1, <3>2, Zenon DEF LimitCovered
  <2>. QED BY <2>3, <2>4, Zenon
<1>. QED BY <1>3, <1>4, <1>5, <1>7, Zenon DEF Inv

(* Every step of the world keeps the invariant. *)
LEMMA NextInv ==
  ASSUME Inv, [Next]_vars
  PROVE  Inv'
<1>1. CASE Call
  BY <1>1, CallStep, Zenon
<1>2. CASE Machine
  BY <1>2, InstructionStep, WaitForEventStep, IdleSkipStep, DieStep, Zenon DEF Machine
<1>3. CASE Scheduler
  BY <1>3, EnterRunStep, ApplyDueStep, FinishRunStep, ReturnStep, Zenon DEF Scheduler
<1>4. CASE UNCHANGED vars
  BY <1>4, StutterInv, Zenon
<1>. QED BY <1>1, <1>2, <1>3, <1>4, Zenon DEF Next, LeftAlone

(* No node ever passes the arrival of a level change it has not been given *)
(* or that is still to come: run_to's horizons are safe for every number   *)
(* of nodes and nets, all clocks and latencies WorldGpio::build and        *)
(* set_round_ps accept, nodes that sleep, stop at their own changes or die *)
(* included.                                                               *)
THEOREM HorizonSafe == Spec => []Inv
<1>1. Init => Inv
  BY InitInv, Zenon
<1>2. Inv /\ [Next]_vars => Inv'
  BY NextInv, Zenon
<1>. QED BY <1>1, <1>2, PTL DEF Spec

(* Every level change is handed to a node at the first boundary at or      *)
(* after its time.                                                         *)
LEMMA InvDelivers ==
  ASSUME Inv
  PROVE  DeliveredOnTime
<1>. SUFFICES ASSUME NEW ni \in Nets, NEW n \in NetNodes[ni], Undelivered(net[ni], n) # <<>>
              PROVE  PsToCyclesCeil(Undelivered(net[ni], n)[1].t_ps, n) > prev[n]
  BY Zenon DEF DeliveredOnTime
<1>. DEFINE u == Undelivered(net[ni], n)[1].t_ps
<1>1. TypeInv /\ CallInv /\ ArrivalInv /\ n \in Nodes
  BY Constants, Zenon DEF Inv
<1>2. net[ni] \in GpioNet(ni) /\ net[ni].base <= net[ni].next[n]
  BY <1>1, Zenon DEF TypeInv
<1>3. u \in Awaited(net[ni], n) /\ u \in Nat
  BY <1>2, UndeliveredResult, NetTypes
<1>. HIDE DEF u
<1>4. PsToCyclesCeil(u, n) > Passed(n) /\ PsToCyclesCeil(u, n) \in Nat
  BY <1>1, <1>3, Conversions, ZenonT(30) DEF ArrivalInv, InTime
<1>5. prev[n] <= Passed(n) /\ prev[n] \in Int /\ Passed(n) \in Int
  <2>1. prev[n] \in Nat \cup {-1} /\ cyc[n] \in Nat /\ prev[n] < cyc[n]
    BY <1>1, Zenon DEF TypeInv, CallInv
  <2>. QED BY <2>1 DEF Passed
<1>. QED BY <1>4, <1>5 DEF u

(* DeliveredOnTime, for every value of the constants: run_node applies     *)
(* every delivery at the first boundary at or after its time, and no net   *)
(* ever queues one in a member's past.                                     *)
THEOREM DeliveryInTime == Spec => []DeliveredOnTime
BY HorizonSafe, InvDelivers, PTL

===============================================================================
