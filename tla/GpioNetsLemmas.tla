---------------------------- MODULE GpioNetsLemmas ----------------------------
(***************************************************************************)
(* What the operators of GpioNets compute, for every state they are given: *)
(* the conversions between cycles and time, the relaxation of known_ps,    *)
(* the merge of a net's queues and the hand-out of its deliveries.  Then   *)
(* the invariant Inv of the world, and what the scheduler's actions do     *)
(* when it holds: where a node may be let run to, what is collected and    *)
(* merged when its run is over.                                            *)
(***************************************************************************)
EXTENDS GpioNets, FiniteSetTheorems, TLAPS

-------------------------------------------------------------------------------
(* Time.  Cycles and picoseconds convert downwards one way and upwards the *)
(* other, so a boundary is at or after a time exactly when the time is at  *)
(* or before the boundary's.                                               *)

(* The constants, as GpioNet::new and the world take them: clocks no       *)
(* faster than a picosecond, nets with members and a latency of at least   *)
(* one.                                                                    *)
LEMMA Constants ==
  /\ N \in Nat /\ PS_PER_SEC \in Nat \ {0}
  /\ \A n \in Nodes : Hz[n] \in Nat \ {0} /\ Hz[n] <= PS_PER_SEC
  /\ \A ni \in Nets : /\ ni \in Nat \ {0} /\ NetNodes[ni] \subseteq Nodes /\ NetNodes[ni] # {}
                      /\ Latency[ni] \in Nat \ {0}
  /\ Nets # {} /\ IsFiniteSet(Nets) /\ Nodes \subseteq Nat /\ IsFiniteSet(Nodes)
<1>1. /\ N \in Nat /\ PS_PER_SEC \in Nat /\ Nets # {} /\ IsFiniteSet(Nets)
      /\ \A n \in Nodes : Hz[n] \in 1..PS_PER_SEC
  BY NetAssumption, Zenon
<1>2. ASSUME NEW ni \in Nets
      PROVE  /\ ni \in Nat \ {0} /\ NetNodes[ni] \subseteq Nodes /\ NetNodes[ni] # {}
             /\ Latency[ni] \in Nat \ {0} /\ PS_PER_SEC # 0
  <2>1. /\ NetNodes[ni] \in (SUBSET Nodes) \ {{}} /\ Latency[ni] \in Nat /\ ni \in Nat \ {0}
    BY NetAssumption, Zenon
  <2>2. PICK n \in NetNodes[ni] : n \in Nodes
    BY <2>1, Zenon
  <2>3. Hz[n] \in Nat \ {0} /\ PS_PER_SEC > 0
    BY <1>1, <2>2
  <2>4. Latency[ni] * Hz[n] >= PS_PER_SEC
    BY <2>2, NetAssumption, Zenon
  <2>5. Latency[ni] # 0
    <3>1. Latency[ni] = 0 => Latency[ni] * Hz[n] = 0
      BY <2>3
    <3>. QED BY <1>1, <2>3, <2>4, <3>1
  <2>. QED BY <2>1, <2>3, <2>5
<1>3. Nodes \subseteq Nat /\ IsFiniteSet(Nodes)
  BY <1>1, FS_Interval DEF Nodes
<1>. QED BY <1>1, <1>2, <1>3

(* The end of time is a number. *)
LEMMA NeverNat == Never \in Nat /\ Never # 0
BY DEF Never

(* Quotients against a bound. *)
LEMMA QuotientBelow ==
  ASSUME NEW a \in Nat, NEW b \in Nat \ {0}, NEW c \in Nat
  PROVE  /\ a \div b \in Nat
         /\ a \div b <= c <=> a < (c + 1) * b
         /\ c <= a \div b <=> c * b <= a
<1>. DEFINE q == a \div b
<1>1. q \in Nat /\ q * b <= a /\ a < (q + 1) * b
  OBVIOUS
<1>. HIDE DEF q
<1>2. q <= c => (q + 1) * b <= (c + 1) * b
  BY <1>1
<1>3. q > c => (c + 1) * b <= q * b
  BY <1>1
<1>4. c <= q => c * b <= q * b
  BY <1>1
<1>5. c > q => (q + 1) * b <= c * b
  BY <1>1
<1>6. q * b \in Nat /\ (q + 1) * b \in Nat /\ (c + 1) * b \in Nat /\ c * b \in Nat
  BY <1>1
<1>7. q <= c <=> a < (c + 1) * b
  BY <1>1, <1>2, <1>3, <1>6
<1>8. c <= q <=> c * b <= a
  BY <1>1, <1>4, <1>5, <1>6
<1>. QED BY <1>1, <1>7, <1>8, Zenon DEF q

(* One boundary against one time: the first boundary at or after t is at   *)
(* or before c exactly when c is not before t.                             *)
LEMMA Boundary1 ==
  ASSUME NEW n \in Nodes, NEW c \in Nat, NEW t \in Nat
  PROVE  /\ CyclesToPs(c, n) \in Nat /\ PsToCyclesCeil(t, n) \in Nat
         /\ PsToCyclesCeil(t, n) <= c <=> t <= CyclesToPs(c, n)
<1>. DEFINE p == PS_PER_SEC
            h == Hz[n]
<1>1. p \in Nat \ {0} /\ h \in Nat \ {0}
  BY Constants, Zenon
<1>. HIDE DEF p, h
<1>2. t * h \in Nat /\ c * p \in Nat /\ t * h + p - 1 \in Nat
  BY <1>1
<1>3. /\ (t * h + p - 1) \div p \in Nat
      /\ (t * h + p - 1) \div p <= c <=> t * h + p - 1 < (c + 1) * p
  BY <1>1, <1>2, QuotientBelow, Zenon
<1>4. /\ (c * p) \div h \in Nat
      /\ t <= (c * p) \div h <=> t * h <= c * p
  BY <1>1, <1>2, QuotientBelow, Zenon
<1>5. (c + 1) * p = c * p + p
  BY <1>1
<1>6. t * h + p - 1 < (c + 1) * p <=> t * h <= c * p
  BY <1>1, <1>2, <1>5
<1>. QED BY <1>3, <1>4, <1>6, Zenon DEF CyclesToPs, PsToCyclesCeil, p, h

(* The facts about conversions that the proofs use. *)
LEMMA Conversions ==
  ASSUME NEW n \in Nodes
  PROVE  /\ \A c \in Nat : CyclesToPs(c, n) \in Nat
         /\ \A t \in Nat : PsToCyclesCeil(t, n) \in Nat
         /\ \A c, t \in Nat : PsToCyclesCeil(t, n) <= c <=> t <= CyclesToPs(c, n)
         /\ \A c, d \in Nat : c <= d => CyclesToPs(c, n) <= CyclesToPs(d, n)
         /\ \A c, d \in Nat : c < d => CyclesToPs(c, n) < CyclesToPs(d, n)
         /\ \A t, u \in Nat : t <= u => PsToCyclesCeil(t, n) <= PsToCyclesCeil(u, n)
         /\ \A t \in Nat : PsToCyclesCeil(t, n) <= t
<1>1. /\ \A c \in Nat : CyclesToPs(c, n) \in Nat
      /\ \A t \in Nat : PsToCyclesCeil(t, n) \in Nat
      /\ \A c, t \in Nat : PsToCyclesCeil(t, n) <= c <=> t <= CyclesToPs(c, n)
  BY Boundary1, Zenon
<1>2. ASSUME NEW c \in Nat, NEW d \in Nat, c <= d
      PROVE  CyclesToPs(c, n) <= CyclesToPs(d, n)
  <2>. DEFINE x == CyclesToPs(c, n)
  <2>1. x \in Nat /\ x <= x /\ PsToCyclesCeil(x, n) \in Nat
    BY <1>1
  <2>. HIDE DEF x
  <2>2. PsToCyclesCeil(x, n) <= c
    BY <1>1, <2>1, Zenon DEF x
  <2>3. PsToCyclesCeil(x, n) <= d
    BY <1>2, <2>1, <2>2
  <2>. QED BY <1>1, <2>1, <2>3, Zenon DEF x
<1>3. ASSUME NEW c \in Nat PROVE CyclesToPs(c, n) < CyclesToPs(c + 1, n)
  <2>. DEFINE p == PS_PER_SEC
              h == Hz[n]
  <2>1. p \in Nat \ {0} /\ h \in Nat \ {0} /\ h <= p
    BY Constants, Zenon
  <2>. DEFINE x == (c * p) \div h
  <2>. HIDE DEF p, h
  <2>2. c * p \in Nat /\ (c + 1) * p \in Nat /\ (c + 1) * p = c * p + p
    BY <2>1
  <2>3. x \in Nat /\ x * h <= c * p
    <3>1. x \in Nat
      BY <2>1, <2>2, QuotientBelow, Zenon
    <3>. HIDE DEF x
    <3>2. x <= x
      BY <3>1
    <3>. QED BY <2>1, <2>2, <3>1, <3>2, QuotientBelow, Zenon DEF x
  <2>. HIDE DEF x
  <2>4. (x + 1) * h = x * h + h /\ x * h \in Nat
    BY <2>1, <2>3
  <2>5. (x + 1) * h <= (c + 1) * p
    BY <2>1, <2>2, <2>3, <2>4
  <2>6. x + 1 <= ((c + 1) * p) \div h /\ ((c + 1) * p) \div h \in Nat
    <3>1. x + 1 \in Nat
      BY <2>3
    <3>. QED BY <2>1, <2>2, <2>5, <3>1, QuotientBelow, Zenon
  <2>7. x < ((c + 1) * p) \div h
    BY <2>3, <2>6
  <2>. QED BY <2>7, Zenon DEF CyclesToPs, p, h, x
<1>4. ASSUME NEW c \in Nat, NEW d \in Nat, c < d
      PROVE  CyclesToPs(c, n) < CyclesToPs(d, n)
  <2>1. c + 1 \in Nat /\ c + 1 <= d
    BY <1>4
  <2>2. CyclesToPs(c + 1, n) <= CyclesToPs(d, n)
    BY <1>2, <2>1, Zenon
  <2>3. CyclesToPs(c, n) \in Nat /\ CyclesToPs(c + 1, n) \in Nat /\ CyclesToPs(d, n) \in Nat
    BY <1>1, <2>1, Zenon
  <2>. QED BY <1>3, <2>2, <2>3
<1>5. ASSUME NEW t \in Nat, NEW u \in Nat, t <= u
      PROVE  PsToCyclesCeil(t, n) <= PsToCyclesCeil(u, n)
  <2>. DEFINE x == PsToCyclesCeil(u, n)
  <2>1. x \in Nat /\ x <= x /\ CyclesToPs(x, n) \in Nat
    BY <1>1
  <2>. HIDE DEF x
  <2>2. u <= CyclesToPs(x, n)
    BY <1>1, <2>1, Zenon DEF x
  <2>3. t <= CyclesToPs(x, n)
    BY <1>5, <2>1, <2>2
  <2>. QED BY <1>1, <2>1, <2>3, Zenon DEF x
<1>6. ASSUME NEW t \in Nat PROVE PsToCyclesCeil(t, n) <= t
  <2>. DEFINE p == PS_PER_SEC
              h == Hz[n]
  <2>1. p \in Nat \ {0} /\ h \in Nat \ {0} /\ h <= p
    BY Constants, Zenon
  <2>. HIDE DEF p, h
  <2>2. t * p \in Nat /\ t * h \in Nat /\ t * h <= t * p
    BY <2>1
  <2>3. t <= (t * p) \div h
    BY <2>1, <2>2, QuotientBelow, Zenon
  <2>. QED BY <1>1, <2>3, Zenon DEF CyclesToPs, p, h
<1>. QED BY <1>1, <1>2, <1>4, <1>5, <1>6, Zenon

-------------------------------------------------------------------------------
(* Loops.  A recursive function that repeats a step until it is done, as   *)
(* the merge and the relaxation do.                                        *)

(* A loop that repeats step G until it is in D has a meaning, whether or   *)
(* not it ends.                                                            *)
LEMMA LoopExists ==
  ASSUME NEW S, NEW G \in [S -> S], NEW D \in SUBSET S
  PROVE  \E F : F = [x \in S |-> IF x \in D THEN x ELSE F[G[x]]]
<1>. DEFINE Closed(C) == /\ \A z \in D : <<z, z>> \in C
                         /\ \A x \in S \ D, z \in S : <<G[x], z>> \in C => <<x, z>> \in C
            R == {p \in S \X S : \A C \in SUBSET (S \X S) : Closed(C) => p \in C}
            Lim(x) == {z \in S : <<x, z>> \in R}
            Pick(L) == CHOOSE z : z \in L
            F == [x \in S |-> Pick(Lim(x))]
<1>1. \A C \in SUBSET (S \X S) : Closed(C) => R \subseteq C
  BY Zenon
<1>2. Closed(R)
  <2>1. \A z \in D : <<z, z>> \in R
    BY Zenon
  <2>2. ASSUME NEW x \in S \ D, NEW z \in S, <<G[x], z>> \in R
        PROVE  <<x, z>> \in R
    <3>1. ASSUME NEW C \in SUBSET (S \X S), Closed(C) PROVE <<x, z>> \in C
      <4>1. <<G[x], z>> \in C
        BY <2>2, <3>1
      <4>. QED BY <3>1, <4>1, Zenon
    <3>. QED BY <3>1, Zenon
  <2>. QED BY <2>1, <2>2, Zenon
<1>3. R \subseteq S \X S
  BY Zenon
<1>. HIDE DEF R
<1>4. ASSUME NEW x \in D, NEW z \in S, <<x, z>> \in R PROVE z = x
  <2>. SUFFICES ASSUME z # x PROVE FALSE
    BY Zenon
  <2>. DEFINE C == R \ {<<x, z>>}
  <2>1. C \in SUBSET (S \X S)
    BY <1>3, Zenon
  <2>2. Closed(C)
    <3>1. \A y \in D : <<y, y>> \in C
      BY <1>2, Zenon
    <3>2. ASSUME NEW y \in S \ D, NEW w \in S, <<G[y], w>> \in C PROVE <<y, w>> \in C
      <4>1. <<y, w>> \in R /\ y # x
        BY <1>2, <3>2, Zenon
      <4>. QED BY <4>1, Zenon
    <3>. QED BY <3>1, <3>2, Zenon
  <2>. QED BY <1>1, <1>4, <2>1, <2>2, Zenon
<1>5. ASSUME NEW x \in S \ D, NEW z \in S, <<x, z>> \in R PROVE <<G[x], z>> \in R
  <2>. SUFFICES ASSUME <<G[x], z>> \notin R PROVE FALSE
    BY Zenon
  <2>. DEFINE C == R \ {<<x, z>>}
  <2>1. C \in SUBSET (S \X S)
    BY <1>3, Zenon
  <2>2. Closed(C)
    <3>1. \A y \in D : <<y, y>> \in C
      BY <1>2, Zenon
    <3>2. ASSUME NEW y \in S \ D, NEW w \in S, <<G[y], w>> \in C PROVE <<y, w>> \in C
      <4>1. <<y, w>> \in R
        BY <1>2, <3>2, Zenon
      <4>2. <<y, w>> # <<x, z>>
        BY <3>2, Zenon
      <4>. QED BY <4>1, <4>2, Zenon
    <3>. QED BY <3>1, <3>2, Zenon
  <2>. QED BY <1>1, <1>5, <2>1, <2>2, Zenon
<1>6. ASSUME NEW x \in D PROVE Pick(Lim(x)) = x
  <2>1. x \in S /\ Lim(x) = {x}
    BY <1>2, <1>4
  <2>2. Pick({x}) = x
    BY Zenon
  <2>. HIDE DEF Lim, Pick
  <2>. QED BY <2>1, <2>2, Zenon
<1>7. ASSUME NEW x \in S, x \notin D PROVE Pick(Lim(x)) = Pick(Lim(G[x]))
  <2>1. Lim(x) = Lim(G[x])
    BY <1>2, <1>5, <1>7, Zenon
  <2>. HIDE DEF Lim, Pick
  <2>. QED BY <2>1, Zenon
<1>. HIDE DEF Lim, Pick
<1>8. \A x \in S : F[x] = Pick(Lim(x)) /\ G[x] \in S
  BY Zenon
<1>9. F = [x \in S |-> F[x]]
  BY Zenon
<1>. HIDE DEF F
<1>10. \A x \in S : F[x] = IF x \in D THEN x ELSE F[G[x]]
  BY <1>6, <1>7, <1>8, Zenon
<1>. QED BY <1>9, <1>10, Zenon

Loop(S, G, D, F) ==
  G \in [S -> S] /\ D \in SUBSET S /\ F = [x \in S |-> IF x \in D THEN x ELSE F[G[x]]]

Variant(S, G, D, I, W, M) ==
  /\ I \in SUBSET S /\ M \in [I -> FiniteSubsetsOf(W)]
  /\ \A x \in I : x \notin D => G[x] \in I /\ M[G[x]] \subseteq M[x] /\ M[G[x]] # M[x]

(* Such a loop ends, with its invariant, if every step leaves less to do.  *)
LEMMA LoopEnds ==
  ASSUME NEW S, NEW G, NEW D, NEW F, Loop(S, G, D, F),
         NEW I, NEW W, NEW M, Variant(S, G, D, I, W, M), NEW a \in I
  PROVE  F[a] \in I /\ F[a] \in D
<1>. USE DEF Loop, Variant
<1>. DEFINE Bad == {x \in I : ~(F[x] \in I /\ F[x] \in D)}
<1>. SUFFICES ASSUME Bad # {} PROVE FALSE
  BY Zenon
<1>. DEFINE left == {M[x] : x \in Bad}
<1>1. left \subseteq FiniteSubsetsOf(W) /\ left # {}
  BY SMTT(30)
<1>2. PICK m \in left : \A E \in left : ~(<<E, m>> \in StrictSubsetOrdering(W))
  <2>. HIDE DEF left
  <2>. QED BY <1>1, FS_StrictSubsetOrderingWellFounded, WFMin
<1>3. PICK x \in Bad : m = M[x]
  BY Zenon
<1>4. x \in I /\ x \in S
  BY Zenon
<1>5. CASE x \in D
  <2>1. F[x] = x
    BY <1>4, <1>5, Zenon
  <2>. QED BY <1>3, <1>4, <1>5, <2>1, Zenon
<1>6. CASE x \notin D
  <2>1. F[x] = F[G[x]] /\ G[x] \in I
    BY <1>4, <1>6, Zenon
  <2>2. G[x] \in Bad
    BY <1>3, <2>1, Zenon
  <2>3. M[G[x]] \in left /\ M[x] \in FiniteSubsetsOf(W) /\ M[G[x]] \in FiniteSubsetsOf(W)
    BY <1>4, <2>1, <2>2, Zenon
  <2>4. M[G[x]] \subseteq M[x] /\ M[G[x]] # M[x]
    BY <1>4, <1>6, Zenon
  <2>. QED BY <1>2, <1>3, <2>3, <2>4, Zenon DEF StrictSubsetOrdering, FiniteSubsetsOf
<1>. QED BY <1>5, <1>6, Zenon

-------------------------------------------------------------------------------
(* Least and greatest elements. *)

(* A set of numbers that is not empty has a least one.                     *)
LEMMA LeastNat ==
  ASSUME NEW S \in SUBSET Nat, S # {}
  PROVE  \E m \in S : \A x \in S : m <= x
<1>. DEFINE down == {0 .. n : n \in S}
<1>1. ASSUME NEW n \in S PROVE 0 .. n \in FiniteSubsetsOf(Nat)
  <2>1. IsFiniteSet(0 .. n) /\ 0 .. n \subseteq Nat
    BY FS_Interval
  <2>. QED BY <2>1, Zenon DEF FiniteSubsetsOf
<1>2. down \subseteq FiniteSubsetsOf(Nat) /\ down # {}
  BY <1>1, Zenon
<1>3. PICK D \in down : \A E \in down : ~(<<E, D>> \in StrictSubsetOrdering(Nat))
  <2>. HIDE DEF down
  <2>. QED BY <1>2, FS_StrictSubsetOrderingWellFounded, WFMin, Zenon
<1>4. PICK m \in S : D = 0 .. m
  BY Zenon
<1>5. ASSUME NEW n \in S, n < m PROVE FALSE
  <2>1. 0 .. n \in down /\ 0 .. n \in SUBSET Nat /\ 0 .. m \in SUBSET Nat
    OBVIOUS
  <2>2. 0 .. n \subseteq 0 .. m /\ m \in 0 .. m /\ m \notin 0 .. n
    BY <1>5
  <2>. HIDE DEF down
  <2>. QED BY <1>3, <1>4, <2>1, <2>2, Zenon DEF StrictSubsetOrdering
<1>6. \A n \in S : m <= n
  BY <1>5
<1>. QED BY <1>6, Zenon

(* Min is the least element of a set that is bounded below.                *)
LEMMA MinOf ==
  ASSUME NEW S \in SUBSET Int, S # {}, \A x \in S : x >= -1
  PROVE  Min(S) \in S /\ Min(S) \in Int /\ \A x \in S : Min(S) <= x
<1>. DEFINE U == {x + 1 : x \in S}
<1>1. U \in SUBSET Nat /\ U # {}
  <2>1. \A x \in S : x \in Int /\ x >= -1 /\ x + 1 \in Nat
    OBVIOUS
  <2>. QED BY <2>1, Zenon
<1>2. PICK m \in U : \A x \in U : m <= x
  <2>. HIDE DEF U
  <2>. QED BY <1>1, LeastNat, Zenon
<1>3. PICK y \in S : m = y + 1
  BY Zenon
<1>4. \A x \in S : y <= x
  BY <1>2, <1>3
<1>5. Min(S) \in S /\ \A x \in S : Min(S) <= x
  BY <1>4, Zenon DEF Min
<1>. QED BY <1>5, Zenon

(* Max is the greatest element of a bounded set.                           *)
LEMMA MaxOf ==
  ASSUME NEW b \in Nat, NEW S \in SUBSET (0 .. b), S # {}
  PROVE  Max(S) \in S /\ \A x \in S : x <= Max(S)
<1>. DEFINE U == {b - x : x \in S}
<1>1. U \in SUBSET Nat /\ U # {}
  <2>1. \A x \in S : b - x \in Nat
    OBVIOUS
  <2>. QED BY <2>1, Zenon
<1>2. PICK m \in U : \A x \in U : m <= x
  <2>. HIDE DEF U
  <2>. QED BY <1>1, LeastNat, Zenon
<1>3. PICK y \in S : m = b - y
  BY Zenon
<1>4. \A x \in S : x <= y
  <2>1. \A x \in S : b - x \in U /\ x \in Int
    OBVIOUS
  <2>. HIDE DEF U
  <2>2. \A x \in S : b - y <= b - x
    BY <1>2, <1>3, <2>1, Zenon
  <2>3. y \in Int
    OBVIOUS
  <2>. QED BY <2>1, <2>2, <2>3
<1>. QED BY <1>4, Zenon DEF Max

-------------------------------------------------------------------------------
(* The relaxation of known_ps. *)

(* Relax is the loop that repeats RelaxOnce until nothing changes.         *)
LEMMA RelaxLoop ==
  ASSUME NEW ex, NEW k0 \in [Nodes -> Nat],
         \A k \in [Nodes -> Nat] : RelaxOnce(k, ex) \in [Nodes -> Nat]
  PROVE  \E F : /\ F = [k \in [Nodes -> Nat] |->
                          IF k \in {j \in [Nodes -> Nat] : RelaxOnce(j, ex) = j} THEN k
                          ELSE F[[j \in [Nodes -> Nat] |-> RelaxOnce(j, ex)][k]]]
                /\ Relax(k0, ex) = F[k0]
<1>. DEFINE S == [Nodes -> Nat]
            G == [j \in S |-> RelaxOnce(j, ex)]
            D == {j \in S : RelaxOnce(j, ex) = j}
            Eq(F) == F = [k \in S |-> IF RelaxOnce(k, ex) = k THEN k ELSE F[RelaxOnce(k, ex)]]
            H == CHOOSE F : Eq(F)
<1>1. Relax(k0, ex) = H[k0]
  BY Zenon DEF Relax
<1>2. ASSUME NEW F
      PROVE  Eq(F) <=> F = [k \in S |-> IF k \in D THEN k ELSE F[G[k]]]
  <2>1. \A k \in S : (IF RelaxOnce(k, ex) = k THEN k ELSE F[RelaxOnce(k, ex)])
                       = (IF k \in D THEN k ELSE F[G[k]])
    BY Zenon
  <2>. QED BY <2>1, Zenon
<1>3. G \in [S -> S] /\ D \in SUBSET S
  BY Zenon
<1>4. \E F : F = [k \in S |-> IF k \in D THEN k ELSE F[G[k]]]
  <2>. HIDE DEF G, D, S
  <2>. QED BY <1>3, LoopExists
<1>5. Eq(H)
  <2>. HIDE DEF Eq, S, G, D
  <2>. QED BY <1>2, <1>4, Zenon
<1>. QED BY <1>1, <1>2, <1>5, Zenon

(* One round of the relaxation lowers the known time of a sleeping node,   *)
(* to what its peers can bring about, but not below where it stands.       *)
LEMMA RelaxStep ==
  ASSUME \A n \in Nodes : T(n) \in Nat, NEW ex, NEW k \in [Nodes -> Nat]
  PROVE  /\ RelaxOnce(k, ex) \in [Nodes -> Nat]
         /\ \A n \in Nodes :
              /\ ~Quiet(n, ex) => RelaxOnce(k, ex)[n] = k[n]
              /\ Quiet(n, ex) /\ k[n] >= T(n) =>
                   RelaxOnce(k, ex)[n] <= k[n] /\ RelaxOnce(k, ex)[n] >= T(n)
              /\ Quiet(n, ex) /\ RelaxOnce(k, ex)[n] = k[n] /\ k[n] > T(n) =>
                   \A ni \in NetsOf(n) : \A r \in NetNodes[ni] \ {n} :
                     k[n] <= SatAdd(k[r], Latency[ni])
<1>. DEFINE Via(n) == {k[n]} \cup UNION {{SatAdd(k[r], Latency[ni]) : r \in NetNodes[ni] \ {n}} :
                                           ni \in NetsOf(n)}
            m(n) == IF Quiet(n, ex) THEN Larger(Min(Via(n)), T(n)) ELSE k[n]
<1>1. RelaxOnce(k, ex) = [n \in Nodes |-> m(n)]
  BY Zenon DEF RelaxOnce
<1>2. ASSUME NEW n \in Nodes
      PROVE  /\ Min(Via(n)) \in Nat /\ Min(Via(n)) <= k[n]
             /\ \A ni \in NetsOf(n) : \A r \in NetNodes[ni] \ {n} :
                  Min(Via(n)) <= SatAdd(k[r], Latency[ni])
  <2>1. ASSUME NEW ni \in NetsOf(n), NEW r \in NetNodes[ni] \ {n}
        PROVE  SatAdd(k[r], Latency[ni]) \in Nat /\ SatAdd(k[r], Latency[ni]) \in Via(n)
    <3>1. r \in Nodes /\ Latency[ni] \in Nat /\ k[r] \in Nat
      BY Constants, Zenon DEF NetsOf
    <3>. QED BY <3>1, NeverNat DEF SatAdd
  <2>2. k[n] \in Nat /\ k[n] \in Via(n)
    BY Zenon
  <2>3. \A x \in Via(n) : x \in Nat
    BY <2>1, <2>2
  <2>. HIDE DEF Via
  <2>4. Via(n) \in SUBSET Int /\ Via(n) # {} /\ \A x \in Via(n) : x >= -1
    BY <2>2, <2>3
  <2>5. Min(Via(n)) \in Via(n) /\ \A x \in Via(n) : Min(Via(n)) <= x
    BY <2>4, MinOf, Zenon
  <2>. QED BY <2>1, <2>2, <2>3, <2>5, Zenon
<1>. HIDE DEF Via
<1>3. ASSUME NEW n \in Nodes
      PROVE  /\ m(n) \in Nat
             /\ ~Quiet(n, ex) => m(n) = k[n]
             /\ Quiet(n, ex) /\ k[n] >= T(n) => m(n) <= k[n] /\ m(n) >= T(n)
             /\ Quiet(n, ex) /\ m(n) = k[n] /\ k[n] > T(n) => m(n) = Min(Via(n))
  <2>1. T(n) \in Nat /\ k[n] \in Nat
    BY Zenon
  <2>. QED BY <1>2, <2>1 DEF Larger
<1>. HIDE DEF m
<1>4. \A n \in Nodes : RelaxOnce(k, ex)[n] = m(n)
  BY <1>1, Zenon
<1>5. RelaxOnce(k, ex) \in [Nodes -> Nat]
  BY <1>1, <1>3, Zenon
<1>. QED BY <1>2, <1>3, <1>4, <1>5

(* The pairs a relaxation may still lower are finitely many. *)
LEMMA BelowFinite ==
  ASSUME NEW k \in [Nodes -> Nat]
  PROVE  {p \in Nodes \X Nat : p[2] < k[p[1]]} \in FiniteSubsetsOf(Nodes \X Nat)
<1>. DEFINE B == {p \in Nodes \X Nat : p[2] < k[p[1]]}
            C(n) == {n} \X (0 .. k[n])
            U == UNION {C(n) : n \in Nodes}
<1>1. \A n \in Nodes : IsFiniteSet(C(n))
  <2>. SUFFICES ASSUME NEW n \in Nodes PROVE IsFiniteSet(C(n))
    BY Zenon
  <2>1. 0 \in Int /\ k[n] \in Int
    OBVIOUS
  <2>2. IsFiniteSet({n})
    BY FS_Singleton, Zenon
  <2>3. IsFiniteSet(0 .. k[n])
    BY ONLY <2>1, FS_Interval, Zenon
  <2>. QED BY <2>2, <2>3, FS_Product, Zenon
<1>2. IsFiniteSet({C(n) : n \in Nodes})
  <2>. HIDE DEF C
  <2>. DEFINE f == [n \in Nodes |-> C(n)]
  <2>1. f \in Surjection(Nodes, {C(n) : n \in Nodes})
    BY Zenon DEF Surjection
  <2>. QED BY <2>1, Constants, FS_Surjection, Zenon
<1>3. IsFiniteSet(U)
  <2>. DEFINE F == {C(n) : n \in Nodes}
  <2>1. \A X \in F : IsFiniteSet(X)
    BY <1>1, Zenon
  <2>. HIDE DEF F
  <2>2. IsFiniteSet(F)
    BY <1>2, Zenon DEF F
  <2>3. IsFiniteSet(UNION F)
    BY <2>1, <2>2, FS_UNION, Zenon
  <2>. QED BY <2>3, Zenon DEF F
<1>4. B \subseteq U
  OBVIOUS
<1>5. IsFiniteSet(B)
  <2>. HIDE DEF B, U
  <2>. QED BY <1>3, <1>4, FS_Subset, Zenon
<1>. QED BY <1>5, Zenon DEF FiniteSubsetsOf

(* What the relaxation returns: nothing later than it was given, and a     *)
(* sleeping node is bounded by every peer, one latency on.                 *)
LEMMA RelaxResult ==
  ASSUME \A n \in Nodes : T(n) \in Nat, NEW ex, NEW k0 \in [Nodes -> Nat],
         \A n \in Nodes : Quiet(n, ex) => k0[n] >= T(n)
  PROVE  /\ Relax(k0, ex) \in [Nodes -> Nat]
         /\ \A n \in Nodes :
              /\ Relax(k0, ex)[n] <= k0[n]
              /\ ~Quiet(n, ex) => Relax(k0, ex)[n] = k0[n]
              /\ Quiet(n, ex) => Relax(k0, ex)[n] >= T(n)
              /\ Quiet(n, ex) /\ Relax(k0, ex)[n] > T(n) =>
                   \A ni \in NetsOf(n) : \A r \in NetNodes[ni] \ {n} :
                     Relax(k0, ex)[n] <= SatAdd(Relax(k0, ex)[r], Latency[ni])
<1>. DEFINE S == [Nodes -> Nat]
            G == [j \in S |-> RelaxOnce(j, ex)]
            D == {j \in S : RelaxOnce(j, ex) = j}
            W == Nodes \X Nat
            I == {k \in S : \A n \in Nodes : /\ k[n] <= k0[n]
                                             /\ ~Quiet(n, ex) => k[n] = k0[n]
                                             /\ Quiet(n, ex) => k[n] >= T(n)}
            M == [k \in I |-> {p \in Nodes \X Nat : p[2] < k[p[1]]}]
<1>1. G \in [S -> S] /\ D \in SUBSET S /\ I \in SUBSET S
  BY RelaxStep, Zenon
<1>2. ASSUME NEW k \in I
      PROVE  /\ G[k] \in I
             /\ \A n \in Nodes : G[k][n] <= k[n]
  <2>1. k \in S /\ G[k] = RelaxOnce(k, ex) /\ RelaxOnce(k, ex) \in S
    BY RelaxStep, Zenon
  <2>2. ASSUME NEW n \in Nodes
        PROVE  /\ RelaxOnce(k, ex)[n] <= k[n] /\ RelaxOnce(k, ex)[n] <= k0[n]
               /\ ~Quiet(n, ex) => RelaxOnce(k, ex)[n] = k0[n]
               /\ Quiet(n, ex) => RelaxOnce(k, ex)[n] >= T(n)
    <3>1. k[n] \in Nat /\ k0[n] \in Nat /\ RelaxOnce(k, ex)[n] \in Nat
      BY <2>1, Zenon
    <3>2. /\ k[n] <= k0[n]
          /\ ~Quiet(n, ex) => k[n] = k0[n]
          /\ Quiet(n, ex) => k[n] >= T(n)
      BY Zenon
    <3>3. /\ ~Quiet(n, ex) => RelaxOnce(k, ex)[n] = k[n]
          /\ Quiet(n, ex) /\ k[n] >= T(n) =>
               RelaxOnce(k, ex)[n] <= k[n] /\ RelaxOnce(k, ex)[n] >= T(n)
      BY <2>1, RelaxStep, Zenon
    <3>. QED BY <3>1, <3>2, <3>3
  <2>. QED BY <2>1, <2>2, Zenon
<1>3. \A k \in I : M[k] \in FiniteSubsetsOf(W)
  BY BelowFinite, Zenon
<1>4. M \in [I -> FiniteSubsetsOf(W)]
  BY <1>3, Zenon
<1>5. ASSUME NEW k \in I, k \notin D
      PROVE  M[G[k]] \subseteq M[k] /\ M[G[k]] # M[k]
  <2>. DEFINE j == G[k]
  <2>1. j \in I /\ k \in S /\ j \in S /\ \A n \in Nodes : j[n] <= k[n]
    BY <1>1, <1>2, Zenon
  <2>2. j # k
    BY <1>5, <2>1, Zenon
  <2>. HIDE DEF j
  <2>3. PICK n \in Nodes : j[n] # k[n]
    BY <2>1, <2>2
  <2>4. j[n] \in Nat /\ k[n] \in Nat /\ j[n] < k[n]
    BY <2>1, <2>3
  <2>5. M[j] \subseteq M[k]
    <3>. SUFFICES ASSUME NEW p \in Nodes \X Nat, p[2] < j[p[1]] PROVE p[2] < k[p[1]]
      BY <2>1, Zenon
    <3>1. p[1] \in Nodes /\ p[2] \in Nat
      BY Zenon
    <3>2. j[p[1]] \in Nat /\ k[p[1]] \in Nat /\ j[p[1]] <= k[p[1]]
      BY <2>1, <3>1, Zenon
    <3>. QED BY <3>1, <3>2
  <2>6. <<n, j[n]>> \in M[k] /\ <<n, j[n]>> \notin M[j]
    BY <2>1, <2>4
  <2>. QED BY <2>5, <2>6, Zenon DEF j
<1>6. k0 \in I
  OBVIOUS
<1>7. PICK F : /\ F = [k \in S |-> IF k \in D THEN k ELSE F[G[k]]]
               /\ Relax(k0, ex) = F[k0]
  BY RelaxStep, RelaxLoop, Zenon
<1>8. F[k0] \in I /\ F[k0] \in D
  <2>. HIDE DEF S, G, D, W, I, M
  <2>1. Loop(S, G, D, F)
    BY <1>1, <1>7, Zenon DEF Loop
  <2>2. Variant(S, G, D, I, W, M)
    BY <1>1, <1>2, <1>4, <1>5, Zenon DEF Variant
  <2>. QED BY <1>6, <2>1, <2>2, LoopEnds, Zenon
<1>. DEFINE R == Relax(k0, ex)
<1>9. R \in I /\ R \in S /\ RelaxOnce(R, ex) = R
  BY <1>7, <1>8, Zenon
<1>. HIDE DEF R
<1>10. \A n \in Nodes :
         /\ R[n] <= k0[n]
         /\ ~Quiet(n, ex) => R[n] = k0[n]
         /\ Quiet(n, ex) => R[n] >= T(n)
         /\ Quiet(n, ex) /\ R[n] > T(n) =>
              \A ni \in NetsOf(n) : \A r \in NetNodes[ni] \ {n} : R[n] <= SatAdd(R[r], Latency[ni])
  BY <1>9, RelaxStep, Zenon
<1>. QED BY <1>9, <1>10, Zenon DEF R

-------------------------------------------------------------------------------
(* Merging. *)

(* The sequence p is what is left of q once some of its front is gone. *)
Rest(p, q) == \E c \in 0 .. Len(q) : Len(p) = Len(q) - c /\ \A i \in DOMAIN p : p[i] = q[c + i]

(* Dropping the first c elements of a sequence leaves the rest of it.      *)
LEMMA DropFront ==
  ASSUME NEW S, NEW s \in Seq(S), NEW c \in 0 .. Len(s)
  PROVE  /\ SubSeq(s, c + 1, Len(s)) \in Seq(S)
         /\ Len(SubSeq(s, c + 1, Len(s))) = Len(s) - c
         /\ DOMAIN SubSeq(s, c + 1, Len(s)) = 1 .. Len(s) - c
         /\ \A i \in 1 .. Len(s) - c : SubSeq(s, c + 1, Len(s))[i] = s[c + i]
         /\ Rest(SubSeq(s, c + 1, Len(s)), s)
<1>. DEFINE u == SubSeq(s, c + 1, Len(s))
<1>1. Len(s) \in Nat /\ c \in Nat /\ c <= Len(s) /\ DOMAIN s = 1 .. Len(s)
  OBVIOUS
<1>2. \A i \in c + 1 .. Len(s) : s[i] \in S
  BY <1>1
<1>3. /\ u \in Seq(S)
      /\ Len(u) = IF c + 1 <= Len(s) THEN Len(s) - (c + 1) + 1 ELSE 0
      /\ \A i \in 1 .. Len(s) - (c + 1) + 1 : u[i] = s[c + 1 + i - 1]
  BY <1>1, <1>2
<1>. HIDE DEF u
<1>4. Len(u) = Len(s) - c /\ Len(s) - (c + 1) + 1 = Len(s) - c
  <2>1. ASSUME NEW l \in Nat, c <= l
        PROVE  l - (c + 1) + 1 = l - c /\ (IF c + 1 <= l THEN l - (c + 1) + 1 ELSE 0) = l - c
    BY <1>1, <2>1
  <2>. QED BY <1>1, <1>3, <2>1, Zenon
<1>5. \A i \in 1 .. Len(s) - c : u[i] = s[c + i]
  <2>1. \A i \in 1 .. Len(s) - c : u[i] = s[c + 1 + i - 1]
    BY <1>3, <1>4, Zenon
  <2>2. \A i \in 1 .. Len(s) - c : c + 1 + i - 1 = c + i
    BY <1>1
  <2>. QED BY <2>1, <2>2, Zenon
<1>6. DOMAIN u = 1 .. Len(s) - c
  BY <1>3, <1>4
<1>7. Rest(u, s)
  BY <1>4, <1>5, <1>6, Zenon DEF Rest
<1>. QED BY <1>3, <1>4, <1>5, <1>6, <1>7, Zenon DEF u

(* The rest of a rest is a rest.                                           *)
LEMMA RestTransitive ==
  ASSUME NEW S, NEW p \in Seq(S), NEW q \in Seq(S), NEW r \in Seq(S), Rest(p, q), Rest(q, r)
  PROVE  Rest(p, r)
<1>1. PICK c \in 0 .. Len(q) : Len(p) = Len(q) - c /\ \A i \in DOMAIN p : p[i] = q[c + i]
  BY Zenon DEF Rest
<1>2. PICK d \in 0 .. Len(r) : Len(q) = Len(r) - d /\ \A i \in DOMAIN q : q[i] = r[d + i]
  BY Zenon DEF Rest
<1>3. /\ Len(p) \in Nat /\ Len(q) \in Nat /\ Len(r) \in Nat
      /\ DOMAIN p = 1 .. Len(p) /\ DOMAIN q = 1 .. Len(q)
  OBVIOUS
<1>4. c + d \in 0 .. Len(r) /\ Len(p) = Len(r) - (c + d)
  BY <1>1, <1>2, <1>3
<1>5. ASSUME NEW i \in DOMAIN p PROVE p[i] = r[(c + d) + i]
  <2>1. i \in Nat /\ i >= 1 /\ i <= Len(p) /\ c \in Nat /\ d \in Nat
    BY <1>3
  <2>2. c + i \in DOMAIN q
    BY <1>1, <1>3, <2>1
  <2>3. d + (c + i) = (c + d) + i
    BY <2>1
  <2>. QED BY <1>1, <1>2, <2>2, <2>3, Zenon
<1>. QED BY <1>4, <1>5, Zenon DEF Rest

(* A net with other drives. *)
LEMMA NetOwn ==
  ASSUME NEW ni \in Nets, NEW g \in GpioNet(ni), NEW own \in [NetNodes[ni] -> Own]
  PROVE  /\ [g EXCEPT !.own = own] \in GpioNet(ni)
         /\ [g EXCEPT !.own = own].deliveries = g.deliveries
         /\ [g EXCEPT !.own = own].base = g.base
         /\ [g EXCEPT !.own = own].next = g.next
BY Zenon DEF GpioNet

(* Putting drives on a net leaves what it has queued, and at most adds one *)
(* level change, a latency after them.                                     *)
LEMMA ApplyResult ==
  ASSUME NEW ni \in Nets, NEW g \in GpioNet(ni), NEW t \in Nat,
         NEW ch, \A n \in DOMAIN ch : ch[n] \in Own
  PROVE  /\ Apply(ni, g, t, ch) \in GpioNet(ni)
         /\ Apply(ni, g, t, ch).base = g.base /\ Apply(ni, g, t, ch).next = g.next
         /\ \/ Apply(ni, g, t, ch).deliveries = g.deliveries
            \/ \E l \in BOOLEAN : Apply(ni, g, t, ch).deliveries =
                                    Append(g.deliveries, [t_ps |-> t + Latency[ni], level |-> l])
<1>. DEFINE own == [n \in DOMAIN g.own |-> IF n \in DOMAIN ch THEN ch[n] ELSE g.own[n]]
            h == [g EXCEPT !.own = own]
            l == WireLevel(h, Pull[ni])
            e == [t_ps |-> t + Latency[ni], level |-> l]
            k == [h EXCEPT !.level = l, !.deliveries = Append(@, e)]
<1>1. g.own \in [NetNodes[ni] -> Own] /\ g.deliveries \in Seq(Delivery)
  BY Zenon DEF GpioNet
<1>2. own \in [NetNodes[ni] -> Own]
  BY <1>1, Zenon
<1>3. Apply(ni, g, t, ch) = IF l = g.level THEN h ELSE k
  BY Zenon DEF Apply
<1>4. l \in BOOLEAN
  BY Zenon DEF WireLevel, Resolve
<1>. HIDE DEF own, l
<1>5. e \in Delivery
  BY <1>4, Constants DEF Delivery
<1>6. h \in GpioNet(ni) /\ h.deliveries = g.deliveries /\ h.base = g.base /\ h.next = g.next
  BY <1>2, NetOwn
<1>. HIDE DEF h
<1>7. k = [h EXCEPT !.level = l, !.deliveries = Append(g.deliveries, e)]
  BY <1>6, Zenon
<1>8. Append(g.deliveries, e) \in Seq(Delivery)
  <2>. HIDE DEF e
  <2>. QED BY <1>1, <1>5
<1>. DEFINE d == Append(g.deliveries, e)
<1>. HIDE DEF d, e
<1>9. /\ [h EXCEPT !.level = l, !.deliveries = d] \in GpioNet(ni)
      /\ [h EXCEPT !.level = l, !.deliveries = d].deliveries = d
      /\ [h EXCEPT !.level = l, !.deliveries = d].base = h.base
      /\ [h EXCEPT !.level = l, !.deliveries = d].next = h.next
  <2>1. d \in Seq(Delivery)
    BY <1>8, Zenon DEF d
  <2>2. l \in BOOLEAN /\ h \in GpioNet(ni)
    BY <1>4, <1>6, Zenon
  <2>. QED BY <2>1, <2>2, Zenon DEF GpioNet
<1>10. k \in GpioNet(ni) /\ k.deliveries = d /\ k.base = h.base /\ k.next = h.next
  BY <1>7, <1>9, Zenon DEF d
<1>. HIDE DEF k
<1>11. \E ll \in BOOLEAN : d = Append(g.deliveries, [t_ps |-> t + Latency[ni], level |-> ll])
  BY <1>4, Zenon DEF d, e
<1>. QED BY <1>3, <1>6, <1>10, <1>11, Zenon

InOrder(q) == \A n \in DOMAIN q : \A i, j \in DOMAIN q[n] : i <= j => q[n][i].t_ps <= q[n][j].t_ps

(* One round of a merge takes the changes of the earliest time. *)
LEMMA MergeFirstResult ==
  ASSUME NEW ni \in Nets, NEW s \in MergeState(ni), Fronts(s.pending) # {}
  PROVE  LET q == s.pending
             r == MergeFirst(ni, s)
             t == Min(Fronts(q))
         IN  /\ r \in MergeState(ni)
             /\ t \in Nat
             /\ \E n \in NetNodes[ni] : 1 \in DOMAIN q[n] /\ q[n][1].t_ps = t
             /\ InOrder(q) => \A n \in NetNodes[ni] : \A i \in DOMAIN q[n] : t <= q[n][i].t_ps
             /\ \A n \in NetNodes[ni] : Rest(r.pending[n], q[n])
             /\ \E n \in NetNodes[ni] : Len(r.pending[n]) < Len(q[n])
             /\ r.net.base = s.net.base /\ r.net.next = s.net.next
             /\ \/ r.net.deliveries = s.net.deliveries
                \/ \E l \in BOOLEAN : r.net.deliveries =
                     Append(s.net.deliveries, [t_ps |-> t + Latency[ni], level |-> l])
<1>. DEFINE q == s.pending
            t == Min(Fronts(q))
            at(n) == {i \in DOMAIN q[n] : \A j \in 1..i : q[n][j].t_ps = t}
            movers == {n \in DOMAIN q : at(n) # {}}
            changes == [n \in movers |-> q[n][Max(at(n))].own]
            left == [n \in DOMAIN q |-> SubSeq(q[n], Cardinality(at(n)) + 1, Len(q[n]))]
<1>1. s.net \in GpioNet(ni) /\ q \in [NetNodes[ni] -> Seq(Change)] /\ DOMAIN q = NetNodes[ni]
  BY Zenon DEF MergeState
<1>2. MergeFirst(ni, s) = [net |-> Apply(ni, s.net, t, changes), pending |-> left]
  BY Zenon DEF MergeFirst
<1>. HIDE DEF q
<1>3. ASSUME NEW n \in NetNodes[ni]
      PROVE  /\ q[n] \in Seq(Change) /\ Len(q[n]) \in Nat /\ DOMAIN q[n] = 1 .. Len(q[n])
             /\ q[n] # <<>> <=> 1 \in DOMAIN q[n]
             /\ \A i \in DOMAIN q[n] : q[n][i].t_ps \in Nat /\ q[n][i].own \in Own
  <2>1. q[n] \in Seq(Change)
    BY <1>1, Zenon
  <2>2. Len(q[n]) \in Nat /\ DOMAIN q[n] = 1 .. Len(q[n])
    BY <2>1
  <2>3. q[n] # <<>> <=> 1 \in DOMAIN q[n]
    BY <2>1, <2>2
  <2>4. \A i \in DOMAIN q[n] : q[n][i] \in Change
    BY <2>1
  <2>. QED BY <2>1, <2>2, <2>3, <2>4, Zenon DEF Change
<1>4. \A x : x \in Fronts(q) <=> \E n \in NetNodes[ni] : 1 \in DOMAIN q[n] /\ x = q[n][1].t_ps
  BY <1>1, <1>3, Zenon DEF Fronts
<1>5. t \in Fronts(q) /\ \A x \in Fronts(q) : t <= x
  <2>1. Fronts(q) \in SUBSET Int /\ Fronts(q) # {} /\ \A x \in Fronts(q) : x >= -1
    BY <1>3, <1>4 DEF q
  <2>. QED BY <2>1, MinOf, Zenon
<1>. HIDE DEF t
<1>6. PICK f \in NetNodes[ni] : 1 \in DOMAIN q[f] /\ q[f][1].t_ps = t
  BY <1>4, <1>5, Zenon
<1>7. t \in Nat
  BY <1>3, <1>6, Zenon
<1>8. ASSUME InOrder(q), NEW n \in NetNodes[ni], NEW i \in DOMAIN q[n]
      PROVE  t <= q[n][i].t_ps
  <2>1. 1 \in DOMAIN q[n] /\ 1 <= i
    BY <1>3
  <2>2. q[n][1].t_ps <= q[n][i].t_ps
    BY <1>1, <1>8, <2>1, Zenon DEF InOrder
  <2>3. t <= q[n][1].t_ps
    BY <1>4, <1>5, <2>1, Zenon
  <2>. QED BY <1>3, <1>7, <2>1, <2>2, <2>3
<1>9. ASSUME NEW n \in NetNodes[ni]
      PROVE  /\ Cardinality(at(n)) \in 0 .. Len(q[n])
             /\ at(n) # {} => Cardinality(at(n)) > 0 /\ Max(at(n)) \in DOMAIN q[n]
  <2>1. at(n) \subseteq 1 .. Len(q[n]) /\ Len(q[n]) \in Nat
    BY <1>3, Zenon
  <2>. HIDE DEF at
  <2>2. IsFiniteSet(1 .. Len(q[n])) /\ Cardinality(1 .. Len(q[n])) = Len(q[n])
    <3>1. 1 \in Int /\ Len(q[n]) \in Int
      BY <2>1
    <3>2. /\ IsFiniteSet(1 .. Len(q[n]))
          /\ Cardinality(1 .. Len(q[n])) = IF 1 > Len(q[n]) THEN 0 ELSE Len(q[n]) - 1 + 1
      BY ONLY <3>1, FS_Interval, Zenon
    <3>. QED BY <2>1, <3>2
  <2>3. IsFiniteSet(at(n)) /\ Cardinality(at(n)) <= Len(q[n])
    BY <2>1, <2>2, FS_Subset
  <2>4. Cardinality(at(n)) \in Nat /\ (at(n) # {} => Cardinality(at(n)) # 0)
    BY <2>3, FS_CardinalityType, FS_EmptySet, Zenon
  <2>5. at(n) # {} => Max(at(n)) \in at(n)
    <3>1. at(n) \in SUBSET (0 .. Len(q[n]))
      BY <2>1
    <3>. QED BY <2>1, <3>1, MaxOf, Zenon
  <2>. QED BY <1>3, <2>1, <2>3, <2>4, <2>5
<1>10. at(f) # {}
  BY <1>6
<1>. HIDE DEF at
<1>11. ASSUME NEW n \in NetNodes[ni]
       PROVE  /\ left[n] \in Seq(Change) /\ Rest(left[n], q[n])
              /\ Len(left[n]) = Len(q[n]) - Cardinality(at(n))
  BY <1>1, <1>3, <1>9, DropFront, SMTT(30)
<1>12. left \in [NetNodes[ni] -> Seq(Change)]
  BY <1>1, <1>11, Zenon
<1>13. \A n \in DOMAIN changes : changes[n] \in Own
  BY <1>1, <1>3, <1>9, Zenon
<1>14. Len(left[f]) < Len(q[f])
  BY <1>3, <1>9, <1>10, <1>11
<1>. HIDE DEF left, changes
<1>. DEFINE a == Apply(ni, s.net, t, changes)
<1>15. /\ a \in GpioNet(ni)
       /\ a.base = s.net.base /\ a.next = s.net.next
       /\ \/ a.deliveries = s.net.deliveries
          \/ \E l \in BOOLEAN : a.deliveries =
                Append(s.net.deliveries, [t_ps |-> t + Latency[ni], level |-> l])
  BY <1>1, <1>7, <1>13, ApplyResult, Zenon
<1>. HIDE DEF a
<1>. DEFINE r == MergeFirst(ni, s)
<1>16. r = [net |-> a, pending |-> left]
  BY <1>2, Zenon DEF a
<1>. HIDE DEF r
<1>17. r \in MergeState(ni) /\ r.net = a /\ r.pending = left
  BY <1>12, <1>15, <1>16, Zenon DEF MergeState
<1>. QED BY <1>6, <1>7, <1>8, <1>11, <1>14, <1>15, <1>17, Zenon DEF r, q, t

(* MergeNet is the loop that repeats MergeFirst until nothing that waits   *)
(* is within the horizon.                                                  *)
LEMMA MergeLoop ==
  ASSUME NEW ni \in Nets, NEW g \in GpioNet(ni), NEW q \in [NetNodes[ni] -> Seq(Change)],
         NEW horizon \in Int
  PROVE  LET D == {s \in MergeState(ni) : \A t \in Fronts(s.pending) : t > horizon}
             G == [s \in MergeState(ni) |-> IF s \in D THEN s ELSE MergeFirst(ni, s)]
         IN  /\ G \in [MergeState(ni) -> MergeState(ni)]
             /\ \E F : /\ F = [s \in MergeState(ni) |-> IF s \in D THEN s ELSE F[G[s]]]
                       /\ MergeNet(ni, g, q, horizon) = F[[net |-> g, pending |-> q]]
<1>. DEFINE S == MergeState(ni)
            D == {s \in S : \A t \in Fronts(s.pending) : t > horizon}
            G == [s \in S |-> IF s \in D THEN s ELSE MergeFirst(ni, s)]
            Eq(F) == F = [s \in S |-> IF \A t \in Fronts(s.pending) : t > horizon THEN s
                                      ELSE F[MergeFirst(ni, s)]]
            H == CHOOSE F : Eq(F)
<1>1. MergeNet(ni, g, q, horizon) = H[[net |-> g, pending |-> q]]
  BY Zenon DEF MergeNet
<1>2. ASSUME NEW F
      PROVE  Eq(F) <=> F = [s \in S |-> IF s \in D THEN s ELSE F[G[s]]]
  <2>. HIDE DEF S
  <2>1. \A s \in S : (IF \A t \in Fronts(s.pending) : t > horizon THEN s ELSE F[MergeFirst(ni, s)])
                       = (IF s \in D THEN s ELSE F[G[s]])
    BY Zenon
  <2>. QED BY <2>1, Zenon
<1>3. ASSUME NEW s \in S, s \notin D PROVE MergeFirst(ni, s) \in S
  <2>1. Fronts(s.pending) # {}
    BY <1>3, Zenon
  <2>. QED BY <2>1, MergeFirstResult, Zenon
<1>4. G \in [S -> S] /\ D \in SUBSET S
  <2>. HIDE DEF S
  <2>. QED BY <1>3, Zenon
<1>5. \E F : F = [s \in S |-> IF s \in D THEN s ELSE F[G[s]]]
  <2>. HIDE DEF G, D, S
  <2>. QED BY <1>4, LoopExists
<1>6. Eq(H)
  <2>. HIDE DEF Eq, S, G, D
  <2>. QED BY <1>2, <1>5, Zenon
<1>7. H = [s \in S |-> IF s \in D THEN s ELSE H[G[s]]]
  <2>. HIDE DEF H
  <2>. QED BY <1>2, <1>6, Zenon
<1>. HIDE DEF H
<1>. QED BY <1>1, <1>4, <1>7, Zenon

(* What a net has queued, after merging changes of q at or before horizon. *)
Grown(ni, g, q, horizon, h) ==
  /\ h.base = g.base /\ h.next = g.next /\ Len(h.deliveries) >= Len(g.deliveries)
  /\ \A i \in DOMAIN g.deliveries : h.deliveries[i] = g.deliveries[i]
  /\ \A i \in DOMAIN h.deliveries : i > Len(g.deliveries) =>
       \E n \in NetNodes[ni] : \E j \in DOMAIN q[n] :
         q[n][j].t_ps <= horizon /\ h.deliveries[i].t_ps = q[n][j].t_ps + Latency[ni]

(* Deliveries are queued in order, before anything that is unmerged. *)
Queued(ni, d, q) ==
  /\ \A i, j \in DOMAIN d : i <= j => d[i].t_ps <= d[j].t_ps
  /\ \A i \in DOMAIN d : \A n \in NetNodes[ni] : \A j \in DOMAIN q[n] :
       d[i].t_ps <= q[n][j].t_ps + Latency[ni]

MergedSoFar(ni, g, q, horizon, s) ==
  /\ \A n \in NetNodes[ni] : Rest(s.pending[n], q[n])
  /\ Grown(ni, g, q, horizon, s.net)
  /\ Queued(ni, s.net.deliveries, s.pending)
  /\ s.pending = q => s.net = g

(* What is left of queues in order of time is in order of time, and was in *)
(* them.                                                                   *)
LEMMA RestInOrder ==
  ASSUME NEW ni \in Nets, NEW q \in [NetNodes[ni] -> Seq(Change)], InOrder(q),
         NEW p \in [NetNodes[ni] -> Seq(Change)], \A n \in NetNodes[ni] : Rest(p[n], q[n])
  PROVE  /\ InOrder(p)
         /\ \A n \in NetNodes[ni] : \A i \in DOMAIN p[n] :
              \E j \in DOMAIN q[n] : p[n][i] = q[n][j]
<1>. SUFFICES ASSUME NEW n \in NetNodes[ni]
              PROVE  /\ \A i, j \in DOMAIN p[n] : i <= j => p[n][i].t_ps <= p[n][j].t_ps
                     /\ \A i \in DOMAIN p[n] : \E j \in DOMAIN q[n] : p[n][i] = q[n][j]
  BY Zenon DEF InOrder
<1>1. /\ p[n] \in Seq(Change) /\ q[n] \in Seq(Change)
      /\ Len(p[n]) \in Nat /\ DOMAIN p[n] = 1 .. Len(p[n])
      /\ Len(q[n]) \in Nat /\ DOMAIN q[n] = 1 .. Len(q[n])
  OBVIOUS
<1>2. PICK c \in 0 .. Len(q[n]) : /\ Len(p[n]) = Len(q[n]) - c
                                  /\ \A i \in DOMAIN p[n] : p[n][i] = q[n][c + i]
  BY Zenon DEF Rest
<1>3. \A i \in DOMAIN p[n] : i \in Nat /\ c + i \in DOMAIN q[n]
  BY <1>1, <1>2
<1>4. \A i, j \in DOMAIN q[n] : i <= j => q[n][i].t_ps <= q[n][j].t_ps
  BY Zenon DEF InOrder
<1>5. ASSUME NEW i \in DOMAIN p[n], NEW j \in DOMAIN p[n], i <= j
      PROVE  p[n][i].t_ps <= p[n][j].t_ps
  <2>1. c + i <= c + j
    BY <1>3, <1>5
  <2>. QED BY <1>2, <1>3, <1>4, <2>1, Zenon
<1>. QED BY <1>2, <1>3, <1>5, Zenon

(* Every round of a merge keeps what is true so far. *)
LEMMA MergeStep ==
  ASSUME NEW ni \in Nets, NEW g \in GpioNet(ni), NEW q \in [NetNodes[ni] -> Seq(Change)],
         NEW horizon \in Int, InOrder(q),
         NEW s \in MergeState(ni), MergedSoFar(ni, g, q, horizon, s),
         ~(\A t \in Fronts(s.pending) : t > horizon)
  PROVE  MergedSoFar(ni, g, q, horizon, MergeFirst(ni, s))
<1>. DEFINE p == s.pending
            t == Min(Fronts(p))
            r == MergeFirst(ni, s)
<1>1. /\ p \in [NetNodes[ni] -> Seq(Change)] /\ s.net \in GpioNet(ni)
      /\ s.net.deliveries \in Seq(Delivery)
  BY Zenon DEF MergeState, GpioNet
<1>2. Fronts(p) # {}
  BY Zenon
<1>3. /\ r \in MergeState(ni)
      /\ t \in Nat
      /\ \E n \in NetNodes[ni] : 1 \in DOMAIN p[n] /\ p[n][1].t_ps = t
      /\ InOrder(p) => \A n \in NetNodes[ni] : \A i \in DOMAIN p[n] : t <= p[n][i].t_ps
      /\ \A n \in NetNodes[ni] : Rest(r.pending[n], p[n])
      /\ \E n \in NetNodes[ni] : Len(r.pending[n]) < Len(p[n])
      /\ r.net.base = s.net.base /\ r.net.next = s.net.next
      /\ \/ r.net.deliveries = s.net.deliveries
         \/ \E l \in BOOLEAN : r.net.deliveries =
              Append(s.net.deliveries, [t_ps |-> t + Latency[ni], level |-> l])
  BY <1>2, MergeFirstResult, Zenon
<1>4. \A n \in NetNodes[ni] : Rest(p[n], q[n])
  BY Zenon DEF MergedSoFar
<1>5. InOrder(p) /\ \A n \in NetNodes[ni] : \A i \in DOMAIN p[n] :
                      \E j \in DOMAIN q[n] : p[n][i] = q[n][j]
  BY <1>1, <1>4, RestInOrder, Zenon
<1>6. r.pending \in [NetNodes[ni] -> Seq(Change)] /\ r.net \in GpioNet(ni)
      /\ r.net.deliveries \in Seq(Delivery)
  BY <1>3, Zenon DEF MergeState, GpioNet
<1>7. \A n \in NetNodes[ni] : \A i \in DOMAIN r.pending[n] :
        \E j \in DOMAIN p[n] : r.pending[n][i] = p[n][j]
  BY <1>1, <1>3, <1>5, <1>6, RestInOrder, Zenon
<1>8. t <= horizon
  <2>1. PICK x \in Fronts(p) : ~(x > horizon)
    BY Zenon
  <2>2. PICK n \in NetNodes[ni] : p[n] # <<>> /\ x = p[n][1].t_ps
    BY <1>1, <2>1, Zenon DEF Fronts
  <2>3. p[n] \in Seq(Change) /\ 1 \in DOMAIN p[n]
    BY <1>1, <2>2
  <2>4. p[n][1] \in Change
    BY <2>3
  <2>5. x \in Nat
    BY <2>2, <2>4, Zenon DEF Change
  <2>6. t <= x
    BY <1>3, <1>5, <2>2, <2>3, Zenon
  <2>. QED BY <1>3, <2>1, <2>5, <2>6
<1>9. PICK f \in NetNodes[ni] : 1 \in DOMAIN p[f] /\ p[f][1].t_ps = t
  BY <1>3, Zenon
<1>10. PICK jf \in DOMAIN q[f] : q[f][jf].t_ps = t
  BY <1>5, <1>9
<1>. DEFINE d == s.net.deliveries
            e == r.net.deliveries
<1>11. /\ d \in Seq(Delivery) /\ e \in Seq(Delivery) /\ Len(d) \in Nat /\ Len(e) \in Nat
       /\ DOMAIN d = 1 .. Len(d) /\ DOMAIN e = 1 .. Len(e)
       /\ \A i \in DOMAIN d : d[i].t_ps \in Nat
       /\ \A i \in DOMAIN e : e[i].t_ps \in Nat
  <2>1. d \in Seq(Delivery) /\ e \in Seq(Delivery)
    BY <1>1, <1>6, Zenon
  <2>2. (\A i \in DOMAIN d : d[i] \in Delivery) /\ \A i \in DOMAIN e : e[i] \in Delivery
    BY <2>1
  <2>. QED BY <2>1, <2>2 DEF Delivery
<1>12. /\ Len(e) >= Len(d) /\ \A i \in DOMAIN d : i \in DOMAIN e /\ e[i] = d[i]
       /\ \A i \in DOMAIN e : i > Len(d) => e[i].t_ps = t + Latency[ni] /\ i = Len(d) + 1
  <2>1. CASE e = d
    BY <2>1, <1>11, SMTT(30)
  <2>2. ASSUME NEW l \in BOOLEAN, e = Append(d, [t_ps |-> t + Latency[ni], level |-> l])
        PROVE  <1>12
    <3>. DEFINE z == [t_ps |-> t + Latency[ni], level |-> l]
    <3>1. z.t_ps = t + Latency[ni]
      BY Zenon
    <3>. HIDE DEF z, d, e
    <3>2. e = Append(d, z)
      BY <2>2, Zenon DEF z
    <3>3. /\ Len(e) = Len(d) + 1 /\ e[Len(d) + 1] = z
          /\ \A i \in 1 .. Len(d) : e[i] = d[i]
      BY <1>11, <3>2, SMTT(30)
    <3>4. \A i \in DOMAIN e : i > Len(d) => i = Len(d) + 1
      BY <1>11, <3>3
    <3>. QED BY <1>11, <3>1, <3>3, <3>4
  <2>. QED BY <1>3, <2>1, <2>2, Zenon
<1>. HIDE DEF r, t, p
<1>13. Latency[ni] \in Nat
  BY Constants, Zenon
<1>14. Grown(ni, g, q, horizon, s.net) /\ Queued(ni, d, p)
  BY Zenon DEF MergedSoFar, p
<1>15. ASSUME NEW n \in NetNodes[ni], NEW i \in DOMAIN p[n]
       PROVE  p[n][i].t_ps \in Nat /\ t <= p[n][i].t_ps
  <2>1. p[n] \in Seq(Change)
    BY <1>1, Zenon
  <2>2. p[n][i] \in Change
    BY <2>1
  <2>. QED BY <1>3, <1>5, <2>2, Zenon DEF Change
<1>16. ASSUME NEW n \in NetNodes[ni], NEW j \in DOMAIN r.pending[n], NEW i \in DOMAIN e
       PROVE  e[i].t_ps <= r.pending[n][j].t_ps + Latency[ni]
  <2>1. PICK k \in DOMAIN p[n] : r.pending[n][j] = p[n][k]
    BY <1>7, Zenon
  <2>2. CASE i <= Len(d)
    <3>1. i \in DOMAIN d /\ e[i] = d[i]
      BY <1>11, <1>12, <2>2, SMTT(30)
    <3>. QED BY <1>14, <2>1, <3>1, Zenon DEF Queued
  <2>3. CASE i > Len(d)
    <3>1. e[i].t_ps = t + Latency[ni]
      BY <1>12, <2>3, Zenon
    <3>. QED BY <1>3, <1>13, <1>15, <2>1, <3>1, SMTT(30)
  <2>. QED BY <1>11, <2>2, <2>3
<1>17. ASSUME NEW i \in DOMAIN e, NEW j \in DOMAIN e, i <= j
       PROVE  e[i].t_ps <= e[j].t_ps
  <2>1. CASE j <= Len(d)
    <3>1. i \in DOMAIN d /\ j \in DOMAIN d /\ e[i] = d[i] /\ e[j] = d[j]
      BY <1>11, <1>12, <1>17, <2>1
    <3>. QED BY <1>14, <1>17, <3>1, Zenon DEF Queued
  <2>2. CASE j > Len(d) /\ i <= Len(d)
    <3>1. i \in DOMAIN d /\ e[i] = d[i] /\ e[j].t_ps = t + Latency[ni]
      BY <1>11, <1>12, <2>2
    <3>2. d[i].t_ps <= p[f][1].t_ps + Latency[ni]
      BY <1>9, <1>14, <3>1, Zenon DEF Queued
    <3>. QED BY <1>9, <3>1, <3>2, Zenon
  <2>3. CASE j > Len(d) /\ i > Len(d)
    <3>1. i = j
      BY <1>12, <2>3, Zenon
    <3>. QED BY <1>11, <3>1
  <2>. QED BY <1>11, <2>1, <2>2, <2>3
<1>18. Queued(ni, e, r.pending)
  BY <1>16, <1>17, Zenon DEF Queued
<1>19. Grown(ni, g, q, horizon, r.net)
  <2>1. /\ s.net.base = g.base /\ s.net.next = g.next /\ Len(d) >= Len(g.deliveries)
        /\ \A i \in DOMAIN g.deliveries : d[i] = g.deliveries[i]
        /\ \A i \in DOMAIN d : i > Len(g.deliveries) =>
             \E n \in NetNodes[ni] : \E j \in DOMAIN q[n] :
               q[n][j].t_ps <= horizon /\ d[i].t_ps = q[n][j].t_ps + Latency[ni]
    BY <1>14, Zenon DEF Grown
  <2>2. /\ g.deliveries \in Seq(Delivery) /\ Len(g.deliveries) \in Nat
        /\ DOMAIN g.deliveries = 1 .. Len(g.deliveries)
    BY DEF GpioNet
  <2>. HIDE DEF d, e
  <2>3. Len(e) >= Len(g.deliveries)
    <3>1. Len(e) \in Int /\ Len(d) \in Int /\ Len(e) >= Len(d) /\ Len(d) >= Len(g.deliveries)
      BY <1>11, <1>12, <2>1
    <3>2. Len(g.deliveries) \in Int
      BY <2>2
    <3>. QED BY <3>1, <3>2
  <2>4. \A i \in DOMAIN g.deliveries : e[i] = g.deliveries[i]
    <3>1. \A i \in DOMAIN g.deliveries : i \in DOMAIN d
      BY <1>11, <2>1, <2>2
    <3>. QED BY <1>12, <2>1, <3>1, Zenon
  <2>5. ASSUME NEW i \in DOMAIN e, i > Len(g.deliveries)
        PROVE  \E n \in NetNodes[ni] : \E j \in DOMAIN q[n] :
                 q[n][j].t_ps <= horizon /\ e[i].t_ps = q[n][j].t_ps + Latency[ni]
    <3>1. CASE i <= Len(d)
      <4>1. i \in DOMAIN d /\ e[i] = d[i]
        BY <1>11, <1>12, <3>1
      <4>. QED BY <2>1, <2>5, <4>1
    <3>2. CASE i > Len(d)
      BY <1>8, <1>10, <1>12, <3>2, Zenon
    <3>. QED BY <1>11, <3>1, <3>2, SMTT(30)
  <2>6. r.net.base = g.base /\ r.net.next = g.next
    BY <1>3, <2>1, Zenon
  <2>. QED BY <2>3, <2>4, <2>5, <2>6, Zenon DEF Grown, e
<1>20. ASSUME NEW n \in NetNodes[ni]
       PROVE  /\ Rest(r.pending[n], q[n])
              /\ Len(r.pending[n]) <= Len(p[n]) /\ Len(p[n]) <= Len(q[n])
              /\ Len(r.pending[n]) \in Nat /\ Len(p[n]) \in Nat /\ Len(q[n]) \in Nat
  <2>1. r.pending[n] \in Seq(Change) /\ p[n] \in Seq(Change) /\ q[n] \in Seq(Change)
    BY <1>1, <1>6, Zenon
  <2>2. Rest(r.pending[n], p[n]) /\ Rest(p[n], q[n])
    BY <1>3, <1>4, Zenon
  <2>3. Rest(r.pending[n], q[n])
    BY <2>1, <2>2, RestTransitive, Zenon
  <2>4. Len(r.pending[n]) \in Nat /\ Len(p[n]) \in Nat /\ Len(q[n]) \in Nat
    BY <2>1
  <2>5. Len(r.pending[n]) <= Len(p[n])
    BY <2>2, <2>4 DEF Rest
  <2>6. Len(p[n]) <= Len(q[n])
    BY <2>2, <2>4 DEF Rest
  <2>. QED BY <2>3, <2>4, <2>5, <2>6, Zenon
<1>21. PICK m \in NetNodes[ni] : Len(r.pending[m]) < Len(p[m])
  BY <1>3, Zenon
<1>22. r.pending # q
  BY <1>20, <1>21
<1>23. MergedSoFar(ni, g, q, horizon, r)
  BY <1>18, <1>19, <1>20, <1>22, Zenon DEF MergedSoFar
<1>. QED BY <1>23, Zenon DEF r

(* Whatever holds at first and is kept by every round holds of the merge,  *)
(* which ends: every round shortens a queue.                               *)
LEMMA MergeEnds ==
  ASSUME NEW ni \in Nets, NEW g \in GpioNet(ni), NEW q \in [NetNodes[ni] -> Seq(Change)],
         NEW horizon \in Int, NEW I \in SUBSET MergeState(ni), [net |-> g, pending |-> q] \in I,
         \A s \in I : ~(\A t \in Fronts(s.pending) : t > horizon) => MergeFirst(ni, s) \in I
  PROVE  LET r == MergeNet(ni, g, q, horizon)
         IN  r \in I /\ \A t \in Fronts(r.pending) : t > horizon
<1>. DEFINE S == MergeState(ni)
            D == {s \in S : \A t \in Fronts(s.pending) : t > horizon}
            G == [s \in S |-> IF s \in D THEN s ELSE MergeFirst(ni, s)]
            W == Nodes \X Nat
            len(s) == [n \in Nodes |-> IF n \in NetNodes[ni] THEN Len(s.pending[n]) ELSE 0]
            M == [s \in I |-> {p \in Nodes \X Nat : p[2] < len(s)[p[1]]}]
            s0 == [net |-> g, pending |-> q]
<1>1. ASSUME NEW s \in S
      PROVE  /\ s.pending \in [NetNodes[ni] -> Seq(Change)]
             /\ \A n \in NetNodes[ni] : Len(s.pending[n]) \in Nat
             /\ len(s) \in [Nodes -> Nat]
  <2>1. s.pending \in [NetNodes[ni] -> Seq(Change)]
    BY Zenon DEF MergeState
  <2>2. \A n \in NetNodes[ni] : Len(s.pending[n]) \in Nat
    BY <2>1
  <2>. QED BY <2>1, <2>2, Zenon
<1>2. \A s \in I : M[s] \in FiniteSubsetsOf(W)
  <2>. SUFFICES ASSUME NEW s \in I PROVE M[s] \in FiniteSubsetsOf(W)
    BY Zenon
  <2>1. len(s) \in [Nodes -> Nat]
    BY <1>1, Zenon
  <2>. HIDE DEF len
  <2>. QED BY <2>1, BelowFinite, Zenon
<1>3. M \in [I -> FiniteSubsetsOf(W)]
  <2>1. M = [s \in I |-> M[s]]
    BY Zenon
  <2>. HIDE DEF M, W
  <2>. QED BY <1>2, <2>1, Zenon
<1>4. D \in SUBSET S /\ I \in SUBSET S
  BY Zenon
<1>5. G \in [S -> S] /\ \E F : /\ F = [s \in S |-> IF s \in D THEN s ELSE F[G[s]]]
                               /\ MergeNet(ni, g, q, horizon) = F[s0]
  <2>1. /\ ni \in Nets /\ g \in GpioNet(ni) /\ q \in [NetNodes[ni] -> Seq(Change)]
        /\ horizon \in Int
    BY Zenon
  <2>. QED BY ONLY <2>1, MergeLoop
<1>6. PICK F : /\ F = [s \in S |-> IF s \in D THEN s ELSE F[G[s]]]
               /\ MergeNet(ni, g, q, horizon) = F[s0]
  BY <1>5, Zenon
<1>7. ASSUME NEW s \in I, s \notin D
      PROVE  /\ G[s] \in I
             /\ M[G[s]] \subseteq M[s] /\ M[G[s]] # M[s]
  <2>. DEFINE r == G[s]
  <2>1. s \in S /\ r = MergeFirst(ni, s) /\ r \in S /\ ~(\A t \in Fronts(s.pending) : t > horizon)
    BY <1>5, <1>7, Zenon
  <2>2. /\ \A n \in NetNodes[ni] : Rest(r.pending[n], s.pending[n])
        /\ \E n \in NetNodes[ni] : Len(r.pending[n]) < Len(s.pending[n])
    <3>1. Fronts(s.pending) # {}
      BY <2>1, Zenon
    <3>. QED BY <2>1, <3>1, MergeFirstResult, Zenon
  <2>. HIDE DEF r
  <2>3. r \in I
    BY <2>1, Zenon
  <2>4. len(r) \in [Nodes -> Nat] /\ len(s) \in [Nodes -> Nat]
    BY <1>1, <2>1, Zenon
  <2>5. \A n \in Nodes : len(r)[n] <= len(s)[n]
    <3>1. \A n \in NetNodes[ni] : Len(r.pending[n]) <= Len(s.pending[n])
      BY <1>1, <2>1, <2>2 DEF Rest
    <3>. QED BY <3>1
  <2>6. PICK m \in Nodes : len(r)[m] < len(s)[m]
    BY <2>2, Constants, Zenon
  <2>. DEFINE a == len(r)
              b == len(s)
  <2>7. M[r] = {p \in Nodes \X Nat : p[2] < a[p[1]]} /\ M[s] = {p \in Nodes \X Nat : p[2] < b[p[1]]}
    BY <2>3, Zenon
  <2>8. a \in [Nodes -> Nat] /\ b \in [Nodes -> Nat] /\ a[m] < b[m] /\ \A n \in Nodes : a[n] <= b[n]
    BY <2>4, <2>5, <2>6, Zenon
  <2>. HIDE DEF a, b, M
  <2>9. M[r] \subseteq M[s]
    <3>. SUFFICES ASSUME NEW p \in Nodes \X Nat, p[2] < a[p[1]] PROVE p[2] < b[p[1]]
      BY <2>7
    <3>1. p[1] \in Nodes /\ p[2] \in Nat
      BY Zenon
    <3>2. a[p[1]] \in Nat /\ b[p[1]] \in Nat /\ a[p[1]] <= b[p[1]]
      BY <2>8, <3>1, Zenon
    <3>. QED BY <3>1, <3>2
  <2>10. <<m, a[m]>> \in M[s] /\ <<m, a[m]>> \notin M[r]
    BY <2>7, <2>8
  <2>. QED BY <2>3, <2>9, <2>10, Zenon DEF r
<1>8. F[s0] \in I /\ F[s0] \in D
  <2>. HIDE DEF S, G, D, W, M, s0
  <2>1. Loop(S, G, D, F)
    BY <1>4, <1>5, <1>6, Zenon DEF Loop
  <2>2. Variant(S, G, D, I, W, M)
    BY <1>3, <1>4, <1>7, Zenon DEF Variant
  <2>3. s0 \in I
    BY Zenon DEF s0
  <2>. QED BY <2>1, <2>2, <2>3, LoopEnds, Zenon
<1>. QED BY <1>6, <1>8, Zenon

(* A merge: what is left is the rest of every queue and lies past the      *)
(* horizon, and the net has grown by the level changes of what was taken.  *)
LEMMA MergeResult ==
  ASSUME NEW ni \in Nets, NEW g \in GpioNet(ni), NEW q \in [NetNodes[ni] -> Seq(Change)],
         NEW horizon \in Int, InOrder(q), Queued(ni, g.deliveries, q)
  PROVE  LET r == MergeNet(ni, g, q, horizon)
         IN  /\ r \in MergeState(ni) /\ MergedSoFar(ni, g, q, horizon, r)
             /\ InOrder(r.pending)
             /\ \A n \in NetNodes[ni] : \A i \in DOMAIN r.pending[n] :
                  r.pending[n][i].t_ps > horizon
<1>. DEFINE I == {s \in MergeState(ni) : MergedSoFar(ni, g, q, horizon, s)}
            s0 == [net |-> g, pending |-> q]
            r == MergeNet(ni, g, q, horizon)
<1>1. s0 \in I
  <2>1. s0 \in MergeState(ni) /\ s0.net = g /\ s0.pending = q
    BY Zenon DEF MergeState
  <2>2. g.deliveries \in Seq(Delivery) /\ Len(g.deliveries) \in Nat
        /\ DOMAIN g.deliveries = 1 .. Len(g.deliveries)
    BY DEF GpioNet
  <2>3. Grown(ni, g, q, horizon, g)
    BY <2>2 DEF Grown
  <2>4. ASSUME NEW n \in NetNodes[ni] PROVE Rest(q[n], q[n])
    <3>1. Len(q[n]) \in Nat /\ DOMAIN q[n] = 1 .. Len(q[n])
      OBVIOUS
    <3>2. 0 \in 0 .. Len(q[n]) /\ Len(q[n]) = Len(q[n]) - 0 /\ \A i \in DOMAIN q[n] : 0 + i = i
      BY <3>1
    <3>. QED BY <3>2, Zenon DEF Rest
  <2>. HIDE DEF s0
  <2>5. MergedSoFar(ni, g, q, horizon, s0)
    BY <2>1, <2>3, <2>4, Zenon DEF MergedSoFar
  <2>. QED BY <2>1, <2>5, Zenon
<1>2. ASSUME NEW s \in I, ~(\A t \in Fronts(s.pending) : t > horizon) PROVE MergeFirst(ni, s) \in I
  <2>1. MergedSoFar(ni, g, q, horizon, MergeFirst(ni, s))
    BY <1>2, MergeStep, Zenon
  <2>2. Fronts(s.pending) # {}
    BY <1>2, Zenon
  <2>3. MergeFirst(ni, s) \in MergeState(ni)
    BY <2>2, MergeFirstResult, Zenon
  <2>. QED BY <2>1, <2>3, Zenon
<1>3. r \in I /\ \A t \in Fronts(r.pending) : t > horizon
  <2>1. I \in SUBSET MergeState(ni)
    BY Zenon
  <2>. HIDE DEF I
  <2>. QED BY <1>1, <1>2, <2>1, MergeEnds, Zenon
<1>4. r \in MergeState(ni) /\ MergedSoFar(ni, g, q, horizon, r) /\ \A t \in Fronts(r.pending) : t > horizon
  BY <1>3, Zenon
<1>. HIDE DEF r
<1>5. r.pending \in [NetNodes[ni] -> Seq(Change)] /\ InOrder(r.pending)
  <2>1. r.pending \in [NetNodes[ni] -> Seq(Change)]
    BY <1>4, Zenon DEF MergeState
  <2>. QED BY <1>4, <2>1, RestInOrder, Zenon DEF MergedSoFar
<1>6. ASSUME NEW n \in NetNodes[ni], NEW i \in DOMAIN r.pending[n]
       PROVE  r.pending[n][i].t_ps > horizon
  <2>1. r.pending[n] \in Seq(Change) /\ 1 \in DOMAIN r.pending[n] /\ 1 <= i
        /\ r.pending[n] # <<>>
    BY <1>5
  <2>2. r.pending[n][1].t_ps > horizon
    BY <1>4, <1>5, <2>1, Zenon DEF Fronts
  <2>3. r.pending[n][1].t_ps <= r.pending[n][i].t_ps
    BY <1>5, <2>1, Zenon DEF InOrder
  <2>4. r.pending[n][1] \in Change /\ r.pending[n][i] \in Change
    BY <2>1
  <2>. QED BY <2>2, <2>3, <2>4 DEF Change
<1>. QED BY <1>4, <1>5, <1>6, Zenon DEF r

-------------------------------------------------------------------------------
(* Deliveries. *)

(* The deliveries of a net that member n has not been given, and their     *)
(* times.                                                                  *)
Ahead(g, n) == {i \in DOMAIN g.deliveries : i > g.next[n] - g.base}

Awaited(g, n) == {g.deliveries[i].t_ps : i \in Ahead(g, n)}

SortedNet(g) == \A i, j \in DOMAIN g.deliveries : i <= j => g.deliveries[i].t_ps <= g.deliveries[j].t_ps

(* What a net holds: numbers, and times in its deliveries.                 *)
LEMMA NetTypes ==
  ASSUME NEW ni \in Nets, NEW g \in GpioNet(ni)
  PROVE  /\ g.deliveries \in Seq(Delivery) /\ Len(g.deliveries) \in Nat
         /\ DOMAIN g.deliveries = 1 .. Len(g.deliveries)
         /\ \A i \in DOMAIN g.deliveries : g.deliveries[i].t_ps \in Nat
         /\ g.base \in Nat /\ g.next \in [NetNodes[ni] -> Nat]
         /\ \A n : Awaited(g, n) \subseteq Nat
<1>1. /\ g.deliveries \in Seq(Delivery) /\ g.base \in Nat /\ g.next \in [NetNodes[ni] -> Nat]
  BY Zenon DEF GpioNet
<1>2. \A i \in DOMAIN g.deliveries : g.deliveries[i] \in Delivery
  BY <1>1
<1>3. \A i \in DOMAIN g.deliveries : g.deliveries[i].t_ps \in Nat
  BY <1>2, Zenon DEF Delivery
<1>4. Len(g.deliveries) \in Nat /\ DOMAIN g.deliveries = 1 .. Len(g.deliveries)
  BY <1>1, SMTT(30)
<1>. QED BY <1>1, <1>3, <1>4, Zenon DEF Awaited, Ahead

(* The first of the deliveries a member has not been given. *)
LEMMA UndeliveredResult ==
  ASSUME NEW ni \in Nets, NEW g \in GpioNet(ni), NEW n \in NetNodes[ni], g.base <= g.next[n]
  PROVE  /\ Undelivered(g, n) = <<>> => Awaited(g, n) = {}
         /\ Undelivered(g, n) # <<>> =>
              /\ g.next[n] - g.base < Len(g.deliveries)
              /\ Head(Undelivered(g, n)).t_ps \in Awaited(g, n)
              /\ Undelivered(g, n)[1].t_ps \in Awaited(g, n)
              /\ SortedNet(g) => \A u \in Awaited(g, n) : Head(Undelivered(g, n)).t_ps <= u
<1>. DEFINE d == g.deliveries
            k == g.next[n] - g.base
<1>1. /\ d \in Seq(Delivery) /\ Len(d) \in Nat /\ DOMAIN d = 1 .. Len(d) /\ k \in Nat
      /\ g.base \in Nat /\ g.next[n] \in Nat
  BY NetTypes
<1>2. Undelivered(g, n) = SubSeq(d, k + 1, Len(d)) /\ Ahead(g, n) = {i \in DOMAIN d : i > k}
  BY Zenon DEF Undelivered, Ahead
<1>3. Awaited(g, n) = {d[i].t_ps : i \in Ahead(g, n)}
  BY Zenon DEF Awaited
<1>4. SortedNet(g) => \A i, j \in DOMAIN d : i <= j => d[i].t_ps <= d[j].t_ps
  BY Zenon DEF SortedNet
<1>. HIDE DEF d, k
<1>5. CASE k >= Len(d)
  <2>1. Len(d) < k + 1
    BY <1>1, <1>5
  <2>2. Undelivered(g, n) = <<>>
    BY <1>1, <1>2, <2>1
  <2>3. Ahead(g, n) = {}
    BY <1>1, <1>2, <1>5
  <2>. QED BY <1>3, <2>2, <2>3, Zenon
<1>6. CASE k < Len(d)
  <2>1. k \in 0 .. Len(d) /\ 1 \in 1 .. Len(d) - k
    BY <1>1, <1>6
  <2>. DEFINE u == SubSeq(d, k + 1, Len(d))
  <2>2. u \in Seq(Delivery) /\ Len(u) = Len(d) - k /\ u[1] = d[k + 1]
    BY <1>1, <2>1, DropFront, Zenon
  <2>. HIDE DEF u
  <2>3. u # <<>> /\ Head(u) = d[k + 1]
    BY <1>1, <1>6, <2>2
  <2>4. k + 1 \in Ahead(g, n)
    BY <1>1, <1>2, <1>6
  <2>5. d[k + 1].t_ps \in Awaited(g, n)
    BY <1>3, <2>4, Zenon
  <2>6. ASSUME SortedNet(g), NEW x \in Awaited(g, n) PROVE d[k + 1].t_ps <= x
    <3>1. PICK i \in Ahead(g, n) : x = d[i].t_ps
      BY <1>3, Zenon
    <3>2. i \in DOMAIN d /\ k + 1 \in DOMAIN d /\ k + 1 <= i
      BY <1>1, <1>2, <1>6, <3>1
    <3>. QED BY <1>4, <2>6, <3>1, <3>2, Zenon
  <2>7. Undelivered(g, n) = u
    BY <1>2, Zenon DEF u
  <2>. QED BY <1>6, <2>2, <2>3, <2>5, <2>6, <2>7, Zenon DEF d, k
<1>. QED BY <1>1, <1>5, <1>6, SMTT(30)

(* Giving a member its first delivery takes nothing from the others, and   *)
(* what the net lets go has been given to all.                             *)
LEMMA ConsumeResult ==
  ASSUME NEW ni \in Nets, NEW g \in GpioNet(ni), NEW n \in NetNodes[ni],
         \A k \in NetNodes[ni] : g.base <= g.next[k], g.next[n] - g.base < Len(g.deliveries)
  PROVE  /\ Consume(g, n) \in GpioNet(ni)
         /\ \A k \in NetNodes[ni] : Consume(g, n).base <= Consume(g, n).next[k]
         /\ \A k \in NetNodes[ni] : Awaited(Consume(g, n), k) \subseteq Awaited(g, k)
         /\ Rest(Consume(g, n).deliveries, g.deliveries)
         /\ Consume(g, n).own = g.own /\ Consume(g, n).level = g.level
         /\ Consume(g, n).base + Len(Consume(g, n).deliveries) = g.base + Len(g.deliveries)
<1>. DEFINE nx == [g.next EXCEPT ![n] = @ + 1]
            m == Min({nx[k] : k \in DOMAIN nx})
            d == g.deliveries
            e == SubSeq(d, m - g.base + 1, Len(d))
            h1 == [g EXCEPT !.next = nx, !.base = m, !.deliveries = e]
            h2 == [g EXCEPT !.next = nx]
<1>1. /\ d \in Seq(Delivery) /\ Len(d) \in Nat /\ DOMAIN d = 1 .. Len(d)
      /\ g.base \in Nat /\ g.next \in [NetNodes[ni] -> Nat]
  BY NetTypes, Zenon
<1>2. Consume(g, n) = IF m - g.base >= Keep THEN h1 ELSE h2
  BY Zenon DEF Consume
<1>3. /\ nx \in [NetNodes[ni] -> Nat] /\ nx[n] = g.next[n] + 1
      /\ \A k \in NetNodes[ni] : nx[k] >= g.next[k]
  BY <1>1
<1>. HIDE DEF nx
<1>4. m \in Nat /\ \A k \in NetNodes[ni] : m <= nx[k] /\ m >= g.base
  <2>. DEFINE V == {nx[k] : k \in DOMAIN nx}
  <2>1. \A k \in NetNodes[ni] : nx[k] \in V /\ nx[k] >= g.base /\ nx[k] \in Nat
    BY <1>1, <1>3
  <2>2. V \in SUBSET Int /\ V # {} /\ \A x \in V : x >= -1 /\ x >= g.base /\ x \in Nat
    BY <1>3, <2>1
  <2>. HIDE DEF V
  <2>3. Min(V) \in V /\ \A x \in V : Min(V) <= x
    BY <2>2, MinOf, Zenon
  <2>4. m = Min(V)
    BY Zenon DEF V
  <2>. QED BY <2>1, <2>2, <2>3, <2>4, Zenon
<1>. HIDE DEF m
<1>5. m - g.base \in 0 .. Len(d)
  BY <1>1, <1>3, <1>4
<1>6. /\ e \in Seq(Delivery) /\ Len(e) = Len(d) - (m - g.base)
      /\ DOMAIN e = 1 .. Len(d) - (m - g.base)
      /\ \A i \in 1 .. Len(d) - (m - g.base) : e[i] = d[(m - g.base) + i]
      /\ Rest(e, d)
  <2>. DEFINE c == m - g.base
  <2>1. c \in 0 .. Len(d) /\ e = SubSeq(d, c + 1, Len(d))
    BY <1>5, Zenon
  <2>. HIDE DEF c, e, d
  <2>2. /\ e \in Seq(Delivery) /\ Len(e) = Len(d) - c /\ DOMAIN e = 1 .. Len(d) - c
        /\ \A i \in 1 .. Len(d) - c : e[i] = d[c + i]
        /\ Rest(e, d)
    BY <1>1, <2>1, DropFront, ZenonT(30)
  <2>. QED BY <2>2, Zenon DEF c
<1>. HIDE DEF e
<1>7. /\ h1 \in GpioNet(ni) /\ h1.deliveries = e /\ h1.base = m /\ h1.next = nx
      /\ h1.own = g.own /\ h1.level = g.level
  BY <1>3, <1>4, <1>6, Zenon DEF GpioNet
<1>8. /\ h2 \in GpioNet(ni) /\ h2.deliveries = d /\ h2.base = g.base /\ h2.next = nx
      /\ h2.own = g.own /\ h2.level = g.level
  BY <1>3, Zenon DEF GpioNet
<1>. HIDE DEF h1, h2
<1>9. Rest(d, d)
  <2>1. 0 \in 0 .. Len(d) /\ Len(d) = Len(d) - 0 /\ \A i \in DOMAIN d : 0 + i = i
    BY <1>1
  <2>. QED BY <2>1, Zenon DEF Rest
<1>10. ASSUME NEW k \in NetNodes[ni]
       PROVE  Awaited(h1, k) \subseteq Awaited(g, k) /\ Awaited(h2, k) \subseteq Awaited(g, k)
  <2>1. ASSUME NEW i \in DOMAIN e, i > nx[k] - m PROVE e[i].t_ps \in Awaited(g, k)
    <3>1. e[i] = d[(m - g.base) + i] /\ i \in Nat /\ i >= 1 /\ i <= Len(d) - (m - g.base)
      BY <1>1, <1>4, <1>6
    <3>2. (m - g.base) + i \in DOMAIN d
      BY <1>1, <1>4, <3>1, SMTT(30)
    <3>3. nx[k] \in Nat /\ g.next[k] \in Nat /\ nx[k] >= g.next[k]
      BY <1>1, <1>3, Zenon
    <3>4. (m - g.base) + i > g.next[k] - g.base
      BY <1>1, <1>4, <2>1, <3>1, <3>3, SMTT(30)
    <3>. QED BY <3>1, <3>2, <3>4, Zenon DEF Awaited, Ahead
  <2>2. ASSUME NEW i \in DOMAIN d, i > nx[k] - g.base PROVE d[i].t_ps \in Awaited(g, k)
    <3>1. nx[k] \in Nat /\ g.next[k] \in Nat /\ nx[k] >= g.next[k] /\ i \in Nat
      BY <1>1, <1>3
    <3>2. i > g.next[k] - g.base
      BY <1>1, <2>2, <3>1
    <3>. QED BY <3>2, Zenon DEF Awaited, Ahead
  <2>3. \A x \in Awaited(h1, k) : \E i \in DOMAIN e : i > nx[k] - m /\ x = e[i].t_ps
    BY <1>7, Zenon DEF Awaited, Ahead
  <2>4. \A x \in Awaited(h2, k) : \E i \in DOMAIN d : i > nx[k] - g.base /\ x = d[i].t_ps
    BY <1>8, Zenon DEF Awaited, Ahead
  <2>. HIDE DEF d
  <2>. QED BY <2>1, <2>2, <2>3, <2>4
<1>11. \A k \in NetNodes[ni] : g.base <= nx[k]
  BY <1>1, <1>3
<1>12. m + Len(e) = g.base + Len(d)
  BY <1>1, <1>4, <1>6
<1>. QED BY <1>2, <1>4, <1>6, <1>7, <1>8, <1>9, <1>10, <1>11, <1>12, Zenon

(* The first delivery over a node's nets. *)
Due == [cycle : Nat, net : Nat]

DueFor(d, n, nt) ==
  /\ \A ni \in NetsOf(n) : \A u \in Awaited(nt[ni], n) : d.cycle <= PsToCyclesCeil(u, n)
  /\ d # NoDue => /\ d.net \in NetsOf(n)
                  /\ \E u \in Awaited(nt[d.net], n) : d.cycle = PsToCyclesCeil(u, n)

(* A due that is computed anew is the first boundary at which something    *)
(* the node awaits is due.                                                 *)
LEMMA EarliestDueResult ==
  ASSUME NEW n \in Nodes, NEW nt, NEW cache, cache[n] = Unknown,
         \A ni \in NetsOf(n) : /\ nt[ni] \in GpioNet(ni) /\ SortedNet(nt[ni])
                               /\ nt[ni].base <= nt[ni].next[n]
  PROVE  /\ EarliestDue(n, nt, cache) \in Due /\ EarliestDue(n, nt, cache) # Unknown
         /\ DueFor(EarliestDue(n, nt, cache), n, nt)
<1>. DEFINE waiting == {ni \in NetsOf(n) : Undelivered(nt[ni], n) # <<>>}
            head(ni) == Head(Undelivered(nt[ni], n)).t_ps
            cycle(ni) == PsToCyclesCeil(head(ni), n)
            C == {cycle(ni) : ni \in waiting}
            first == Min(C)
            B == {ni \in waiting : cycle(ni) = first}
            e == EarliestDue(n, nt, cache)
<1>1. \A ni \in NetsOf(n) : n \in NetNodes[ni] /\ ni \in Nets /\ ni \in Nat \ {0}
  BY Constants, Zenon DEF NetsOf
<1>2. ASSUME NEW ni \in NetsOf(n)
      PROVE  /\ ni \notin waiting => Awaited(nt[ni], n) = {}
             /\ ni \in waiting => /\ head(ni) \in Awaited(nt[ni], n) /\ cycle(ni) \in Nat
                                  /\ \A u \in Awaited(nt[ni], n) : cycle(ni) <= PsToCyclesCeil(u, n)
             /\ \A u \in Awaited(nt[ni], n) : PsToCyclesCeil(u, n) \in Nat
  <2>1. Awaited(nt[ni], n) \subseteq Nat
    BY <1>1, NetTypes, Zenon
  <2>2. /\ ni \notin waiting => Awaited(nt[ni], n) = {}
        /\ ni \in waiting => /\ head(ni) \in Awaited(nt[ni], n)
                             /\ \A u \in Awaited(nt[ni], n) : head(ni) <= u
    BY <1>1, UndeliveredResult, Zenon
  <2>. HIDE DEF waiting, head
  <2>. QED BY <2>1, <2>2, Conversions, Zenon
<1>3. e = IF waiting = {} THEN NoDue ELSE [cycle |-> first, net |-> Min(B)]
  BY Zenon DEF EarliestDue
<1>4. waiting \subseteq NetsOf(n)
  BY Zenon
<1>. HIDE DEF waiting, e
<1>5. CASE waiting = {}
  <2>1. e = NoDue
    BY <1>3, <1>5, Zenon
  <2>2. e \in Due /\ e # Unknown
    BY <2>1, NeverNat, Zenon DEF NoDue, Unknown, Due
  <2>3. DueFor(e, n, nt)
    BY <1>2, <1>5, <2>1, Zenon DEF DueFor
  <2>. QED BY <2>2, <2>3, Zenon DEF e
<1>6. CASE waiting # {}
  <2>1. \A ni \in waiting : cycle(ni) \in Nat
    BY <1>2, <1>4, Zenon
  <2>. HIDE DEF cycle
  <2>2. first \in C /\ \A c \in C : first <= c
    <3>1. C \in SUBSET Int /\ C # {} /\ \A c \in C : c >= -1
      BY <1>6, <2>1
    <3>. HIDE DEF C
    <3>. QED BY <3>1, MinOf, Zenon
  <2>. HIDE DEF first
  <2>3. PICK b \in waiting : cycle(b) = first
    BY <2>2, Zenon
  <2>4. Min(B) \in B
    <3>1. B \in SUBSET Int /\ B # {} /\ \A b1 \in B : b1 >= -1
      BY <1>1, <1>4, <2>3
    <3>. HIDE DEF B
    <3>. QED BY <3>1, MinOf, Zenon
  <2>. DEFINE m == Min(B)
  <2>5. m \in waiting /\ m \in NetsOf(n) /\ cycle(m) = first /\ m \in Nat \ {0} /\ first \in Nat
    BY <1>1, <1>4, <2>1, <2>4, Zenon
  <2>6. e = [cycle |-> first, net |-> m]
    BY <1>3, <1>6, Zenon
  <2>. HIDE DEF m, B
  <2>7. e \in Due /\ e # Unknown /\ e.cycle = first /\ e.net = m
    BY <2>5, <2>6, Zenon DEF Due, Unknown
  <2>8. \A ni \in waiting : first <= cycle(ni)
    BY <2>2, Zenon
  <2>9. ASSUME NEW ni \in NetsOf(n), NEW u \in Awaited(nt[ni], n)
        PROVE  first <= PsToCyclesCeil(u, n)
    <3>1. ni \in waiting
      BY <1>2, Zenon
    <3>2. cycle(ni) <= PsToCyclesCeil(u, n) /\ PsToCyclesCeil(u, n) \in Nat
      BY <1>2, <3>1, Zenon DEF cycle
    <3>3. first <= cycle(ni) /\ cycle(ni) \in Nat
      BY <2>1, <2>8, <3>1, Zenon
    <3>4. first \in Nat
      BY <2>5, Zenon
    <3>. QED BY ONLY <3>2, <3>3, <3>4
  <2>10. head(m) \in Awaited(nt[m], n) /\ first = PsToCyclesCeil(head(m), n)
    BY <1>2, <2>5, Zenon DEF cycle
  <2>11. DueFor(e, n, nt)
    <3>. HIDE DEF head
    <3>. QED BY <2>5, <2>7, <2>9, <2>10, Zenon DEF DueFor
  <2>. QED BY <2>7, <2>11, Zenon DEF e
<1>. QED BY <1>5, <1>6, Zenon

(* The smallest latency is at most every one.                              *)
LEMMA MinLatencyNat == MinLatency \in Nat /\ \A ni \in Nets : MinLatency <= Latency[ni]
<1>. DEFINE S == {Latency[ni] : ni \in Nets}
<1>1. S \in SUBSET Int /\ S # {} /\ \A x \in S : x >= -1 /\ x \in Nat
  BY Constants
<1>2. MinLatency = Min(S) /\ \A ni \in Nets : Latency[ni] \in S
  BY Zenon DEF MinLatency
<1>. HIDE DEF S
<1>3. Min(S) \in S /\ \A x \in S : Min(S) <= x
  BY <1>1, MinOf, Zenon
<1>. QED BY <1>1, <1>2, <1>3, Zenon

-------------------------------------------------------------------------------
(* The invariant of the conservative horizon. *)

(* The boundary a node has passed for good: where it stands if it will     *)
(* never move again, else the boundary before that.                        *)
Passed(n) == IF health[n] = "ok" THEN prev[n] ELSE cyc[n]

(* A level change at time t would still reach node n in time.              *)
InTime(n, t) == PsToCyclesCeil(t, n) > Passed(n)

(* The times of the changes of net ni that no merge has seen. *)
Recorded(ni, n) == {CyclesToPs(ring[n][ni][i].cycle, n) : i \in DOMAIN ring[n][ni]}

Waiting(ni, n) == {pending[ni][n][i].t_ps : i \in DOMAIN pending[ni][n]}

Unmerged(ni) == UNION {Recorded(ni, n) \cup Waiting(ni, n) : n \in NetNodes[ni]}

(* A promise K gives every node a time up to which all its changes are     *)
(* recorded.  A node that is awake promises no more than where it stands.  *)
(* One that sleeps may promise more, if neither its event nor anything on  *)
(* its nets can wake it before: no delivery, no unmerged change, no change *)
(* a peer has not promised against.                                        *)
Kept(K, r, exclude) ==
  \/ K[r] <= T(r)
  \/ /\ wake[r] # 0 /\ K[r] < CyclesToPs(wake[r], r)
     /\ \A ni \in NetsOf(r) :
          /\ \A u \in Awaited(net[ni], r) : K[r] < u
          /\ \A x \in Unmerged(ni) : K[r] < x + Latency[ni]
          /\ \A p \in NetNodes[ni] \ ({r} \cup exclude) :
               health[p] = "ok" => K[r] <= K[p] + Latency[ni]

Sound(K, exclude) == \A r \in Nodes \ exclude : health[r] = "ok" => Kept(K, r, exclude)

(* No node has passed the arrival of a change that is still to come.       *)
Covers(K) ==
  \A ni \in Nets : \A n \in NetNodes[ni] : \A r \in NetNodes[ni] \ {n} :
    health[r] = "ok" => InTime(n, K[r] + Latency[ni])

HorizonInv == \E K \in [Nodes -> Nat] : Sound(K, {}) /\ Covers(K)

(* Nor the arrival of one that is recorded, or queued for delivery.        *)
ArrivalInv ==
  \A ni \in Nets : \A n \in NetNodes[ni] :
    /\ \A x \in Unmerged(ni) : InTime(n, x + Latency[ni])
    /\ \A u \in Awaited(net[ni], n) : InTime(n, u)

(* What the limit of the running node rests on. *)
Excluded == IF node \in Exact THEN {node} ELSE {}

LimitCovered(K) ==
  \A ni \in NetsOf(node) :
    /\ \A r \in NetNodes[ni] \ {node} :
         health[r] = "ok" => limit <= PsToCyclesCeil(K[r] + Latency[ni], node)
    /\ \A x \in Unmerged(ni) : limit <= PsToCyclesCeil(x + Latency[ni], node)
    /\ node \notin Exact =>
         limit <= PsToCyclesCeil(CyclesToPs(from, node) + Latency[ni], node)

LimitInv ==
  pc = "run" /\ ~hit /\ health[node] = "ok" =>
    \E K \in [Nodes -> Nat] : Sound(K, Excluded) /\ LimitCovered(K)

(* The types. *)
RingEntry == [cycle : Nat, own : Own]

TypeInv ==
  /\ cyc \in [Nodes -> Nat] /\ prev \in [Nodes -> Nat \cup {-1}]
  /\ DOMAIN ring = Nodes /\ \A n \in Nodes : ring[n] \in [NetsOf(n) -> Seq(RingEntry)]
  /\ wake \in [Nodes -> Nat] /\ health \in [Nodes -> {"ok", "halted", "broken"}]
  /\ DOMAIN net = Nets /\ \A ni \in Nets : net[ni] \in GpioNet(ni)
  /\ \A ni \in Nets : \A n \in NetNodes[ni] : net[ni].base <= net[ni].next[n]
  /\ DOMAIN pending = Nets /\ \A ni \in Nets : pending[ni] \in [NetNodes[ni] -> Seq(Change)]
  /\ due \in [Nodes -> Due]
  /\ pc \in {"idle", "visit", "run"} /\ node \in Nat /\ (pc = "run" => node \in Nodes)
  /\ until \in 0..Never /\ short \in BOOLEAN /\ hit \in BOOLEAN
  /\ start \in [Nodes -> Nat] /\ goal \in [Nodes -> Nat]
  /\ stalled \subseteq Nodes /\ failed \subseteq Nodes
  /\ quiet_ps \in [Nodes -> Nat \cup {-1}]
  /\ limit \in Nat /\ from \in Nat
  /\ now_ps \in Nat /\ end_ps \in 0..Never

(* Where a call and a visit stand. *)
NoneRecorded(n) == \A ni \in NetsOf(n) : ring[n][ni] = <<>>

CallInv ==
  /\ \A n \in Nodes : /\ prev[n] < cyc[n]
                      /\ wake[n] # 0 => wake[n] > cyc[n]
  /\ \A n \in stalled : health[n] # "ok"
  /\ \A n \in Nodes : pc # "run" \/ n # node => NoneRecorded(n)
  /\ pc = "run" => /\ from < limit /\ from <= cyc[node]
                   /\ ~hit /\ (node \in Exact \/ cyc[node] = from) => NoneRecorded(node)
  /\ pc # "idle" =>
       /\ \A n \in Nodes : goal[n] <= RoundGoal(n, until)
       /\ short => \A ni \in Nets : \A n \in NetNodes[ni] : until <= T(n) + MinLatency
       /\ ~short => \A n \in Nodes : pc # "run" \/ n # node =>
                      quiet_ps[n] = QuietUntil(n, wake[n])

(* The changes of a node are queued in the order they were made, and what  *)
(* a net has delivered comes before everything it has yet to see.          *)
QueueInv ==
  \A ni \in Nets :
    /\ \A n \in NetNodes[ni] :
         /\ \A i, j \in DOMAIN pending[ni][n] :
              i <= j => pending[ni][n][i].t_ps <= pending[ni][n][j].t_ps
         /\ \A i, j \in DOMAIN ring[n][ni] : i <= j => ring[n][ni][i].cycle <= ring[n][ni][j].cycle
         /\ \A x \in Waiting(ni, n) : x <= T(n) /\ \A y \in Recorded(ni, n) : x <= y
         /\ \A i \in DOMAIN ring[n][ni] : ring[n][ni][i].cycle <= cyc[n]
    /\ LET d == net[ni].deliveries
       IN  /\ \A i, j \in DOMAIN d : i <= j => d[i].t_ps <= d[j].t_ps
           /\ \A i \in DOMAIN d :
                /\ \A x \in Unmerged(ni) : d[i].t_ps <= x + Latency[ni]
                /\ \A r \in NetNodes[ni] : health[r] = "ok" => d[i].t_ps <= T(r) + Latency[ni]

(* A cached due is the first delivery the node awaits, and a node that     *)
(* runs has one.                                                           *)
DueInv ==
  /\ \A n \in Nodes : due[n] # Unknown => DueFor(due[n], n, net)
  /\ pc = "run" => due[node] # Unknown

(* Between visits an unmerged change lies after the time of some live      *)
(* member, or no member of its net will ever move.                         *)
FrontInv ==
  pc # "run" =>
    \A ni \in Nets : \A x \in Unmerged(ni) :
      \/ \E r \in NetNodes[ni] \ stalled : x > T(r)
      \/ \A r \in NetNodes[ni] : health[r] # "ok"

-------------------------------------------------------------------------------
(* Times and boundaries are numbers. *)
TypeFacts ==
  /\ \A n \in Nodes : T(n) \in Nat /\ Passed(n) \in Int /\ cyc[n] \in Nat /\ wake[n] \in Nat
  /\ \A ni \in Nets : Unmerged(ni) \subseteq Nat
  /\ \A ni \in Nets : \A n \in NetNodes[ni] : Awaited(net[ni], n) \subseteq Nat

(* In a state of the right type all times are numbers.                     *)
LEMMA Typed == TypeInv => TypeFacts
<1>. SUFFICES ASSUME TypeInv PROVE TypeFacts
  BY Zenon
<1>1. \A n \in Nodes : T(n) \in Nat /\ Passed(n) \in Int /\ cyc[n] \in Nat /\ wake[n] \in Nat
  <2>1. ASSUME NEW n \in Nodes
        PROVE  cyc[n] \in Nat /\ wake[n] \in Nat /\ prev[n] \in Int
    <3>1. cyc[n] \in Nat /\ wake[n] \in Nat /\ prev[n] \in Nat \cup {-1}
      BY Zenon DEF TypeInv
    <3>. QED BY <3>1
  <2>. QED BY <2>1, Conversions DEF T, Passed
<1>2. ASSUME NEW ni \in Nets, NEW n \in NetNodes[ni]
      PROVE  Recorded(ni, n) \subseteq Nat /\ Waiting(ni, n) \subseteq Nat
  <2>1. n \in Nodes /\ ni \in NetsOf(n)
    BY Constants, Zenon DEF NetsOf
  <2>2. ring[n][ni] \in Seq(RingEntry) /\ pending[ni][n] \in Seq(Change)
    BY <2>1, Zenon DEF TypeInv
  <2>3. \A i \in DOMAIN ring[n][ni] : ring[n][ni][i].cycle \in Nat
    <3>1. \A i \in DOMAIN ring[n][ni] : ring[n][ni][i] \in RingEntry
      BY <2>2
    <3>. QED BY <3>1, Zenon DEF RingEntry
  <2>4. \A i \in DOMAIN pending[ni][n] : pending[ni][n][i].t_ps \in Nat
    <3>1. \A i \in DOMAIN pending[ni][n] : pending[ni][n][i] \in Change
      BY <2>2
    <3>. QED BY <3>1, Zenon DEF Change
  <2>. QED BY <2>1, <2>3, <2>4, Conversions, Zenon DEF Recorded, Waiting
<1>3. \A ni \in Nets : Unmerged(ni) \subseteq Nat
  BY <1>2, Zenon DEF Unmerged
<1>4. \A ni \in Nets : \A n \in NetNodes[ni] : Awaited(net[ni], n) \subseteq Nat
  BY NetTypes, Zenon DEF TypeInv
<1>. QED BY <1>1, <1>3, <1>4, Zenon DEF TypeFacts

-------------------------------------------------------------------------------
(* The whole invariant, and the steps of a machine. *)
Inv ==
  /\ TypeInv /\ CallInv /\ QueueInv /\ DueInv /\ FrontInv
  /\ ArrivalInv /\ HorizonInv /\ LimitInv

-------------------------------------------------------------------------------
(* A delivery is handed to the running node. *)

(* It had come due, and is gone from what the node awaits; the net has     *)
(* lost nothing else that anybody awaits.                                  *)
LEMMA ApplyFacts ==
  ASSUME Inv, ApplyDue
  PROVE  /\ node \in Nodes /\ due[node].net \in NetsOf(node)
         /\ \E ni \in NetsOf(node) : \E u \in Awaited(net[ni], node) : u <= T(node)
         /\ DOMAIN net' = Nets
         /\ \A ni \in Nets :
              /\ net'[ni] \in GpioNet(ni) /\ (ni # due[node].net => net'[ni] = net[ni])
              /\ \A k \in NetNodes[ni] : /\ net'[ni].base <= net'[ni].next[k]
                                         /\ Awaited(net'[ni], k) \subseteq Awaited(net[ni], k)
              /\ Rest(net'[ni].deliveries, net[ni].deliveries)
              /\ net'[ni].own = net[ni].own /\ net'[ni].level = net[ni].level
              /\ net'[ni].base + Len(net'[ni].deliveries) = net[ni].base + Len(net[ni].deliveries)
<1>. DEFINE mi == due[node].net
<1>1. /\ TypeInv /\ DueInv /\ pc = "run" /\ node \in Nodes /\ cyc[node] \in Nat
      /\ due[node] # NoDue /\ due[node].cycle <= cyc[node]
      /\ net' = [net EXCEPT ![mi] = Consume(@, node)]
  BY Zenon DEF Inv, ApplyDue, TypeInv
<1>2. mi \in NetsOf(node) /\ \E u \in Awaited(net[mi], node) : due[node].cycle = PsToCyclesCeil(u, node)
  BY <1>1, Zenon DEF DueInv, DueFor
<1>3. PICK u \in Awaited(net[mi], node) : due[node].cycle = PsToCyclesCeil(u, node)
  BY <1>2, Zenon
<1>4. mi \in Nets /\ node \in NetNodes[mi]
  BY <1>2, Zenon DEF NetsOf
<1>5. /\ DOMAIN net = Nets /\ \A ni \in Nets : net[ni] \in GpioNet(ni)
      /\ \A ni \in Nets : \A n \in NetNodes[ni] : net[ni].base <= net[ni].next[n]
  BY <1>1, Zenon DEF TypeInv
<1>. HIDE DEF mi
<1>6. u \in Nat /\ u <= T(node)
  <2>1. u \in Nat
    BY <1>4, <1>5, NetTypes, Zenon
  <2>. QED BY <1>1, <1>3, <2>1, Conversions, Zenon DEF T
<1>7. net[mi].next[node] - net[mi].base < Len(net[mi].deliveries)
  BY <1>3, <1>4, <1>5, UndeliveredResult, Zenon
<1>8. DOMAIN net' = Nets /\ net'[mi] = Consume(net[mi], node) /\ \A ni \in Nets \ {mi} : net'[ni] = net[ni]
  BY <1>1, <1>4, <1>5, ZenonT(30)
<1>9. /\ net'[mi] \in GpioNet(mi)
      /\ \A k \in NetNodes[mi] : /\ net'[mi].base <= net'[mi].next[k]
                                 /\ Awaited(net'[mi], k) \subseteq Awaited(net[mi], k)
      /\ Rest(net'[mi].deliveries, net[mi].deliveries)
      /\ net'[mi].own = net[mi].own /\ net'[mi].level = net[mi].level
      /\ net'[mi].base + Len(net'[mi].deliveries) = net[mi].base + Len(net[mi].deliveries)
  BY <1>4, <1>5, <1>7, <1>8, ConsumeResult
<1>10. ASSUME NEW ni \in Nets \ {mi}
       PROVE  /\ net'[ni] \in GpioNet(ni) /\ net'[ni] = net[ni]
              /\ \A k \in NetNodes[ni] : /\ net'[ni].base <= net'[ni].next[k]
                                         /\ Awaited(net'[ni], k) \subseteq Awaited(net[ni], k)
              /\ Rest(net'[ni].deliveries, net[ni].deliveries)
              /\ net'[ni].own = net[ni].own /\ net'[ni].level = net[ni].level
              /\ net'[ni].base + Len(net'[ni].deliveries) = net[ni].base + Len(net[ni].deliveries)
  <2>1. net'[ni] = net[ni] /\ net[ni] \in GpioNet(ni)
    BY <1>5, <1>8, Zenon
  <2>2. /\ Len(net[ni].deliveries) \in Nat
        /\ DOMAIN net[ni].deliveries = 1 .. Len(net[ni].deliveries)
    BY <2>1, NetTypes, Zenon
  <2>3. Rest(net[ni].deliveries, net[ni].deliveries)
    <3>. SUFFICES /\ 0 \in 0 .. Len(net[ni].deliveries)
                  /\ Len(net[ni].deliveries) = Len(net[ni].deliveries) - 0
                  /\ \A i \in DOMAIN net[ni].deliveries :
                       net[ni].deliveries[i] = net[ni].deliveries[0 + i]
      BY Zenon DEF Rest
    <3>. QED BY <2>2
  <2>. QED BY <1>5, <2>1, <2>3, Zenon
<1>. QED BY <1>1, <1>2, <1>6, <1>8, <1>9, <1>10, Zenon DEF mi

-------------------------------------------------------------------------------
(* A node is let run. *)

(* Between visits everything recorded has been collected. *)
LEMMA FrontsFirst ==
  ASSUME TypeInv, QueueInv, NEW ni \in Nets
  PROVE  /\ Fronts(pending[ni]) \subseteq Nat
         /\ \A n \in NetNodes[ni] : \A x \in Waiting(ni, n) : \E t \in Fronts(pending[ni]) : t <= x
<1>. DEFINE q == pending[ni]
<1>1. q \in [NetNodes[ni] -> Seq(Change)]
  BY Zenon DEF TypeInv
<1>2. \A n \in NetNodes[ni] : \A i, j \in DOMAIN q[n] : i <= j => q[n][i].t_ps <= q[n][j].t_ps
  BY Zenon DEF QueueInv
<1>3. \A n \in NetNodes[ni] : Waiting(ni, n) = {q[n][i].t_ps : i \in DOMAIN q[n]}
  BY Zenon DEF Waiting
<1>. HIDE DEF q
<1>4. ASSUME NEW n \in NetNodes[ni], q[n] # <<>>
      PROVE  1 \in DOMAIN q[n] /\ q[n][1].t_ps \in Nat /\ \A i \in DOMAIN q[n] : i \in Nat /\ 1 <= i
  <2>1. q[n] \in Seq(Change)
    BY <1>1, Zenon
  <2>2. 1 \in DOMAIN q[n] /\ q[n][1] \in Change
    BY <1>4, <2>1
  <2>. QED BY <2>1, <2>2 DEF Change
<1>5. Fronts(q) = {q[n][1].t_ps : n \in {k \in NetNodes[ni] : q[k] # <<>>}}
  BY <1>1, Zenon DEF Fronts
<1>6. ASSUME NEW n \in NetNodes[ni], NEW x \in Waiting(ni, n)
      PROVE  \E t \in Fronts(q) : t <= x
  <2>1. PICK i \in DOMAIN q[n] : x = q[n][i].t_ps
    BY <1>3, Zenon
  <2>2. q[n] # <<>>
    BY <1>1, <2>1
  <2>. QED BY <1>2, <1>4, <1>5, <2>1, <2>2, Zenon
<1>. QED BY <1>4, <1>5, <1>6, Zenon DEF q

(* Between runs everything unmerged waits in a queue, behind the front of  *)
(* one.                                                                    *)
LEMMA VisitFacts ==
  ASSUME Inv, pc = "visit", NEW ni \in Nets
  PROVE  /\ Fronts(pending[ni]) \subseteq Nat
         /\ \A x \in Unmerged(ni) : x \in Nat /\ \E t \in Fronts(pending[ni]) : t <= x
<1>1. TypeInv /\ QueueInv /\ \A n \in NetNodes[ni] : n \in Nodes /\ ni \in NetsOf(n)
  BY Constants, Zenon DEF Inv, NetsOf
<1>2. \A n \in NetNodes[ni] : Recorded(ni, n) = {}
  <2>1. \A n \in NetNodes[ni] : ring[n][ni] = <<>>
    BY <1>1, Zenon DEF Inv, CallInv, NoneRecorded
  <2>. QED BY <2>1 DEF Recorded
<1>3. \A x \in Unmerged(ni) : \E n \in NetNodes[ni] : x \in Waiting(ni, n)
  BY <1>2, Zenon DEF Unmerged
<1>4. Unmerged(ni) \subseteq Nat
  BY <1>1, Typed, Zenon DEF TypeFacts
<1>. QED BY <1>1, <1>3, <1>4, FrontsFirst, Zenon

(* What quiet_bound leaves a sleeping node: nothing its nets hold against  *)
(* it.                                                                     *)
LEMMA QuietBoundResult ==
  ASSUME Inv, pc = "visit", NEW n \in Nodes
  PROVE  /\ QuietBound(n) \in Int /\ QuietBound(n) <= quiet_ps[n]
         /\ \A ni \in NetsOf(n) : /\ \A u \in Awaited(net[ni], n) : QuietBound(n) < u
                                  /\ \A x \in Unmerged(ni) : QuietBound(n) < x + Latency[ni]
<1>. DEFINE A == {ni \in NetsOf(n) : Undelivered(net[ni], n) # <<>>}
            B == {ni \in NetsOf(n) : Fronts(pending[ni]) # {}}
            head(ni) == Head(Undelivered(net[ni], n)).t_ps
            first(ni) == Min(Fronts(pending[ni]))
            S == {quiet_ps[n]} \cup {head(ni) - 1 : ni \in A}
                   \cup UNION {{t + Latency[ni] - 1 : t \in {first(ni)}} : ni \in B}
<1>1. \A ni \in NetsOf(n) : ni \in Nets /\ n \in NetNodes[ni] /\ Latency[ni] \in Nat \ {0}
  BY Constants, Zenon DEF NetsOf
<1>2. quiet_ps[n] \in Int /\ quiet_ps[n] >= -1
  <2>1. quiet_ps[n] \in Nat \cup {-1}
    BY Zenon DEF Inv, TypeInv
  <2>. QED BY <2>1
<1>3. ASSUME NEW ni \in NetsOf(n)
      PROVE  /\ Awaited(net[ni], n) \subseteq Nat /\ (ni \notin A => Awaited(net[ni], n) = {})
             /\ ni \in A => head(ni) \in Nat /\ \A u \in Awaited(net[ni], n) : head(ni) <= u
  <2>1. net[ni] \in GpioNet(ni) /\ net[ni].base <= net[ni].next[n] /\ SortedNet(net[ni])
    BY <1>1, Zenon DEF Inv, TypeInv, QueueInv, SortedNet
  <2>2. Awaited(net[ni], n) \subseteq Nat
    BY <1>1, <2>1, NetTypes, Zenon
  <2>. QED BY <1>1, <2>1, <2>2, UndeliveredResult, Zenon
<1>4. ASSUME NEW ni \in NetsOf(n)
      PROVE  /\ Unmerged(ni) \subseteq Nat /\ (ni \notin B => Unmerged(ni) = {})
             /\ ni \in B => first(ni) \in Nat /\ \A x \in Unmerged(ni) : first(ni) <= x
  <2>1. /\ Fronts(pending[ni]) \subseteq Nat
        /\ \A x \in Unmerged(ni) : x \in Nat /\ \E t \in Fronts(pending[ni]) : t <= x
    BY <1>1, VisitFacts, Zenon
  <2>2. ASSUME ni \in B
        PROVE  first(ni) \in Fronts(pending[ni]) /\ \A t \in Fronts(pending[ni]) : first(ni) <= t
    <3>. DEFINE F == Fronts(pending[ni])
    <3>1. F \subseteq Int /\ F # {} /\ \A t \in F : t >= -1
      BY <2>1, <2>2
    <3>. HIDE DEF F
    <3>2. Min(F) \in F /\ \A t \in F : Min(F) <= t
      BY <3>1, MinOf, Zenon
    <3>. QED BY <3>2, Zenon DEF F
  <2>3. ni \notin B => Unmerged(ni) = {}
    BY <2>1, Zenon
  <2>. HIDE DEF first, B
  <2>4. ASSUME ni \in B, NEW x \in Unmerged(ni) PROVE first(ni) <= x
    BY <2>1, <2>2, <2>4
  <2>. QED BY <2>1, <2>2, <2>3, <2>4, Zenon
<1>5. QuietBound(n) = Min(S)
  BY Zenon DEF QuietBound
<1>6. /\ \A ni \in A : ni \in NetsOf(n) /\ head(ni) \in Nat
      /\ \A ni \in B : ni \in NetsOf(n) /\ first(ni) \in Nat /\ Latency[ni] \in Nat
  BY <1>1, <1>3, <1>4, Zenon
<1>. HIDE DEF A, B, head, first
<1>7. S \subseteq Int /\ S # {} /\ \A x \in S : x >= -1
  BY <1>2, <1>6
<1>8. /\ quiet_ps[n] \in S /\ \A ni \in A : head(ni) - 1 \in S
      /\ \A ni \in B : first(ni) + Latency[ni] - 1 \in S
  BY Zenon
<1>. HIDE DEF S
<1>9. Min(S) \in Int /\ \A x \in S : Min(S) <= x
  BY <1>7, MinOf, Zenon
<1>10. ASSUME NEW ni \in NetsOf(n), NEW u \in Awaited(net[ni], n) PROVE Min(S) < u
  <2>1. ni \in A /\ u \in Nat /\ head(ni) \in Nat /\ head(ni) <= u /\ Min(S) <= head(ni) - 1
    BY <1>3, <1>8, <1>9, Zenon
  <2>. QED BY <1>9, <2>1
<1>11. ASSUME NEW ni \in NetsOf(n), NEW x \in Unmerged(ni) PROVE Min(S) < x + Latency[ni]
  <2>1. /\ ni \in B /\ x \in Nat /\ first(ni) \in Nat /\ first(ni) <= x /\ Latency[ni] \in Nat
        /\ Min(S) <= first(ni) + Latency[ni] - 1
    BY <1>1, <1>4, <1>8, <1>9
  <2>. QED BY <1>9, <2>1
<1>. QED BY <1>5, <1>8, <1>9, <1>10, <1>11, Zenon

(* What known_ps claims for a node is a promise it keeps. *)
LEMMA KnownPsResult ==
  ASSUME Inv, pc = "visit", ~short, NEW ex
  PROVE  KnownPs(ex) \in [Nodes -> Nat] /\ Sound(KnownPs(ex), ex)
<1>. DEFINE k0 == [n \in Nodes |-> IF n \in stalled \cup ex THEN Never
                                   ELSE IF Quiet(n, ex) THEN Larger(QuietBound(n), T(n))
                                   ELSE T(n)]
            K == Relax(k0, ex)
<1>1. /\ TypeInv /\ \A n \in Nodes : T(n) \in Nat /\ wake[n] \in Nat
      /\ \A n \in stalled : health[n] # "ok"
      /\ \A n \in Nodes : quiet_ps[n] = QuietUntil(n, wake[n])
  BY Typed, Zenon DEF Inv, TypeFacts, CallInv
<1>2. \A n \in Nodes : QuietBound(n) \in Int
  BY QuietBoundResult, Zenon
<1>3. /\ k0 \in [Nodes -> Nat] /\ \A n \in Nodes : Quiet(n, ex) => k0[n] >= T(n)
      /\ \A n \in Nodes : Quiet(n, ex) => k0[n] = Larger(QuietBound(n), T(n))
      /\ \A n \in Nodes \ (stalled \cup ex) : ~Quiet(n, ex) => k0[n] = T(n)
  <2>1. ASSUME NEW n \in Nodes
        PROVE  Larger(QuietBound(n), T(n)) \in Nat /\ Larger(QuietBound(n), T(n)) >= T(n)
    BY <1>1, <1>2 DEF Larger
  <2>. QED BY <1>1, <2>1, NeverNat, Zenon DEF Quiet
<1>. HIDE DEF k0
<1>4. /\ K \in [Nodes -> Nat]
      /\ \A n \in Nodes :
           /\ K[n] <= k0[n] /\ (~Quiet(n, ex) => K[n] = k0[n])
           /\ Quiet(n, ex) /\ K[n] > T(n) =>
                \A ni \in NetsOf(n) : \A r \in NetNodes[ni] \ {n} :
                  K[n] <= SatAdd(K[r], Latency[ni])
  BY <1>1, <1>3, RelaxResult, Zenon
<1>. HIDE DEF K
<1>5. ASSUME NEW r \in Nodes \ ex, health[r] = "ok"
      PROVE  Kept(K, r, ex)
  <2>1. r \notin stalled /\ K[r] \in Nat /\ k0[r] \in Nat /\ T(r) \in Nat /\ QuietBound(r) \in Int
    BY <1>1, <1>2, <1>3, <1>4, <1>5, Zenon
  <2>2. CASE K[r] <= T(r)
    BY <2>2, Zenon DEF Kept
  <2>3. CASE ~(K[r] <= T(r))
    <3>1. Quiet(r, ex) /\ K[r] > T(r)
      BY <1>3, <1>4, <2>1, <2>3, SMTT(30)
    <3>2. K[r] <= QuietBound(r)
      <4>1. K[r] <= k0[r] /\ k0[r] = Larger(QuietBound(r), T(r))
        BY <1>3, <1>4, <3>1, Zenon
      <4>. QED BY <2>1, <3>1, <4>1 DEF Larger
    <3>3. /\ QuietBound(r) <= quiet_ps[r]
          /\ \A ni \in NetsOf(r) : /\ \A u \in Awaited(net[ni], r) : QuietBound(r) < u
                                   /\ \A x \in Unmerged(ni) : QuietBound(r) < x + Latency[ni]
      BY QuietBoundResult, Zenon
    <3>4. wake[r] # 0 /\ K[r] < CyclesToPs(wake[r], r)
      <4>1. wake[r] \in Nat /\ CyclesToPs(wake[r], r) \in Nat /\ quiet_ps[r] = QuietUntil(r, wake[r])
        BY <1>1, Conversions, Zenon
      <4>2. quiet_ps[r] \in Int
        BY <4>1 DEF QuietUntil
      <4>3. K[r] <= quiet_ps[r] /\ quiet_ps[r] >= 0
        BY <2>1, <3>2, <3>3, <4>2, SMTT(30)
      <4>. QED BY <2>1, <4>1, <4>3 DEF QuietUntil
    <3>5. ASSUME NEW ni \in NetsOf(r)
          PROVE  /\ \A u \in Awaited(net[ni], r) : K[r] < u
                 /\ \A x \in Unmerged(ni) : K[r] < x + Latency[ni]
      <4>1. ni \in Nets /\ r \in NetNodes[ni] /\ Latency[ni] \in Nat
        BY Constants, Zenon DEF NetsOf
      <4>2. Awaited(net[ni], r) \subseteq Nat /\ Unmerged(ni) \subseteq Nat
        BY <1>1, <4>1, Typed, Zenon DEF TypeFacts
      <4>. QED BY <2>1, <3>2, <3>3, <4>1, <4>2
    <3>6. ASSUME NEW ni \in NetsOf(r), NEW p \in NetNodes[ni] \ ({r} \cup ex)
          PROVE  K[r] <= K[p] + Latency[ni]
      <4>1. K[r] <= SatAdd(K[p], Latency[ni])
        BY <1>4, <3>1, <3>6, Zenon
      <4>2. p \in Nodes /\ Latency[ni] \in Nat /\ K[p] \in Nat
        BY <1>4, <3>6, Constants, Zenon DEF NetsOf
      <4>. QED BY <2>1, <4>1, <4>2, NeverNat DEF SatAdd
    <3>. QED BY <3>4, <3>5, <3>6, Zenon DEF Kept
  <2>. QED BY <2>2, <2>3, Zenon
<1>6. KnownPs(ex) = K
  BY Zenon DEF KnownPs, K, k0
<1>. QED BY <1>4, <1>5, <1>6, Zenon DEF Sound

(* The horizon of a node lies one latency after everything it was taken    *)
(* from.                                                                   *)
LEMMA HorizonResult ==
  ASSUME Inv, pc = "visit", ~short, NEW n \in Nodes,
         NEW K \in [Nodes -> Nat], K = KnownPs(IF n \in Exact THEN {n} ELSE {})
  PROVE  /\ HorizonPs(n) \in 0 .. Never
         /\ \A ni \in NetsOf(n) :
              /\ \A r \in NetNodes[ni] \ {n} : HorizonPs(n) <= K[r] + Latency[ni]
              /\ \A t \in Fronts(pending[ni]) : HorizonPs(n) <= t + Latency[ni]
              /\ n \notin Exact => HorizonPs(n) <= T(n) + Latency[ni]
<1>. DEFINE own == IF n \in Exact THEN Never ELSE T(n)
            M(ni) == {own} \cup {K[r] : r \in NetNodes[ni] \ {n}} \cup Fronts(pending[ni])
            H == {Never} \cup {SatAdd(Min(M(ni)), Latency[ni]) : ni \in NetsOf(n)}
<1>1. HorizonPs(n) = Min(H)
  BY DEF HorizonPs
<1>2. T(n) \in Nat /\ own \in Nat /\ Never \in Nat
  BY NeverNat, Typed, Zenon DEF Inv, TypeFacts
<1>3. ASSUME NEW ni \in NetsOf(n)
      PROVE  /\ Min(M(ni)) \in Nat /\ Latency[ni] \in Nat /\ M(ni) \subseteq Nat
             /\ \A y \in M(ni) : Min(M(ni)) <= y
  <2>1. ni \in Nets /\ Latency[ni] \in Nat /\ NetNodes[ni] \subseteq Nodes
    BY Constants, Zenon DEF NetsOf
  <2>2. Fronts(pending[ni]) \subseteq Nat
    BY <2>1, VisitFacts, Zenon
  <2>3. M(ni) \subseteq Nat /\ M(ni) # {}
    BY <1>2, <2>1, <2>2, Zenon
  <2>. HIDE DEF M
  <2>4. M(ni) \subseteq Int /\ \A y \in M(ni) : y >= -1
    BY <2>3
  <2>5. Min(M(ni)) \in M(ni) /\ \A y \in M(ni) : Min(M(ni)) <= y
    BY <2>3, <2>4, MinOf, Zenon
  <2>. QED BY <2>1, <2>3, <2>5, Zenon
<1>4. \A ni \in NetsOf(n) : /\ own \in M(ni) /\ Fronts(pending[ni]) \subseteq M(ni)
                            /\ \A r \in NetNodes[ni] \ {n} : K[r] \in M(ni)
  BY Zenon
<1>5. n \notin Exact => own = T(n)
  BY Zenon
<1>. HIDE DEF M, own
<1>6. \A ni \in NetsOf(n) : SatAdd(Min(M(ni)), Latency[ni]) \in Nat
  BY <1>2, <1>3, SMTT(30) DEF SatAdd
<1>7. H \subseteq Int /\ H # {} /\ \A x \in H : x >= -1
  BY <1>2, <1>6
<1>8. Never \in H /\ \A ni \in NetsOf(n) : SatAdd(Min(M(ni)), Latency[ni]) \in H
  BY Zenon
<1>9. H \subseteq Nat
  BY <1>2, <1>6, Zenon
<1>. HIDE DEF H
<1>10. Min(H) \in Nat /\ \A x \in H : Min(H) <= x
  BY <1>7, <1>9, MinOf, Zenon
<1>11. Min(H) \in 0 .. Never
  BY <1>2, <1>8, <1>10
<1>12. ASSUME NEW ni \in NetsOf(n), NEW y \in M(ni) PROVE Min(H) <= y + Latency[ni]
  <2>1. Min(H) <= SatAdd(Min(M(ni)), Latency[ni])
    BY <1>8, <1>10, Zenon
  <2>2. Min(M(ni)) \in Nat /\ Latency[ni] \in Nat /\ y \in Nat /\ Min(M(ni)) <= y
    BY <1>3, Zenon
  <2>3. SatAdd(Min(M(ni)), Latency[ni]) <= Min(M(ni)) + Latency[ni]
    BY <2>2 DEF SatAdd
  <2>4. SatAdd(Min(M(ni)), Latency[ni]) \in Nat
    BY <1>6, Zenon
  <2>. QED BY <1>10, <2>1, <2>2, <2>3, <2>4
<1>. QED BY <1>1, <1>4, <1>5, <1>11, <1>12, ZenonT(30)

(* The limit a node is given is covered by promises its peers keep: what   *)
(* known_ps claims, or, in a call shorter than every latency, just where   *)
(* they stand.                                                             *)
LEMMA LimitResult ==
  ASSUME Inv, pc = "visit", NEW n \in Nodes
  PROVE  /\ Limit(n) \in Nat
         /\ health[n] = "ok" =>
              \E K \in [Nodes -> Nat] :
                /\ Sound(K, IF n \in Exact THEN {n} ELSE {})
                /\ \A ni \in NetsOf(n) :
                     /\ \A r \in NetNodes[ni] \ {n} :
                          health[r] = "ok" => Limit(n) <= PsToCyclesCeil(K[r] + Latency[ni], n)
                     /\ \A x \in Unmerged(ni) : Limit(n) <= PsToCyclesCeil(x + Latency[ni], n)
                     /\ n \notin Exact => Limit(n) <= PsToCyclesCeil(T(n) + Latency[ni], n)
<1>1. /\ TypeInv /\ goal[n] \in Nat /\ until \in 0 .. Never /\ Never \in Nat
      /\ goal[n] <= PsToCyclesCeil(until, n)
      /\ \A r \in Nodes : T(r) \in Nat
  BY NeverNat, Typed, Zenon DEF Inv, TypeInv, CallInv, RoundGoal, TypeFacts
<1>2. \A t \in Nat : /\ PsToCyclesCeil(t, n) \in Nat
                     /\ \A u \in Nat : t <= u => PsToCyclesCeil(t, n) <= PsToCyclesCeil(u, n)
  BY Conversions, Zenon
<1>3. \A ni \in NetsOf(n) : /\ ni \in Nets /\ n \in NetNodes[ni] /\ NetNodes[ni] \subseteq Nodes
                            /\ Latency[ni] \in Nat /\ MinLatency \in Nat /\ MinLatency <= Latency[ni]
                            /\ Unmerged(ni) \subseteq Nat
  BY <1>1, Constants, MinLatencyNat, Typed, Zenon DEF NetsOf, TypeFacts
<1>4. CASE short
  <2>1. Limit(n) = goal[n]
    BY <1>4, Zenon DEF Limit
  <2>2. \A t \in Nat : until <= t => Limit(n) <= PsToCyclesCeil(t, n)
    BY <1>1, <1>2, <2>1
  <2>. DEFINE K == [r \in Nodes |-> T(r)]
  <2>3. K \in [Nodes -> Nat] /\ \A r \in Nodes : K[r] = T(r) /\ K[r] <= T(r)
    BY <1>1
  <2>. HIDE DEF K
  <2>4. \A ex : Sound(K, ex)
    BY <2>3, Zenon DEF Sound, Kept
  <2>5. ASSUME NEW ni \in NetsOf(n), NEW r \in NetNodes[ni], NEW y \in Nat, T(r) <= y
        PROVE  Limit(n) <= PsToCyclesCeil(y + Latency[ni], n)
    <3>1. until <= T(r) + MinLatency
      BY <1>3, <1>4, Zenon DEF Inv, CallInv
    <3>2. until \in Nat /\ T(r) \in Nat /\ y + Latency[ni] \in Nat
      BY <1>1, <1>3, SMTT(30)
    <3>3. until <= y + Latency[ni]
      BY <1>3, <2>5, <3>1, <3>2
    <3>. QED BY <2>2, <3>2, <3>3, Zenon
  <2>6. ASSUME health[n] = "ok", NEW ni \in NetsOf(n), NEW x \in Unmerged(ni)
        PROVE  Limit(n) <= PsToCyclesCeil(x + Latency[ni], n)
    <3>1. PICK r \in NetNodes[ni] : x > T(r)
      BY <1>3, <2>6, Zenon DEF Inv, FrontInv
    <3>2. x \in Nat /\ T(r) \in Nat /\ T(r) <= x
      BY <1>1, <1>3, <3>1
    <3>. QED BY <2>5, <3>2, Zenon
  <2>7. \A ni \in NetsOf(n) : /\ \A r \in NetNodes[ni] : Limit(n) <= PsToCyclesCeil(K[r] + Latency[ni], n)
                              /\ Limit(n) <= PsToCyclesCeil(T(n) + Latency[ni], n)
    <3>1. ASSUME NEW ni \in NetsOf(n), NEW r \in NetNodes[ni]
          PROVE  Limit(n) <= PsToCyclesCeil(T(r) + Latency[ni], n) /\ K[r] = T(r)
      <4>1. r \in Nodes /\ T(r) \in Nat /\ T(r) <= T(r)
        BY <1>1, <1>3
      <4>. QED BY <2>3, <2>5, <4>1, Zenon
    <3>. QED BY <1>3, <3>1, Zenon
  <2>. QED BY <1>1, <2>1, <2>3, <2>4, <2>6, <2>7, Zenon
<1>5. CASE ~short
  <2>. DEFINE ex == IF n \in Exact THEN {n} ELSE {}
              h == HorizonPs(n)
  <2>1. PICK K \in [Nodes -> Nat] : K = KnownPs(ex) /\ Sound(K, ex)
    BY <1>5, KnownPsResult, Zenon
  <2>2. /\ h \in 0 .. Never
        /\ \A ni \in NetsOf(n) :
             /\ \A r \in NetNodes[ni] \ {n} : h <= K[r] + Latency[ni]
             /\ \A t \in Fronts(pending[ni]) : h <= t + Latency[ni]
             /\ n \notin Exact => h <= T(n) + Latency[ni]
    BY <1>5, <2>1, HorizonResult, Zenon
  <2>3. Limit(n) = IF h = Never THEN goal[n] ELSE Smaller(goal[n], PsToCyclesCeil(h, n))
    BY <1>5, Zenon DEF Limit
  <2>. HIDE DEF h
  <2>4. /\ h \in Nat /\ PsToCyclesCeil(h, n) \in Nat
        /\ PsToCyclesCeil(until, n) \in Nat /\ (h = Never => PsToCyclesCeil(until, n) <= PsToCyclesCeil(h, n))
    BY <1>1, <1>2, <2>2
  <2>5. Limit(n) \in Nat /\ Limit(n) <= PsToCyclesCeil(h, n)
    BY <1>1, <2>3, <2>4 DEF Smaller
  <2>6. \A y \in Nat : h <= y => Limit(n) <= PsToCyclesCeil(y, n)
    BY <1>2, <2>4, <2>5
  <2>7. ASSUME NEW ni \in NetsOf(n), NEW x \in Unmerged(ni)
        PROVE  Limit(n) <= PsToCyclesCeil(x + Latency[ni], n)
    <3>1. PICK t \in Fronts(pending[ni]) : t <= x
      BY <1>3, VisitFacts, Zenon
    <3>2. t \in Nat /\ x \in Nat /\ Latency[ni] \in Nat /\ h <= t + Latency[ni]
      BY <1>3, <2>2, VisitFacts, Zenon
    <3>3. h <= x + Latency[ni] /\ x + Latency[ni] \in Nat
      BY <2>4, <3>1, <3>2
    <3>. QED BY <2>6, <3>3, Zenon
  <2>8. \A ni \in NetsOf(n) :
          /\ \A r \in NetNodes[ni] \ {n} : Limit(n) <= PsToCyclesCeil(K[r] + Latency[ni], n)
          /\ n \notin Exact => Limit(n) <= PsToCyclesCeil(T(n) + Latency[ni], n)
    <3>1. \A ni \in NetsOf(n) : /\ \A r \in NetNodes[ni] : K[r] + Latency[ni] \in Nat
                                /\ T(n) + Latency[ni] \in Nat
      BY <1>1, <1>3
    <3>. QED BY <2>2, <2>6, <3>1, Zenon
  <2>. QED BY <2>1, <2>5, <2>7, <2>8, Zenon
<1>. QED BY <1>4, <1>5, Zenon

(* The scan finds a node that may run. *)
LEMMA EnteredNode ==
  ASSUME Inv, EnterRun
  PROVE  \E n \in Runnable : /\ node' = n /\ limit' = Limit(n) /\ from' = cyc[n]
                             /\ due' = [due EXCEPT ![n] = EarliestDue(n, net, due)]
<1>1. PICK able : able = Runnable /\ able # {} /\ \E n \in {NextOf(able)} :
            /\ node' = n /\ limit' = Limit(n) /\ from' = cyc[n]
            /\ due' = [due EXCEPT ![n] = EarliestDue(n, net, due)]
  BY Zenon DEF EnterRun
<1>2. able \subseteq Nat
  BY <1>1, Constants, Zenon DEF Runnable
<1>3. NextOf(able) \in able
  <2>. DEFINE later == {n \in able : n >= node}
  <2>1. later # {} => Min(later) \in able
    <3>1. later \subseteq able
      BY Zenon
    <3>. HIDE DEF later
    <3>2. later \subseteq Int /\ \A x \in later : x >= -1
      BY <1>2, <3>1
    <3>. QED BY <3>1, <3>2, MinOf, Zenon
  <2>2. Min(able) \in able
    <3>1. able \subseteq Int /\ \A x \in able : x >= -1
      BY <1>2
    <3>. QED BY <1>1, <3>1, MinOf, Zenon
  <2>3. (\E n \in able : n >= node) => later # {}
    BY Zenon
  <2>. QED BY <2>1, <2>2, <2>3, Zenon DEF NextOf
<1>. QED BY <1>1, <1>3, Zenon

-------------------------------------------------------------------------------
(* A run is over: its changes are collected and every net is merged.       *)

(* What waits to be merged once the node's changes are collected. *)
Collection(q) == q = IF Collected(node) THEN CollectEdges(node) ELSE pending

(* Collecting moves every change over in the order it was made. *)
LEMMA CollectResult ==
  ASSUME Inv, pc = "run", NEW q, Collection(q), NEW ni \in Nets
  PROVE  /\ q[ni] \in [NetNodes[ni] -> Seq(Change)] /\ InOrder(q[ni])
         /\ \A n \in NetNodes[ni] : \A i \in DOMAIN q[ni][n] :
              q[ni][n][i].t_ps \in Waiting(ni, n) \cup Recorded(ni, n)
<1>1. /\ TypeInv /\ QueueInv /\ node \in Nodes
      /\ \A n \in NetNodes[ni] : n \in Nodes /\ ni \in NetsOf(n)
  BY Constants, Zenon DEF Inv, TypeInv, NetsOf
<1>2. pending[ni] \in [NetNodes[ni] -> Seq(Change)]
  BY <1>1, Zenon DEF TypeInv
<1>3. ASSUME NEW n \in NetNodes[ni], q[ni][n] = pending[ni][n]
      PROVE  /\ q[ni][n] \in Seq(Change)
             /\ \A i, j \in DOMAIN q[ni][n] : i <= j => q[ni][n][i].t_ps <= q[ni][n][j].t_ps
             /\ \A i \in DOMAIN q[ni][n] : q[ni][n][i].t_ps \in Waiting(ni, n) \cup Recorded(ni, n)
  BY <1>1, <1>2, <1>3, Zenon DEF QueueInv, Waiting
<1>4. CASE ~Collected(node)
  <2>1. q = pending
    BY <1>4, Zenon DEF Collection
  <2>. QED BY <1>2, <1>3, <2>1, Zenon DEF InOrder
<1>5. CASE Collected(node)
  <2>. DEFINE p == pending[ni][node]
              s == ring[node][ni]
              e == [i \in DOMAIN s |-> [t_ps |-> CyclesToPs(s[i].cycle, node), own |-> s[i].own]]
  <2>1. q = CollectEdges(node)
    BY <1>5, Zenon DEF Collection
  <2>2. q[ni] = [k \in NetNodes[ni] |-> IF k # node THEN pending[ni][k] ELSE pending[ni][k] \o e]
    BY <2>1, Zenon DEF CollectEdges
  <2>3. ASSUME node \in NetNodes[ni]
        PROVE  /\ p \o e \in Seq(Change)
               /\ \A i, j \in DOMAIN (p \o e) : i <= j => (p \o e)[i].t_ps <= (p \o e)[j].t_ps
               /\ \A i \in DOMAIN (p \o e) :
                    (p \o e)[i].t_ps \in Waiting(ni, node) \cup Recorded(ni, node)
    <3>1. p \in Seq(Change) /\ s \in Seq(RingEntry)
      BY <1>1, <1>2, <2>3, Zenon DEF TypeInv
    <3>2. \A i \in DOMAIN s : s[i].cycle \in Nat /\ s[i].own \in Own
      <4>1. \A i \in DOMAIN s : s[i] \in RingEntry
        BY <3>1
      <4>. QED BY <4>1, Zenon DEF RingEntry
    <3>3. /\ \A i, j \in DOMAIN p : i <= j => p[i].t_ps <= p[j].t_ps
          /\ \A i, j \in DOMAIN s : i <= j => s[i].cycle <= s[j].cycle
          /\ \A x \in Waiting(ni, node) : \A y \in Recorded(ni, node) : x <= y
      BY <1>1, <2>3, Zenon DEF QueueInv
    <3>4. /\ \A i \in DOMAIN p : p[i].t_ps \in Waiting(ni, node)
          /\ \A i \in DOMAIN s : CyclesToPs(s[i].cycle, node) \in Recorded(ni, node)
      BY Zenon DEF Waiting, Recorded
    <3>. HIDE DEF s, p
    <3>5. \A i \in DOMAIN s : e[i] \in Change /\ e[i].t_ps = CyclesToPs(s[i].cycle, node)
      BY <1>1, <3>2, Conversions, Zenon DEF Change
    <3>6. DOMAIN e = DOMAIN s /\ DOMAIN s = 1 .. Len(s) /\ Len(s) \in Nat
      BY <3>1
    <3>7. e \in Seq(Change) /\ Len(e) = Len(s)
      <4>1. e = [i \in 1 .. Len(s) |-> e[i]]
        BY <3>6, Zenon
      <4>. HIDE DEF e
      <4>2. e \in [1 .. Len(s) -> Change]
        BY <3>5, <3>6, <4>1, Zenon
      <4>. QED BY <3>6, <4>2
    <3>8. \A i, j \in DOMAIN s : i <= j => e[i].t_ps <= e[j].t_ps
      BY <1>1, <3>2, <3>3, <3>5, Conversions, ZenonT(30)
    <3>. HIDE DEF e
    <3>9. /\ p \o e \in Seq(Change) /\ DOMAIN (p \o e) = 1 .. Len(p) + Len(e) /\ Len(p) \in Nat
          /\ DOMAIN p = 1 .. Len(p)
          /\ \A i \in DOMAIN p : (p \o e)[i] = p[i]
          /\ \A i \in DOMAIN (p \o e) : i > Len(p) => (p \o e)[i] = e[i - Len(p)]
      BY <3>1, <3>7
    <3>10. ASSUME NEW i \in DOMAIN (p \o e)
           PROVE  \/ i \in DOMAIN p /\ (p \o e)[i] = p[i]
                  \/ i > Len(p) /\ i - Len(p) \in DOMAIN s /\ (p \o e)[i] = e[i - Len(p)]
      BY <3>6, <3>7, <3>9
    <3>11. \A i \in DOMAIN (p \o e) :
             (p \o e)[i].t_ps \in Waiting(ni, node) \cup Recorded(ni, node)
      BY <3>4, <3>5, <3>10, Zenon
    <3>12. ASSUME NEW i \in DOMAIN (p \o e), NEW j \in DOMAIN (p \o e), i <= j
           PROVE  (p \o e)[i].t_ps <= (p \o e)[j].t_ps
      <4>1. CASE j \in DOMAIN p
        <5>1. i \in DOMAIN p
          BY <3>9, <3>12, <4>1
        <5>. QED BY <3>3, <3>9, <3>12, <4>1, <5>1, Zenon
      <4>2. CASE i \in DOMAIN p /\ j \notin DOMAIN p
        <5>1. j - Len(p) \in DOMAIN s /\ (p \o e)[j] = e[j - Len(p)] /\ (p \o e)[i] = p[i]
          BY <3>9, <3>10, <4>2, Zenon
        <5>. QED BY <3>3, <3>4, <3>5, <4>2, <5>1, Zenon
      <4>3. CASE i \notin DOMAIN p /\ j \notin DOMAIN p
        <5>1. /\ i - Len(p) \in DOMAIN s /\ (p \o e)[i] = e[i - Len(p)]
              /\ j - Len(p) \in DOMAIN s /\ (p \o e)[j] = e[j - Len(p)]
          BY <3>10, <4>3, Zenon
        <5>2. i - Len(p) <= j - Len(p)
          BY <3>9, <3>12
        <5>. QED BY <3>8, <5>1, <5>2, Zenon
      <4>4. i \notin DOMAIN p => j \notin DOMAIN p
        BY <3>9, <3>12
      <4>. QED BY <4>1, <4>2, <4>3, <4>4, Zenon
    <3>. QED BY <3>9, <3>11, <3>12, Zenon
  <2>4. \A n \in NetNodes[ni] : n # node => q[ni][n] = pending[ni][n]
    BY <2>2, Zenon
  <2>5. node \in NetNodes[ni] => q[ni][node] = p \o e
    BY <2>2, Zenon
  <2>. HIDE DEF p, e
  <2>6. ASSUME NEW n \in NetNodes[ni]
        PROVE  /\ q[ni][n] \in Seq(Change)
               /\ \A i, j \in DOMAIN q[ni][n] : i <= j => q[ni][n][i].t_ps <= q[ni][n][j].t_ps
               /\ \A i \in DOMAIN q[ni][n] : q[ni][n][i].t_ps \in Waiting(ni, n) \cup Recorded(ni, n)
    <3>1. CASE n # node
      BY <1>3, <2>4, <3>1, Zenon
    <3>2. CASE n = node
      BY <2>3, <2>5, <3>2, Zenon
    <3>. QED BY <3>1, <3>2, Zenon
  <2>7. DOMAIN q[ni] = NetNodes[ni] /\ q[ni] = [k \in NetNodes[ni] |-> q[ni][k]]
    BY <2>2, Zenon
  <2>. QED BY <2>6, <2>7, Zenon DEF InOrder
<1>. QED BY <1>4, <1>5, Zenon

(* A net is merged up to where the slowest member that is not out stands.  *)
LEMMA MergeHorizonResult ==
  ASSUME TypeInv, NEW ni \in Nets, NEW out
  PROVE  /\ MergeHorizon(ni, out) \in Int
         /\ \A r \in NetNodes[ni] \ out : MergeHorizon(ni, out) <= T(r)
         /\ \/ NetNodes[ni] \subseteq out
            \/ \E r \in NetNodes[ni] \ out : MergeHorizon(ni, out) = T(r)
<1>1. \A r \in NetNodes[ni] : T(r) \in Nat
  BY Typed, Constants, Zenon DEF TypeFacts
<1>2. CASE NetNodes[ni] \subseteq out
  BY <1>2 DEF MergeHorizon
<1>3. CASE ~(NetNodes[ni] \subseteq out)
  <2>. DEFINE S == {T(n) : n \in NetNodes[ni] \ out}
  <2>1. S \subseteq Nat /\ S # {}
    BY <1>1, <1>3, Zenon
  <2>2. \A r \in NetNodes[ni] \ out : T(r) \in S
    BY Zenon
  <2>3. \A x \in S : \E r \in NetNodes[ni] \ out : x = T(r)
    BY Zenon
  <2>4. MergeHorizon(ni, out) = Min(S)
    BY <1>3, Zenon DEF MergeHorizon
  <2>. HIDE DEF S
  <2>5. S \subseteq Int /\ \A x \in S : x >= -1
    BY <2>1
  <2>6. Min(S) \in S /\ Min(S) \in Int /\ \A x \in S : Min(S) <= x
    BY <2>1, <2>5, MinOf, Zenon
  <2>. QED BY <2>2, <2>3, <2>4, <2>6, Zenon
<1>. QED BY <1>2, <1>3, Zenon

(* Net ni has become g, with the queues p, and out are the nodes that its  *)
(* horizon leaves out of account.                                          *)
MergedAs(ni, out, g, p) ==
  /\ g \in GpioNet(ni) /\ p \in [NetNodes[ni] -> Seq(Change)]
  /\ g.base = net[ni].base /\ g.next = net[ni].next
  /\ InOrder(p) /\ SortedNet(g)
  /\ \A n \in NetNodes[ni] : \A i \in DOMAIN p[n] :
       /\ p[n][i].t_ps \in Waiting(ni, n) \cup Recorded(ni, n)
       /\ (\E r \in NetNodes[ni] \ out : p[n][i].t_ps > T(r)) \/ NetNodes[ni] \subseteq out
       /\ \A k \in DOMAIN g.deliveries : g.deliveries[k].t_ps <= p[n][i].t_ps + Latency[ni]
  /\ \A k \in DOMAIN g.deliveries : \A r \in NetNodes[ni] :
       health[r] = "ok" => g.deliveries[k].t_ps <= T(r) + Latency[ni]
  /\ \A n \in NetNodes[ni] : \A u \in Awaited(g, n) :
       u \in Awaited(net[ni], n) \/ \E y \in Unmerged(ni) : u = y + Latency[ni]

(* The merge of one net at the end of a run leaves it as MergedAs says,    *)
(* and leaves it alone when it takes nothing.                              *)
LEMMA MergeNetResult ==
  ASSUME Inv, pc = "run", NEW q, Collection(q), NEW ni \in Nets,
         NEW out, \A r \in out : health[r] # "ok",
         NEW r, r = MergeNet(ni, net[ni], q[ni], MergeHorizon(ni, out))
  PROVE  MergedAs(ni, out, r.net, r.pending) /\ (r.pending = q[ni] => r.net = net[ni])
<1>. DEFINE h == MergeHorizon(ni, out)
            g == net[ni]
<1>1. /\ TypeInv /\ QueueInv /\ g \in GpioNet(ni) /\ Latency[ni] \in Nat
      /\ \A n \in NetNodes[ni] : T(n) \in Nat
      /\ Unmerged(ni) \subseteq Nat
  BY Typed, Constants, Zenon DEF Inv, TypeInv, TypeFacts
<1>2. /\ h \in Int /\ \A n \in NetNodes[ni] \ out : h <= T(n)
      /\ NetNodes[ni] \subseteq out \/ \E n \in NetNodes[ni] \ out : h = T(n)
  BY <1>1, MergeHorizonResult, Zenon
<1>3. /\ q[ni] \in [NetNodes[ni] -> Seq(Change)] /\ InOrder(q[ni])
      /\ \A n \in NetNodes[ni] : \A i \in DOMAIN q[ni][n] :
           q[ni][n][i].t_ps \in Waiting(ni, n) \cup Recorded(ni, n)
  BY CollectResult, Zenon
<1>4. \A n \in NetNodes[ni] : Waiting(ni, n) \cup Recorded(ni, n) \subseteq Unmerged(ni)
  BY Zenon DEF Unmerged
<1>5. /\ \A i, j \in DOMAIN g.deliveries : i <= j => g.deliveries[i].t_ps <= g.deliveries[j].t_ps
      /\ \A i \in DOMAIN g.deliveries :
           /\ \A x \in Unmerged(ni) : g.deliveries[i].t_ps <= x + Latency[ni]
           /\ \A n \in NetNodes[ni] : health[n] = "ok" => g.deliveries[i].t_ps <= T(n) + Latency[ni]
  BY <1>1, Zenon DEF QueueInv
<1>. HIDE DEF h, g
<1>6. Queued(ni, g.deliveries, q[ni])
  BY <1>3, <1>4, <1>5, Zenon DEF Queued
<1>7. /\ r \in MergeState(ni) /\ MergedSoFar(ni, g, q[ni], h, r) /\ InOrder(r.pending)
      /\ \A n \in NetNodes[ni] : \A i \in DOMAIN r.pending[n] : r.pending[n][i].t_ps > h
  BY <1>1, <1>2, <1>3, <1>6, MergeResult, Zenon DEF h, g
<1>8. r.net \in GpioNet(ni) /\ r.pending \in [NetNodes[ni] -> Seq(Change)]
  BY <1>7, Zenon DEF MergeState
<1>9. /\ \A n \in NetNodes[ni] : Rest(r.pending[n], q[ni][n])
      /\ Grown(ni, g, q[ni], h, r.net) /\ Queued(ni, r.net.deliveries, r.pending)
      /\ r.pending = q[ni] => r.net = g
  BY <1>7, Zenon DEF MergedSoFar
<1>10. ASSUME NEW n \in NetNodes[ni], NEW i \in DOMAIN r.pending[n]
       PROVE  /\ r.pending[n][i].t_ps \in Waiting(ni, n) \cup Recorded(ni, n)
              /\ (\E k \in NetNodes[ni] \ out : r.pending[n][i].t_ps > T(k)) \/ NetNodes[ni] \subseteq out
              /\ \A k \in DOMAIN r.net.deliveries :
                   r.net.deliveries[k].t_ps <= r.pending[n][i].t_ps + Latency[ni]
  <2>1. PICK c \in 0 .. Len(q[ni][n]) : /\ Len(r.pending[n]) = Len(q[ni][n]) - c
                                        /\ \A j \in DOMAIN r.pending[n] : r.pending[n][j] = q[ni][n][c + j]
    BY <1>9, Zenon DEF Rest
  <2>2. c + i \in DOMAIN q[ni][n] /\ r.pending[n][i] = q[ni][n][c + i]
    <3>1. r.pending[n] \in Seq(Change) /\ q[ni][n] \in Seq(Change)
      BY <1>3, <1>8, ZenonT(30)
    <3>2. /\ Len(q[ni][n]) \in Nat /\ DOMAIN q[ni][n] = 1 .. Len(q[ni][n])
          /\ DOMAIN r.pending[n] = 1 .. Len(r.pending[n])
      BY <3>1
    <3>. QED BY <2>1, <3>2
  <2>. QED BY <1>2, <1>3, <1>7, <1>9, <2>2, Zenon DEF Queued
<1>11. ASSUME NEW k \in DOMAIN r.net.deliveries
       PROVE  \/ k \in DOMAIN g.deliveries /\ r.net.deliveries[k] = g.deliveries[k]
              \/ \E y \in Unmerged(ni) : y <= h /\ r.net.deliveries[k].t_ps = y + Latency[ni]
  <2>1. CASE k > Len(g.deliveries)
    <3>1. PICK n \in NetNodes[ni] : \E j \in DOMAIN q[ni][n] :
             q[ni][n][j].t_ps <= h /\ r.net.deliveries[k].t_ps = q[ni][n][j].t_ps + Latency[ni]
      BY <1>9, <2>1, Zenon DEF Grown
    <3>. QED BY <1>3, <1>4, <3>1, Zenon
  <2>2. CASE ~(k > Len(g.deliveries))
    <3>1. DOMAIN r.net.deliveries = 1 .. Len(r.net.deliveries) /\ Len(r.net.deliveries) \in Nat
      BY <1>8, NetTypes, Zenon
    <3>2. DOMAIN g.deliveries = 1 .. Len(g.deliveries) /\ Len(g.deliveries) \in Nat
      BY <1>1, NetTypes, ZenonT(30)
    <3>3. k \in DOMAIN g.deliveries
      BY <2>2, <3>1, <3>2
    <3>. QED BY <1>9, <3>3, Zenon DEF Grown
  <2>. QED BY <2>1, <2>2, Zenon
<1>12. ASSUME NEW k \in DOMAIN r.net.deliveries, NEW n \in NetNodes[ni], health[n] = "ok"
       PROVE  r.net.deliveries[k].t_ps <= T(n) + Latency[ni]
  <2>1. CASE k \in DOMAIN g.deliveries /\ r.net.deliveries[k] = g.deliveries[k]
    BY <1>5, <1>12, <2>1, ZenonT(30)
  <2>2. ASSUME NEW y \in Unmerged(ni), y <= h, r.net.deliveries[k].t_ps = y + Latency[ni]
        PROVE  r.net.deliveries[k].t_ps <= T(n) + Latency[ni]
    <3>1. y \in Nat /\ T(n) \in Nat /\ h <= T(n)
      BY <1>1, <1>2, <1>12, Zenon
    <3>. QED BY <1>1, <1>2, <2>2, <3>1, SMTT(30)
  <2>. QED BY <1>11, <2>1, <2>2, Zenon
<1>13. /\ r.net.base = g.base /\ r.net.next = g.next
  BY <1>9, Zenon DEF Grown
<1>14. ASSUME NEW n \in NetNodes[ni], NEW u \in Awaited(r.net, n)
       PROVE  u \in Awaited(g, n) \/ \E y \in Unmerged(ni) : u = y + Latency[ni]
  <2>1. PICK k \in DOMAIN r.net.deliveries : k > r.net.next[n] - r.net.base /\ u = r.net.deliveries[k].t_ps
    BY Zenon DEF Awaited, Ahead
  <2>2. CASE k \in DOMAIN g.deliveries /\ r.net.deliveries[k] = g.deliveries[k]
    <3>1. k > g.next[n] - g.base
      BY <1>13, <2>1, Zenon
    <3>. QED BY <2>1, <2>2, <3>1, Zenon DEF Awaited, Ahead
  <2>. QED BY <1>11, <2>1, <2>2, Zenon
<1>15. SortedNet(r.net)
  BY <1>9, Zenon DEF Queued, SortedNet
<1>. QED BY <1>7, <1>8, <1>9, <1>10, <1>12, <1>13, <1>14, <1>15, Zenon DEF MergedAs, g

(* The end of a run: the changes of the node are collected, every net is   *)
(* merged, and only the dues that are still right are kept.                *)
LEMMA FinishFacts ==
  ASSUME Inv, FinishRun
  PROVE  /\ stalled' \subseteq Nodes /\ \A r \in stalled' : health[r] # "ok"
         /\ DOMAIN net' = Nets /\ DOMAIN pending' = Nets /\ DOMAIN ring' = Nodes
         /\ \A n \in Nodes : ring'[n] \in [NetsOf(n) -> Seq(RingEntry)] /\ NoneRecorded(n)'
         /\ \A ni \in Nets : MergedAs(ni, stalled', net'[ni], pending'[ni])
         /\ due' \in [Nodes -> Due]
         /\ \A n \in Nodes : due'[n] # Unknown =>
              due'[n] = due[n] /\ \A ni \in NetsOf(n) : net'[ni] = net[ni]
<1>1. /\ TypeInv /\ CallInv /\ pc = "run" /\ node \in Nodes
      /\ ring' = IF Collected(node) THEN [ring EXCEPT ![node] = [ni \in NetsOf(node) |-> <<>>]] ELSE ring
      /\ stalled' = stalled \cup (IF cyc[node] = from /\ ~hit THEN {node} ELSE {})
      /\ hit \/ cyc[node] >= limit \/ health[node] # "ok"
  BY Zenon DEF Inv, TypeInv, FinishRun
<1>2. PICK q : Collection(q) /\ q = IF Collected(node) THEN CollectEdges(node) ELSE pending
  BY Zenon DEF Collection
<1>. DEFINE merged == MergePending(q, stalled')
<1>3. /\ net' = [ni \in Nets |-> merged[ni].net]
      /\ pending' = [ni \in Nets |-> merged[ni].pending]
      /\ due' = ForgetDues({ni \in Nets : merged[ni].pending # q[ni]}, due)
  BY <1>2, Zenon DEF FinishRun
<1>4. \A ni \in Nets : merged[ni] = MergeNet(ni, net[ni], q[ni], MergeHorizon(ni, stalled'))
  BY Zenon DEF MergePending
<1>. HIDE DEF merged
<1>5. stalled' \subseteq Nodes /\ \A r \in stalled' : health[r] # "ok"
  <2>1. /\ stalled \subseteq Nodes /\ \A r \in stalled : health[r] # "ok"
        /\ from < limit /\ from \in Nat /\ limit \in Nat
    BY <1>1, Zenon DEF TypeInv, CallInv
  <2>2. cyc[node] = from /\ ~hit => health[node] # "ok"
    BY <1>1, <2>1
  <2>. QED BY <1>1, <2>1, <2>2, Zenon
<1>6. ASSUME NEW ni \in Nets
      PROVE  /\ MergedAs(ni, stalled', merged[ni].net, merged[ni].pending)
             /\ merged[ni].pending = q[ni] => merged[ni].net = net[ni]
  <2>1. PICK out : out = stalled'
    BY Zenon
  <2>2. PICK r : r = merged[ni]
    BY Zenon
  <2>3. r = MergeNet(ni, net[ni], q[ni], MergeHorizon(ni, out)) /\ \A k \in out : health[k] # "ok"
    BY <1>4, <1>5, <2>1, <2>2, Zenon
  <2>4. MergedAs(ni, out, r.net, r.pending) /\ (r.pending = q[ni] => r.net = net[ni])
    BY <1>1, <1>2, <2>3, MergeNetResult, Zenon
  <2>. QED BY <2>1, <2>2, <2>4, Zenon
<1>7. /\ DOMAIN net' = Nets /\ DOMAIN pending' = Nets
      /\ \A ni \in Nets : net'[ni] = merged[ni].net /\ pending'[ni] = merged[ni].pending
  BY <1>3, Zenon
<1>8. /\ DOMAIN ring' = Nodes
      /\ \A n \in Nodes : ring'[n] \in [NetsOf(n) -> Seq(RingEntry)] /\ NoneRecorded(n)'
  <2>1. /\ DOMAIN ring = Nodes /\ \A n \in Nodes : ring[n] \in [NetsOf(n) -> Seq(RingEntry)]
        /\ \A n \in Nodes \ {node} : NoneRecorded(n)
        /\ ~hit /\ node \in Exact => NoneRecorded(node)
    BY <1>1, Zenon DEF TypeInv, CallInv
  <2>2. CASE Collected(node)
    <3>1. /\ ring'[node] = [ni \in NetsOf(node) |-> <<>>] /\ DOMAIN ring' = Nodes
          /\ \A n \in Nodes \ {node} : ring'[n] = ring[n]
      BY <1>1, <2>1, <2>2, Zenon
    <3>2. ring'[node] \in [NetsOf(node) -> Seq(RingEntry)]
      <4>1. <<>> \in Seq(RingEntry)
        OBVIOUS
      <4>. QED BY <3>1, <4>1, Zenon
    <3>3. \A n \in Nodes : NoneRecorded(n)'
      BY <2>1, <3>1 DEF NoneRecorded
    <3>. QED BY <2>1, <3>1, <3>2, <3>3, Zenon
  <2>3. CASE ~Collected(node)
    BY <1>1, <2>1, <2>3, Zenon DEF Collected, NoneRecorded
  <2>. QED BY <2>2, <2>3, Zenon
<1>9. /\ due' \in [Nodes -> Due]
      /\ \A n \in Nodes : due'[n] # Unknown =>
           due'[n] = due[n] /\ \A ni \in NetsOf(n) : net'[ni] = net[ni]
  <2>. DEFINE changed == {ni \in Nets : merged[ni].pending # q[ni]}
  <2>1. due \in [Nodes -> Due] /\ Unknown \in Due
    BY <1>1, Zenon DEF TypeInv, Unknown, Due
  <2>2. due' = [n \in Nodes |-> IF NetsOf(n) \cap changed # {} THEN Unknown ELSE due[n]]
    BY <1>3, Zenon DEF ForgetDues
  <2>3. \A ni \in Nets : ni \notin changed => net'[ni] = net[ni]
    BY <1>6, <1>7, Zenon
  <2>. HIDE DEF changed
  <2>4. \A n \in Nodes : NetsOf(n) \subseteq Nets
    BY Zenon DEF NetsOf
  <2>. QED BY <2>1, <2>2, <2>3, <2>4, Zenon
<1>. QED BY <1>5, <1>6, <1>7, <1>8, <1>9, Zenon

===============================================================================
