---------------------------- MODULE GpioWireProofs ----------------------------
(***************************************************************************)
(* What a wire is, given all the changes its members recorded: the merge   *)
(* builds it change by change, and every action of the world keeps it so   *)
(* (WireInv).                                                              *)
(***************************************************************************)
EXTENDS GpioNetsLemmas

-------------------------------------------------------------------------------
(* What a wire is at time t once the first L[n] changes of every member n, *)
(* of all the changes H[n], are merged.                                    *)
Past(h, l, t) == {i \in 1 .. l : h[i].t_ps <= t}

DriveOf(h, l, t) == IF Past(h, l, t) = {} THEN "Z" ELSE h[Max(Past(h, l, t))].own

LevelOf(ni, H, L, t) == Resolve({DriveOf(H[n], L[n], t) : n \in NetNodes[ni]}, Pull[ni])

TimesOf(ni, H, L) == UNION {{H[n][i].t_ps : i \in 1 .. L[n]} : n \in NetNodes[ni]}

MovesOf(ni, H, L) == {t \in TimesOf(ni, H, L) : LevelOf(ni, H, L, t) # LevelOf(ni, H, L, t - 1)}

LastDrive(h, l) == IF l = 0 THEN "Z" ELSE h[l].own

(* Net g has queued the level changes of that wire, and holds its present. *)
Wire(ni, g, H, L) ==
  LET moves == MovesOf(ni, H, L)
      d == g.deliveries
  IN  /\ \A n \in NetNodes[ni] : g.own[n] = LastDrive(H[n], L[n])
      /\ g.level = WireLevel(g, Pull[ni])
      /\ IsFiniteSet(moves) /\ Cardinality(moves) = g.base + Len(d)
      /\ \A i \in DOMAIN d : /\ d[i].t_ps - Latency[ni] \in moves
                             /\ d[i].level = LevelOf(ni, H, L, d[i].t_ps - Latency[ni])
                             /\ \A j \in 1 .. i - 1 : d[j].t_ps < d[i].t_ps

(* Lengths of merged histories. *)
Counts(ni, H) == {L \in [NetNodes[ni] -> Nat] : \A n \in NetNodes[ni] : L[n] <= Len(H[n])}

(* Once all of the first l changes have happened the drive is the last of  *)
(* them.                                                                   *)
LEMMA DriveNow ==
  ASSUME NEW h \in Seq(Change), NEW l \in 0 .. Len(h), NEW t \in Int,
         \A i \in 1 .. l : h[i].t_ps <= t
  PROVE  DriveOf(h, l, t) = LastDrive(h, l)
<1>1. Past(h, l, t) = 1 .. l /\ l \in Nat
  BY DEF Past
<1>2. CASE l = 0
  BY <1>1, <1>2 DEF DriveOf, LastDrive
<1>3. CASE l # 0
  <2>1. 1 .. l \in SUBSET (0 .. l) /\ l \in 1 .. l
    BY <1>1, <1>3
  <2>2. Max(1 .. l) \in 1 .. l /\ \A x \in 1 .. l : x <= Max(1 .. l)
    BY <1>1, <2>1, MaxOf, Zenon
  <2>3. Max(1 .. l) = l
    BY <1>1, <2>1, <2>2
  <2>. QED BY <1>1, <1>3, <2>1, <2>3, Zenon DEF DriveOf, LastDrive
<1>. QED BY <1>2, <1>3, Zenon

(* Changes that have not happened do not matter.                           *)
LEMMA DriveBefore ==
  ASSUME NEW h \in Seq(Change), NEW l \in Nat, NEW m \in Nat, l <= m, NEW u \in Int,
         \A i \in l + 1 .. m : ~(h[i].t_ps <= u)
  PROVE  DriveOf(h, m, u) = DriveOf(h, l, u)
<1>1. Past(h, m, u) = Past(h, l, u)
  BY DEF Past
<1>. QED BY <1>1, Zenon DEF DriveOf

(* The first l changes of a history lie before time t, the next ones up to *)
(* m at t.                                                                 *)
Split(h, l, m, t) ==
  /\ h \in Seq(Change) /\ l \in 0 .. Len(h) /\ m \in 0 .. Len(h) /\ l \in Nat /\ m \in Nat
  /\ l <= m
  /\ \A i \in 1 .. m : h[i].t_ps \in Nat /\ h[i].t_ps <= t /\ (i \in 1 .. l \/ h[i].t_ps = t)
  /\ \A i \in 1 .. l : i \in 1 .. m /\ h[i].t_ps <= t - 1 /\ h[i].t_ps < t
  /\ \A u \in Int : u < t => \A i \in l + 1 .. m : ~(h[i].t_ps <= u)
  /\ l < m => \E i \in 1 .. m : t = h[i].t_ps

(* What the order of a history says of the times of its changes.           *)
LEMMA HistorySplit ==
  ASSUME NEW h \in Seq(Change), NEW l \in Nat, NEW m \in Nat, l <= m, m <= Len(h), NEW t \in Nat,
         \A i \in 1 .. l : h[i].t_ps < t, \A i \in l + 1 .. m : h[i].t_ps = t
  PROVE  Split(h, l, m, t)
<1>1. Len(h) \in Nat /\ \A i \in 1 .. m : h[i] \in Change
  OBVIOUS
<1>2. \A i \in 1 .. m : h[i].t_ps \in Nat /\ (i \in 1 .. l \/ i \in l + 1 .. m)
  BY <1>1 DEF Change
<1>3. \A i \in 1 .. l : i \in 1 .. m /\ h[i].t_ps <= t - 1
  BY <1>2
<1>4. \A i \in 1 .. m : h[i].t_ps <= t /\ (i \in 1 .. l \/ h[i].t_ps = t)
  BY <1>2
<1>5. \A u \in Int : u < t => \A i \in l + 1 .. m : ~(h[i].t_ps <= u)
  OBVIOUS
<1>6. l \in 0 .. Len(h) /\ m \in 0 .. Len(h) /\ (l < m => m \in 1 .. m /\ m \in l + 1 .. m)
  BY <1>1
<1>. QED BY <1>2, <1>3, <1>4, <1>5, <1>6, Zenon DEF Split

(* The times at which a member has merged a change.                        *)
LEMMA InTimesOf ==
  ASSUME NEW ni \in Nets, NEW H, NEW L
  PROVE  \A x : x \in TimesOf(ni, H, L) <=> \E n \in NetNodes[ni] : \E i \in 1 .. L[n] : x = H[n][i].t_ps
BY DEF TimesOf

(* The changes that are merged next are of one time t, and after those     *)
(* that were merged before.                                                *)
MergedAt(ni, H, L, M, t) ==
  /\ \A n \in NetNodes[ni] : /\ L[n] <= M[n]
                             /\ \A i \in 1 .. L[n] : H[n][i].t_ps < t
                             /\ \A i \in L[n] + 1 .. M[n] : H[n][i].t_ps = t
  /\ \E n \in NetNodes[ni] : L[n] < M[n]

(* Net k is net g with the drives of time t applied. *)
AppliedAt(ni, g, k, t) ==
  /\ k.base = g.base /\ k.level = WireLevel(k, Pull[ni])
  /\ k.deliveries = IF k.level = g.level THEN g.deliveries
                    ELSE Append(g.deliveries, [t_ps |-> t + Latency[ni], level |-> k.level])

(* Merging the changes of a later time adds at most one level change. *)
LEMMA WireGrows ==
  ASSUME NEW ni \in Nets, NEW H \in [NetNodes[ni] -> Seq(Change)],
         NEW L \in Counts(ni, H), NEW M \in Counts(ni, H), NEW t \in Nat, MergedAt(ni, H, L, M, t),
         NEW g \in GpioNet(ni), NEW k \in GpioNet(ni), Wire(ni, g, H, L), AppliedAt(ni, g, k, t),
         \A n \in NetNodes[ni] : k.own[n] = LastDrive(H[n], M[n])
  PROVE  Wire(ni, k, H, M)
<1>1. ASSUME NEW n \in NetNodes[ni] PROVE Split(H[n], L[n], M[n], t)
  <2>1. /\ H[n] \in Seq(Change) /\ L[n] \in Nat /\ M[n] \in Nat /\ M[n] <= Len(H[n])
        /\ L[n] <= M[n] /\ \A i \in 1 .. L[n] : H[n][i].t_ps < t
        /\ \A i \in L[n] + 1 .. M[n] : H[n][i].t_ps = t
    BY Zenon DEF Counts, MergedAt
  <2>. QED BY ONLY t \in Nat, <2>1, HistorySplit, Zenon
<1>2. \A u \in Int : u < t => LevelOf(ni, H, M, u) = LevelOf(ni, H, L, u)
  <2>. SUFFICES ASSUME NEW u \in Int, u < t PROVE LevelOf(ni, H, M, u) = LevelOf(ni, H, L, u)
    BY Zenon
  <2>1. ASSUME NEW n \in NetNodes[ni] PROVE DriveOf(H[n], M[n], u) = DriveOf(H[n], L[n], u)
    <3>1. /\ H[n] \in Seq(Change) /\ L[n] \in Nat /\ M[n] \in Nat /\ L[n] <= M[n]
          /\ \A i \in L[n] + 1 .. M[n] : ~(H[n][i].t_ps <= u)
      BY <1>1, Zenon DEF Split
    <3>. QED BY ONLY <3>1, u \in Int, DriveBefore, Zenon
  <2>. QED BY <2>1, Zenon DEF LevelOf
<1>3. LevelOf(ni, H, M, t) = k.level
  <2>1. ASSUME NEW n \in NetNodes[ni] PROVE DriveOf(H[n], M[n], t) = k.own[n]
    <3>1. /\ H[n] \in Seq(Change) /\ M[n] \in 0 .. Len(H[n])
          /\ \A i \in 1 .. M[n] : H[n][i].t_ps <= t
      BY <1>1, Zenon DEF Split
    <3>2. t \in Int
      BY ONLY t \in Nat
    <3>3. DriveOf(H[n], M[n], t) = LastDrive(H[n], M[n])
      BY ONLY <3>1, <3>2, DriveNow, Zenon
    <3>. QED BY <3>3, Zenon
  <2>2. DOMAIN k.own = NetNodes[ni] /\ k.level = WireLevel(k, Pull[ni])
    BY Zenon DEF GpioNet, AppliedAt
  <2>3. {DriveOf(H[n], M[n], t) : n \in NetNodes[ni]} = {k.own[n] : n \in DOMAIN k.own}
    BY <2>1, <2>2, Zenon
  <2>. QED BY <2>2, <2>3, Zenon DEF LevelOf, WireLevel
<1>4. LevelOf(ni, H, L, t - 1) = g.level
  <2>1. ASSUME NEW n \in NetNodes[ni] PROVE DriveOf(H[n], L[n], t - 1) = g.own[n]
    <3>1. /\ H[n] \in Seq(Change) /\ L[n] \in 0 .. Len(H[n])
          /\ \A i \in 1 .. L[n] : H[n][i].t_ps <= t - 1
      BY <1>1, Zenon DEF Split
    <3>2. t - 1 \in Int
      BY ONLY t \in Nat
    <3>3. DriveOf(H[n], L[n], t - 1) = LastDrive(H[n], L[n])
      BY ONLY <3>1, <3>2, DriveNow, Zenon
    <3>. QED BY <3>3, Zenon DEF Wire
  <2>2. DOMAIN g.own = NetNodes[ni] /\ g.level = WireLevel(g, Pull[ni])
    BY Zenon DEF GpioNet, Wire
  <2>3. {DriveOf(H[n], L[n], t - 1) : n \in NetNodes[ni]} = {g.own[n] : n \in DOMAIN g.own}
    BY <2>1, <2>2, Zenon
  <2>. QED BY <2>2, <2>3, Zenon DEF LevelOf, WireLevel
<1>5. /\ TimesOf(ni, H, M) = TimesOf(ni, H, L) \cup {t}
      /\ \A x \in TimesOf(ni, H, L) : x \in Nat /\ x < t
  <2>1. ASSUME NEW x \in TimesOf(ni, H, L) PROVE x \in Nat /\ x < t /\ x \in TimesOf(ni, H, M)
    <3>1. PICK n \in NetNodes[ni] : \E i \in 1 .. L[n] : x = H[n][i].t_ps
      BY Zenon DEF TimesOf
    <3>2. PICK i \in 1 .. L[n] : x = H[n][i].t_ps
      BY <3>1, Zenon
    <3>3. i \in 1 .. M[n] /\ x \in Nat /\ x < t
      BY <1>1, <3>2, Zenon DEF Split
    <3>. QED BY <3>2, <3>3, InTimesOf, Zenon
  <2>2. t \in TimesOf(ni, H, M)
    <3>1. PICK n \in NetNodes[ni] : L[n] < M[n]
      BY Zenon DEF MergedAt
    <3>2. \E i \in 1 .. M[n] : t = H[n][i].t_ps
      BY <1>1, <3>1, Zenon DEF Split
    <3>. QED BY <3>2, InTimesOf, Zenon
  <2>3. ASSUME NEW x \in TimesOf(ni, H, M) PROVE x \in TimesOf(ni, H, L) \/ x = t
    <3>1. PICK n \in NetNodes[ni] : \E i \in 1 .. M[n] : x = H[n][i].t_ps
      BY Zenon DEF TimesOf
    <3>2. PICK i \in 1 .. M[n] : x = H[n][i].t_ps
      BY <3>1, Zenon
    <3>3. i \in 1 .. L[n] \/ H[n][i].t_ps = t
      BY <1>1, Zenon DEF Split
    <3>. QED BY <3>2, <3>3, InTimesOf, Zenon
  <2>. QED BY <2>1, <2>2, <2>3, Zenon
<1>. DEFINE A == MovesOf(ni, H, L)
            B == MovesOf(ni, H, M)
            d == g.deliveries
            e == k.deliveries
<1>6. /\ A \subseteq TimesOf(ni, H, L)
      /\ B = A \cup (IF k.level = g.level THEN {} ELSE {t})
      /\ t \notin A
  <2>1. ASSUME NEW x \in TimesOf(ni, H, L) PROVE x \in B <=> x \in A
    <3>1. x \in Nat /\ x < t /\ x \in TimesOf(ni, H, M)
      BY <1>5, Zenon
    <3>2. x \in Int /\ x - 1 \in Int /\ x - 1 < t
      BY ONLY t \in Nat, <3>1
    <3>. QED BY <1>2, <3>1, <3>2, Zenon DEF MovesOf
  <2>2. t \in B <=> k.level # g.level
    <3>1. t - 1 \in Int /\ t - 1 < t
      BY ONLY t \in Nat
    <3>2. t \in TimesOf(ni, H, M)
      BY <1>5, Zenon
    <3>. QED BY <1>2, <1>3, <1>4, <3>1, <3>2, Zenon DEF MovesOf
  <2>3. A \subseteq TimesOf(ni, H, L) /\ B \subseteq TimesOf(ni, H, M)
    BY Zenon DEF MovesOf
  <2>4. t \notin TimesOf(ni, H, L)
    <3>1. ~(t < t)
      BY ONLY t \in Nat
    <3>. QED BY <1>5, <3>1, Zenon
  <2>. HIDE DEF A, B
  <2>. QED BY <1>5, <2>1, <2>2, <2>3, <2>4, Zenon
<1>7. /\ IsFiniteSet(A) /\ Cardinality(A) = g.base + Len(d)
      /\ \A i \in DOMAIN d : /\ d[i].t_ps - Latency[ni] \in A
                             /\ d[i].level = LevelOf(ni, H, L, d[i].t_ps - Latency[ni])
                             /\ \A j \in 1 .. i - 1 : d[j].t_ps < d[i].t_ps
  BY Zenon DEF Wire
<1>8. /\ d \in Seq(Delivery) /\ Len(d) \in Nat /\ DOMAIN d = 1 .. Len(d)
      /\ \A i \in DOMAIN d : d[i].t_ps \in Nat
      /\ g.base \in Nat /\ Latency[ni] \in Nat
  BY NetTypes, Constants, Zenon
<1>. HIDE DEF A, B
<1>9. ASSUME NEW i \in DOMAIN d
      PROVE  /\ d[i].t_ps - Latency[ni] \in B
             /\ d[i].level = LevelOf(ni, H, M, d[i].t_ps - Latency[ni])
             /\ d[i].t_ps < t + Latency[ni]
  <2>1. d[i].t_ps - Latency[ni] \in TimesOf(ni, H, L)
    BY <1>6, <1>7, Zenon
  <2>2. /\ d[i].t_ps - Latency[ni] \in Nat /\ d[i].t_ps - Latency[ni] < t
        /\ d[i].t_ps \in Nat /\ Latency[ni] \in Nat
    BY <1>5, <1>8, <2>1, Zenon
  <2>3. d[i].t_ps - Latency[ni] \in Int /\ d[i].t_ps < t + Latency[ni]
    BY ONLY t \in Nat, <2>2
  <2>. QED BY <1>2, <1>6, <1>7, <2>2, <2>3, Zenon
<1>10. CASE k.level = g.level
  <2>1. e = d /\ B = A /\ k.base = g.base /\ k.level = WireLevel(k, Pull[ni])
    BY <1>6, <1>10, Zenon DEF AppliedAt
  <2>. QED BY <1>7, <1>9, <2>1, Zenon DEF Wire, B
<1>11. CASE k.level # g.level
  <2>. DEFINE z == [t_ps |-> t + Latency[ni], level |-> k.level]
  <2>1. z.t_ps = t + Latency[ni] /\ z.level = k.level /\ z.t_ps - Latency[ni] = t
    <3>1. (t + Latency[ni]) - Latency[ni] = t
      BY ONLY t \in Nat, <1>8
    <3>. QED BY <3>1, Zenon
  <2>2. e = Append(d, z) /\ k.base = g.base /\ k.level = WireLevel(k, Pull[ni])
    BY <1>11, Zenon DEF AppliedAt
  <2>. HIDE DEF z, d, e
  <2>3. /\ Len(e) = Len(d) + 1 /\ DOMAIN e = 1 .. Len(d) + 1 /\ e[Len(d) + 1] = z
        /\ \A i \in DOMAIN d : e[i] = d[i]
    BY ONLY <1>8, <2>2
  <2>4. IsFiniteSet(B) /\ Cardinality(B) = k.base + Len(e)
    <3>1. B = A \cup {t} /\ t \notin A
      BY <1>6, <1>11, Zenon
    <3>2. IsFiniteSet(B) /\ Cardinality(B) = Cardinality(A) + 1
      BY <1>7, <3>1, FS_AddElement, Zenon
    <3>3. Cardinality(A) = g.base + Len(d)
      BY <1>7, Zenon DEF d
    <3>4. k.base = g.base /\ g.base \in Nat /\ Len(d) \in Nat /\ Len(e) = Len(d) + 1
      BY <1>8, <2>2, <2>3, Zenon
    <3>5. Cardinality(B) = (g.base + Len(d)) + 1
      BY ONLY <3>2, <3>3, Zenon
    <3>6. k.base + Len(e) = (g.base + Len(d)) + 1
      BY ONLY <3>4
    <3>. QED BY ONLY <3>2, <3>5, <3>6, Zenon
  <2>5. ASSUME NEW i \in DOMAIN e
        PROVE  /\ e[i].t_ps - Latency[ni] \in B
               /\ e[i].level = LevelOf(ni, H, M, e[i].t_ps - Latency[ni])
               /\ \A j \in 1 .. i - 1 : e[j].t_ps < e[i].t_ps
    <3>1. CASE i \in DOMAIN d
      <4>1. \A j \in 1 .. i - 1 : j \in DOMAIN d
        BY ONLY <1>8, <3>1
      <4>. QED BY <1>7, <1>9, <2>3, <3>1, <4>1, Zenon
    <3>2. CASE i \notin DOMAIN d
      <4>1. i = Len(d) + 1 /\ e[i] = z
        BY ONLY i \in DOMAIN e, <1>8, <2>3, <3>2
      <4>2. \A j \in 1 .. i - 1 : j \in DOMAIN d
        BY ONLY <1>8, <4>1
      <4>3. t \in B
        BY <1>6, <1>11, Zenon
      <4>. QED BY <1>3, <1>9, <2>1, <2>3, <4>1, <4>2, <4>3, Zenon
    <3>. QED BY <3>1, <3>2, Zenon
  <2>. QED BY <2>2, <2>4, <2>5, Zenon DEF Wire, B, e
<1>. QED BY <1>10, <1>11, Zenon

(* The changes at the front of a queue that have the same time. *)
Together(h, t, S, c) ==
  /\ Cardinality(S) = c /\ (S = {} <=> c = 0) /\ (c # 0 => Max(S) = c)
  /\ \A i \in 1 .. c : h[i].t_ps = t
  /\ c < Len(h) => h[c + 1].t_ps # t

(* The changes of one time at the front of a queue are its first c.        *)
LEMMA FrontRun ==
  ASSUME NEW h \in Seq(Change), NEW t \in Nat, NEW S,
         S = {i \in DOMAIN h : \A j \in 1..i : h[j].t_ps = t}
  PROVE  \E c \in 0 .. Len(h) : Together(h, t, S, c)
<1>1. Len(h) \in Nat /\ DOMAIN h = 1 .. Len(h)
  OBVIOUS
<1>2. CASE S = {}
  <2>1. Cardinality(S) = 0
    BY <1>2, FS_EmptySet, Zenon
  <2>2. 0 < Len(h) => h[0 + 1].t_ps # t
    BY <1>1, <1>2
  <2>3. 0 \in 0 .. Len(h)
    BY <1>1
  <2>4. Together(h, t, S, 0)
    BY <1>2, <2>1, <2>2 DEF Together
  <2>. QED BY <2>3, <2>4, Zenon
<1>3. CASE S # {}
  <2>. DEFINE c == Max(S)
  <2>1. S \in SUBSET (0 .. Len(h))
    BY <1>1
  <2>2. c \in S /\ \A x \in S : x <= c
    BY <1>1, <1>3, <2>1, MaxOf, Zenon
  <2>. HIDE DEF c
  <2>3. c \in 1 .. Len(h) /\ \A i \in 1 .. c : h[i].t_ps = t
    BY <1>1, <2>2, Zenon
  <2>4. S = 1 .. c
    <3>1. S \subseteq 1 .. c
      BY <1>1, <2>1, <2>2, <2>3
    <3>2. ASSUME NEW i \in 1 .. c PROVE i \in S
      <4>1. i \in DOMAIN h /\ \A j \in 1 .. i : j \in 1 .. c
        BY <1>1, <2>3
      <4>. QED BY <2>3, <4>1, Zenon
    <3>. QED BY <3>1, <3>2, Zenon
  <2>5. Cardinality(S) = c
    <3>1. 1 \in Int /\ c \in Int
      BY <2>3
    <3>2. Cardinality(1 .. c) = IF 1 > c THEN 0 ELSE c - 1 + 1
      BY ONLY <3>1, FS_Interval, Zenon
    <3>3. c \in Int /\ 1 <= c
      BY <2>3
    <3>4. Cardinality(1 .. c) = c
      BY ONLY <3>2, <3>3
    <3>. QED BY <2>4, <3>4, Zenon
  <2>6. ASSUME c < Len(h), h[c + 1].t_ps = t PROVE FALSE
    <3>1. c + 1 \in DOMAIN h /\ \A j \in 1 .. c + 1 : j \in 1 .. c \/ j = c + 1
      BY <1>1, <2>3, <2>6
    <3>2. c + 1 \in S
      BY <2>3, <2>6, <3>1, Zenon
    <3>. QED BY <2>2, <2>3, <3>2
  <2>7. c \in 0 .. Len(h) /\ c # 0
    BY <1>1, <2>3
  <2>8. Together(h, t, S, c)
    BY <1>3, <2>3, <2>5, <2>6, <2>7, Zenon DEF Together, c
  <2>. QED BY <2>7, <2>8, Zenon
<1>. QED BY <1>2, <1>3, Zenon

(* The drives a net ends up with, its level, and what it queues. *)
LEMMA ApplyWire ==
  ASSUME NEW ni \in Nets, NEW g \in GpioNet(ni), NEW t \in Nat,
         NEW ch, \A n \in DOMAIN ch : ch[n] \in Own
  PROVE  LET k == Apply(ni, g, t, ch)
         IN  /\ \A n \in NetNodes[ni] : k.own[n] = IF n \in DOMAIN ch THEN ch[n] ELSE g.own[n]
             /\ k.level = WireLevel(k, Pull[ni])
             /\ k.deliveries = IF k.level = g.level THEN g.deliveries
                               ELSE Append(g.deliveries, [t_ps |-> t + Latency[ni], level |-> k.level])
<1>. DEFINE own == [n \in DOMAIN g.own |-> IF n \in DOMAIN ch THEN ch[n] ELSE g.own[n]]
            h == [g EXCEPT !.own = own]
            l == WireLevel(h, Pull[ni])
            d == Append(g.deliveries, [t_ps |-> t + Latency[ni], level |-> l])
            k == [h EXCEPT !.level = l, !.deliveries = d]
<1>1. g.own \in [NetNodes[ni] -> Own]
  BY Zenon DEF GpioNet
<1>2. own \in [NetNodes[ni] -> Own] /\ \A n \in NetNodes[ni] : own[n] = IF n \in DOMAIN ch THEN ch[n] ELSE g.own[n]
  BY <1>1, Zenon
<1>. HIDE DEF own
<1>3. h \in GpioNet(ni) /\ h.own = own /\ h.level = g.level /\ h.deliveries = g.deliveries
  BY <1>2, Zenon DEF GpioNet
<1>4. Apply(ni, g, t, ch) = IF l = g.level THEN h ELSE k
  BY <1>3, Zenon DEF Apply, own
<1>. HIDE DEF h, l, d
<1>5. k.own = own /\ k.level = l /\ k.deliveries = d
  BY <1>3, Zenon DEF GpioNet
<1>. HIDE DEF k
<1>6. WireLevel(k, Pull[ni]) = l /\ WireLevel(h, Pull[ni]) = l
  BY <1>3, <1>5, Zenon DEF WireLevel, l
<1>7. CASE l = g.level
  BY <1>2, <1>3, <1>4, <1>6, <1>7, Zenon
<1>8. CASE l # g.level
  BY <1>2, <1>4, <1>5, <1>6, <1>8, Zenon DEF d
<1>. QED BY <1>7, <1>8, Zenon

(* One round of a merge takes, from every queue, the first C[n] changes.   *)
Takes(ni, q, g, t, C, p, k) ==
  /\ \A n \in NetNodes[ni] :
       /\ C[n] \in 0 .. Len(q[n]) /\ p[n] = SubSeq(q[n], C[n] + 1, Len(q[n]))
       /\ \A i \in 1 .. C[n] : q[n][i].t_ps = t
       /\ C[n] < Len(q[n]) => q[n][C[n] + 1].t_ps # t
       /\ k.own[n] = IF C[n] = 0 THEN g.own[n] ELSE q[n][C[n]].own
  /\ k.level = WireLevel(k, Pull[ni])
  /\ k.deliveries = IF k.level = g.level THEN g.deliveries
                    ELSE Append(g.deliveries, [t_ps |-> t + Latency[ni], level |-> k.level])

(* A step of the merge takes, of every queue, the changes of the earliest  *)
(* time.                                                                   *)
LEMMA MergeFirstTakes ==
  ASSUME NEW ni \in Nets, NEW s \in MergeState(ni), Fronts(s.pending) # {}
  PROVE  \E C : Takes(ni, s.pending, s.net, Min(Fronts(s.pending)), C,
                      MergeFirst(ni, s).pending, MergeFirst(ni, s).net)
<1>. DEFINE q == s.pending
            t == Min(Fronts(q))
            at(n) == {i \in DOMAIN q[n] : \A j \in 1..i : q[n][j].t_ps = t}
            movers == {n \in DOMAIN q : at(n) # {}}
            changes == [n \in movers |-> q[n][Max(at(n))].own]
            left == [n \in DOMAIN q |-> SubSeq(q[n], Cardinality(at(n)) + 1, Len(q[n]))]
            C == [n \in NetNodes[ni] |-> Cardinality(at(n))]
            a == Apply(ni, s.net, t, changes)
            r == MergeFirst(ni, s)
<1>1. s.net \in GpioNet(ni) /\ q \in [NetNodes[ni] -> Seq(Change)] /\ DOMAIN q = NetNodes[ni]
  BY Zenon DEF MergeState
<1>2. r.net = a /\ r.pending = left
  BY Zenon DEF MergeFirst
<1>3. t \in Nat
  BY MergeFirstResult, Zenon
<1>. HIDE DEF q, t
<1>4. ASSUME NEW n \in NetNodes[ni]
      PROVE  /\ C[n] \in 0 .. Len(q[n]) /\ (n \in movers <=> C[n] # 0)
             /\ \A i \in 1 .. C[n] : q[n][i].t_ps = t
             /\ C[n] < Len(q[n]) => q[n][C[n] + 1].t_ps # t
             /\ n \in movers => C[n] \in DOMAIN q[n] /\ changes[n] = q[n][C[n]].own
             /\ left[n] = SubSeq(q[n], C[n] + 1, Len(q[n]))
  <2>1. q[n] \in Seq(Change) /\ DOMAIN q[n] = 1 .. Len(q[n]) /\ Len(q[n]) \in Nat
    BY <1>1
  <2>. DEFINE A == at(n)
  <2>2. /\ A = {i \in DOMAIN q[n] : \A j \in 1..i : q[n][j].t_ps = t}
        /\ C[n] = Cardinality(A) /\ (n \in movers <=> A # {})
        /\ n \in movers => changes[n] = q[n][Max(A)].own
        /\ left[n] = SubSeq(q[n], Cardinality(A) + 1, Len(q[n]))
    BY <1>1, Zenon
  <2>. HIDE DEF A, C, movers, changes, left
  <2>3. PICK c \in 0 .. Len(q[n]) : Together(q[n], t, A, c)
    BY ONLY <1>3, <2>1, <2>2, FrontRun, Zenon
  <2>4. c # 0 => c \in DOMAIN q[n]
    BY <2>1
  <2>. QED BY <2>2, <2>3, <2>4, Zenon DEF Together
<1>. HIDE DEF C, left
<1>5. \A n \in DOMAIN changes : changes[n] \in Own
  <2>1. \A n \in movers : n \in NetNodes[ni] /\ C[n] \in DOMAIN q[n] /\ changes[n] = q[n][C[n]].own
    BY <1>1, <1>4, Zenon
  <2>2. \A n \in NetNodes[ni] : \A i \in DOMAIN q[n] : q[n][i] \in Change
    BY <1>1
  <2>3. DOMAIN changes = movers
    BY Zenon
  <2>. HIDE DEF movers, changes
  <2>. QED BY <2>1, <2>2, <2>3, Zenon DEF Change
<1>6. DOMAIN changes = movers
  BY Zenon
<1>. HIDE DEF movers, changes
<1>7. /\ \A n \in NetNodes[ni] : a.own[n] = IF n \in DOMAIN changes THEN changes[n] ELSE s.net.own[n]
      /\ a.level = WireLevel(a, Pull[ni])
      /\ a.deliveries = IF a.level = s.net.level THEN s.net.deliveries
                        ELSE Append(s.net.deliveries, [t_ps |-> t + Latency[ni], level |-> a.level])
  BY <1>1, <1>3, <1>5, ApplyWire
<1>. HIDE DEF a, r
<1>8. \A n \in NetNodes[ni] : a.own[n] = IF C[n] = 0 THEN s.net.own[n] ELSE q[n][C[n]].own
  BY <1>4, <1>6, <1>7, Zenon
<1>9. Takes(ni, q, s.net, t, C, r.pending, r.net)
  BY <1>2, <1>4, <1>7, <1>8, Zenon DEF Takes
<1>. QED BY <1>9, Zenon DEF q, t, r

(* How many changes of every member are merged when p are left, and that   *)
(* they all lie before what is left.                                       *)
Count(ni, H, p) == [n \in NetNodes[ni] |-> Len(H[n]) - Len(p[n])]

Settled(ni, H, p) ==
  \A m, n \in NetNodes[ni] : \A i \in 1 .. Count(ni, H, p)[m] : \A j \in DOMAIN p[n] :
    H[m][i].t_ps < p[n][j].t_ps

WireSoFar(ni, H, s) ==
  /\ \A n \in NetNodes[ni] : Rest(s.pending[n], H[n])
  /\ InOrder(s.pending) /\ Settled(ni, H, s.pending)
  /\ Wire(ni, s.net, H, Count(ni, H, s.pending))

Counted(ni, H, p, L) ==
  /\ L \in Counts(ni, H)
  /\ \A n \in NetNodes[ni] :
       /\ L[n] = Len(H[n]) - Len(p[n]) /\ DOMAIN p[n] = 1 .. Len(p[n]) /\ Len(p[n]) \in Nat
       /\ Len(H[n]) \in Nat
       /\ \A i \in DOMAIN p[n] : p[n][i] = H[n][L[n] + i] /\ p[n][i].t_ps \in Nat

(* A queue that is the rest of a history tells how much of it is merged.   *)
LEMMA RestCount ==
  ASSUME NEW ni \in Nets, NEW H \in [NetNodes[ni] -> Seq(Change)],
         NEW p \in [NetNodes[ni] -> Seq(Change)], \A n \in NetNodes[ni] : Rest(p[n], H[n])
  PROVE  Counted(ni, H, p, Count(ni, H, p))
<1>1. ASSUME NEW n \in NetNodes[ni]
      PROVE  /\ Count(ni, H, p)[n] = Len(H[n]) - Len(p[n])
             /\ Count(ni, H, p)[n] \in Nat /\ Count(ni, H, p)[n] <= Len(H[n])
             /\ DOMAIN p[n] = 1 .. Len(p[n]) /\ Len(p[n]) \in Nat /\ Len(H[n]) \in Nat
             /\ \A i \in DOMAIN p[n] : /\ p[n][i] = H[n][Count(ni, H, p)[n] + i]
                                       /\ p[n][i].t_ps \in Nat
  <2>1. /\ H[n] \in Seq(Change) /\ p[n] \in Seq(Change) /\ Len(H[n]) \in Nat /\ Len(p[n]) \in Nat
        /\ DOMAIN p[n] = 1 .. Len(p[n])
    OBVIOUS
  <2>2. PICK c \in 0 .. Len(H[n]) : Len(p[n]) = Len(H[n]) - c /\ \A i \in DOMAIN p[n] : p[n][i] = H[n][c + i]
    BY Zenon DEF Rest
  <2>3. Count(ni, H, p)[n] = Len(H[n]) - Len(p[n])
    BY Zenon DEF Count
  <2>4. c = Len(H[n]) - Len(p[n])
    BY <2>1, <2>2
  <2>5. \A i \in DOMAIN p[n] : p[n][i] \in Change
    BY <2>1
  <2>. QED BY <2>1, <2>2, <2>3, <2>4, <2>5, SMTT(30) DEF Change
<1>2. Count(ni, H, p) \in [NetNodes[ni] -> Nat]
  BY <1>1, Zenon DEF Count
<1>. QED BY <1>1, <1>2, Zenon DEF Counted, Counts

(* A step of the merge leaves the net what its merged changes make of it,  *)
(* and takes changes of the earliest time only.                            *)
LEMMA MergeFirstWire ==
  ASSUME NEW ni \in Nets, NEW H \in [NetNodes[ni] -> Seq(Change)],
         NEW s \in MergeState(ni), WireSoFar(ni, H, s), Fronts(s.pending) # {}
  PROVE  /\ WireSoFar(ni, H, MergeFirst(ni, s))
         /\ \A n \in NetNodes[ni] : \A i \in 1 .. Count(ni, H, MergeFirst(ni, s).pending)[n] :
              i <= Count(ni, H, s.pending)[n] \/ H[n][i].t_ps = Min(Fronts(s.pending))
<1>. DEFINE q == s.pending
            r == MergeFirst(ni, s)
            p == r.pending
            t == Min(Fronts(q))
            L == Count(ni, H, q)
            M == Count(ni, H, p)
<1>1. /\ r \in MergeState(ni) /\ t \in Nat
      /\ \E n \in NetNodes[ni] : 1 \in DOMAIN q[n] /\ q[n][1].t_ps = t
      /\ \A n \in NetNodes[ni] : \A i \in DOMAIN q[n] : t <= q[n][i].t_ps
      /\ \A n \in NetNodes[ni] : Rest(p[n], q[n])
      /\ \E n \in NetNodes[ni] : Len(p[n]) < Len(q[n])
      /\ r.net.base = s.net.base
  BY MergeFirstResult, Zenon DEF WireSoFar
<1>2. PICK C : Takes(ni, q, s.net, t, C, p, r.net)
  BY MergeFirstTakes, Zenon
<1>3. /\ q \in [NetNodes[ni] -> Seq(Change)] /\ p \in [NetNodes[ni] -> Seq(Change)]
      /\ s.net \in GpioNet(ni) /\ r.net \in GpioNet(ni)
  BY <1>1, Zenon DEF MergeState
<1>. HIDE DEF q, r, p, t
<1>4. /\ \A n \in NetNodes[ni] : Rest(q[n], H[n])
      /\ InOrder(q) /\ Settled(ni, H, q) /\ Wire(ni, s.net, H, L)
  BY Zenon DEF WireSoFar, q
<1>5. \A n \in NetNodes[ni] : Rest(p[n], H[n])
  <2>. SUFFICES ASSUME NEW n \in NetNodes[ni] PROVE Rest(p[n], H[n])
    BY Zenon
  <2>1. p[n] \in Seq(Change) /\ q[n] \in Seq(Change) /\ H[n] \in Seq(Change)
    BY <1>3, Zenon
  <2>. QED BY <1>1, <1>4, <2>1, RestTransitive, Zenon
<1>6. InOrder(p)
  BY <1>1, <1>3, <1>4, RestInOrder, Zenon
<1>7. Counted(ni, H, q, L)
  BY <1>3, <1>4, RestCount, Zenon
<1>8. Counted(ni, H, p, M)
  BY <1>3, <1>5, RestCount, Zenon
<1>9. \A m \in NetNodes[ni] : \A i \in 1 .. L[m] : H[m][i].t_ps < t
  BY <1>1, <1>4, Zenon DEF Settled
<1>. HIDE DEF L, M
<1>10. ASSUME NEW n \in NetNodes[ni]
       PROVE  /\ C[n] \in 0 .. Len(q[n]) /\ M[n] = L[n] + C[n] /\ L[n] \in Nat /\ M[n] \in Nat
              /\ \A i \in L[n] + 1 .. M[n] : H[n][i].t_ps = t
              /\ \A i \in DOMAIN p[n] : t < p[n][i].t_ps
              /\ r.net.own[n] = LastDrive(H[n], M[n])
  <2>1. /\ C[n] \in 0 .. Len(q[n]) /\ p[n] = SubSeq(q[n], C[n] + 1, Len(q[n]))
        /\ \A i \in 1 .. C[n] : q[n][i].t_ps = t
        /\ C[n] < Len(q[n]) => q[n][C[n] + 1].t_ps # t
        /\ r.net.own[n] = IF C[n] = 0 THEN s.net.own[n] ELSE q[n][C[n]].own
    BY <1>2, Zenon DEF Takes
  <2>2. /\ q[n] \in Seq(Change) /\ Len(p[n]) = Len(q[n]) - C[n]
        /\ \A i \in 1 .. Len(q[n]) - C[n] : p[n][i] = q[n][C[n] + i]
    <3>1. q[n] \in Seq(Change)
      BY <1>3, Zenon
    <3>2. SubSeq(q[n], C[n] + 1, Len(q[n])) = p[n] /\ C[n] \in 0 .. Len(q[n])
      BY <2>1, Zenon
    <3>3. /\ Len(SubSeq(q[n], C[n] + 1, Len(q[n]))) = Len(q[n]) - C[n]
          /\ \A i \in 1 .. Len(q[n]) - C[n] : SubSeq(q[n], C[n] + 1, Len(q[n]))[i] = q[n][C[n] + i]
      BY ONLY <3>1, <3>2, DropFront, ZenonT(30)
    <3>. QED BY <3>1, <3>2, <3>3, Zenon
  <2>3. /\ M[n] = L[n] + C[n] /\ L[n] \in Nat /\ M[n] \in Nat /\ C[n] \in Nat
        /\ C[n] <= Len(q[n]) /\ Len(q[n]) \in Nat /\ DOMAIN q[n] = 1 .. Len(q[n])
    <3>1. L[n] \in Nat /\ L[n] = Len(H[n]) - Len(q[n]) /\ Len(q[n]) \in Nat /\ Len(H[n]) \in Nat
      BY <1>7, Zenon DEF Counted, Counts
    <3>2. M[n] = Len(H[n]) - Len(p[n]) /\ DOMAIN q[n] = 1 .. Len(q[n])
      BY <1>7, <1>8, Zenon DEF Counted
    <3>3. C[n] \in Nat /\ C[n] <= Len(q[n]) /\ Len(p[n]) = Len(q[n]) - C[n]
      BY ONLY <2>1, <2>2, <3>1
    <3>. DEFINE a == Len(H[n])
                b == Len(q[n])
                c == Len(p[n])
    <3>. HIDE DEF a, b, c
    <3>4. a \in Nat /\ b \in Nat /\ a - b \in Nat /\ C[n] \in Nat /\ c = b - C[n]
      BY <3>1, <3>3, Zenon DEF a, b, c
    <3>5. a - c = (a - b) + C[n] /\ a - c \in Nat
      BY ONLY <3>4
    <3>. QED BY <3>1, <3>2, <3>3, <3>5, Zenon DEF a, b, c
  <2>4. ASSUME NEW i \in L[n] + 1 .. M[n] PROVE H[n][i].t_ps = t
    <3>1. i - L[n] \in 1 .. C[n] /\ i - L[n] \in DOMAIN q[n] /\ L[n] + (i - L[n]) = i
      BY <2>3, SMTT(30)
    <3>2. q[n][i - L[n]] = H[n][L[n] + (i - L[n])]
      BY <1>7, <3>1, Zenon DEF Counted
    <3>. QED BY <2>1, <3>1, <3>2, Zenon
  <2>5. ASSUME NEW i \in DOMAIN p[n] PROVE t < p[n][i].t_ps
    <3>1. /\ i \in 1 .. Len(q[n]) - C[n] /\ C[n] + i \in DOMAIN q[n] /\ C[n] + 1 \in DOMAIN q[n]
          /\ C[n] + 1 <= C[n] + i /\ C[n] < Len(q[n])
      <4>. DEFINE b == Len(q[n])
      <4>. HIDE DEF b
      <4>1. i \in 1 .. Len(p[n])
        BY <1>8, Zenon DEF Counted
      <4>2. i \in 1 .. b - C[n] /\ b \in Nat /\ C[n] \in Nat /\ DOMAIN q[n] = 1 .. b
        BY <2>2, <2>3, <4>1, Zenon DEF b
      <4>3. C[n] + i \in 1 .. b /\ C[n] + 1 \in 1 .. b /\ C[n] + 1 <= C[n] + i /\ C[n] < b
        BY ONLY <4>2, SMTT(30)
      <4>. QED BY <4>2, <4>3, Zenon DEF b
    <3>2. p[n][i] = q[n][C[n] + i] /\ q[n][C[n] + 1].t_ps # t
      BY <2>1, <2>2, <3>1, Zenon
    <3>3. t <= q[n][C[n] + 1].t_ps
      BY <1>1, <3>1, Zenon
    <3>4. q[n][C[n] + 1].t_ps <= q[n][C[n] + i].t_ps
      BY <1>3, <1>4, <3>1, Zenon DEF InOrder
    <3>5. q[n][C[n] + 1].t_ps \in Nat /\ q[n][C[n] + i].t_ps \in Nat /\ t \in Nat
      BY <1>1, <1>7, <3>1, Zenon DEF Counted
    <3>. QED BY ONLY <3>2, <3>3, <3>4, <3>5, SMTT(30)
  <2>6. r.net.own[n] = LastDrive(H[n], M[n])
    <3>1. CASE C[n] = 0
      <4>1. M[n] = L[n]
        BY ONLY <2>3, <3>1
      <4>. QED BY <1>4, <2>1, <3>1, <4>1, Zenon DEF Wire
    <3>2. CASE C[n] # 0
      <4>1. C[n] \in DOMAIN q[n] /\ M[n] # 0
        BY ONLY <2>3, <3>2
      <4>2. q[n][C[n]] = H[n][M[n]]
        BY <1>7, <2>3, <4>1, Zenon DEF Counted
      <4>. QED BY <2>1, <3>2, <4>1, <4>2, Zenon DEF LastDrive
    <3>. QED BY <3>1, <3>2, Zenon
  <2>. QED BY <2>1, <2>3, <2>4, <2>5, <2>6, Zenon
<1>11. Wire(ni, r.net, H, M)
  <2>1. ASSUME NEW n \in NetNodes[ni]
        PROVE  /\ L[n] <= M[n]
               /\ \A i \in 1 .. L[n] : H[n][i].t_ps < t
               /\ \A i \in L[n] + 1 .. M[n] : H[n][i].t_ps = t
    <3>1. L[n] \in Nat /\ M[n] = L[n] + C[n] /\ C[n] \in 0 .. Len(q[n]) /\ Len(q[n]) \in Nat
      BY <1>7, <1>10, Zenon DEF Counted
    <3>2. L[n] <= M[n]
      BY ONLY <3>1
    <3>. QED BY <1>9, <1>10, <3>2, Zenon
  <2>2. \E n \in NetNodes[ni] : L[n] < M[n]
    <3>1. PICK n \in NetNodes[ni] : Len(p[n]) < Len(q[n])
      BY <1>1, Zenon
    <3>2. L[n] = Len(H[n]) - Len(q[n]) /\ M[n] = Len(H[n]) - Len(p[n])
      BY <1>7, <1>8, Zenon DEF Counted
    <3>3. Len(H[n]) \in Nat /\ Len(q[n]) \in Nat /\ Len(p[n]) \in Nat
      BY <1>7, <1>8, Zenon DEF Counted
    <3>. DEFINE a == Len(H[n])
                b == Len(q[n])
                c == Len(p[n])
    <3>. HIDE DEF a, b, c
    <3>4. a \in Nat /\ b \in Nat /\ c \in Nat /\ c < b
      BY <3>1, <3>3, Zenon DEF a, b, c
    <3>5. a - b < a - c
      BY ONLY <3>4
    <3>. QED BY <3>2, <3>5, Zenon DEF a, b, c
  <2>3. AppliedAt(ni, s.net, r.net, t)
    BY <1>1, <1>2, Zenon DEF Takes, AppliedAt
  <2>4. MergedAt(ni, H, L, M, t)
    BY <2>1, <2>2, Zenon DEF MergedAt
  <2>. QED BY <1>1, <1>3, <1>4, <1>7, <1>8, <1>10, <2>3, <2>4, WireGrows, Zenon DEF Counted
<1>12. ASSUME NEW m \in NetNodes[ni], NEW i \in 1 .. M[m]
       PROVE  i <= L[m] \/ H[m][i].t_ps = t
  <2>1. L[m] \in Nat /\ M[m] \in Nat
    BY <1>10, Zenon
  <2>2. i <= L[m] \/ i \in L[m] + 1 .. M[m]
    BY ONLY i \in 1 .. M[m], <2>1
  <2>. QED BY <1>10, <2>2, Zenon
<1>13. Settled(ni, H, p)
  <2>. SUFFICES ASSUME NEW m \in NetNodes[ni], NEW n \in NetNodes[ni], NEW i \in 1 .. M[m],
                       NEW j \in DOMAIN p[n]
                PROVE  H[m][i].t_ps < p[n][j].t_ps
    BY Zenon DEF Settled, M
  <2>1. t < p[n][j].t_ps /\ p[n][j].t_ps \in Nat
    BY <1>8, <1>10, Zenon DEF Counted
  <2>2. CASE i <= L[m]
    <3>1. i \in 1 .. L[m] /\ L[m] \in Nat
      <4>1. L[m] \in Nat /\ M[m] \in Nat
        BY <1>10, Zenon
      <4>. QED BY ONLY i \in 1 .. M[m], <2>2, <4>1
    <3>2. H[m][i].t_ps < t /\ H[m][i].t_ps \in Nat
      <4>1. H[m] \in Seq(Change) /\ L[m] <= Len(H[m])
        BY <1>7, Zenon DEF Counted, Counts
      <4>2. H[m][i] \in Change
        BY ONLY <3>1, <4>1
      <4>. QED BY <1>9, <3>1, <4>2, Zenon DEF Change
    <3>3. t \in Nat
      BY <1>1, Zenon
    <3>. QED BY ONLY <2>1, <3>2, <3>3
  <2>3. CASE H[m][i].t_ps = t
    BY <2>1, <2>3, Zenon
  <2>. QED BY <1>12, <2>2, <2>3, Zenon
<1>14. WireSoFar(ni, H, r)
  BY <1>5, <1>6, <1>11, <1>13, Zenon DEF WireSoFar, p, M
<1>. QED BY <1>12, <1>14, Zenon DEF r, p, q, t, L, M

(* A whole merge: the net is what the merged changes of all members make   *)
(* of it, and what was taken lies at or before the horizon.                *)
LEMMA MergeWire ==
  ASSUME NEW ni \in Nets, NEW H \in [NetNodes[ni] -> Seq(Change)], NEW g \in GpioNet(ni),
         NEW q \in [NetNodes[ni] -> Seq(Change)], NEW horizon \in Int,
         WireSoFar(ni, H, [net |-> g, pending |-> q])
  PROVE  LET r == MergeNet(ni, g, q, horizon)
         IN  /\ r \in MergeState(ni) /\ WireSoFar(ni, H, r)
             /\ \A n \in NetNodes[ni] : \A i \in 1 .. Count(ni, H, r.pending)[n] :
                  i <= Count(ni, H, q)[n] \/ H[n][i].t_ps <= horizon
<1>. DEFINE Taken(s) == \A n \in NetNodes[ni] : \A i \in 1 .. Count(ni, H, s.pending)[n] :
                          i <= Count(ni, H, q)[n] \/ H[n][i].t_ps <= horizon
            I == {s \in MergeState(ni) : WireSoFar(ni, H, s) /\ Taken(s)}
            s0 == [net |-> g, pending |-> q]
<1>1. s0 \in I
  <2>1. s0 \in MergeState(ni) /\ s0.pending = q
    BY Zenon DEF MergeState
  <2>2. \A n \in NetNodes[ni] : \A i \in 1 .. Count(ni, H, q)[n] : i <= Count(ni, H, q)[n]
    BY ONLY TRUE
  <2>3. Taken(s0)
    BY <2>1, <2>2, Zenon
  <2>. HIDE DEF Taken
  <2>. QED BY <2>1, <2>3, Zenon
<1>2. ASSUME NEW s \in I, ~(\A t \in Fronts(s.pending) : t > horizon) PROVE MergeFirst(ni, s) \in I
  <2>. DEFINE r == MergeFirst(ni, s)
  <2>1. s \in MergeState(ni) /\ WireSoFar(ni, H, s) /\ Taken(s) /\ Fronts(s.pending) # {}
    BY <1>2, Zenon
  <2>2. /\ r \in MergeState(ni) /\ WireSoFar(ni, H, r)
        /\ \A n \in NetNodes[ni] : \A i \in 1 .. Count(ni, H, r.pending)[n] :
             i <= Count(ni, H, s.pending)[n] \/ H[n][i].t_ps = Min(Fronts(s.pending))
    BY <2>1, MergeFirstResult, MergeFirstWire, Zenon
  <2>3. Min(Fronts(s.pending)) <= horizon
    <3>1. s.pending \in [NetNodes[ni] -> Seq(Change)]
      BY <2>1, Zenon DEF MergeState
    <3>2. ASSUME NEW x \in Fronts(s.pending) PROVE x \in Nat
      <4>1. PICK n \in NetNodes[ni] : s.pending[n] # <<>> /\ x = s.pending[n][1].t_ps
        BY <3>1, Zenon DEF Fronts
      <4>2. s.pending[n] \in Seq(Change) /\ s.pending[n] # <<>>
        BY <3>1, <4>1, Zenon
      <4>3. s.pending[n][1] \in Change
        BY ONLY <4>2
      <4>. QED BY <4>1, <4>3, Zenon DEF Change
    <3>3. Fronts(s.pending) \in SUBSET Int /\ \A x \in Fronts(s.pending) : x >= -1
      BY ONLY <3>2
    <3>4. Min(Fronts(s.pending)) \in Int /\ \A x \in Fronts(s.pending) : Min(Fronts(s.pending)) <= x
      BY <2>1, <3>3, MinOf, Zenon
    <3>5. PICK x \in Fronts(s.pending) : ~(x > horizon)
      BY <1>2, Zenon
    <3>. QED BY ONLY horizon \in Int, <3>2, <3>4, <3>5
  <2>. HIDE DEF r
  <2>4. Taken(r)
    <3>. SUFFICES ASSUME NEW n \in NetNodes[ni], NEW i \in 1 .. Count(ni, H, r.pending)[n]
                  PROVE  i <= Count(ni, H, q)[n] \/ H[n][i].t_ps <= horizon
      BY Zenon
    <3>1. CASE i <= Count(ni, H, s.pending)[n]
      <4>1. Count(ni, H, s.pending)[n] \in Int
        <5>1. s.pending \in [NetNodes[ni] -> Seq(Change)] /\ \A k \in NetNodes[ni] : Rest(s.pending[k], H[k])
          BY <2>1, Zenon DEF MergeState, WireSoFar
        <5>2. Counted(ni, H, s.pending, Count(ni, H, s.pending))
          BY <5>1, RestCount, Zenon
        <5>3. Count(ni, H, s.pending)[n] \in Nat
          BY <5>2, Zenon DEF Counted, Counts
        <5>. QED BY ONLY <5>3
      <4>2. i \in 1 .. Count(ni, H, s.pending)[n]
        BY ONLY i \in 1 .. Count(ni, H, r.pending)[n], <3>1, <4>1
      <4>. QED BY <2>1, <4>2, Zenon
    <3>2. CASE H[n][i].t_ps = Min(Fronts(s.pending))
      BY <2>3, <3>2, Zenon
    <3>. QED BY <2>2, <3>1, <3>2, Zenon
  <2>. HIDE DEF Taken
  <2>. QED BY <2>2, <2>4, Zenon DEF r
<1>3. I \in SUBSET MergeState(ni)
  BY Zenon
<1>. DEFINE r == MergeNet(ni, g, q, horizon)
<1>4. r \in I
  <2>. HIDE DEF I
  <2>. QED BY <1>1, <1>2, <1>3, MergeEnds, Zenon
<1>. HIDE DEF r
<1>. QED BY <1>4, Zenon DEF r

-------------------------------------------------------------------------------
(* The changes of a member that no merge has seen, as collect_edges reads  *)
(* them: those that wait, then those of the ring.                          *)
Backlog(n, p, s) ==
  p \o [i \in DOMAIN s |-> [t_ps |-> CyclesToPs(s[i].cycle, n), own |-> s[i].own]]

Backlogs(ni) == [n \in NetNodes[ni] |-> Backlog(n, pending[ni][n], ring[n][ni])]

(* Every net is the wire of what is merged; what is merged lies before     *)
(* what is not, and no later than any member that is still alive.          *)
WireOf(ni, H, g, q) ==
  /\ H \in [NetNodes[ni] -> Seq(Change)]
  /\ \A n \in NetNodes[ni] : Rest(q[n], H[n])
  /\ Settled(ni, H, q) /\ Wire(ni, g, H, Count(ni, H, q))

Reached(ni, H, q) ==
  \A m, r \in NetNodes[ni] : health[r] = "ok" =>
    \A i \in 1 .. Count(ni, H, q)[m] : H[m][i].t_ps <= T(r)

WireInv ==
  /\ DOMAIN hist = Nets
  /\ \A ni \in Nets : WireOf(ni, hist[ni], net[ni], Backlogs(ni)) /\ Reached(ni, hist[ni], Backlogs(ni))

-------------------------------------------------------------------------------
(* A backlog is the queue followed by the ring, its entries at the times   *)
(* of their cycles.                                                        *)
LEMMA BacklogForm ==
  ASSUME NEW n \in Nodes, NEW p \in Seq(Change), NEW s \in Seq(RingEntry)
  PROVE  /\ Backlog(n, p, s) \in Seq(Change)
         /\ Len(Backlog(n, p, s)) = Len(p) + Len(s)
         /\ \A i \in 1 .. Len(p) : Backlog(n, p, s)[i] = p[i]
         /\ \A i \in 1 .. Len(s) : Backlog(n, p, s)[Len(p) + i] =
              [t_ps |-> CyclesToPs(s[i].cycle, n), own |-> s[i].own]
<1>. DEFINE x(i) == [t_ps |-> CyclesToPs(s[i].cycle, n), own |-> s[i].own]
            e == [i \in DOMAIN s |-> x(i)]
<1>1. Len(s) \in Nat /\ DOMAIN s = 1 .. Len(s) /\ \A i \in DOMAIN s : s[i] \in RingEntry
  OBVIOUS
<1>2. \A i \in 1 .. Len(s) : x(i) \in Change
  BY <1>1, Conversions, Zenon DEF RingEntry, Change
<1>3. Backlog(n, p, s) = p \o e
  BY Zenon DEF Backlog
<1>. HIDE DEF x
<1>4. e = [i \in 1 .. Len(s) |-> x(i)]
  BY <1>1, Zenon
<1>. HIDE DEF e
<1>5. e \in Seq(Change) /\ Len(e) = Len(s) /\ \A i \in 1 .. Len(s) : e[i] = x(i)
  BY <1>1, <1>2, <1>4
<1>6. /\ p \o e \in Seq(Change) /\ Len(p \o e) = Len(p) + Len(e)
      /\ \A i \in 1 .. Len(p) : (p \o e)[i] = p[i]
      /\ \A i \in 1 .. Len(e) : (p \o e)[Len(p) + i] = e[i]
  <2>1. Len(p) \in Nat /\ Len(e) \in Nat
    BY <1>5
  <2>. QED BY <1>5, <2>1
<1>. QED BY <1>3, <1>5, <1>6, Zenon DEF x

(* A recorded change joins the backlog at its end.                         *)
LEMMA BacklogGrows ==
  ASSUME NEW n \in Nodes, NEW p \in Seq(Change), NEW s \in Seq(RingEntry),
         NEW c \in Nat, NEW own \in Own
  PROVE  Backlog(n, p, Append(s, [cycle |-> c, own |-> own]))
           = Append(Backlog(n, p, s), [t_ps |-> CyclesToPs(c, n), own |-> own])
<1>. DEFINE e == [cycle |-> c, own |-> own]
            k == [t_ps |-> CyclesToPs(c, n), own |-> own]
            s1 == Append(s, e)
            b == Backlog(n, p, s)
            b1 == Backlog(n, p, s1)
            x(q, i) == [t_ps |-> CyclesToPs(q[i].cycle, n), own |-> q[i].own]
<1>1. /\ e \in RingEntry /\ k \in Change /\ e.cycle = c /\ e.own = own
      /\ Len(s) \in Nat /\ Len(p) \in Nat
  <2>1. CyclesToPs(c, n) \in Nat
    BY Conversions, Zenon
  <2>2. e \in RingEntry /\ e.cycle = c /\ e.own = own
    BY Zenon DEF RingEntry
  <2>3. k \in Change
    BY <2>1, Zenon DEF Change
  <2>. QED BY <2>2, <2>3
<1>. HIDE DEF e, k
<1>2. /\ s1 \in Seq(RingEntry) /\ Len(s1) = Len(s) + 1 /\ s1[Len(s) + 1] = e
      /\ \A i \in 1 .. Len(s) : s1[i] = s[i]
  BY <1>1
<1>. HIDE DEF s1
<1>3. /\ b \in Seq(Change) /\ Len(b) = Len(p) + Len(s)
      /\ \A i \in 1 .. Len(p) : b[i] = p[i]
      /\ \A i \in 1 .. Len(s) : b[Len(p) + i] = x(s, i)
  BY BacklogForm, Zenon
<1>4. /\ b1 \in Seq(Change) /\ Len(b1) = Len(p) + Len(s1)
      /\ \A i \in 1 .. Len(p) : b1[i] = p[i]
      /\ \A i \in 1 .. Len(s1) : b1[Len(p) + i] = x(s1, i)
  BY <1>2, BacklogForm, Zenon
<1>5. \A i \in 1 .. Len(s) : x(s1, i) = x(s, i)
  BY <1>2, Zenon
<1>6. x(s1, Len(s) + 1) = k
  BY <1>1, <1>2, Zenon DEF k
<1>. HIDE DEF b, b1, x
<1>7. \A i \in 1 .. Len(b) : b1[i] = b[i]
  <2>. SUFFICES ASSUME NEW i \in 1 .. Len(b) PROVE b1[i] = b[i]
    BY Zenon
  <2>1. CASE i <= Len(p)
    BY <1>1, <1>3, <1>4, <2>1, SMTT(30)
  <2>2. CASE i > Len(p)
    <3>1. PICK j : j = i - Len(p)
      BY Zenon
    <3>2. j \in 1 .. Len(s) /\ j \in 1 .. Len(s1) /\ i = Len(p) + j
      BY <1>1, <1>2, <1>3, <2>2, <3>1, SMTT(30)
    <3>. QED BY <1>3, <1>4, <1>5, <3>2, Zenon
  <2>. QED BY <1>1, <1>3, <2>1, <2>2, SMTT(30)
<1>8. Len(b1) = Len(b) + 1 /\ b1[Len(b) + 1] = k
  <2>1. Len(s) + 1 \in 1 .. Len(s1) /\ Len(b) + 1 = Len(p) + (Len(s) + 1)
    BY <1>1, <1>2, <1>3
  <2>2. Len(b1) = Len(p) + (Len(s) + 1)
    BY <1>2, <1>4, Zenon
  <2>. QED BY <1>4, <1>6, <2>1, <2>2, Zenon
<1>9. b1 = Append(b, k)
  BY <1>1, <1>3, <1>4, <1>7, <1>8, SMTT(30)
<1>. QED BY <1>9, Zenon DEF b, b1, s1, e, k

(* Of a history, the wire only depends on what is merged.                  *)
LEMMA WireSame ==
  ASSUME NEW ni \in Nets, NEW g, NEW H, NEW K, NEW L \in [NetNodes[ni] -> Nat],
         \A n \in NetNodes[ni] : \A i \in 1 .. L[n] : K[n][i] = H[n][i],
         Wire(ni, g, H, L)
  PROVE  Wire(ni, g, K, L)
<1>1. ASSUME NEW n \in NetNodes[ni], NEW t PROVE DriveOf(K[n], L[n], t) = DriveOf(H[n], L[n], t)
  <2>1. Past(K[n], L[n], t) = Past(H[n], L[n], t) /\ Past(H[n], L[n], t) \in SUBSET (0 .. L[n])
    BY DEF Past
  <2>2. Past(H[n], L[n], t) # {} => Max(Past(H[n], L[n], t)) \in Past(H[n], L[n], t)
    BY <2>1, MaxOf, Zenon
  <2>3. Past(H[n], L[n], t) \subseteq 1 .. L[n]
    BY Zenon DEF Past
  <2>. QED BY <2>1, <2>2, <2>3, Zenon DEF DriveOf
<1>2. \A t : LevelOf(ni, K, L, t) = LevelOf(ni, H, L, t)
  <2>. SUFFICES ASSUME NEW t PROVE LevelOf(ni, K, L, t) = LevelOf(ni, H, L, t)
    BY Zenon
  <2>1. {DriveOf(K[n], L[n], t) : n \in NetNodes[ni]} = {DriveOf(H[n], L[n], t) : n \in NetNodes[ni]}
    BY <1>1, Zenon
  <2>. QED BY <2>1, Zenon DEF LevelOf
<1>3. TimesOf(ni, K, L) = TimesOf(ni, H, L)
  <2>. DEFINE A(n) == {K[n][i].t_ps : i \in 1 .. L[n]}
              B(n) == {H[n][i].t_ps : i \in 1 .. L[n]}
  <2>1. \A n \in NetNodes[ni] : A(n) = B(n)
    BY Zenon
  <2>2. TimesOf(ni, K, L) = UNION {A(n) : n \in NetNodes[ni]}
    BY Zenon DEF TimesOf
  <2>3. TimesOf(ni, H, L) = UNION {B(n) : n \in NetNodes[ni]}
    BY Zenon DEF TimesOf
  <2>. HIDE DEF A, B
  <2>4. {A(n) : n \in NetNodes[ni]} = {B(n) : n \in NetNodes[ni]}
    BY <2>1, Zenon
  <2>. QED BY <2>2, <2>3, <2>4, Zenon
<1>4. MovesOf(ni, K, L) = MovesOf(ni, H, L)
  BY <1>2, <1>3, Zenon DEF MovesOf
<1>5. \A n \in NetNodes[ni] : LastDrive(K[n], L[n]) = LastDrive(H[n], L[n])
  <2>. SUFFICES ASSUME NEW n \in NetNodes[ni], L[n] # 0 PROVE K[n][L[n]] = H[n][L[n]]
    BY Zenon DEF LastDrive
  <2>1. L[n] \in 1 .. L[n]
    OBVIOUS
  <2>. QED BY <2>1, Zenon
<1>. QED BY <1>2, <1>4, <1>5, Zenon DEF Wire

(* Letting go of deliveries every member has had changes no wire.          *)
LEMMA WireConsumed ==
  ASSUME NEW ni \in Nets, NEW g \in GpioNet(ni), NEW k \in GpioNet(ni), NEW H, NEW L,
         k.own = g.own, k.level = g.level, Rest(k.deliveries, g.deliveries),
         k.base + Len(k.deliveries) = g.base + Len(g.deliveries), Wire(ni, g, H, L)
  PROVE  Wire(ni, k, H, L)
<1>. DEFINE d == g.deliveries
            e == k.deliveries
<1>1. PICK c \in 0 .. Len(d) : Len(e) = Len(d) - c /\ \A i \in DOMAIN e : e[i] = d[c + i]
  BY Zenon DEF Rest
<1>2. /\ Len(d) \in Nat /\ DOMAIN d = 1 .. Len(d) /\ DOMAIN e = 1 .. Len(e)
  BY NetTypes, Zenon
<1>3. \A i \in DOMAIN e : c + i \in DOMAIN d /\ \A j \in 1 .. i - 1 : j \in DOMAIN e /\ c + j \in 1 .. (c + i) - 1
  BY <1>1, <1>2
<1>4. WireLevel(k, Pull[ni]) = WireLevel(g, Pull[ni])
  BY Zenon DEF WireLevel
<1>5. \A i \in DOMAIN d : /\ d[i].t_ps - Latency[ni] \in MovesOf(ni, H, L)
                          /\ d[i].level = LevelOf(ni, H, L, d[i].t_ps - Latency[ni])
                          /\ \A j \in 1 .. i - 1 : d[j].t_ps < d[i].t_ps
  BY Zenon DEF Wire
<1>. HIDE DEF d, e
<1>6. \A i \in DOMAIN e : /\ e[i].t_ps - Latency[ni] \in MovesOf(ni, H, L)
                          /\ e[i].level = LevelOf(ni, H, L, e[i].t_ps - Latency[ni])
                          /\ \A j \in 1 .. i - 1 : e[j].t_ps < e[i].t_ps
  BY <1>1, <1>3, <1>5, Zenon
<1>. QED BY <1>4, <1>6, Zenon DEF Wire, e

(* A history h, of which p is still to be merged, and h1, p1 with one more *)
(* change k: as much is merged as before, and of p1 only k is new.         *)
Lengthened(h, p, k, h1, p1) ==
  /\ Rest(p1, h1) /\ Len(h1) - Len(p1) = Len(h) - Len(p)
  /\ \A i \in 1 .. Len(h) - Len(p) : h1[i] = h[i]
  /\ \A j \in DOMAIN p1 : p1[j] = k \/ \E x \in DOMAIN p : p1[j] = p[x]

(* A change that is recorded is the last of the history and of the         *)
(* backlog.                                                                *)
LEMMA RestGrows ==
  ASSUME NEW h \in Seq(Change), NEW p \in Seq(Change), NEW k \in Change, Rest(p, h)
  PROVE  Lengthened(h, p, k, Append(h, k), Append(p, k))
<1>. DEFINE h1 == Append(h, k)
            p1 == Append(p, k)
<1>1. PICK c \in 0 .. Len(h) : Len(p) = Len(h) - c /\ \A i \in DOMAIN p : p[i] = h[c + i]
  BY Zenon DEF Rest
<1>2. Len(h) \in Nat /\ Len(p) \in Nat /\ c \in Nat /\ c <= Len(h) /\ DOMAIN p = 1 .. Len(p)
  BY <1>1
<1>3. /\ h1 \in Seq(Change) /\ Len(h1) = Len(h) + 1 /\ h1[Len(h) + 1] = k
      /\ \A i \in 1 .. Len(h) : h1[i] = h[i]
  OBVIOUS
<1>4. /\ p1 \in Seq(Change) /\ Len(p1) = Len(p) + 1 /\ p1[Len(p) + 1] = k
      /\ DOMAIN p1 = 1 .. Len(p) + 1 /\ \A i \in 1 .. Len(p) : p1[i] = p[i]
  OBVIOUS
<1>. HIDE DEF h1, p1
<1>5. Len(h) - Len(p) = c /\ Len(h1) - Len(p1) = c
  BY <1>1, <1>2, <1>3, <1>4, SMTT(30)
<1>6. c \in 0 .. Len(h1) /\ Len(p1) = Len(h1) - c
  BY <1>1, <1>2, <1>3, <1>4, SMTT(30)
<1>7. ASSUME NEW i \in DOMAIN p1 PROVE i \in DOMAIN p \/ i = Len(p) + 1
  BY <1>2, <1>4
<1>8. ASSUME NEW i \in DOMAIN p1 PROVE p1[i] = h1[c + i]
  <2>1. CASE i \in DOMAIN p
    <3>1. c + i \in 1 .. Len(h)
      BY <1>1, <1>2, <2>1
    <3>. QED BY <1>1, <1>2, <1>3, <1>4, <2>1, <3>1, Zenon
  <2>2. CASE i = Len(p) + 1
    <3>1. c + i = Len(h) + 1
      BY <1>1, <1>2, <2>2
    <3>. QED BY <1>3, <1>4, <2>2, <3>1, Zenon
  <2>. QED BY <1>7, <2>1, <2>2, Zenon
<1>9. Rest(p1, h1)
  BY <1>6, <1>8, Zenon DEF Rest
<1>10. \A i \in 1 .. c : h1[i] = h[i]
  BY <1>2, <1>3
<1>11. \A j \in DOMAIN p1 : p1[j] = k \/ \E x \in DOMAIN p : p1[j] = p[x]
  BY <1>2, <1>4, <1>7, Zenon
<1>. QED BY <1>5, <1>9, <1>10, <1>11, Zenon DEF Lengthened, h1, p1

(* All that is merged lies before t; histories that agree on what is.      *)
Behind(ni, H, L, t) == \A m \in NetNodes[ni] : \A i \in 1 .. L[m] : H[m][i].t_ps < t

Agree(ni, H, K, L) == \A m \in NetNodes[ni] : \A i \in 1 .. L[m] : K[m][i] = H[m][i]

(* Queues or histories of a net with one more change, of member n.         *)
With(q, n, k) == [q EXCEPT ![n] = Append(q[n], k)]

(* A new change lies after all that is merged, and waits.                  *)
LEMMA WireRecorded ==
  ASSUME NEW ni \in Nets, NEW H, NEW g, NEW q \in [NetNodes[ni] -> Seq(Change)],
         WireOf(ni, H, g, q), NEW n \in NetNodes[ni], NEW k \in Change,
         Behind(ni, H, Count(ni, H, q), k.t_ps)
  PROVE  /\ WireOf(ni, With(H, n, k), g, With(q, n, k))
         /\ Count(ni, With(H, n, k), With(q, n, k)) = Count(ni, H, q)
         /\ Agree(ni, H, With(H, n, k), Count(ni, H, q))
<1>. DEFINE L == Count(ni, H, q)
            H1 == With(H, n, k)
            q1 == With(q, n, k)
<1>1. /\ H \in [NetNodes[ni] -> Seq(Change)] /\ \A m \in NetNodes[ni] : Rest(q[m], H[m])
      /\ Settled(ni, H, q) /\ Wire(ni, g, H, L)
  BY Zenon DEF WireOf
<1>2. /\ L \in [NetNodes[ni] -> Nat]
      /\ \A m \in NetNodes[ni] : L[m] = Len(H[m]) - Len(q[m])
  <2>1. Counted(ni, H, q, L)
    BY <1>1, RestCount, Zenon
  <2>. HIDE DEF L
  <2>. QED BY <2>1, Zenon DEF Counted, Counts
<1>3. \A m \in NetNodes[ni] : \A i \in 1 .. L[m] : /\ H[m][i].t_ps < k.t_ps
                                                   /\ \A l \in NetNodes[ni] : \A j \in DOMAIN q[l] :
                                                        H[m][i].t_ps < q[l][j].t_ps
  BY <1>1, Zenon DEF Settled, Behind
<1>. HIDE DEF L
<1>4. /\ H1 \in [NetNodes[ni] -> Seq(Change)] /\ q1 \in [NetNodes[ni] -> Seq(Change)]
      /\ H1[n] = Append(H[n], k) /\ q1[n] = Append(q[n], k)
      /\ \A m \in NetNodes[ni] \ {n} : H1[m] = H[m] /\ q1[m] = q[m]
  BY <1>1 DEF With
<1>. HIDE DEF H1, q1
<1>. DEFINE Fits(m) == /\ Rest(q1[m], H1[m]) /\ Len(H1[m]) - Len(q1[m]) = L[m]
                       /\ \A i \in 1 .. L[m] : H1[m][i] = H[m][i]
                       /\ \A j \in DOMAIN q1[m] : \/ q1[m][j] = k
                                                  \/ \E x \in DOMAIN q[m] : q1[m][j] = q[m][x]
<1>5. ASSUME NEW m \in NetNodes[ni] PROVE Fits(m)
  <2>1. CASE m = n
    <3>1. H[n] \in Seq(Change) /\ q[n] \in Seq(Change) /\ Rest(q[n], H[n]) /\ L[n] = Len(H[n]) - Len(q[n])
      BY <1>1, <1>2, Zenon
    <3>2. /\ Rest(q1[n], H1[n]) /\ Len(H1[n]) - Len(q1[n]) = L[n]
          /\ \A i \in 1 .. L[n] : H1[n][i] = H[n][i]
          /\ \A j \in DOMAIN q1[n] : q1[n][j] = k \/ \E x \in DOMAIN q[n] : q1[n][j] = q[n][x]
      <4>1. k \in Change
        BY Zenon
      <4>2. Lengthened(H[n], q[n], k, Append(H[n], k), Append(q[n], k))
        BY ONLY <3>1, <4>1, RestGrows, Zenon
      <4>3. Lengthened(H[n], q[n], k, H1[n], q1[n])
        BY <1>4, <4>2, Zenon
      <4>. QED BY ONLY <3>1, <4>3, Zenon DEF Lengthened
    <3>. QED BY <2>1, <3>2, Zenon
  <2>2. CASE m # n
    <3>1. H1[m] = H[m] /\ q1[m] = q[m] /\ Rest(q[m], H[m]) /\ L[m] = Len(H[m]) - Len(q[m])
      BY <1>1, <1>2, <1>4, <2>2, Zenon
    <3>. QED BY <3>1, Zenon
  <2>. QED BY <2>1, <2>2, Zenon
<1>6. \A m \in NetNodes[ni] : Rest(q1[m], H1[m])
  BY <1>5, Zenon
<1>7. Count(ni, H1, q1) = L
  <2>1. \A m \in NetNodes[ni] : Len(H1[m]) - Len(q1[m]) = L[m]
    BY <1>5, Zenon
  <2>. HIDE DEF Fits
  <2>. QED BY ONLY <1>2, <2>1, Zenon DEF Count
<1>8. \A m \in NetNodes[ni] : \A i \in 1 .. L[m] : H1[m][i] = H[m][i]
  BY <1>5, Zenon
<1>9. \A m \in NetNodes[ni] : \A j \in DOMAIN q1[m] :
        q1[m][j] = k \/ \E x \in DOMAIN q[m] : q1[m][j] = q[m][x]
  BY <1>5, Zenon
<1>. HIDE DEF Fits
<1>10. Wire(ni, g, H1, L)
  <2>1. ni \in Nets
    BY Zenon
  <2>. QED BY ONLY <1>1, <1>2, <1>8, <2>1, WireSame, Zenon
<1>11. Settled(ni, H1, q1)
  <2>1. ASSUME NEW m \in NetNodes[ni], NEW l \in NetNodes[ni], NEW i \in 1 .. L[m],
               NEW j \in DOMAIN q1[l]
        PROVE  H1[m][i].t_ps < q1[l][j].t_ps
    <3>1. /\ H1[m][i] = H[m][i] /\ H[m][i].t_ps < k.t_ps
          /\ \A x \in DOMAIN q[l] : H[m][i].t_ps < q[l][x].t_ps
      BY <1>3, <1>8, Zenon
    <3>2. q1[l][j] = k \/ \E x \in DOMAIN q[l] : q1[l][j] = q[l][x]
      BY <1>9, Zenon
    <3>. QED BY ONLY <3>1, <3>2, Zenon
  <2>. QED BY <1>7, <2>1, Zenon DEF Settled
<1>. QED BY <1>4, <1>6, <1>7, <1>8, <1>10, <1>11, Zenon DEF WireOf, Agree, L, H1, q1

-------------------------------------------------------------------------------
(* The histories and the backlogs are sequences of changes.                *)
LEMMA BacklogTypes ==
  ASSUME TypeInv, NEW ni \in Nets
  PROVE  /\ Backlogs(ni) \in [NetNodes[ni] -> Seq(Change)]
         /\ \A n \in NetNodes[ni] : /\ n \in Nodes /\ ni \in NetsOf(n) /\ T(n) \in Nat
                                    /\ pending[ni][n] \in Seq(Change) /\ ring[n][ni] \in Seq(RingEntry)
<1>1. ASSUME NEW n \in NetNodes[ni]
      PROVE  /\ n \in Nodes /\ ni \in NetsOf(n) /\ T(n) \in Nat
             /\ pending[ni][n] \in Seq(Change) /\ ring[n][ni] \in Seq(RingEntry)
             /\ Backlog(n, pending[ni][n], ring[n][ni]) \in Seq(Change)
  <2>1. n \in Nodes /\ ni \in NetsOf(n)
    BY Constants, Zenon DEF NetsOf
  <2>2. pending[ni][n] \in Seq(Change) /\ ring[n][ni] \in Seq(RingEntry)
    BY <2>1, Zenon DEF TypeInv
  <2>. QED BY <2>1, <2>2, BacklogForm, Typed, Zenon DEF TypeFacts
<1>. QED BY <1>1, Zenon DEF Backlogs

(* The changes that are merged are changes of the history.                 *)
LEMMA MergedTypes ==
  ASSUME NEW ni \in Nets, NEW H, NEW g, NEW q \in [NetNodes[ni] -> Seq(Change)], WireOf(ni, H, g, q),
         NEW m \in NetNodes[ni]
  PROVE  /\ Count(ni, H, q)[m] \in Nat /\ Count(ni, H, q)[m] <= Len(H[m])
         /\ \A i \in 1 .. Count(ni, H, q)[m] : H[m][i] \in Change /\ H[m][i].t_ps \in Nat
<1>1. H \in [NetNodes[ni] -> Seq(Change)] /\ \A n \in NetNodes[ni] : Rest(q[n], H[n])
  BY Zenon DEF WireOf
<1>2. Counted(ni, H, q, Count(ni, H, q))
  BY <1>1, RestCount, Zenon
<1>3. Count(ni, H, q)[m] \in Nat /\ Count(ni, H, q)[m] <= Len(H[m])
  BY <1>2, Zenon DEF Counted, Counts
<1>4. ASSUME NEW i \in 1 .. Count(ni, H, q)[m] PROVE H[m][i] \in Change /\ H[m][i].t_ps \in Nat
  <2>1. H[m] \in Seq(Change) /\ i \in 1 .. Len(H[m])
    BY <1>1, <1>3
  <2>2. H[m][i] \in Change
    BY <2>1
  <2>. QED BY <2>2, Zenon DEF Change
<1>. QED BY <1>3, <1>4, Zenon

(* Nothing is recorded, collected or merged: time passes, nets only let    *)
(* go of deliveries.                                                       *)
LEMMA WireUnmoved ==
  ASSUME TypeInv, WireInv, UNCHANGED <<hist, pending, ring>>,
         \A ni \in Nets : \A L : Wire(ni, net[ni], hist[ni], L) => Wire(ni, net'[ni], hist[ni], L),
         \A n \in Nodes : T(n)' \in Nat /\ T(n) <= T(n)' /\ (health'[n] = "ok" => health[n] = "ok")
  PROVE  WireInv'
<1>. SUFFICES ASSUME NEW ni \in Nets
              PROVE  /\ WireOf(ni, hist[ni], net'[ni], Backlogs(ni))
                     /\ Reached(ni, hist[ni], Backlogs(ni))'
  <2>1. \A mi \in Nets : Backlogs(mi)' = Backlogs(mi)
    BY Zenon DEF Backlogs
  <2>. QED BY <2>1, Zenon DEF WireInv
<1>1. WireOf(ni, hist[ni], net[ni], Backlogs(ni)) /\ Reached(ni, hist[ni], Backlogs(ni))
  BY Zenon DEF WireInv
<1>2. WireOf(ni, hist[ni], net'[ni], Backlogs(ni))
  BY <1>1, Zenon DEF WireOf
<1>3. Backlogs(ni)' = Backlogs(ni)
  BY Zenon DEF Backlogs
<1>4. ASSUME NEW m \in NetNodes[ni], NEW r \in NetNodes[ni], health'[r] = "ok",
             NEW i \in 1 .. Count(ni, hist[ni], Backlogs(ni))[m]
      PROVE  hist[ni][m][i].t_ps <= T(r)'
  <2>1. r \in Nodes /\ T(r) \in Nat
    BY BacklogTypes, Zenon
  <2>2. T(r)' \in Nat /\ T(r) <= T(r)' /\ health[r] = "ok"
    BY <1>4, <2>1, Zenon
  <2>3. hist[ni][m][i].t_ps <= T(r)
    BY <1>1, <2>2, Zenon DEF Reached
  <2>4. hist[ni][m][i].t_ps \in Nat
    BY <1>1, BacklogTypes, MergedTypes, Zenon
  <2>. QED BY ONLY <2>1, <2>2, <2>3, <2>4, SMTT(30)
<1>5. Reached(ni, hist[ni], Backlogs(ni))'
  BY <1>3, <1>4, Zenon DEF Reached
<1>. QED BY <1>2, <1>5, Zenon

(* The running node records a change: it lies after the node's time, which *)
(* no merged change passes.                                                *)
LEMMA RecordWire ==
  ASSUME TypeInv, WireInv, pc = "run", health[node] = "ok", NEW c \in Nat, cyc[node] < c,
         NEW mi \in NetsOf(node), NEW own \in Own, Record(c, mi, own),
         cyc' = [cyc EXCEPT ![node] = c], UNCHANGED <<net, pending, health>>
  PROVE  WireInv'
<1>. DEFINE e == [cycle |-> c, own |-> own]
            k == [t_ps |-> CyclesToPs(c, node), own |-> own]
            H == hist[mi]
            q == Backlogs(mi)
<1>1. /\ node \in Nodes /\ mi \in Nets /\ node \in NetNodes[mi] /\ DOMAIN hist = Nets
      /\ cyc \in [Nodes -> Nat] /\ DOMAIN ring = Nodes
      /\ \A n \in Nodes : ring[n] \in [NetsOf(n) -> Seq(RingEntry)]
  BY Zenon DEF TypeInv, NetsOf, WireInv
<1>2. WireOf(mi, H, net[mi], q) /\ Reached(mi, H, q) /\ H \in [NetNodes[mi] -> Seq(Change)]
  BY <1>1, Zenon DEF WireInv, WireOf
<1>3. /\ DOMAIN hist' = Nets /\ hist'[mi] = [H EXCEPT ![node] = Append(H[node], k)]
      /\ \A ni \in Nets \ {mi} : hist'[ni] = hist[ni]
  BY <1>1, <1>2, Zenon DEF Record
<1>4. /\ ring'[node][mi] = Append(ring[node][mi], e)
      /\ \A n \in Nodes : \A ni \in NetsOf(n) : n # node \/ ni # mi => ring'[n][ni] = ring[n][ni]
  <2>1. ring' = [ring EXCEPT ![node][mi] = Append(ring[node][mi], e)]
    BY Zenon DEF Record
  <2>2. \A n \in Nodes : DOMAIN ring[n] = NetsOf(n)
    BY <1>1, Zenon
  <2>. HIDE DEF e
  <2>. QED BY <1>1, <2>1, <2>2, Zenon
<1>5. /\ q \in [NetNodes[mi] -> Seq(Change)]
      /\ pending[mi][node] \in Seq(Change) /\ ring[node][mi] \in Seq(RingEntry)
  BY <1>1, BacklogTypes, Zenon
<1>6. \A ni \in Nets : \A n \in NetNodes[ni] : n \in Nodes /\ ni \in NetsOf(n) /\ T(n) \in Nat
  BY BacklogTypes, Zenon
<1>7. ASSUME NEW ni \in Nets, ni # mi PROVE Backlogs(ni)' = Backlogs(ni)
  <2>1. \A n \in NetNodes[ni] : ring'[n][ni] = ring[n][ni] /\ pending'[ni][n] = pending[ni][n]
    BY <1>4, <1>6, <1>7, Zenon
  <2>. QED BY <2>1, Zenon DEF Backlogs
<1>8. Backlogs(mi)' = [q EXCEPT ![node] = Append(q[node], k)]
  <2>. DEFINE b(n) == Backlog(n, pending[mi][n], ring[n][mi])
              b1(n) == Backlog(n, pending'[mi][n], ring'[n][mi])
  <2>1. pending' = pending
    BY Zenon
  <2>2. b1(node) = Append(b(node), k)
    <3>1. Backlog(node, pending[mi][node], Append(ring[node][mi], e))
            = Append(Backlog(node, pending[mi][node], ring[node][mi]), k)
      BY <1>1, <1>5, BacklogGrows, Zenon
    <3>. HIDE DEF e, k
    <3>. QED BY <1>4, <2>1, <3>1, Zenon
  <2>3. \A n \in NetNodes[mi] \ {node} : b1(n) = b(n)
    BY <1>1, <1>4, <1>6, <2>1, Zenon
  <2>4. q = [n \in NetNodes[mi] |-> b(n)] /\ Backlogs(mi)' = [n \in NetNodes[mi] |-> b1(n)]
    BY Zenon DEF Backlogs
  <2>. HIDE DEF b, b1, k, q
  <2>. QED BY <1>1, <2>2, <2>3, <2>4, Zenon
<1>9. k \in Change /\ k.t_ps = CyclesToPs(c, node) /\ k.t_ps \in Nat /\ T(node) < k.t_ps
  <2>1. CyclesToPs(c, node) \in Nat /\ CyclesToPs(cyc[node], node) < CyclesToPs(c, node)
    BY <1>1, Conversions, Zenon
  <2>. QED BY <2>1, Zenon DEF Change, T
<1>10. ASSUME NEW n \in Nodes PROVE T(n)' \in Nat /\ T(n) \in Nat /\ T(n) <= T(n)'
  <2>1. cyc'[n] \in Nat /\ cyc[n] \in Nat /\ cyc[n] <= cyc'[n]
    BY <1>1
  <2>. QED BY <2>1, Conversions, Zenon DEF T
<1>11. ASSUME NEW ni \in Nets PROVE Reached(ni, hist[ni], Backlogs(ni))
  BY Zenon DEF WireInv
<1>. HIDE DEF k, H, q
<1>12. Behind(mi, H, Count(mi, H, q), k.t_ps)
  <2>. SUFFICES ASSUME NEW m \in NetNodes[mi], NEW i \in 1 .. Count(mi, H, q)[m] PROVE H[m][i].t_ps < k.t_ps
    BY Zenon DEF Behind
  <2>1. H[m][i].t_ps <= T(node) /\ T(node) \in Nat
    BY <1>1, <1>2, <1>6, Zenon DEF Reached
  <2>2. H[m][i].t_ps \in Nat
    BY <1>1, <1>2, <1>5, MergedTypes, Zenon
  <2>. QED BY ONLY <1>9, <2>1, <2>2, SMTT(30)
<1>13. PICK H1 : H1 = hist'[mi]
  BY Zenon
<1>14. PICK q1 : q1 = Backlogs(mi)'
  BY Zenon
<1>15. /\ WireOf(mi, H1, net[mi], q1) /\ Count(mi, H1, q1) = Count(mi, H, q)
       /\ Agree(mi, H, H1, Count(mi, H, q))
  <2>1. H1 = With(H, node, k) /\ q1 = With(q, node, k)
    BY <1>3, <1>8, <1>13, <1>14, Zenon DEF With
  <2>. QED BY ONLY <1>1, <1>2, <1>5, <1>9, <1>12, <2>1, WireRecorded, Zenon
<1>16. ASSUME NEW ni \in Nets, NEW m \in NetNodes[ni], NEW r \in NetNodes[ni], health[r] = "ok",
              NEW i \in 1 .. Count(ni, hist[ni], Backlogs(ni))[m]
       PROVE  hist[ni][m][i].t_ps <= T(r)'
  <2>1. hist[ni][m][i].t_ps <= T(r)
    BY <1>11, <1>16, Zenon DEF Reached
  <2>2. hist[ni][m][i].t_ps \in Nat
    BY BacklogTypes, MergedTypes, Zenon DEF WireInv
  <2>3. T(r)' \in Nat /\ T(r) \in Nat /\ T(r) <= T(r)'
    BY <1>6, <1>10, Zenon
  <2>. QED BY ONLY <2>1, <2>2, <2>3, SMTT(30)
<1>17. ASSUME NEW ni \in Nets
       PROVE  WireOf(ni, hist'[ni], net'[ni], Backlogs(ni)') /\ Reached(ni, hist[ni], Backlogs(ni))'
  <2>1. CASE ni # mi
    <3>1. hist'[ni] = hist[ni] /\ Backlogs(ni)' = Backlogs(ni) /\ net'[ni] = net[ni]
      BY <1>3, <1>7, <2>1, Zenon
    <3>2. WireOf(ni, hist[ni], net[ni], Backlogs(ni))
      BY Zenon DEF WireInv
    <3>. QED BY <1>16, <3>1, <3>2, Zenon DEF Reached
  <2>2. CASE ni = mi
    <3>1. WireOf(mi, hist'[mi], net'[mi], Backlogs(mi)')
      BY <1>13, <1>14, <1>15, Zenon
    <3>2. \A m, r \in NetNodes[mi] : health[r] = "ok" =>
            \A i \in 1 .. Count(mi, H, q)[m] : H[m][i].t_ps <= T(r)'
      BY <1>1, <1>16, Zenon DEF H, q
    <3>3. \A m, r \in NetNodes[mi] : health[r] = "ok" =>
            \A i \in 1 .. Count(mi, H1, q1)[m] : H1[m][i].t_ps <= T(r)'
      BY <1>15, <3>2, Zenon DEF Agree
    <3>4. Reached(mi, hist[mi], Backlogs(mi))'
      BY <1>13, <1>14, <3>3, Zenon DEF Reached
    <3>. QED BY <2>2, <3>1, <3>4, Zenon
  <2>. QED BY <2>1, <2>2, Zenon
<1>. QED BY <1>3, <1>17, Zenon DEF WireInv

(* The four steps of an advancing machine. *)
LEMMA MoveWire ==
  ASSUME TypeInv, WireInv, Advancing, NEW c \in Nat, cyc[node] < c, NEW b,
         Boundary(c, b), MayRecord(c), UNCHANGED <<health, netVars>>
  PROVE  WireInv'
<1>1. /\ pc = "run" /\ health[node] = "ok" /\ node \in Nodes /\ cyc \in [Nodes -> Nat]
      /\ cyc' = [cyc EXCEPT ![node] = c] /\ UNCHANGED <<health, net, pending>>
  BY Zenon DEF Advancing, TypeInv, Boundary, netVars
<1>2. CASE NoRecord
  <2>1. ASSUME NEW n \in Nodes PROVE T(n)' \in Nat /\ T(n) <= T(n)'
    <3>1. cyc'[n] \in Nat /\ cyc[n] \in Nat /\ cyc[n] <= cyc'[n]
      BY <1>1
    <3>. QED BY <3>1, Conversions, Zenon DEF T
  <2>2. UNCHANGED <<hist, pending, ring>>
    BY <1>1, <1>2, Zenon DEF NoRecord
  <2>3. /\ \A ni \in Nets : \A L : Wire(ni, net[ni], hist[ni], L) => Wire(ni, net'[ni], hist[ni], L)
        /\ \A n \in Nodes : health'[n] = "ok" => health[n] = "ok"
    BY <1>1, Zenon
  <2>. QED BY <2>1, <2>2, <2>3, WireUnmoved, Zenon
<1>3. CASE ~NoRecord
  <2>1. PICK mi \in NetsOf(node) : \E own \in Drives[node] : Record(c, mi, own)
    BY <1>3, Zenon DEF MayRecord
  <2>2. PICK own \in Drives[node] : Record(c, mi, own)
    BY <2>1, Zenon
  <2>3. own \in Own
    BY <1>1, NetAssumption, Zenon
  <2>. QED BY <1>1, <2>2, <2>3, RecordWire, Zenon
<1>. QED BY <1>2, <1>3, Zenon

(* The steps of a machine keep WireInv.                                    *)
LEMMA MachineWire ==
  ASSUME Inv, WireInv, Machine
  PROVE  WireInv'
<1>1. TypeInv /\ CallInv
  BY Zenon DEF Inv
<1>2. /\ Advancing /\ node \in Nodes /\ cyc[node] \in Nat /\ wake[node] \in Nat /\ limit \in Nat
      /\ due[node].cycle \in Nat /\ cyc[node] < limit /\ cyc[node] < due[node].cycle
      /\ wake[node] # 0 => wake[node] > cyc[node]
  <2>1. Advancing
    BY Zenon DEF Machine, Instruction, WaitForEvent, IdleSkip, Die
  <2>2. /\ node \in Nodes /\ cyc[node] \in Nat /\ wake[node] \in Nat /\ limit \in Nat
        /\ due[node].cycle \in Nat /\ (wake[node] # 0 => wake[node] > cyc[node])
        /\ due[node].cycle > cyc[node] /\ cyc[node] < limit
    BY <1>1, <2>1, Zenon DEF TypeInv, CallInv, Advancing, Due
  <2>. QED BY <2>1, <2>2, Zenon
<1>3. CASE Instruction
  <2>1. PICK k \in 1..MaxInstr[node] : Boundary(cyc[node] + k, cyc[node]) /\ MayRecord(cyc[node] + k)
    BY <1>3, Zenon DEF Instruction
  <2>2. cyc[node] + k \in Nat /\ cyc[node] < cyc[node] + k
    BY <1>2
  <2>. QED BY <1>1, <1>2, <1>3, <2>1, <2>2, MoveWire, Zenon DEF Instruction
<1>4. CASE WaitForEvent
  <2>1. cyc[node] + 1 \in Nat /\ cyc[node] < cyc[node] + 1
    BY <1>2
  <2>2. Boundary(cyc[node] + 1, cyc[node]) /\ MayRecord(cyc[node] + 1) /\ UNCHANGED <<health, netVars>>
    BY <1>4, Zenon DEF WaitForEvent, MayRecord
  <2>. QED BY <1>1, <1>2, <2>1, <2>2, MoveWire, Zenon
<1>5. CASE IdleSkip
  <2>. DEFINE c == Smaller(Smaller(limit, due[node].cycle), wake[node])
  <2>1. Boundary(c, c - 1) /\ MayRecord(c) /\ UNCHANGED <<health, netVars>> /\ wake[node] # 0
    BY <1>5, Zenon DEF IdleSkip, MayRecord
  <2>2. c \in Nat /\ cyc[node] < c
    BY <1>2, <2>1, Zenon DEF Smaller
  <2>. HIDE DEF c
  <2>. QED BY <1>1, <1>2, <2>1, <2>2, MoveWire, Zenon
<1>6. CASE Die
  <2>1. UNCHANGED <<cyc, ring, net, pending, hist>> /\ health \in [Nodes -> {"ok", "halted", "broken"}]
    BY <1>1, <1>6, Zenon DEF Die, netVars, TypeInv
  <2>2. \A n \in Nodes : T(n)' = T(n) /\ T(n) \in Nat
    BY <1>1, <2>1, Typed, Zenon DEF T, TypeFacts
  <2>3. \A n \in Nodes : T(n)' \in Nat /\ T(n) <= T(n)'
    BY <2>2
  <2>4. \A n \in Nodes : health'[n] = "ok" => health[n] = "ok"
    <3>1. PICK h \in {"halted", "broken"} : health' = [health EXCEPT ![node] = h]
      BY <1>6, Zenon DEF Die
    <3>. QED BY <2>1, <3>1, Zenon
  <2>5. \A ni \in Nets : \A L : Wire(ni, net[ni], hist[ni], L) => Wire(ni, net'[ni], hist[ni], L)
    BY <2>1, Zenon
  <2>. QED BY <1>1, <2>1, <2>3, <2>4, <2>5, WireUnmoved, Zenon
<1>. QED BY <1>3, <1>4, <1>5, <1>6, Zenon DEF Machine

(* The other steps leave the machines and the histories alone.             *)
LEMMA StillWire ==
  ASSUME TypeInv, WireInv, UNCHANGED <<machineVars, net, pending, hist>>
  PROVE  WireInv'
<1>1. UNCHANGED <<cyc, ring, net, pending, hist, health>>
  BY Zenon DEF machineVars
<1>2. \A n \in Nodes : T(n)' = T(n) /\ T(n) \in Nat
  BY <1>1, Typed, Zenon DEF T, TypeFacts
<1>3. \A n \in Nodes : T(n)' \in Nat /\ T(n) <= T(n)'
  BY <1>2
<1>4. /\ \A n \in Nodes : health'[n] = "ok" => health[n] = "ok"
      /\ \A ni \in Nets : \A L : Wire(ni, net[ni], hist[ni], L) => Wire(ni, net'[ni], hist[ni], L)
  BY <1>1, Zenon
<1>. QED BY <1>1, <1>3, <1>4, WireUnmoved, Zenon

(* apply_due keeps WireInv: it drops only what everyone was handed.        *)
LEMMA ApplyDueWire ==
  ASSUME Inv, WireInv, ApplyDue
  PROVE  WireInv'
<1>1. TypeInv /\ UNCHANGED <<cyc, ring, pending, hist, health>>
  BY Zenon DEF Inv, ApplyDue
<1>2. \A n \in Nodes : T(n)' = T(n) /\ T(n) \in Nat
  BY <1>1, Typed, Zenon DEF T, TypeFacts
<1>3. \A n \in Nodes : T(n)' \in Nat /\ T(n) <= T(n)' /\ (health'[n] = "ok" => health[n] = "ok")
  BY <1>1, <1>2
<1>4. ASSUME NEW ni \in Nets, NEW L, Wire(ni, net[ni], hist[ni], L) PROVE Wire(ni, net'[ni], hist[ni], L)
  <2>1. PICK k : k = net'[ni]
    BY Zenon
  <2>2. /\ k \in GpioNet(ni) /\ net[ni] \in GpioNet(ni)
        /\ k.own = net[ni].own /\ k.level = net[ni].level
        /\ Rest(k.deliveries, net[ni].deliveries)
        /\ k.base + Len(k.deliveries) = net[ni].base + Len(net[ni].deliveries)
    BY <1>1, <2>1, ApplyFacts, Zenon DEF TypeInv
  <2>3. Wire(ni, k, hist[ni], L)
    BY <1>4, <2>2, WireConsumed, Zenon
  <2>. QED BY <2>1, <2>3, Zenon
<1>. QED BY <1>1, <1>3, <1>4, WireUnmoved, Zenon

(* A run is over: what is collected are the backlogs, and the rings are    *)
(* empty after.                                                            *)
LEMMA BacklogEmpty ==
  ASSUME NEW n \in Nodes, NEW p \in Seq(Change)
  PROVE  Backlog(n, p, <<>>) = p
<1>. DEFINE b == Backlog(n, p, <<>>)
<1>1. <<>> \in Seq(RingEntry) /\ Len(<<>>) = 0
  OBVIOUS
<1>2. b \in Seq(Change) /\ Len(b) = Len(p) + 0 /\ \A i \in 1 .. Len(p) : b[i] = p[i]
  BY <1>1, BacklogForm, Zenon
<1>. HIDE DEF b
<1>3. Len(p) \in Nat /\ Len(b) = Len(p)
  BY <1>2
<1>4. b = p
  BY <1>2, <1>3
<1>. QED BY <1>4, Zenon DEF b

(* collect_edges turns every ring of the node into what waits to be        *)
(* merged.                                                                 *)
LEMMA CollectBacklog ==
  ASSUME Inv, pc = "run", NEW q, Collection(q), NEW ni \in Nets
  PROVE  q[ni] = Backlogs(ni)
<1>1. /\ TypeInv /\ node \in Nodes
      /\ \A n \in Nodes \ {node} : NoneRecorded(n)
      /\ ~hit /\ node \in Exact => NoneRecorded(node)
  BY Zenon DEF Inv, TypeInv, CallInv
<1>2. /\ pending[ni] \in [NetNodes[ni] -> Seq(Change)]
      /\ \A n \in NetNodes[ni] : n \in Nodes /\ ni \in NetsOf(n) /\ pending[ni][n] \in Seq(Change)
  <2>1. pending[ni] \in [NetNodes[ni] -> Seq(Change)]
    BY <1>1, Zenon DEF TypeInv
  <2>. QED BY <1>1, <2>1, BacklogTypes, Zenon
<1>. DEFINE b(n) == Backlog(n, pending[ni][n], ring[n][ni])
<1>3. ASSUME NEW n \in NetNodes[ni], NoneRecorded(n) PROVE b(n) = pending[ni][n]
  <2>1. ring[n][ni] = <<>>
    BY <1>2, <1>3, Zenon DEF NoneRecorded
  <2>. QED BY <1>2, <2>1, BacklogEmpty, Zenon
<1>4. Backlogs(ni) = [n \in NetNodes[ni] |-> b(n)]
  BY Zenon DEF Backlogs
<1>5. CASE Collected(node)
  <2>1. /\ q[ni] = [n \in NetNodes[ni] |-> q[ni][n]]
        /\ \A n \in NetNodes[ni] : q[ni][n] = IF n # node THEN pending[ni][n] ELSE b(n)
    BY <1>5, Zenon DEF Collection, CollectEdges, Backlog
  <2>. HIDE DEF b
  <2>2. \A n \in NetNodes[ni] : q[ni][n] = b(n)
    BY <1>1, <1>2, <1>3, <2>1, Zenon
  <2>. QED BY <1>4, <2>1, <2>2, Zenon
<1>6. CASE ~Collected(node)
  <2>1. q = pending /\ NoneRecorded(node)
    BY <1>1, <1>6, Zenon DEF Collection, Collected
  <2>. HIDE DEF b
  <2>2. \A n \in NetNodes[ni] : q[ni][n] = b(n)
    BY <1>1, <1>2, <1>3, <2>1, Zenon
  <2>. QED BY <1>2, <1>4, <2>1, <2>2, Zenon
<1>. QED BY <1>5, <1>6, Zenon

(* Every net is merged up to a time all its live members have reached.     *)
LEMMA FinishRunWire ==
  ASSUME Inv, WireInv, FinishRun
  PROVE  WireInv'
<1>1. /\ TypeInv /\ pc = "run" /\ UNCHANGED <<cyc, health, hist>>
      /\ stalled' = stalled \cup (IF cyc[node] = from /\ ~hit THEN {node} ELSE {})
  BY Zenon DEF Inv, FinishRun
<1>2. /\ \A r \in stalled' : health[r] # "ok"
      /\ \A n \in Nodes : NoneRecorded(n)'
  BY FinishFacts, Zenon
<1>3. PICK q : Collection(q)
  BY Zenon DEF Collection
<1>4. PICK out : out = stalled'
  BY Zenon
<1>5. ASSUME NEW ni \in Nets
      PROVE  LET r == MergeNet(ni, net[ni], q[ni], MergeHorizon(ni, out))
             IN  net'[ni] = r.net /\ pending'[ni] = r.pending
  BY <1>1, <1>3, <1>4, Zenon DEF FinishRun, MergePending, Collection
<1>6. ASSUME NEW ni \in Nets
      PROVE  WireOf(ni, hist[ni], net'[ni], Backlogs(ni)') /\ Reached(ni, hist[ni], Backlogs(ni))'
  <2>. DEFINE H == hist[ni]
              g == net[ni]
              h == MergeHorizon(ni, out)
              s0 == [net |-> g, pending |-> q[ni]]
  <2>1. /\ q[ni] = Backlogs(ni) /\ q[ni] \in [NetNodes[ni] -> Seq(Change)] /\ InOrder(q[ni])
        /\ g \in GpioNet(ni)
    BY <1>1, <1>3, CollectBacklog, CollectResult, Zenon DEF TypeInv
  <2>2. /\ h \in Int /\ \A r \in NetNodes[ni] \ out : h <= T(r)
    BY <1>1, MergeHorizonResult, Zenon
  <2>3. WireOf(ni, H, g, q[ni]) /\ Reached(ni, H, q[ni]) /\ H \in [NetNodes[ni] -> Seq(Change)]
    BY <2>1, Zenon DEF WireInv, WireOf
  <2>. HIDE DEF H, g, h
  <2>4. WireSoFar(ni, H, s0)
    <3>1. s0.net = g /\ s0.pending = q[ni]
      BY Zenon
    <3>. HIDE DEF s0
    <3>. QED BY <2>1, <2>3, <3>1, Zenon DEF WireOf, WireSoFar
  <2>5. PICK r : r = MergeNet(ni, g, q[ni], h)
    BY Zenon
  <2>6. /\ r \in MergeState(ni) /\ WireSoFar(ni, H, r)
        /\ \A n \in NetNodes[ni] : \A i \in 1 .. Count(ni, H, r.pending)[n] :
             i <= Count(ni, H, q[ni])[n] \/ H[n][i].t_ps <= h
    BY <2>1, <2>2, <2>3, <2>4, <2>5, MergeWire, Zenon
  <2>7. net'[ni] = r.net /\ pending'[ni] = r.pending
    BY <1>5, <2>5, Zenon DEF g, h
  <2>8. r.pending \in [NetNodes[ni] -> Seq(Change)]
    BY <2>6, Zenon DEF MergeState
  <2>9. Backlogs(ni)' = r.pending
    <3>1. ASSUME NEW n \in NetNodes[ni] PROVE Backlog(n, pending'[ni][n], ring'[n][ni]) = r.pending[n]
      <4>1. n \in Nodes /\ ni \in NetsOf(n)
        BY <1>1, BacklogTypes, Zenon
      <4>2. ring'[n][ni] = <<>>
        BY <1>2, <4>1, Zenon DEF NoneRecorded
      <4>3. r.pending[n] \in Seq(Change) /\ pending'[ni][n] = r.pending[n]
        BY <2>7, <2>8, Zenon
      <4>. QED BY <4>1, <4>2, <4>3, BacklogEmpty, Zenon
    <3>2. Backlogs(ni)' = [n \in NetNodes[ni] |-> Backlog(n, pending'[ni][n], ring'[n][ni])]
      BY Zenon DEF Backlogs
    <3>. QED BY <2>8, <3>1, <3>2, Zenon
  <2>10. WireOf(ni, H, r.net, r.pending)
    BY <2>3, <2>6, Zenon DEF WireSoFar, WireOf
  <2>11. ASSUME NEW m \in NetNodes[ni], NEW l \in NetNodes[ni], health[l] = "ok",
                NEW i \in 1 .. Count(ni, H, r.pending)[m]
         PROVE  H[m][i].t_ps <= T(l)
    <3>1. l \in NetNodes[ni] \ out /\ T(l) \in Nat
      BY <1>1, <1>2, <1>4, <2>11, BacklogTypes, Zenon
    <3>2. CASE i <= Count(ni, H, q[ni])[m]
      <4>1. Count(ni, H, q[ni])[m] \in Nat
        BY <2>1, <2>3, MergedTypes, Zenon
      <4>2. i \in 1 .. Count(ni, H, q[ni])[m]
        BY <3>2, <4>1, SMTT(30)
      <4>. QED BY <2>3, <2>11, <4>2, Zenon DEF Reached
    <3>3. CASE H[m][i].t_ps <= h
      <4>1. H[m][i].t_ps \in Nat
        BY <2>8, <2>10, MergedTypes, Zenon
      <4>2. h \in Int /\ h <= T(l)
        BY <2>2, <3>1, Zenon
      <4>. QED BY ONLY <3>1, <3>3, <4>1, <4>2, SMTT(30)
    <3>. QED BY <2>6, <3>2, <3>3, Zenon
  <2>12. \A l \in Nodes : T(l)' = T(l)
    BY <1>1, Zenon DEF T
  <2>13. Reached(ni, H, r.pending)
    BY <2>11, Zenon DEF Reached
  <2>14. Reached(ni, hist[ni], Backlogs(ni))'
    <3>1. hist'[ni] = H /\ health' = health /\ \A l \in NetNodes[ni] : T(l)' = T(l)
      BY <1>1, <2>12, BacklogTypes, Zenon DEF H
    <3>. QED BY <2>9, <2>13, <3>1, Zenon DEF Reached
  <2>. QED BY <2>7, <2>9, <2>10, <2>14, Zenon DEF H
<1>7. hist' = hist /\ DOMAIN hist = Nets
  BY <1>1, Zenon DEF WireInv
<1>. QED BY <1>6, <1>7, Zenon DEF WireInv

-------------------------------------------------------------------------------
(* Nothing is driven and nothing recorded at the start.                    *)
LEMMA InitWire == Init => WireInv
<1>. SUFFICES ASSUME Init PROVE WireInv
  BY Zenon
<1>1. /\ DOMAIN hist = Nets /\ cyc = [n \in Nodes |-> 0]
      /\ \A ni \in Nets : /\ hist[ni] = [n \in NetNodes[ni] |-> <<>>]
                          /\ pending[ni] = [n \in NetNodes[ni] |-> <<>>]
      /\ \A n \in Nodes : ring[n] = [ni \in NetsOf(n) |-> <<>>]
  BY Zenon DEF Init
<1>. SUFFICES ASSUME NEW ni \in Nets
              PROVE  WireOf(ni, hist[ni], net[ni], Backlogs(ni)) /\ Reached(ni, hist[ni], Backlogs(ni))
  BY <1>1, Zenon DEF WireInv
<1>. DEFINE H == hist[ni]
            g == net[ni]
            q == Backlogs(ni)
            L == Count(ni, H, q)
<1>2. /\ g = [own |-> [n \in NetNodes[ni] |-> "Z"], level |-> Resolve({"Z"}, Pull[ni]),
              deliveries |-> <<>>, base |-> 0, next |-> [n \in NetNodes[ni] |-> 0]]
      /\ H = [n \in NetNodes[ni] |-> <<>>] /\ NetNodes[ni] # {} /\ NetNodes[ni] \subseteq Nodes
  BY <1>1, Constants, NetAssumption, Zenon DEF Init
<1>3. /\ g.own = [n \in NetNodes[ni] |-> "Z"] /\ g.level = Resolve({"Z"}, Pull[ni])
      /\ g.deliveries = <<>> /\ g.base = 0
  BY <1>2
<1>4. <<>> \in Seq(Change) /\ Len(<<>>) = 0 /\ DOMAIN <<>> = {}
  OBVIOUS
<1>5. q = [n \in NetNodes[ni] |-> <<>>]
  <2>1. ASSUME NEW n \in NetNodes[ni] PROVE Backlog(n, pending[ni][n], ring[n][ni]) = <<>>
    <3>1. n \in Nodes /\ ni \in NetsOf(n)
      BY <1>2, Zenon DEF NetsOf
    <3>2. pending[ni][n] = <<>> /\ ring[n][ni] = <<>>
      BY <1>1, <3>1, ZenonT(30)
    <3>. QED BY <1>4, <3>1, <3>2, BacklogEmpty, Zenon
  <2>. QED BY <2>1, Zenon DEF Backlogs
<1>. HIDE DEF g, H, q
<1>6. L = [n \in NetNodes[ni] |-> 0]
  <2>1. \A n \in NetNodes[ni] : Len(H[n]) - Len(q[n]) = 0
    BY <1>2, <1>4, <1>5
  <2>. QED BY <2>1, Zenon DEF Count
<1>. HIDE DEF L
<1>7. \A n \in NetNodes[ni] : 1 .. L[n] = {} /\ L[n] = 0
  BY <1>6
<1>8. \A n \in NetNodes[ni] : Rest(q[n], H[n])
  <2>1. \A n \in NetNodes[ni] : q[n] = <<>> /\ H[n] = <<>>
    BY <1>2, <1>5, Zenon
  <2>2. 0 \in 0 .. Len(<<>>) /\ Len(<<>>) = Len(<<>>) - 0
    BY <1>4
  <2>3. \A x, y : x = <<>> /\ y = <<>> => Rest(x, y)
    BY <1>4, <2>2, Zenon DEF Rest
  <2>. QED BY <2>1, <2>3, Zenon
<1>9. H \in [NetNodes[ni] -> Seq(Change)]
  BY <1>2, <1>4, Zenon
<1>10. MovesOf(ni, H, L) = {}
  <2>1. ASSUME NEW x \in TimesOf(ni, H, L) PROVE FALSE
    <3>1. PICK n \in NetNodes[ni] : \E i \in 1 .. L[n] : x = H[n][i].t_ps
      BY Zenon DEF TimesOf
    <3>. QED BY <1>7, <3>1, Zenon
  <2>. QED BY <2>1, Zenon DEF MovesOf
<1>11. WireLevel(g, Pull[ni]) = Resolve({"Z"}, Pull[ni])
  <2>1. {g.own[n] : n \in DOMAIN g.own} = {"Z"}
    BY <1>2, <1>3, Zenon
  <2>. QED BY <2>1, Zenon DEF WireLevel
<1>12. Wire(ni, g, H, L)
  <2>1. \A n \in NetNodes[ni] : g.own[n] = LastDrive(H[n], L[n])
    BY <1>3, <1>7, Zenon DEF LastDrive
  <2>2. IsFiniteSet({}) /\ Cardinality({}) = g.base + Len(g.deliveries)
    BY <1>3, <1>4, FS_EmptySet, SMTT(30)
  <2>3. DOMAIN g.deliveries = {}
    BY <1>3, <1>4, Zenon
  <2>. QED BY <1>3, <1>10, <1>11, <2>1, <2>2, <2>3, Zenon DEF Wire
<1>13. Settled(ni, H, q) /\ Reached(ni, H, q)
  BY <1>7, Zenon DEF Settled, Reached, L
<1>. QED BY <1>8, <1>9, <1>12, <1>13, Zenon DEF WireOf, H, g, q, L

(* Every step keeps WireInv.                                               *)
LEMMA NextWire == Inv /\ WireInv /\ [Next]_vars => WireInv'
<1>. SUFFICES ASSUME Inv, WireInv, [Next]_vars PROVE WireInv'
  BY Zenon
<1>1. TypeInv
  BY Zenon DEF Inv
<1>2. CASE Machine
  BY <1>2, MachineWire, Zenon
<1>3. CASE ApplyDue
  BY <1>3, ApplyDueWire, Zenon
<1>4. CASE FinishRun
  BY <1>4, FinishRunWire, Zenon
<1>5. CASE Call \/ EnterRun \/ Return \/ LeftAlone \/ UNCHANGED vars
  <2>1. UNCHANGED <<machineVars, net, pending, hist>>
    BY <1>5, Zenon DEF Call, StepAllGpio, RunUntilPs, RunTo, EnterRun, Return, LeftAlone, vars, netVars
  <2>. QED BY <1>1, <2>1, StillWire, Zenon
<1>. QED BY <1>2, <1>3, <1>4, <1>5, Zenon DEF Next, Scheduler

(* What the invariant says is what the run checks: a merged history is the *)
(* front of the node's history that is in neither queue.                   *)
LEMMA WireShown ==
  ASSUME TypeInv, WireInv
  PROVE  WireFollowsDrives
<1>. SUFFICES ASSUME NEW ni \in Nets
              PROVE  LET moves == {t \in ChangeTimes(ni) : LevelAt(ni, t) # LevelAt(ni, t - 1)}
                         d == net[ni].deliveries
                     IN  /\ Cardinality(moves) = net[ni].base + Len(d)
                         /\ \A i \in DOMAIN d : /\ d[i].t_ps - Latency[ni] \in moves
                                                /\ d[i].level = LevelAt(ni, d[i].t_ps - Latency[ni])
                                                /\ \A j \in 1 .. i - 1 : d[j].t_ps < d[i].t_ps
  BY Zenon DEF WireFollowsDrives
<1>. DEFINE H == hist[ni]
            q == Backlogs(ni)
            L == Count(ni, H, q)
<1>1. WireOf(ni, H, net[ni], q) /\ Wire(ni, net[ni], H, L) /\ H \in [NetNodes[ni] -> Seq(Change)]
  BY Zenon DEF WireInv, WireOf
<1>2. ASSUME NEW n \in NetNodes[ni]
      PROVE  DOMAIN Merged(ni, n) = 1 .. L[n] /\ \A i \in 1 .. L[n] : Merged(ni, n)[i] = H[n][i]
  <2>. DEFINE p == pending[ni][n]
              s == ring[n][ni]
  <2>1. /\ n \in Nodes /\ p \in Seq(Change) /\ s \in Seq(RingEntry)
        /\ q \in [NetNodes[ni] -> Seq(Change)] /\ q[n] = Backlog(n, p, s)
    BY BacklogTypes, Zenon DEF Backlogs
  <2>2. Len(q[n]) = Len(p) + Len(s)
    <3>. HIDE DEF p, s, q
    <3>. QED BY ONLY <2>1, BacklogForm
  <2>3. L[n] \in Nat /\ L[n] <= Len(H[n])
    BY <1>1, <2>1, MergedTypes, Zenon
  <2>4. L[n] = Len(H[n]) - Len(q[n])
    BY Zenon DEF Count
  <2>5. Merged(ni, n) = SubSeq(H[n], 1, Len(H[n]) - (Len(p) + Len(s)))
    BY Zenon DEF Merged
  <2>6. H[n] \in Seq(Change) /\ Len(H[n]) \in Nat
    BY <1>1
  <2>. HIDE DEF H, q, L, p, s
  <2>7. Merged(ni, n) = SubSeq(H[n], 1, L[n])
    BY <2>2, <2>4, <2>5, Zenon
  <2>8. DOMAIN SubSeq(H[n], 1, L[n]) = 1 .. L[n] /\ \A i \in 1 .. L[n] : SubSeq(H[n], 1, L[n])[i] = H[n][i]
    BY <2>3, <2>6
  <2>. QED BY <2>7, <2>8, Zenon
<1>3. ASSUME NEW n \in NetNodes[ni], NEW t PROVE DriveAt(ni, n, t) = DriveOf(H[n], L[n], t)
  <2>1. {i \in DOMAIN Merged(ni, n) : Merged(ni, n)[i].t_ps <= t} = Past(H[n], L[n], t)
    BY <1>2, Zenon DEF Past
  <2>2. L[n] \in Nat
    BY <1>1, BacklogTypes, MergedTypes, Zenon
  <2>. HIDE DEF L, H
  <2>3. Past(H[n], L[n], t) \in SUBSET (0 .. L[n]) /\ Past(H[n], L[n], t) \subseteq 1 .. L[n]
    BY <2>2 DEF Past
  <2>4. Past(H[n], L[n], t) # {} => Max(Past(H[n], L[n], t)) \in 1 .. L[n]
    BY <2>2, <2>3, MaxOf, Zenon
  <2>5. Past(H[n], L[n], t) # {} =>
          Merged(ni, n)[Max(Past(H[n], L[n], t))] = H[n][Max(Past(H[n], L[n], t))]
    BY <1>2, <2>4, Zenon
  <2>. QED BY <2>1, <2>5, Zenon DEF DriveAt, DriveOf
<1>. HIDE DEF L, H
<1>4. ASSUME NEW t PROVE LevelAt(ni, t) = LevelOf(ni, H, L, t)
  <2>1. {DriveAt(ni, n, t) : n \in NetNodes[ni]} = {DriveOf(H[n], L[n], t) : n \in NetNodes[ni]}
    BY <1>3, Zenon
  <2>. QED BY <2>1, Zenon DEF LevelAt, LevelOf
<1>5. ChangeTimes(ni) = TimesOf(ni, H, L)
  <2>. DEFINE A(n) == {Merged(ni, n)[i].t_ps : i \in DOMAIN Merged(ni, n)}
              B(n) == {H[n][i].t_ps : i \in 1 .. L[n]}
  <2>1. \A n \in NetNodes[ni] : A(n) = B(n)
    BY <1>2, Zenon
  <2>2. ChangeTimes(ni) = UNION {A(n) : n \in NetNodes[ni]}
    BY Zenon DEF ChangeTimes
  <2>3. TimesOf(ni, H, L) = UNION {B(n) : n \in NetNodes[ni]}
    BY Zenon DEF TimesOf
  <2>. HIDE DEF A, B
  <2>4. {A(n) : n \in NetNodes[ni]} = {B(n) : n \in NetNodes[ni]}
    BY <2>1, Zenon
  <2>. QED BY <2>2, <2>3, <2>4, Zenon
<1>6. {t \in ChangeTimes(ni) : LevelAt(ni, t) # LevelAt(ni, t - 1)} = MovesOf(ni, H, L)
  BY <1>4, <1>5, Zenon DEF MovesOf
<1>. QED BY <1>1, <1>4, <1>6, Zenon DEF Wire

===============================================================================
