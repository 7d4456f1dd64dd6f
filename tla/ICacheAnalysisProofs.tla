------------------------ MODULE ICacheAnalysisProofs ------------------------
(***************************************************************************)
(* Proofs about ICacheAnalysis.                                            *)
(***************************************************************************)
EXTENDS ICacheAnalysis, CacheLemmas, Lemmas

(* The simulation of a block, as an equation. *)
IsSimulated(f, N, t, acs, code, access, skipped) ==
  f = [i \in 0 .. N |->
         IF i = 0 THEN acs
         ELSE IF i \in skipped THEN f[i - 1]
         ELSE Update(t, f[i - 1], code[i], access[i])]

LEMMA SimulatedExists ==
  ASSUME NEW N \in Nat, NEW t, NEW acs, NEW code, NEW access, NEW skipped
  PROVE  \E f : IsSimulated(f, N, t, acs, code, access, skipped)
<1> DEFINE S == {n \in Nat : \E f : IsSimulated(f, n, t, acs, code, access, skipped)}
<1>1. 0 \in S
  <2> DEFINE f == [i \in 0 .. 0 |-> acs]
  <2>1. IsSimulated(f, 0, t, acs, code, access, skipped)
    BY DEF IsSimulated
  <2>2. QED
    BY <2>1
<1>2. ASSUME NEW n \in Nat, n \in S
      PROVE  n + 1 \in S
  <2>1. PICK f : IsSimulated(f, n, t, acs, code, access, skipped)
    BY <1>2
  <2> DEFINE last == IF n + 1 \in skipped THEN f[n]
                     ELSE Update(t, f[n], code[n + 1], access[n + 1])
  <2> DEFINE g == [i \in 0 .. n + 1 |-> IF i = n + 1 THEN last ELSE f[i]]
  <2> HIDE DEF last
  <2>2. \A i \in 0 .. n : g[i] = f[i]
    OBVIOUS
  <2>3. \A i \in 0 .. n + 1 :
          g[i] = IF i = 0 THEN acs
                 ELSE IF i \in skipped THEN g[i - 1]
                 ELSE Update(t, g[i - 1], code[i], access[i])
    <3>1. SUFFICES ASSUME NEW i \in 0 .. n + 1
                   PROVE  g[i] = IF i = 0 THEN acs
                                 ELSE IF i \in skipped THEN g[i - 1]
                                 ELSE Update(t, g[i - 1], code[i], access[i])
      OBVIOUS
    <3>2. CASE i = n + 1
      <4>1. g[i] = last /\ i # 0 /\ g[i - 1] = f[n]
        BY <3>2
      <4>2. QED
        BY <3>2, <4>1 DEF last
    <3>3. CASE i # n + 1
      <4>1. i \in 0 .. n /\ g[i] = f[i] /\ (i # 0 => g[i - 1] = f[i - 1])
        BY <3>3
      <4>2. f[i] = IF i = 0 THEN acs
                   ELSE IF i \in skipped THEN f[i - 1]
                   ELSE Update(t, f[i - 1], code[i], access[i])
        BY <2>1, <4>1 DEF IsSimulated
      <4>3. QED
        BY <4>1, <4>2
    <3>4. QED
      BY <3>2, <3>3
  <2>4. IsSimulated(g, n + 1, t, acs, code, access, skipped)
    BY <2>3, Zenon DEF IsSimulated
  <2>5. QED
    BY <2>4
<1> HIDE DEF S
<1>3. Nat \subseteq S
  BY <1>1, <1>2, Induction
<1>4. QED
  BY <1>3 DEF S

LEMMA SimulatedFacts ==
  ASSUME NEW t, NEW acs, NEW code, NEW access, NEW skipped, Len(code) \in Nat
  PROVE  LET f == Simulated(t, acs, code, access, skipped)
         IN  /\ f[0] = acs
             /\ \A i \in 1 .. Len(code) :
                  f[i] = IF i \in skipped THEN f[i - 1]
                         ELSE Update(t, f[i - 1], code[i], access[i])
<1> DEFINE f == CHOOSE f : IsSimulated(f, Len(code), t, acs, code, access, skipped)
<1>1. IsSimulated(f, Len(code), t, acs, code, access, skipped)
  BY SimulatedExists
<1>2. Simulated(t, acs, code, access, skipped) = f
  BY DEF Simulated, IsSimulated
<1> HIDE DEF f
<1>3. /\ f[0] = acs
      /\ \A i \in 1 .. Len(code) :
            f[i] = IF i \in skipped THEN f[i - 1]
                   ELSE Update(t, f[i - 1], code[i], access[i])
  BY <1>1 DEF IsSimulated
<1>4. QED
  BY <1>2, <1>3

(* The join of the states of a sequence of nodes, as an equation. *)
IsJoined(f, N, t, preds, acs) ==
  f = [i \in 1 .. N |-> IF i = 1 THEN acs[preds[1]]
                        ELSE Join(t, f[i - 1], acs[preds[i]])]

LEMMA JoinedExists ==
  ASSUME NEW N \in Nat, NEW t, NEW preds, NEW acs
  PROVE  \E f : IsJoined(f, N, t, preds, acs)
<1> DEFINE S == {n \in Nat : \E f : IsJoined(f, n, t, preds, acs)}
<1>1. 0 \in S
  <2> DEFINE f == [i \in 1 .. 0 |-> acs]
  <2>1. IsJoined(f, 0, t, preds, acs)
    BY DEF IsJoined
  <2>2. QED
    BY <2>1
<1>2. ASSUME NEW n \in Nat, n \in S
      PROVE  n + 1 \in S
  <2>1. PICK f : IsJoined(f, n, t, preds, acs)
    BY <1>2
  <2> DEFINE last == IF n = 0 THEN acs[preds[1]] ELSE Join(t, f[n], acs[preds[n + 1]])
  <2> DEFINE g == [i \in 1 .. n + 1 |-> IF i = n + 1 THEN last ELSE f[i]]
  <2> HIDE DEF last
  <2>3. \A i \in 1 .. n + 1 :
          g[i] = IF i = 1 THEN acs[preds[1]] ELSE Join(t, g[i - 1], acs[preds[i]])
    <3>1. SUFFICES ASSUME NEW i \in 1 .. n + 1
                   PROVE  g[i] = IF i = 1 THEN acs[preds[1]]
                                 ELSE Join(t, g[i - 1], acs[preds[i]])
      OBVIOUS
    <3>2. CASE i = n + 1
      <4>1. g[i] = last /\ (n = 0 <=> i = 1) /\ (i # 1 => g[i - 1] = f[n])
        BY <3>2
      <4>2. QED
        BY <3>2, <4>1 DEF last
    <3>3. CASE i # n + 1
      <4>1. i \in 1 .. n /\ g[i] = f[i] /\ (i # 1 => g[i - 1] = f[i - 1])
        BY <3>3
      <4>2. f[i] = IF i = 1 THEN acs[preds[1]] ELSE Join(t, f[i - 1], acs[preds[i]])
        BY <2>1, <4>1 DEF IsJoined
      <4>3. QED
        BY <4>1, <4>2
    <3>4. QED
      BY <3>2, <3>3
  <2>4. IsJoined(g, n + 1, t, preds, acs)
    BY <2>3, Zenon DEF IsJoined
  <2>5. QED
    BY <2>4
<1> HIDE DEF S
<1>3. Nat \subseteq S
  BY <1>1, <1>2, Induction
<1>4. QED
  BY <1>3 DEF S

LEMMA JoinOfFacts ==
  ASSUME NEW t, NEW preds, NEW acs, Len(preds) \in Nat \ {0}
  PROVE  \E f : /\ JoinOf(t, preds, acs) = f[Len(preds)]
                /\ f[1] = acs[preds[1]]
                /\ \A i \in 2 .. Len(preds) : f[i] = Join(t, f[i - 1], acs[preds[i]])
<1> DEFINE f == CHOOSE f : IsJoined(f, Len(preds), t, preds, acs)
<1>1. IsJoined(f, Len(preds), t, preds, acs)
  BY JoinedExists
<1>2. JoinOf(t, preds, acs) = f[Len(preds)]
  BY DEF JoinOf, IsJoined
<1> HIDE DEF f
<1>3. /\ f[1] = acs[preds[1]]
      /\ \A i \in 2 .. Len(preds) : f[i] = Join(t, f[i - 1], acs[preds[i]])
  BY <1>1 DEF IsJoined
<1>4. QED
  BY <1>2, <1>3

(* The sequence of the nodes of a set. *)
LEMMA SetToSeqFacts ==
  ASSUME NEW S, IsFiniteSet(S), S # {}
  PROVE  /\ SetToSeq(S) \in Seq(S)
         /\ Len(SetToSeq(S)) \in Nat \ {0}
         /\ \A i \in 1 .. Len(SetToSeq(S)) : SetToSeq(S)[i] \in S
         /\ \A x \in S : \E i \in 1 .. Len(SetToSeq(S)) : SetToSeq(S)[i] = x
<1> DEFINE N == Cardinality(S)
<1>1. N \in Nat /\ ExistsBijection(1 .. N, S)
  BY FS_CardinalityType
<1>2. PICK b \in Bijection(1 .. N, S) : TRUE
  BY <1>1 DEF ExistsBijection
<1>3. b \in [1 .. N -> S] /\ IsInjective(b)
  BY <1>2 DEF Bijection, Injection
<1> DEFINE q == SetToSeq(S)
<1>4. q \in [1 .. N -> S] /\ IsInjective(q)
  BY <1>3 DEF SetToSeq
<1> HIDE DEF q
<1>5. q \in Seq(S) /\ Len(q) = N
  BY <1>1, <1>4
<1>6. N # 0
  BY FS_EmptySet
<1>7. q \in Injection(1 .. N, S)
  BY <1>4 DEF Injection
<1>8. IsFiniteSet(1 .. N) /\ Cardinality(1 .. N) = N
  BY <1>1, FS_Interval
<1>9. q \in Surjection(1 .. N, S)
  BY <1>7, <1>8, FS_Injection
<1>10. \A x \in S : \E i \in 1 .. N : q[i] = x
  BY <1>9 DEF Surjection
<1>11. QED
  BY <1>1, <1>4, <1>5, <1>6, <1>10 DEF q
-----------------------------------------------------------------------------
(* The states that hold some line. *)

(* MAY: a line that may be cached; PS: a line seen since the loop's entry. *)
Holding(t, c) ==
  \E s \in CacheSet :
     CASE t = "MAY" -> \E i \in May!Way : c[s][i] # {}
       [] t = "PS" -> c[s].present \cup c[s].evicted # {}

LEMMA EmptyHoldsNothing ==
  ASSUME NEW t \in {"MAY", "PS"}
  PROVE  ~ Holding(t, EmptyACS(t))
<1>1. CASE t = "MAY"
  BY <1>1 DEF Holding, EmptyACS, EmptyCache, May!Empty
<1>2. CASE t = "PS"
  BY <1>2 DEF Holding, EmptyACS, EmptyCache, Ps!Empty, Ps!PersistentSet
<1>3. QED
  BY <1>1, <1>2

LEMMA MaySetJoinHolds ==
  ASSUME NEW c, NEW d, \E i \in May!Way : c[i] \cup d[i] # {}
  PROVE  \E i \in May!Way : May!Join(c, d)[i] # {}
<1> DEFINE S == {i \in May!Way : c[i] \cup d[i] # {}}
<1>1. S \in SUBSET Nat /\ S # {}
  BY DEF May!Way
<1>2. PICK i \in S : \A m \in S : i <= m
  BY <1>1, LeastNatural, Zenon
<1>3. \A j \in 0 .. i - 1 : j \in May!Way /\ j \notin S
  BY <1>2, GeometryAssumption DEF May!Way
<1>4. \A j \in 0 .. i - 1 : c[j] = {} /\ d[j] = {}
  BY <1>3
<1>5. May!Join(c, d)[i] = c[i] \cup d[i]
  BY <1>2, <1>4 DEF May!Join
<1>6. QED
  BY <1>2, <1>5

LEMMA PsSetJoinHolds ==
  ASSUME NEW c, NEW d,
         c.present \cup c.evicted # {} \/ d.present \cup d.evicted # {}
  PROVE  Ps!Join(c, d).present \cup Ps!Join(c, d).evicted # {}
<1> DEFINE added == d.present \ c.evicted
           union == [b \in Line |-> c.conflicts[b] \cup d.conflicts[b]]
           full  == {b \in added : Ps!Cardinality(union[b]) >= nb_ways}
<1>1. /\ Ps!Join(c, d).present = ((c.present \cup added) \ full) \ d.evicted
      /\ Ps!Join(c, d).evicted = c.evicted \cup full \cup d.evicted
  BY DEF Ps!Join, Ps!PersistentSet
<1> HIDE DEF full
<1>2. QED
  BY <1>1

LEMMA JoinHolds ==
  ASSUME NEW t \in {"MAY", "PS"}, NEW c, NEW d, Holding(t, c) \/ Holding(t, d)
  PROVE  Holding(t, Join(t, c, d))
<1>1. CASE t = "MAY"
  <2>1. PICK s \in CacheSet : \E i \in May!Way : c[s][i] \cup d[s][i] # {}
    BY <1>1 DEF Holding
  <2>2. \E i \in May!Way : May!Join(c[s], d[s])[i] # {}
    BY <2>1, MaySetJoinHolds, Zenon
  <2>3. Join(t, c, d)[s] = May!Join(c[s], d[s])
    BY <1>1 DEF Join, JoinCaches
  <2>4. QED
    BY <1>1, <2>2, <2>3 DEF Holding
<1>2. CASE t = "PS"
  <2>1. PICK s \in CacheSet : \/ c[s].present \cup c[s].evicted # {}
                              \/ d[s].present \cup d[s].evicted # {}
    BY <1>2 DEF Holding
  <2>2. Ps!Join(c[s], d[s]).present \cup Ps!Join(c[s], d[s]).evicted # {}
    BY <2>1, PsSetJoinHolds, Zenon
  <2>3. Join(t, c, d)[s] = Ps!Join(c[s], d[s])
    BY <1>2 DEF Join, JoinCaches
  <2>4. QED
    BY <1>2, <2>2, <2>3 DEF Holding
<1>3. QED
  BY <1>1, <1>2

LEMMA MaySetUpdateHolds ==
  ASSUME NEW c, NEW a
  PROVE  a \in May!Update(c, a)[0]
<1>1. 0 \in May!Way
  BY WayFacts
<1>2. QED
  BY <1>1 DEF May!Update, May!AgeYoungest, May!AgeBelow

(* An access leaves something in the state. *)
LEMMA UpdateHolds ==
  ASSUME NEW t \in {"MAY", "PS"}, NEW c, DOMAIN c = CacheSet, NEW addr \in Address, NEW access,
         access # "N"
  PROVE  Holding(t, Update(t, c, addr, access))
<1> DEFINE a == computeStartLine(addr)
           s == computeSet(a)
<1>1. s \in CacheSet
  BY Geometry, Zenon
<1> HIDE DEF a, s
<1>2. CASE t = "MAY"
  <2> DEFINE u == May!Update(c[s], a)
  <2>1. 0 \in May!Way /\ u[0] # {}
    BY WayFacts, MaySetUpdateHolds
  <2>2. \E i \in May!Way : u[i] # {}
    BY <2>1
  <2>3. \E i \in May!Way : May!Join(u, c[s])[i] # {}
    BY <2>1, MaySetJoinHolds
  <2> HIDE DEF u
  <2>4. \/ Update(t, c, addr, access)[s] = u
        \/ Update(t, c, addr, access)[s] = May!Join(u, c[s])
    BY <1>1, <1>2 DEF Update, UpdateLine, a, s, u
  <2>5. QED
    BY <1>1, <1>2, <2>2, <2>3, <2>4 DEF Holding
<1>3. CASE t = "PS"
  <2> DEFINE u == Ps!Update(c[s], a)
  <2>1. u.present # {}
    BY DEF Ps!Update, Ps!PersistentSet
  <2>2. u.present \cup u.evicted # {}
    BY <2>1
  <2> HIDE DEF u
  <2>3. Ps!Join(u, c[s]).present \cup Ps!Join(u, c[s]).evicted # {}
    BY <2>2, PsSetJoinHolds
  <2>4. \/ Update(t, c, addr, access)[s] = u
        \/ Update(t, c, addr, access)[s] = Ps!Join(u, c[s])
    BY <1>1, <1>3 DEF Update, UpdateLine, a, s, u
  <2>5. QED
    BY <1>1, <1>3, <2>2, <2>3, <2>4 DEF Holding
<1>4. QED
  BY <1>2, <1>3
-----------------------------------------------------------------------------
(* The abstract cache states of each analysis: their type. *)

ACS(t) ==
  CASE t = "MUST" -> {m \in MustCaches : MustWellFormedCache(m)}
    [] t = "MAY" -> {m \in MayCaches : MayWellFormedCache(m)}
    [] t = "PS" -> PsCaches

LEMMA ACSDomain ==
  ASSUME NEW t \in Analysis, NEW c \in ACS(t)
  PROVE  DOMAIN c = CacheSet
BY DEF Analysis, ACS, MustCaches, MayCaches, PsCaches

LEMMA EmptyType ==
  ASSUME NEW t \in Analysis
  PROVE  EmptyACS(t) \in ACS(t)
<1>1. CASE t = "MUST"
  <2>1. Must!Empty \in Must!Contents /\ Must!WellFormed(Must!Empty)
    BY GeometryAssumption DEF Must!Empty, Must!Contents, Must!WellFormed, Must!Way
  <2>2. QED
    BY <1>1, <2>1 DEF ACS, EmptyACS, EmptyCache, MustCaches, MustWellFormedCache
<1>2. CASE t = "MAY"
  <2>1. May!Empty \in May!Contents /\ May!WellFormed(May!Empty)
    BY DEF May!Empty, May!Contents, May!WellFormed
  <2>2. QED
    BY <1>2, <2>1 DEF ACS, EmptyACS, EmptyCache, MayCaches, MayWellFormedCache
<1>3. CASE t = "PS"
  <2>1. PsSet(Ps!Empty) /\ Ps!Empty \in Ps!Contents
    BY EmptySet DEF PsSet
  <2>2. QED
    BY <1>3, <2>1 DEF ACS, EmptyACS, EmptyCache, PsCaches
<1>4. QED
  BY <1>1, <1>2, <1>3 DEF Analysis

LEMMA UpdateType ==
  ASSUME NEW t \in Analysis, NEW c \in ACS(t), NEW addr \in Address, NEW access \in CAC
  PROVE  Update(t, c, addr, access) \in ACS(t)
<1>1. CASE t = "MUST"
  <2> DEFINE a == computeStartLine(addr)
             s == computeSet(a)
             u == Must!Update(c[s], a)
  <2>1. a \in Line /\ s \in CacheSet
    BY Geometry
  <2>2. c \in MustCaches /\ MustWellFormedCache(c)
    BY <1>1 DEF ACS
  <2>3. c[s] \in Must!Contents /\ Must!WellFormed(c[s])
    BY <2>1, <2>2 DEF MustCaches, MustWellFormedCache
  <2>4. u \in Must!Contents /\ Must!WellFormed(u)
    BY <2>1, <2>3, MustUpdateType, MustUpdateWellFormed
  <2>5. Must!Join(u, c[s]) \in Must!Contents /\ Must!WellFormed(Must!Join(u, c[s]))
    BY <2>3, <2>4, MustJoinType, MustJoinWellFormed
  <2>6. \/ Update(t, c, addr, access) = c
        \/ Update(t, c, addr, access) = [c EXCEPT ![s] = u]
        \/ Update(t, c, addr, access) = [c EXCEPT ![s] = Must!Join(u, c[s])]
    BY <1>1 DEF Update, UpdateLine
  <2> HIDE DEF a, s, u
  <2>7. ASSUME NEW v \in Must!Contents, Must!WellFormed(v)
        PROVE  [c EXCEPT ![s] = v] \in ACS(t)
    BY <1>1, <2>1, <2>2, <2>7 DEF ACS, MustCaches, MustWellFormedCache
  <2>8. QED
    BY <2>4, <2>5, <2>6, <2>7
<1>2. CASE t = "MAY"
  <2>1. c \in MayCaches /\ MayWellFormedCache(c)
    BY <1>2 DEF ACS
  <2>2. Lru!Cold \in Lru!Ages /\ Lru!Distinct(Lru!Cold)
    BY GeometryAssumption DEF Lru!Cold, Lru!Ages, Lru!Distinct, Lru!Cached
  <2>3. MayCacheCovers(Lru!Cold, c)
    BY GeometryAssumption DEF MayCacheCovers, MaySetCovers, Lru!Cold
  <2> DEFINE u == UpdateLine(c, addr, access, May!Update, May!Join)
  <2>4. u \in MayCaches /\ MayWellFormedCache(u)
    BY <2>1, <2>2, <2>3, MayUpdateLineSound
  <2>5. Update(t, c, addr, access) = u
    BY <1>2 DEF Update
  <2> HIDE DEF u
  <2>6. QED
    BY <1>2, <2>4, <2>5 DEF ACS
<1>3. CASE t = "PS"
  <2>1. c \in PsCaches
    BY <1>3 DEF ACS
  <2> DEFINE si == [b \in Line |-> {}]
             u == UpdateLine(c, addr, access, Ps!Update, Ps!Join)
  <2>2. si \in [Line -> SUBSET Line] /\ PsCacheCovers({}, si, c)
    BY DEF PsCacheCovers, PsCovers
  <2> HIDE DEF si
  <2>3. u \in PsCaches
    BY <2>1, <2>2, PsUpdateLineSound
  <2>4. Update(t, c, addr, access) = u
    BY <1>3 DEF Update
  <2> HIDE DEF u
  <2>5. QED
    BY <1>3, <2>3, <2>4 DEF ACS
<1>4. QED
  BY <1>1, <1>2, <1>3 DEF Analysis

LEMMA JoinType ==
  ASSUME NEW t \in Analysis, NEW c \in ACS(t), NEW d \in ACS(t)
  PROVE  Join(t, c, d) \in ACS(t)
<1>1. CASE t = "MUST"
  <2>1. ASSUME NEW s \in CacheSet
        PROVE  /\ Must!Join(c[s], d[s]) \in Must!Contents
               /\ Must!WellFormed(Must!Join(c[s], d[s]))
    <3>1. /\ c[s] \in Must!Contents /\ Must!WellFormed(c[s])
          /\ d[s] \in Must!Contents /\ Must!WellFormed(d[s])
      BY <1>1 DEF ACS, MustCaches, MustWellFormedCache
    <3>2. QED
      BY <3>1, MustJoinType, MustJoinWellFormed
  <2>2. QED
    BY <1>1, <2>1 DEF Join, JoinCaches, ACS, MustCaches, MustWellFormedCache
<1>2. CASE t = "MAY"
  <2>1. ASSUME NEW s \in CacheSet
        PROVE  /\ May!Join(c[s], d[s]) \in May!Contents
               /\ May!WellFormed(May!Join(c[s], d[s]))
    <3>1. /\ c[s] \in May!Contents /\ May!WellFormed(c[s])
          /\ d[s] \in May!Contents /\ May!WellFormed(d[s])
      BY <1>2 DEF ACS, MayCaches, MayWellFormedCache
    <3>2. QED
      BY <3>1, MayJoinType, MayJoinWellFormed
  <2>2. QED
    BY <1>2, <2>1 DEF Join, JoinCaches, ACS, MayCaches, MayWellFormedCache
<1>3. CASE t = "PS"
  <2>1. c \in PsCaches /\ d \in PsCaches
    BY <1>3 DEF ACS
  <2>2. JoinCaches(c, d, Ps!Join) \in PsCaches
    BY <2>1, PsJoinCachesSound
  <2>3. QED
    BY <1>3, <2>2 DEF Join, ACS
<1>4. QED
  BY <1>1, <1>2, <1>3 DEF Analysis

(* The accesses of a block. *)
Block(code, access) ==
  /\ code \in Seq(Address)
  /\ access \in [1 .. Len(code) -> CAC]

LEMMA SimulatedType ==
  ASSUME NEW t \in Analysis, NEW acs \in ACS(t), NEW code, NEW access, Block(code, access),
         NEW skipped
  PROVE  \A i \in 0 .. Len(code) : Simulated(t, acs, code, access, skipped)[i] \in ACS(t)
<1> DEFINE f == Simulated(t, acs, code, access, skipped)
           S == {i \in Nat : i <= Len(code) => f[i] \in ACS(t)}
<1>1. Len(code) \in Nat /\ \A i \in 1 .. Len(code) : code[i] \in Address /\ access[i] \in CAC
  BY DEF Block
<1>2. /\ f[0] = acs
      /\ \A i \in 1 .. Len(code) : f[i] = IF i \in skipped THEN f[i - 1]
                                          ELSE Update(t, f[i - 1], code[i], access[i])
  BY <1>1, SimulatedFacts
<1> HIDE DEF f
<1>3. 0 \in S
  BY <1>2
<1>4. ASSUME NEW i \in Nat, i \in S
      PROVE  i + 1 \in S
  <2>1. SUFFICES ASSUME i + 1 <= Len(code)
                 PROVE  f[i + 1] \in ACS(t)
    OBVIOUS
  <2>2. i + 1 \in 1 .. Len(code) /\ i + 1 - 1 = i /\ f[i] \in ACS(t)
    BY <1>1, <1>4, <2>1
  <2>3. Update(t, f[i], code[i + 1], access[i + 1]) \in ACS(t)
    BY <1>1, <2>2, UpdateType
  <2>4. f[i + 1] = f[i] \/ f[i + 1] = Update(t, f[i], code[i + 1], access[i + 1])
    BY <1>2, <2>2
  <2>5. QED
    BY <2>2, <2>3, <2>4
<1> HIDE DEF S
<1>5. Nat \subseteq S
  BY <1>3, <1>4, Induction
<1>6. QED
  BY <1>1, <1>5 DEF S, f

LEMMA JoinOfType ==
  ASSUME NEW t \in Analysis, NEW preds, Len(preds) \in Nat \ {0}, NEW acs,
         \A i \in 1 .. Len(preds) : acs[preds[i]] \in ACS(t)
  PROVE  JoinOf(t, preds, acs) \in ACS(t)
<1>1. PICK f : /\ JoinOf(t, preds, acs) = f[Len(preds)]
               /\ f[1] = acs[preds[1]]
               /\ \A i \in 2 .. Len(preds) : f[i] = Join(t, f[i - 1], acs[preds[i]])
  BY JoinOfFacts
<1> DEFINE S == {i \in Nat : i + 1 <= Len(preds) => f[i + 1] \in ACS(t)}
<1>2. 0 \in S
  <2>1. 1 \in 1 .. Len(preds)
    OBVIOUS
  <2>2. QED
    BY <1>1, <2>1
<1>3. ASSUME NEW i \in Nat, i \in S
      PROVE  i + 1 \in S
  <2>1. SUFFICES ASSUME i + 1 + 1 <= Len(preds)
                 PROVE  f[i + 1 + 1] \in ACS(t)
    OBVIOUS
  <2>2. /\ i + 1 + 1 \in 2 .. Len(preds) /\ i + 1 + 1 \in 1 .. Len(preds)
        /\ i + 1 + 1 - 1 = i + 1 /\ f[i + 1] \in ACS(t)
    BY <1>3, <2>1
  <2>3. f[i + 1 + 1] = Join(t, f[i + 1], acs[preds[i + 1 + 1]])
    BY <1>1, <2>2
  <2>4. QED
    BY <2>2, <2>3, JoinType
<1> HIDE DEF S
<1>4. Nat \subseteq S
  BY <1>2, <1>3, Induction
<1>5. Len(preds) - 1 \in S /\ Len(preds) - 1 + 1 = Len(preds)
  BY <1>4
<1>6. QED
  BY <1>1, <1>5 DEF S
-----------------------------------------------------------------------------
(* Joins and blocks keep something in the state. *)

LEMMA JoinOfHolds ==
  ASSUME NEW t \in {"MAY", "PS"}, NEW preds, Len(preds) \in Nat \ {0}, NEW acs,
         NEW k \in 1 .. Len(preds), Holding(t, acs[preds[k]])
  PROVE  Holding(t, JoinOf(t, preds, acs))
<1>1. PICK f : /\ JoinOf(t, preds, acs) = f[Len(preds)]
               /\ f[1] = acs[preds[1]]
               /\ \A i \in 2 .. Len(preds) : f[i] = Join(t, f[i - 1], acs[preds[i]])
  BY JoinOfFacts
<1> DEFINE S == {i \in Nat : k <= i /\ i <= Len(preds) => Holding(t, f[i])}
<1>2. 0 \in S
  OBVIOUS
<1>3. ASSUME NEW i \in Nat, i \in S
      PROVE  i + 1 \in S
  <2>1. SUFFICES ASSUME k <= i + 1, i + 1 <= Len(preds)
                 PROVE  Holding(t, f[i + 1])
    OBVIOUS
  <2>2. CASE i = 0
    BY <1>1, <2>1, <2>2
  <2>3. CASE i # 0
    <3>1. i + 1 \in 2 .. Len(preds) /\ i + 1 - 1 = i
      BY <2>1, <2>3
    <3>2. f[i + 1] = Join(t, f[i], acs[preds[i + 1]])
      BY <1>1, <3>1
    <3>3. Holding(t, f[i]) \/ Holding(t, acs[preds[i + 1]])
      BY <1>3, <2>1
    <3>4. QED
      BY <3>2, <3>3, JoinHolds
  <2>4. QED
    BY <2>2, <2>3
<1> HIDE DEF S
<1>4. Nat \subseteq S
  BY <1>2, <1>3, Induction
<1>5. QED
  BY <1>1, <1>4 DEF S

LEMMA JoinEmpty ==
  ASSUME NEW t \in {"MAY", "PS"}
  PROVE  Join(t, EmptyACS(t), EmptyACS(t)) = EmptyACS(t)
<1>1. CASE t = "MAY"
  <2>1. May!Join(May!Empty, May!Empty) = May!Empty
    BY DEF May!Join, May!Empty
  <2>2. QED
    BY <1>1, <2>1 DEF Join, JoinCaches, EmptyACS, EmptyCache
<1>2. CASE t = "PS"
  <2> DEFINE e == Ps!Empty
             added == e.present \ e.evicted
             union == [b \in Line |-> e.conflicts[b] \cup e.conflicts[b]]
             full == {b \in added : Ps!Cardinality(union[b]) >= nb_ways}
  <2>1. /\ e.present = {} /\ e.evicted = {} /\ e.conflicts = [b \in Line |-> {}]
    BY DEF Ps!Empty, Ps!PersistentSet
  <2>2. Ps!Join(e, e) = Ps!PersistentSet(((e.present \cup added) \ full) \ e.evicted,
                                         union, e.evicted \cup full \cup e.evicted)
    BY DEF Ps!Join
  <2> HIDE DEF e
  <2>3. union = [b \in Line |-> {}]
    BY <2>1
  <2>4. full = {} /\ added = {}
    BY <2>1
  <2>5. Ps!Join(e, e) = Ps!PersistentSet({}, [b \in Line |-> {}], {})
    BY <2>1, <2>2, <2>3, <2>4
  <2>6. Ps!Join(e, e) = e
    BY <2>5 DEF Ps!Empty, e
  <2>7. QED
    BY <1>2, <2>6 DEF Join, JoinCaches, EmptyACS, EmptyCache, e
<1>3. QED
  BY <1>1, <1>2

LEMMA JoinOfEmpty ==
  ASSUME NEW t \in {"MAY", "PS"}, NEW preds, Len(preds) \in Nat \ {0}, NEW acs,
         \A i \in 1 .. Len(preds) : acs[preds[i]] = EmptyACS(t)
  PROVE  JoinOf(t, preds, acs) = EmptyACS(t)
<1>1. PICK f : /\ JoinOf(t, preds, acs) = f[Len(preds)]
               /\ f[1] = acs[preds[1]]
               /\ \A i \in 2 .. Len(preds) : f[i] = Join(t, f[i - 1], acs[preds[i]])
  BY JoinOfFacts
<1> DEFINE S == {i \in Nat : i + 1 <= Len(preds) => f[i + 1] = EmptyACS(t)}
<1>2. 0 \in S
  <2>1. 1 \in 1 .. Len(preds)
    OBVIOUS
  <2>2. QED
    BY <1>1, <2>1
<1>3. ASSUME NEW i \in Nat, i \in S
      PROVE  i + 1 \in S
  <2>1. SUFFICES ASSUME i + 1 + 1 <= Len(preds)
                 PROVE  f[i + 1 + 1] = EmptyACS(t)
    OBVIOUS
  <2>2. /\ i + 1 + 1 \in 2 .. Len(preds) /\ i + 1 + 1 \in 1 .. Len(preds)
        /\ i + 1 + 1 - 1 = i + 1 /\ f[i + 1] = EmptyACS(t)
    BY <1>3, <2>1
  <2>3. f[i + 1 + 1] = Join(t, f[i + 1], acs[preds[i + 1 + 1]])
    BY <1>1, <2>2
  <2>4. QED
    BY <2>2, <2>3, JoinEmpty
<1> HIDE DEF S
<1>4. Nat \subseteq S
  BY <1>2, <1>3, Induction
<1>5. Len(preds) - 1 \in S /\ Len(preds) - 1 + 1 = Len(preds)
  BY <1>4
<1>6. QED
  BY <1>1, <1>5 DEF S

LEMMA SimulatedHolds ==
  ASSUME NEW t \in {"MAY", "PS"}, NEW acs \in ACS(t), NEW code, NEW access, Block(code, access),
         Holding(t, acs) \/ \E k \in 1 .. Len(code) : access[k] # "N"
  PROVE  Holding(t, Simulated(t, acs, code, access, {})[Len(code)])
<1> DEFINE f == Simulated(t, acs, code, access, {})
           Fed(i) == Holding(t, acs) \/ \E k \in 1 .. i : access[k] # "N"
<1>1. /\ t \in Analysis /\ Len(code) \in Nat
      /\ \A i \in 1 .. Len(code) : code[i] \in Address /\ access[i] \in CAC
  BY DEF Block, Analysis
<1>2. /\ f[0] = acs
      /\ \A i \in 1 .. Len(code) : f[i] = Update(t, f[i - 1], code[i], access[i])
  BY <1>1, SimulatedFacts
<1>3. \A i \in 0 .. Len(code) : f[i] \in ACS(t)
  BY <1>1, SimulatedType
<1> HIDE DEF f
<1>9. Fed(0) => Holding(t, acs)
  OBVIOUS
<1>10. \A i \in Nat : Fed(i + 1) => Fed(i) \/ access[i + 1] # "N"
  OBVIOUS
<1>11. Fed(Len(code))
  OBVIOUS
<1> HIDE DEF Fed
<1> DEFINE T == {i \in Nat : i <= Len(code) => (Fed(i) => Holding(t, f[i]))}
<1>4. 0 \in T
  BY <1>1, <1>2, <1>9
<1>5. ASSUME NEW i \in Nat, i \in T
      PROVE  i + 1 \in T
  <2>1. SUFFICES ASSUME i + 1 <= Len(code), Fed(i + 1)
                 PROVE  Holding(t, f[i + 1])
    OBVIOUS
  <2>2. /\ i + 1 \in 1 .. Len(code) /\ i + 1 - 1 = i /\ i \in 0 .. Len(code)
        /\ Fed(i) => Holding(t, f[i])
    BY <1>1, <1>5, <2>1
  <2>3. f[i + 1] = Update(t, f[i], code[i + 1], access[i + 1])
    BY <1>2, <2>2
  <2>4. f[i] \in ACS(t) /\ DOMAIN f[i] = CacheSet
    BY <1>1, <1>3, <2>2, ACSDomain
  <2>5. CASE access[i + 1] # "N"
    BY <1>1, <2>2, <2>3, <2>4, <2>5, UpdateHolds
  <2>6. CASE access[i + 1] = "N"
    <3>1. f[i + 1] = f[i]
      BY <2>3, <2>6 DEF Update, UpdateLine
    <3>2. Fed(i)
      BY <1>10, <2>1, <2>6
    <3>3. QED
      BY <2>2, <3>1, <3>2
  <2>7. QED
    BY <2>5, <2>6
<1> HIDE DEF T
<1>6. Nat \subseteq T
  BY <1>4, <1>5, Induction
<1>7. Holding(t, f[Len(code)])
  BY <1>1, <1>6, <1>11 DEF T
<1>8. QED
  BY <1>7 DEF f
-----------------------------------------------------------------------------
(* The programs and their graphs. *)

LEMMA ProgramFacts ==
  ASSUME NEW p \in Programs
  PROVE  /\ IsFiniteSet(DOMAIN p.code) /\ IsFiniteSet(p.edges)
         /\ p.entry \in DOMAIN p.code
         /\ \A e \in p.edges : e[1] \in DOMAIN p.code /\ e[2] \in DOMAIN p.code
         /\ \A e \in p.edges : e[2] # p.entry /\ e = <<e[1], e[2]>>
         /\ p.inLoop \subseteq DOMAIN p.code /\ p.heads \subseteq p.inLoop
         /\ \A n \in DOMAIN p.code : /\ Block(p.code[n], p.access[n])
                                     /\ Len(p.code[n]) \in Nat \ {0}
                                     /\ DOMAIN p.code[n] = 1 .. Len(p.code[n])
         /\ p.access[p.entry][1] \in {"A", "U"}
<1> DEFINE N == DOMAIN p.code
<1>1. /\ IsFiniteSet(N) /\ p.entry \in N
      /\ p.edges \subseteq N \X (N \ {p.entry})
      /\ p.inLoop \subseteq N /\ p.heads \subseteq p.inLoop
      /\ \A n \in N : /\ p.code[n] \in Seq(Address) /\ p.code[n] # <<>>
                      /\ p.access[n] \in [DOMAIN p.code[n] -> CAC]
      /\ p.access[p.entry][1] \in {"A", "U"}
  BY ProgramsAssumption, Zenon
<1>2. ASSUME NEW n \in N
      PROVE  /\ Block(p.code[n], p.access[n])
             /\ Len(p.code[n]) \in Nat \ {0}
             /\ DOMAIN p.code[n] = 1 .. Len(p.code[n])
  <2>1. p.code[n] \in Seq(Address) /\ p.code[n] # <<>>
    BY <1>1
  <2>2. DOMAIN p.code[n] = 1 .. Len(p.code[n]) /\ Len(p.code[n]) \in Nat \ {0}
    BY <2>1
  <2>3. QED
    BY <1>1, <2>1, <2>2 DEF Block
<1>3. IsFiniteSet(N \X N)
  BY <1>1, FS_Product
<1>4. p.edges \subseteq N \X N
  BY <1>1
<1>5. IsFiniteSet(p.edges)
  BY <1>3, <1>4, FS_Subset
<1> HIDE DEF N
<1>6. \A e \in p.edges : e[1] \in N /\ e[2] \in N /\ e[2] # p.entry /\ e = <<e[1], e[2]>>
  BY <1>1
<1>7. QED
  BY <1>1, <1>2, <1>5, <1>6 DEF N

FixPoints == {"FixPointMust1stStep", "MUST", "PS", "MAY"}

(* The nodes a fixed point is computed on, and the analysis it belongs to. *)
Nodes(fixPoint) == IF fixPoint = "PS" THEN prog.inLoop ELSE Node
AnalysisOf(fixPoint) == IF fixPoint = "FixPointMust1stStep" THEN "MUST" ELSE fixPoint

LEMMA FollowedFacts ==
  ASSUME prog \in Programs, NEW fixPoint \in FixPoints
  PROVE  /\ IsFiniteSet(Followed(fixPoint))
         /\ \A e \in Followed(fixPoint) : e[1] \in Nodes(fixPoint) /\ e[2] \in Nodes(fixPoint)
         /\ Followed(fixPoint) \subseteq prog.edges
         /\ Nodes(fixPoint) \subseteq Node
<1>1. Followed(fixPoint) \subseteq prog.edges
  BY DEF FixPoints, Followed
<1>2. IsFiniteSet(Followed(fixPoint))
  BY <1>1, ProgramFacts, FS_Subset
<1>3. \A e \in Followed(fixPoint) : e[1] \in Nodes(fixPoint) /\ e[2] \in Nodes(fixPoint)
  <2>1. CASE fixPoint = "PS"
    BY <2>1 DEF Followed, Nodes
  <2>2. CASE fixPoint # "PS"
    BY <1>1, <2>2, ProgramFacts DEF Nodes, Node
  <2>3. QED
    BY <2>1, <2>2
<1>4. Nodes(fixPoint) \subseteq Node
  BY ProgramFacts DEF Nodes, Node
<1>5. QED
  BY <1>1, <1>2, <1>3, <1>4

(* The predecessors of a node, in the order of the joins. *)
LEMMA PredecessorsFacts ==
  ASSUME prog \in Programs, NEW fixPoint \in FixPoints, NEW n,
         Predecessors(Followed(fixPoint), n) # {}
  PROVE  LET preds == Predecessors(Followed(fixPoint), n)
         IN  /\ preds \subseteq Nodes(fixPoint)
             /\ Len(SetToSeq(preds)) \in Nat \ {0}
             /\ \A i \in 1 .. Len(SetToSeq(preds)) : SetToSeq(preds)[i] \in preds
             /\ \A p \in preds : \E i \in 1 .. Len(SetToSeq(preds)) : SetToSeq(preds)[i] = p
<1> DEFINE preds == Predecessors(Followed(fixPoint), n)
<1>1. preds \subseteq Nodes(fixPoint) /\ preds \subseteq Node
  BY FollowedFacts DEF Predecessors
<1>2. IsFiniteSet(preds)
  BY <1>1, ProgramFacts, FS_Subset DEF Node
<1> HIDE DEF preds
<1>3. preds # {}
  BY DEF preds
<1>4. /\ Len(SetToSeq(preds)) \in Nat \ {0}
      /\ \A i \in 1 .. Len(SetToSeq(preds)) : SetToSeq(preds)[i] \in preds
      /\ \A p \in preds : \E i \in 1 .. Len(SetToSeq(preds)) : SetToSeq(preds)[i] = p
  BY <1>2, <1>3, SetToSeqFacts, Zenon
<1>5. QED
  BY <1>1, <1>4 DEF preds
-----------------------------------------------------------------------------
(* Type correctness: while an analysis computes a fixed point its ACS are  *)
(* well formed, and every node whose ACS_in is to be computed has a        *)
(* predecessor, as the code asserts.                                       *)

FixPointType ==
  /\ acs_in \in [Nodes(phase) -> ACS(AnalysisOf(phase))]
  /\ acs_out \in [Nodes(phase) -> ACS(AnalysisOf(phase))]
  /\ work \subseteq Nodes(phase)
  /\ visited \subseteq Nodes(phase)
  /\ half = "ACS_in" => \A n \in work : Predecessors(Followed(phase), n) # {}
  /\ phase = "FixPointMust1stStep" => visited = {}

TypeInv ==
  /\ prog \in Programs
  /\ todo \subseteq Analysis
  /\ phase \in FixPoints \cup {"idle", "done"}
  /\ half \in {"ACS_out", "ACS_in"}
  /\ phase \in FixPoints => FixPointType

LEMMA ComputedType ==
  ASSUME prog \in Programs, phase \in FixPoints, FixPointType
  PROVE  /\ \A n \in Nodes(phase) :
               compute_ACS_out(AnalysisOf(phase), n) \in ACS(AnalysisOf(phase))
         /\ \A n \in Nodes(phase) : Predecessors(Followed(phase), n) # {}
               => JoinOfPredecessors(AnalysisOf(phase), Followed(phase), n)
                    \in ACS(AnalysisOf(phase))
<1> DEFINE t == AnalysisOf(phase)
<1>1. t \in Analysis
  BY DEF AnalysisOf, FixPoints, Analysis
<1>2. ASSUME NEW n \in Nodes(phase)
      PROVE  compute_ACS_out(t, n) \in ACS(t)
  <2>1. n \in Node /\ acs_in[n] \in ACS(t)
    BY <1>2, FollowedFacts DEF FixPointType
  <2>2. Block(prog.code[n], prog.access[n]) /\ Len(prog.code[n]) \in Nat
    BY <2>1, ProgramFacts DEF Node
  <2>3. Len(prog.code[n]) \in 0 .. Len(prog.code[n])
    BY <2>2
  <2> HIDE DEF t
  <2>4. QED
    BY <1>1, <2>1, <2>2, <2>3, SimulatedType DEF compute_ACS_out
<1>3. ASSUME NEW n \in Nodes(phase), Predecessors(Followed(phase), n) # {}
      PROVE  JoinOfPredecessors(t, Followed(phase), n) \in ACS(t)
  <2> DEFINE preds == Predecessors(Followed(phase), n)
             seq == SetToSeq(preds)
             out == [p \in preds |-> acs_out[p]]
  <2>1. /\ preds \subseteq Nodes(phase)
        /\ Len(seq) \in Nat \ {0}
        /\ \A i \in 1 .. Len(seq) : seq[i] \in preds
    BY <1>3, PredecessorsFacts
  <2>2. JoinOfPredecessors(t, Followed(phase), n) = JoinOf(t, seq, out)
    BY DEF JoinOfPredecessors
  <2> HIDE DEF seq, preds, t
  <2>3. \A i \in 1 .. Len(seq) : out[seq[i]] \in ACS(t)
    BY <2>1 DEF FixPointType, t
  <2>4. QED
    BY <1>1, <2>1, <2>2, <2>3, JoinOfType
<1>4. QED
  BY <1>2, <1>3

(* The first half of a round. *)
LEMMA ComputeOutType ==
  ASSUME prog \in Programs, phase \in FixPoints, FixPointType,
         NEW visitAll \in BOOLEAN, phase = "FixPointMust1stStep" => ~ visitAll,
         ComputeOut(AnalysisOf(phase), Followed(phase), visitAll),
         UNCHANGED <<prog, phase>>
  PROVE  FixPointType' /\ half' = "ACS_in"
<1> DEFINE t == AnalysisOf(phase)
<1>1. /\ acs_out' = [n \in DOMAIN acs_out |-> IF n \in work THEN compute_ACS_out(t, n)
                                              ELSE acs_out[n]]
      /\ visited' = IF visitAll THEN visited \cup work ELSE visited
      /\ \A m \in work' : \E n \in work : m \in Successors(Followed(phase), n)
      /\ half' = "ACS_in" /\ acs_in' = acs_in
  BY DEF ComputeOut
<1>2. \A n \in Nodes(phase) : compute_ACS_out(t, n) \in ACS(t)
  BY ComputedType
<1>3. Nodes(phase)' = Nodes(phase) /\ AnalysisOf(phase)' = t /\ Followed(phase)' = Followed(phase)
  BY DEF Nodes, Node, Followed, AnalysisOf
<1> HIDE DEF t
<1>4. acs_out' \in [Nodes(phase) -> ACS(t)]
  BY <1>1, <1>2 DEF FixPointType, t
<1>5. ASSUME NEW m \in work'
      PROVE  m \in Nodes(phase) /\ Predecessors(Followed(phase), m) # {}
  <2>1. PICK n \in work : m \in Successors(Followed(phase), n)
    BY <1>1
  <2>2. PICK e \in Followed(phase) : e[1] = n /\ e[2] = m
    BY <2>1 DEF Successors
  <2>3. n \in Predecessors(Followed(phase), m)
    BY <2>2 DEF Predecessors
  <2>4. QED
    BY <2>2, <2>3, FollowedFacts
<1>6. visited' \subseteq Nodes(phase)
  BY <1>1 DEF FixPointType
<1>7. phase = "FixPointMust1stStep" => visited' = {}
  BY <1>1 DEF FixPointType
<1>8. acs_in' \in [Nodes(phase) -> ACS(t)]
  BY <1>1 DEF FixPointType, t
<1>9. QED
  BY <1>1, <1>3, <1>4, <1>5, <1>6, <1>7, <1>8 DEF FixPointType

(* The second half. *)
LEMMA ComputeInType ==
  ASSUME prog \in Programs, phase \in FixPoints, FixPointType,
         NEW visitAll \in BOOLEAN,
         ComputeIn(AnalysisOf(phase), Followed(phase), visitAll),
         UNCHANGED <<prog, phase>>
  PROVE  FixPointType' /\ half' = "ACS_out"
<1> DEFINE t == AnalysisOf(phase)
<1>1. /\ acs_in' = [n \in DOMAIN acs_in |->
                      IF n \in work THEN JoinOfPredecessors(t, Followed(phase), n)
                      ELSE acs_in[n]]
      /\ work' \subseteq work
      /\ half = "ACS_in" /\ half' = "ACS_out" /\ acs_out' = acs_out /\ visited' = visited
  BY DEF ComputeIn
<1>2. \A n \in work : JoinOfPredecessors(t, Followed(phase), n) \in ACS(t)
  BY <1>1, ComputedType DEF FixPointType
<1>3. Nodes(phase)' = Nodes(phase) /\ AnalysisOf(phase)' = t /\ Followed(phase)' = Followed(phase)
  BY DEF Nodes, Node, Followed, AnalysisOf
<1> HIDE DEF t
<1>4. acs_in' \in [Nodes(phase) -> ACS(t)]
  BY <1>1, <1>2 DEF FixPointType, t
<1>5. QED
  BY <1>1, <1>3, <1>4 DEF FixPointType, t

LEMMA RoundType ==
  ASSUME TypeInv, NEW visitAll \in BOOLEAN,
         NEW fixPoint \in FixPoints, fixPoint = "FixPointMust1stStep" => ~ visitAll,
         Round(fixPoint, AnalysisOf(fixPoint), visitAll)
  PROVE  TypeInv'
<1>1. /\ phase = fixPoint /\ UNCHANGED <<prog, todo, phase>>
      /\ \/ ComputeOut(AnalysisOf(phase), Followed(phase), visitAll)
         \/ ComputeIn(AnalysisOf(phase), Followed(phase), visitAll)
  BY DEF Round
<1>2. FixPointType' /\ half' \in {"ACS_out", "ACS_in"}
  BY <1>1, ComputeOutType, ComputeInType DEF TypeInv
<1>3. QED
  BY <1>1, <1>2 DEF TypeInv

THEOREM TypeCorrectness == Spec => []TypeInv
<1>1. Init => TypeInv
  BY OptionsAssumption DEF Init, TypeInv, FixPoints
<1>2. TypeInv /\ [Next]_vars => TypeInv'
  <2>1. SUFFICES ASSUME TypeInv, [Next]_vars
                 PROVE  TypeInv'
    OBVIOUS
  <2>2. CASE StartAnalysis
    <3>1. PICK t \in todo :
            /\ todo' = todo \ {t}
            /\ phase' = IF t = "MUST" THEN "FixPointMust1stStep" ELSE t
            /\ half' = "ACS_out" /\ prog' = prog
            /\ acs_in' = [n \in IF t = "PS" THEN prog.inLoop ELSE Node |-> EmptyACS(t)]
            /\ acs_out' = acs_in' /\ work' = Starts(t) /\ visited' = {}
      BY <2>2 DEF StartAnalysis
    <3>2. t \in Analysis /\ prog \in Programs
      BY <2>1 DEF TypeInv
    <3>3. phase' \in FixPoints /\ AnalysisOf(phase') = t
      BY <3>1, <3>2 DEF FixPoints, AnalysisOf, Analysis
    <3>4. Nodes(phase)' = IF t = "PS" THEN prog.inLoop ELSE Node
      BY <3>1, <3>2 DEF Nodes, Node, Analysis
    <3>5. acs_in' \in [Nodes(phase)' -> ACS(t)]
      BY <3>1, <3>2, <3>4, EmptyType
    <3>6. Starts(t) \subseteq Nodes(phase)'
      BY <3>2, <3>4, ProgramFacts DEF Starts, Node
    <3>7. FixPointType'
      BY <3>1, <3>3, <3>5, <3>6 DEF FixPointType
    <3>8. QED
      BY <2>1, <3>1, <3>3, <3>7 DEF TypeInv
  <2>3. CASE FixPointMust1stStep
    <3>1. Round("FixPointMust1stStep", AnalysisOf("FixPointMust1stStep"), FALSE)
      BY <2>3 DEF FixPointMust1stStep, AnalysisOf
    <3>2. QED
      BY <2>1, <3>1, RoundType DEF FixPoints
  <2>4. CASE EndFixPointMust1stStep
    <3>1. /\ phase = "FixPointMust1stStep" /\ phase' = "MUST" /\ work' = {prog.entry}
          /\ UNCHANGED <<prog, todo, half, acs_in, acs_out, visited>> /\ half = "ACS_out"
      BY <2>4 DEF EndFixPointMust1stStep, Stable
    <3>2. prog \in Programs /\ FixPointType
      BY <2>1, <3>1 DEF TypeInv, FixPoints
    <3>3. /\ Nodes(phase)' = Nodes(phase)
          /\ AnalysisOf(phase)' = AnalysisOf(phase)
      BY <3>1 DEF Nodes, Node, AnalysisOf
    <3>4. prog.entry \in Nodes(phase)
      BY <3>1, <3>2, ProgramFacts DEF Nodes, Node
    <3>5. FixPointType'
      BY <3>1, <3>2, <3>3, <3>4 DEF FixPointType
    <3>6. QED
      BY <2>1, <3>1, <3>5 DEF TypeInv, FixPoints
  <2>5. CASE MustAnalysis
    <3>1. Round("MUST", AnalysisOf("MUST"), TRUE)
      BY <2>5 DEF MustAnalysis, AnalysisOf
    <3>2. QED
      BY <2>1, <3>1, RoundType DEF FixPoints
  <2>6. CASE PSAnalysis
    <3>1. Round("PS", AnalysisOf("PS"), FALSE)
      BY <2>6 DEF PSAnalysis, AnalysisOf
    <3>2. QED
      BY <2>1, <3>1, RoundType DEF FixPoints
  <2>7. CASE MayAnalysis
    <3>1. Round("MAY", AnalysisOf("MAY"), FALSE)
      BY <2>7 DEF MayAnalysis, AnalysisOf
    <3>2. QED
      BY <2>1, <3>1, RoundType DEF FixPoints
  <2>8. CASE Classify
    BY <2>1, <2>8 DEF Classify, TypeInv, FixPoints
  <2>9. CASE EndAnalysis
    BY <2>1, <2>9 DEF EndAnalysis, TypeInv, FixPoints, fixPointVars
  <2>10. CASE Fetch \/ Branch
    <3>1. phase \notin FixPoints /\ UNCHANGED <<prog, todo, phase, fixPointVars>>
      BY <2>10 DEF Fetch, Branch, Running, FixPoints
    <3>2. QED
      BY <2>1, <3>1 DEF TypeInv, fixPointVars
  <2>11. CASE UNCHANGED vars
    <3>1. UNCHANGED <<prog, todo, phase, half, acs_in, acs_out, work, visited>>
      BY <2>11 DEF vars, fixPointVars
    <3>2. QED
      BY <2>1, <3>1 DEF TypeInv, FixPointType, Nodes, Node, Followed
  <2>12. QED
    BY <2>1, <2>2, <2>3, <2>4, <2>5, <2>6, <2>7, <2>8, <2>9, <2>10, <2>11 DEF Next, Analyse
<1>3. QED
  BY <1>1, <1>2, PTL DEF Spec
-----------------------------------------------------------------------------
(* What each half of a round does to the equations of a node. *)

Solved(t, n) == acs_out[n] = compute_ACS_out(t, n)

Joined(t, n) ==
  Predecessors(Followed(t), n) # {} => acs_in[n] = JoinOfPredecessors(t, Followed(t), n)

LEMMA ComputeOutStep ==
  ASSUME NEW t \in Analysis, phase = t, prog \in Programs, FixPointType,
         NEW visitAll \in BOOLEAN, ComputeOut(t, Followed(t), visitAll), prog' = prog
  PROVE  /\ half = "ACS_out" /\ half' = "ACS_in" /\ acs_in' = acs_in
         /\ \A n \in work : Solved(t, n)'
         /\ \A n \in Nodes(t) \ work : acs_out'[n] = acs_out[n] /\ (Solved(t, n) => Solved(t, n)')
         /\ \A n \in Nodes(t) \ work' : Joined(t, n) => Joined(t, n)'
         /\ visitAll => \A e \in Followed(t) : e[1] \in work \ visited => e[2] \in work'
         /\ visited' = IF visitAll THEN visited \cup work ELSE visited
<1> DEFINE changed == {n \in work : \/ compute_ACS_out(t, n) # acs_out[n]
                                    \/ visitAll /\ n \notin visited}
<1>0. AnalysisOf(t) = t /\ t \in FixPoints
  BY DEF AnalysisOf, Analysis, FixPoints
<1>1. DOMAIN acs_out = Nodes(t) /\ work \subseteq Nodes(t)
  BY <1>0 DEF FixPointType
<1>2. /\ acs_out' = [n \in Nodes(t) |-> IF n \in work THEN compute_ACS_out(t, n)
                                        ELSE acs_out[n]]
      /\ visited' = IF visitAll THEN visited \cup work ELSE visited
      /\ half = "ACS_out" /\ half' = "ACS_in" /\ acs_in' = acs_in
  BY <1>1 DEF ComputeOut
<1>3. work' = UNION {Successors(Followed(t), n) : n \in changed}
  <2>1. \A n \in work : [m \in work |-> compute_ACS_out(t, m)][n] = compute_ACS_out(t, n)
    OBVIOUS
  <2>2. {n \in work : \/ [m \in work |-> compute_ACS_out(t, m)][n] # acs_out[n]
                      \/ visitAll /\ n \notin visited} = changed
    BY <2>1
  <2>3. QED
    BY <2>2 DEF ComputeOut
<1> HIDE DEF changed
<1>4. \A n : compute_ACS_out(t, n)' = compute_ACS_out(t, n)
  BY <1>2 DEF compute_ACS_out
<1>5. \A n \in work : Solved(t, n)'
  BY <1>1, <1>2, <1>4 DEF Solved
<1>6. \A n \in Nodes(t) \ work : acs_out'[n] = acs_out[n] /\ (Solved(t, n) => Solved(t, n)')
  BY <1>2, <1>4 DEF Solved
<1>7. \A e \in Followed(t) : e[1] \in changed => e[2] \in work'
  BY <1>3 DEF Successors
<1>8. \A n \in Nodes(t) : acs_out'[n] # acs_out[n] => n \in changed
  BY <1>2 DEF changed
<1>9. ASSUME NEW n \in Nodes(t) \ work', Joined(t, n)
      PROVE  Joined(t, n)'
  <2> DEFINE preds == Predecessors(Followed(t), n)
  <2>1. Followed(t)' = Followed(t)
    BY DEF Followed
  <2>2. \A p \in preds : acs_out'[p] = acs_out[p]
    <3>1. SUFFICES ASSUME NEW e \in Followed(t), e[2] = n
                   PROVE  acs_out'[e[1]] = acs_out[e[1]]
      BY DEF Predecessors
    <3>2. e[1] \notin changed /\ e[1] \in Nodes(t)
      BY <1>0, <1>7, <1>9, <3>1, FollowedFacts
    <3>3. QED
      BY <1>8, <3>2
  <2>3. [p \in preds |-> acs_out'[p]] = [p \in preds |-> acs_out[p]]
    BY <2>2
  <2>4. JoinOfPredecessors(t, Followed(t), n) = JoinOf(t, SetToSeq(preds), [p \in preds |-> acs_out[p]])
    BY DEF JoinOfPredecessors
  <2>5. JoinOfPredecessors(t, Followed(t), n)' = JoinOf(t, SetToSeq(preds), [p \in preds |-> acs_out'[p]])
    BY <2>1 DEF JoinOfPredecessors
  <2>6. QED
    BY <1>2, <1>9, <2>1, <2>3, <2>4, <2>5 DEF Joined
<1>10. visitAll => \A e \in Followed(t) : e[1] \in work \ visited => e[2] \in work'
  BY <1>7 DEF changed
<1>11. QED
  BY <1>2, <1>5, <1>6, <1>9, <1>10

LEMMA ComputeInStep ==
  ASSUME NEW t \in Analysis, phase = t, prog \in Programs, FixPointType,
         NEW visitAll \in BOOLEAN, ComputeIn(t, Followed(t), visitAll), prog' = prog
  PROVE  /\ half = "ACS_in" /\ half' = "ACS_out" /\ acs_out' = acs_out /\ visited' = visited
         /\ work' \subseteq work
         /\ \A n \in work \ work' : visitAll => n \in visited
         /\ \A n \in Nodes(t) \ work' : acs_in'[n] = acs_in[n] /\ (Solved(t, n) => Solved(t, n)')
         /\ \A n \in work : Joined(t, n)'
         /\ \A n \in Nodes(t) \ work : Joined(t, n) => Joined(t, n)'
<1>0. AnalysisOf(t) = t /\ t \in FixPoints
  BY DEF AnalysisOf, Analysis, FixPoints
<1>1. DOMAIN acs_in = Nodes(t) /\ work \subseteq Nodes(t)
  BY <1>0 DEF FixPointType
<1>2. /\ acs_in' = [n \in Nodes(t) |-> IF n \in work THEN JoinOfPredecessors(t, Followed(t), n)
                                       ELSE acs_in[n]]
      /\ work' = {n \in work : \/ JoinOfPredecessors(t, Followed(t), n) # acs_in[n]
                               \/ visitAll /\ n \notin visited}
      /\ half = "ACS_in" /\ half' = "ACS_out" /\ acs_out' = acs_out /\ visited' = visited
  <2>1. \A n \in work : [m \in work |-> JoinOfPredecessors(t, Followed(t), m)][n]
                          = JoinOfPredecessors(t, Followed(t), n)
    OBVIOUS
  <2>2. QED
    BY <1>1, <2>1 DEF ComputeIn
<1>3. \A n \in Nodes(t) \ work' : acs_in'[n] = acs_in[n]
  BY <1>2
<1>4. \A n \in Nodes(t) \ work' : Solved(t, n) => Solved(t, n)'
  BY <1>2, <1>3 DEF Solved, compute_ACS_out
<1>5. Followed(t)' = Followed(t)
  BY DEF Followed
<1>6. \A n : JoinOfPredecessors(t, Followed(t), n)' = JoinOfPredecessors(t, Followed(t), n)
  BY <1>2, <1>5 DEF JoinOfPredecessors
<1>7. \A n \in work : Joined(t, n)'
  BY <1>1, <1>2, <1>5, <1>6 DEF Joined
<1>8. \A n \in Nodes(t) \ work : Joined(t, n) => Joined(t, n)'
  BY <1>2, <1>5, <1>6 DEF Joined
<1>9. QED
  BY <1>2, <1>3, <1>4, <1>7, <1>8
-----------------------------------------------------------------------------
(* Why the ACS are a fixed point when the work list is empty.              *)
(*                                                                         *)
(* MUST: the nodes visited are closed under the edges, up to the work      *)
(* list, and satisfy their equations, up to the work list.                 *)

MustInv ==
  /\ half = "ACS_out" =>
        /\ prog.entry \in visited \cup work
        /\ \A e \in prog.edges : e[1] \in visited => e[2] \in visited \cup work
        /\ \A n \in visited \ work : Solved("MUST", n)
        /\ \A n \in visited \cup work : Joined("MUST", n)
  /\ half = "ACS_in" =>
        /\ prog.entry \in visited
        /\ \A e \in prog.edges : e[1] \in visited => e[2] \in visited \cup work
        /\ \A n \in visited : Solved("MUST", n)
        /\ \A n \in visited \ work : Joined("MUST", n)

(* PS and MAY: a node satisfies its equations, up to the work list, or the *)
(* analysis has not reached it and its states hold nothing.                *)

Untouched(t, n) ==
  n \notin Starts(t) /\ acs_in[n] = EmptyACS(t) /\ acs_out[n] = EmptyACS(t)

GrowInv(t) ==
  /\ half = "ACS_out" =>
        /\ \A n \in Nodes(t) \ work : Solved(t, n) \/ Untouched(t, n)
        /\ \A n \in Nodes(t) : Joined(t, n)
  /\ half = "ACS_in" =>
        /\ \A n \in Nodes(t) : Solved(t, n) \/ Untouched(t, n)
        /\ \A n \in Nodes(t) \ work : Joined(t, n)

FixInv ==
  /\ phase = "MUST" => MustInv
  /\ phase \in {"PS", "MAY"} => GrowInv(phase)

LEMMA MustRound ==
  ASSUME TypeInv, FixInv, MustAnalysis
  PROVE  MustInv'
<1> DEFINE t == "MUST"
<1>1. /\ t \in Analysis /\ phase = t /\ prog \in Programs /\ FixPointType /\ prog' = prog
      /\ ComputeOut(t, Followed(t), TRUE) \/ ComputeIn(t, Followed(t), TRUE)
      /\ Followed(t) = prog.edges /\ Nodes(t) = Node
  BY DEF TypeInv, MustAnalysis, Round, Analysis, FixPoints, Followed, Nodes
<1>2. MustInv
  BY <1>1 DEF FixInv
<1>3. work \subseteq Node /\ visited \subseteq Node
  BY <1>1 DEF FixPointType
<1>4. CASE ComputeOut(t, Followed(t), TRUE)
  <2>1. /\ half = "ACS_out" /\ half' = "ACS_in" /\ acs_in' = acs_in
        /\ \A n \in work : Solved(t, n)'
        /\ \A n \in Node \ work : Solved(t, n) => Solved(t, n)'
        /\ \A n \in Node \ work' : Joined(t, n) => Joined(t, n)'
        /\ \A e \in prog.edges : e[1] \in work \ visited => e[2] \in work'
        /\ visited' = visited \cup work
    BY <1>1, <1>4, ComputeOutStep
  <2>2. prog.entry \in visited'
    BY <1>2, <2>1 DEF MustInv
  <2>3. \A e \in prog.edges : e[1] \in visited' => e[2] \in visited' \cup work'
    BY <1>2, <2>1 DEF MustInv
  <2>4. \A n \in visited' : Solved(t, n)'
    BY <1>2, <1>3, <2>1 DEF MustInv
  <2>5. \A n \in visited' \ work' : Joined(t, n)'
    BY <1>2, <1>3, <2>1 DEF MustInv
  <2>6. QED
    BY <1>1, <2>1, <2>2, <2>3, <2>4, <2>5 DEF MustInv
<1>5. CASE ComputeIn(t, Followed(t), TRUE)
  <2>1. /\ half = "ACS_in" /\ half' = "ACS_out" /\ visited' = visited
        /\ work' \subseteq work
        /\ \A n \in work \ work' : n \in visited
        /\ \A n \in Node \ work' : Solved(t, n) => Solved(t, n)'
        /\ \A n \in work : Joined(t, n)'
        /\ \A n \in Node \ work : Joined(t, n) => Joined(t, n)'
    BY <1>1, <1>5, ComputeInStep
  <2>2. prog.entry \in visited' \cup work'
    BY <1>2, <2>1 DEF MustInv
  <2>3. \A e \in prog.edges : e[1] \in visited' => e[2] \in visited' \cup work'
    BY <1>2, <2>1 DEF MustInv
  <2>4. \A n \in visited' \ work' : Solved(t, n)'
    BY <1>2, <1>3, <2>1 DEF MustInv
  <2>5. \A n \in visited' \cup work' : Joined(t, n)'
    BY <1>2, <1>3, <2>1 DEF MustInv
  <2>6. QED
    BY <1>1, <2>1, <2>2, <2>3, <2>4, <2>5 DEF MustInv
<1>6. QED
  BY <1>1, <1>4, <1>5

LEMMA GrowRound ==
  ASSUME TypeInv, FixInv, NEW t \in {"PS", "MAY"}, Round(t, t, FALSE)
  PROVE  GrowInv(t)'
<1>1. /\ t \in Analysis /\ phase = t /\ prog \in Programs /\ FixPointType /\ prog' = prog
      /\ ComputeOut(t, Followed(t), FALSE) \/ ComputeIn(t, Followed(t), FALSE)
  BY DEF TypeInv, Round, Analysis, FixPoints
<1>2. GrowInv(t)
  BY <1>1 DEF FixInv
<1>3. work \subseteq Nodes(t) /\ Nodes(t)' = Nodes(t) /\ Starts(t)' = Starts(t)
  BY <1>1 DEF FixPointType, Nodes, Node, Starts
<1>4. CASE ComputeOut(t, Followed(t), FALSE)
  <2>1. /\ half = "ACS_out" /\ half' = "ACS_in" /\ acs_in' = acs_in
        /\ \A n \in work : Solved(t, n)'
        /\ \A n \in Nodes(t) \ work : acs_out'[n] = acs_out[n] /\ (Solved(t, n) => Solved(t, n)')
        /\ \A n \in Nodes(t) \ work' : Joined(t, n) => Joined(t, n)'
    BY <1>1, <1>4, ComputeOutStep
  <2>2. \A n \in Nodes(t) \ work : Untouched(t, n) => Untouched(t, n)'
    BY <1>3, <2>1 DEF Untouched
  <2>3. \A n \in Nodes(t) : Solved(t, n)' \/ Untouched(t, n)'
    BY <1>2, <2>1, <2>2 DEF GrowInv
  <2>4. \A n \in Nodes(t) \ work' : Joined(t, n)'
    BY <1>2, <2>1 DEF GrowInv
  <2>5. QED
    BY <1>3, <2>1, <2>3, <2>4 DEF GrowInv
<1>5. CASE ComputeIn(t, Followed(t), FALSE)
  <2>1. /\ half = "ACS_in" /\ half' = "ACS_out" /\ acs_out' = acs_out
        /\ work' \subseteq work
        /\ \A n \in Nodes(t) \ work' : acs_in'[n] = acs_in[n] /\ (Solved(t, n) => Solved(t, n)')
        /\ \A n \in work : Joined(t, n)'
        /\ \A n \in Nodes(t) \ work : Joined(t, n) => Joined(t, n)'
    BY <1>1, <1>5, ComputeInStep
  <2>2. \A n \in Nodes(t) \ work' : Untouched(t, n) => Untouched(t, n)'
    BY <1>3, <2>1 DEF Untouched
  <2>3. \A n \in Nodes(t) \ work' : Solved(t, n)' \/ Untouched(t, n)'
    BY <1>2, <2>1, <2>2 DEF GrowInv
  <2>4. \A n \in Nodes(t) : Joined(t, n)'
    BY <1>2, <2>1 DEF GrowInv
  <2>5. QED
    BY <1>3, <2>1, <2>3, <2>4 DEF GrowInv
<1>6. QED
  BY <1>1, <1>4, <1>5

(* At the start of PS and MAY the joins of the initial states are those.   *)
LEMMA GrowStart ==
  ASSUME TypeInv, NEW t \in {"PS", "MAY"}, prog' = prog, half' = "ACS_out",
         acs_in' = [n \in Nodes(t) |-> EmptyACS(t)], acs_out' = acs_in', work' = Starts(t)
  PROVE  GrowInv(t)'
<1>1. prog \in Programs /\ t \in FixPoints
  BY DEF TypeInv, FixPoints
<1>2. Nodes(t)' = Nodes(t) /\ Starts(t)' = Starts(t) /\ Followed(t)' = Followed(t)
  BY DEF Nodes, Node, Starts, Followed
<1>3. ASSUME NEW n \in Nodes(t)
      PROVE  Joined(t, n)'
  <2> DEFINE preds == Predecessors(Followed(t), n)
             seq == SetToSeq(preds)
             out == [p \in preds |-> acs_out'[p]]
  <2>1. SUFFICES ASSUME preds # {}
                 PROVE  acs_in'[n] = JoinOf(t, seq, out)
    BY <1>2 DEF Joined, JoinOfPredecessors
  <2>2. /\ preds \subseteq Nodes(t)
        /\ Len(seq) \in Nat \ {0}
        /\ \A i \in 1 .. Len(seq) : seq[i] \in preds
    BY <1>1, <2>1, PredecessorsFacts
  <2> HIDE DEF seq, preds
  <2>3. \A i \in 1 .. Len(seq) : out[seq[i]] = EmptyACS(t)
    BY <2>2
  <2>4. JoinOf(t, seq, out) = EmptyACS(t)
    BY <2>2, <2>3, JoinOfEmpty
  <2>5. QED
    BY <2>4
<1>4. \A n \in Nodes(t) \ Starts(t) : Untouched(t, n)'
  BY <1>2 DEF Untouched
<1>5. QED
  BY <1>2, <1>3, <1>4 DEF GrowInv

LEMMA FixStep == TypeInv /\ TypeInv' /\ FixInv /\ [Next]_vars => FixInv'
<1>1. SUFFICES ASSUME TypeInv, TypeInv', FixInv, [Next]_vars
               PROVE  FixInv'
  OBVIOUS
<1>2. CASE StartAnalysis
  <2>1. PICK t \in todo :
          /\ phase' = IF t = "MUST" THEN "FixPointMust1stStep" ELSE t
          /\ half' = "ACS_out" /\ prog' = prog
          /\ acs_in' = [n \in IF t = "PS" THEN prog.inLoop ELSE Node |-> EmptyACS(t)]
          /\ acs_out' = acs_in' /\ work' = Starts(t)
    BY <1>2 DEF StartAnalysis
  <2>2. t \in Analysis
    BY <1>1, <2>1 DEF TypeInv
  <2>3. CASE t = "MUST"
    BY <2>1, <2>3 DEF FixInv
  <2>4. CASE t \in {"PS", "MAY"}
    <3>1. phase' = t
      BY <2>1, <2>4
    <3>2. acs_in' = [n \in Nodes(t) |-> EmptyACS(t)]
      BY <2>1, <2>4 DEF Nodes
    <3>3. GrowInv(t)'
      BY <1>1, <2>1, <2>4, <3>2, GrowStart
    <3>4. QED
      BY <2>4, <3>1, <3>3 DEF FixInv
  <2>5. QED
    BY <2>2, <2>3, <2>4 DEF Analysis
<1>3. CASE FixPointMust1stStep
  BY <1>3 DEF FixPointMust1stStep, Round, FixInv
<1>4. CASE EndFixPointMust1stStep
  <2>1. /\ phase = "FixPointMust1stStep" /\ phase' = "MUST" /\ half = "ACS_out"
        /\ work' = {prog.entry} /\ half' = half /\ visited' = visited /\ prog' = prog
    BY <1>4 DEF EndFixPointMust1stStep, Stable
  <2>2. visited = {} /\ prog \in Programs
    BY <1>1, <2>1 DEF TypeInv, FixPoints, FixPointType
  <2>3. Predecessors(Followed("MUST")', prog.entry) = {}
    BY <2>1, <2>2, ProgramFacts DEF Followed, Predecessors
  <2>4. Joined("MUST", prog.entry)'
    BY <2>1, <2>3 DEF Joined
  <2>5. MustInv'
    BY <2>1, <2>2, <2>4 DEF MustInv
  <2>6. QED
    BY <2>1, <2>5 DEF FixInv
<1>5. CASE MustAnalysis
  <2>1. phase' = "MUST"
    BY <1>5 DEF MustAnalysis, Round
  <2>2. QED
    BY <1>1, <1>5, <2>1, MustRound DEF FixInv
<1>6. CASE PSAnalysis
  <2>1. Round("PS", "PS", FALSE) /\ phase' = "PS"
    BY <1>6 DEF PSAnalysis, Round
  <2>2. GrowInv("PS")'
    BY <1>1, <2>1, GrowRound
  <2>3. QED
    BY <2>1, <2>2 DEF FixInv
<1>7. CASE MayAnalysis
  <2>1. Round("MAY", "MAY", FALSE) /\ phase' = "MAY"
    BY <1>7 DEF MayAnalysis, Round
  <2>2. GrowInv("MAY")'
    BY <1>1, <2>1, GrowRound
  <2>3. QED
    BY <2>1, <2>2 DEF FixInv
<1>8. CASE Classify
  BY <1>8 DEF Classify, FixInv
<1>9. CASE EndAnalysis
  BY <1>9 DEF EndAnalysis, FixInv
<1>10. CASE Fetch \/ Branch
  BY <1>10 DEF Fetch, Branch, Running, FixInv
<1>11. CASE UNCHANGED vars
  <2>1. UNCHANGED <<prog, phase, half, acs_in, acs_out, work, visited>>
    BY <1>11 DEF vars, fixPointVars
  <2>2. \A t : /\ \A n : /\ Solved(t, n)' = Solved(t, n)
                         /\ Joined(t, n)' = Joined(t, n)
                         /\ Untouched(t, n)' = Untouched(t, n)
               /\ Nodes(t)' = Nodes(t)
    BY <2>1 DEF Solved, Joined, Untouched, compute_ACS_out, JoinOfPredecessors, Followed,
                Starts, Nodes, Node
  <2>3. (MustInv' <=> MustInv) /\ \A t : (GrowInv(t)' <=> GrowInv(t))
    BY <2>1, <2>2 DEF MustInv, GrowInv
  <2>4. QED
    BY <1>1, <2>1, <2>3 DEF FixInv
<1>12. QED
  BY <1>1, <1>2, <1>3, <1>4, <1>5, <1>6, <1>7, <1>8, <1>9, <1>10, <1>11 DEF Next, Analyse

(* Every node that PS or MAY reaches has received something: the nodes     *)
(* they start from access this level, and what a node received is in the   *)
(* join that its successors receive.                                       *)
LEMMA GrowReaches ==
  ASSUME TypeInv, NEW t \in {"PS", "MAY"}, phase = t, GrowInv(t), Stable,
         t = "PS" => HeadsAccess(prog)
  PROVE  \A n \in Reachable(Followed(t), Starts(t)) : Solved(t, n) /\ Joined(t, n)
<1>1. /\ prog \in Programs /\ t \in FixPoints /\ t \in Analysis /\ AnalysisOf(t) = t
      /\ FixPointType /\ half = "ACS_out" /\ work = {}
  BY DEF TypeInv, FixPoints, Analysis, AnalysisOf, Stable
<1>2. \A n \in Nodes(t) : (Solved(t, n) \/ Untouched(t, n)) /\ Joined(t, n)
  BY <1>1 DEF GrowInv
<1> DEFINE Reached == {n \in Nodes(t) : Holding(t, acs_out[n])}
<1>3. ASSUME NEW n \in Reached
      PROVE  Solved(t, n)
  <2>1. ~ Untouched(t, n)
    BY EmptyHoldsNothing DEF Untouched
  <2>2. QED
    BY <1>2, <2>1
<1>4. ASSUME NEW n \in Nodes(t), Solved(t, n),
             \/ Holding(t, acs_in[n])
             \/ \E i \in 1 .. Len(prog.code[n]) : prog.access[n][i] # "N"
      PROVE  n \in Reached
  <2>1. acs_in[n] \in ACS(t) /\ n \in Node
    BY <1>1, FollowedFacts DEF FixPointType
  <2>2. Block(prog.code[n], prog.access[n])
    BY <1>1, <2>1, ProgramFacts DEF Node
  <2>3. Holding(t, compute_ACS_out(t, n))
    BY <1>4, <2>1, <2>2, SimulatedHolds DEF compute_ACS_out
  <2>4. QED
    BY <1>4, <2>3 DEF Solved
<1>5. Starts(t) \subseteq Reached
  <2>1. ASSUME NEW n \in Starts(t)
        PROVE  n \in Nodes(t) /\ \E i \in 1 .. Len(prog.code[n]) : prog.access[n][i] # "N"
    <3>1. CASE t = "MAY"
      <4>1. n = prog.entry /\ n \in Node /\ prog.access[n][1] \in {"A", "U"}
        BY <1>1, <3>1, ProgramFacts DEF Starts, Node
      <4>2. 1 \in 1 .. Len(prog.code[n])
        BY <1>1, <4>1, ProgramFacts DEF Node
      <4>3. QED
        BY <3>1, <4>1, <4>2 DEF Nodes
    <3>2. CASE t = "PS"
      <4>1. n \in prog.inLoop /\ n \in Node
        BY <1>1, <3>2, ProgramFacts DEF Starts, Node
      <4>2. DOMAIN prog.code[n] = 1 .. Len(prog.code[n])
        BY <1>1, <4>1, ProgramFacts DEF Node
      <4>3. QED
        BY <3>2, <4>1, <4>2 DEF Nodes, HeadsAccess, Starts
    <3>3. QED
      BY <3>1, <3>2
  <2>2. ASSUME NEW n \in Starts(t)
        PROVE  n \in Reached
    <3>1. ~ Untouched(t, n)
      BY DEF Untouched
    <3>2. Solved(t, n)
      BY <1>2, <2>1, <3>1
    <3>3. QED
      BY <1>4, <2>1, <3>2
  <2>3. QED
    BY <2>2
<1>6. ASSUME NEW e \in Followed(t), e[1] \in Reached
      PROVE  e[2] \in Reached
  <2> DEFINE n == e[2]
             preds == Predecessors(Followed(t), n)
             seq == SetToSeq(preds)
             out == [p \in preds |-> acs_out[p]]
  <2>1. n \in Nodes(t) /\ e[1] \in preds
    BY <1>1, FollowedFacts DEF Predecessors
  <2>2. /\ Len(seq) \in Nat \ {0}
        /\ \E k \in 1 .. Len(seq) : seq[k] = e[1]
    BY <1>1, <2>1, PredecessorsFacts
  <2>3. acs_in[n] = JoinOf(t, seq, out)
    BY <1>2, <2>1 DEF Joined, JoinOfPredecessors
  <2> HIDE DEF seq, preds
  <2>4. PICK k \in 1 .. Len(seq) : seq[k] = e[1]
    BY <2>2
  <2>5. out[seq[k]] = acs_out[e[1]] /\ Holding(t, acs_out[e[1]])
    BY <1>6, <2>1, <2>4
  <2>6. Holding(t, out[seq[k]])
    BY <2>5
  <2>7. Holding(t, JoinOf(t, seq, out))
    BY <2>2, <2>6, JoinOfHolds
  <2>8. Holding(t, acs_in[n])
    BY <2>3, <2>7
  <2>9. ~ Untouched(t, n)
    BY <2>8, EmptyHoldsNothing DEF Untouched
  <2>10. QED
    BY <1>2, <1>4, <2>1, <2>8, <2>9
<1> HIDE DEF Reached
<1>7. Reachable(Followed(t), Starts(t)) \subseteq Reached
  BY <1>1, <1>5, <1>6, FollowedFacts, ReachableLeast
<1>8. QED
  BY <1>2, <1>3, <1>7 DEF Reached

LEMMA MustReaches ==
  ASSUME TypeInv, phase = "MUST", MustInv, Stable
  PROVE  \A n \in Reachable(Followed("MUST"), Starts("MUST")) : Solved("MUST", n) /\ Joined("MUST", n)
<1>1. /\ prog \in Programs /\ half = "ACS_out" /\ work = {}
      /\ Followed("MUST") = prog.edges /\ Starts("MUST") = {prog.entry}
  BY DEF TypeInv, Stable, Followed, Starts
<1>2. /\ prog.entry \in visited
      /\ \A e \in prog.edges : e[1] \in visited => e[2] \in visited
      /\ \A n \in visited : Solved("MUST", n) /\ Joined("MUST", n)
  BY <1>1 DEF MustInv
<1>3. Reachable(prog.edges, {prog.entry}) \subseteq visited
  BY <1>1, <1>2, ProgramFacts, ReachableLeast
<1>4. QED
  BY <1>1, <1>2, <1>3

(* When the work list of an analysis runs empty its ACS are a fixed point. *)
(* ICacheAnalysis.cc                                                       *)
THEOREM AcsAreFixedPoint == Spec => []FixedPoint
<1>1. Init => FixInv
  BY DEF Init, FixInv
<1>2. TypeInv /\ FixInv => FixedPoint
  <2>1. SUFFICES ASSUME TypeInv, FixInv, Stable,
                        phase \in {"MUST", "MAY"} \/ (phase = "PS" /\ HeadsAccess(prog))
                 PROVE  \A n \in Reachable(Followed(phase), Starts(phase)) :
                          Solved(phase, n) /\ Joined(phase, n)
    BY DEF FixedPoint, Equations, Solved, Joined
  <2>2. CASE phase = "MUST"
    BY <2>1, <2>2, MustReaches DEF FixInv
  <2>3. CASE phase \in {"PS", "MAY"}
    BY <2>1, <2>3, GrowReaches DEF FixInv
  <2>4. QED
    BY <2>1, <2>2, <2>3
<1>3. QED
  BY <1>1, <1>2, FixStep, TypeCorrectness, PTL DEF Spec
-----------------------------------------------------------------------------
(* What a state of MUST or MAY says of a cache: the bounds of its ages, or *)
(* the lines it may hold.                                                  *)

Sound == {"MUST", "MAY"}

LruCaches == {f \in Lru!Ages : Lru!Distinct(f)}

Describes(t, c, f) ==
  CASE t = "MUST" -> CacheBounds(f, c)
    [] t = "MAY" -> MayCacheCovers(f, c)

LEMMA ColdCache == Lru!Cold \in LruCaches
BY GeometryAssumption DEF LruCaches, Lru!Cold, Lru!Ages, Lru!Distinct, Lru!Cached

LEMMA EmptyDescribesCold ==
  ASSUME NEW t \in Sound
  PROVE  Describes(t, EmptyACS(t), Lru!Cold)
<1>1. CASE t = "MUST"
  BY <1>1 DEF Describes, EmptyACS, EmptyCache, CacheBounds, Bounds, Must!Empty
<1>2. CASE t = "MAY"
  BY <1>2, GeometryAssumption DEF Describes, MayCacheCovers, MaySetCovers, Lru!Cold
<1>3. QED
  BY <1>1, <1>2 DEF Sound

LEMMA AccessedCache ==
  ASSUME NEW f \in LruCaches, NEW addr \in Address
  PROVE  Lru!Access(f, computeStartLine(addr)) \in LruCaches
<1>1. computeStartLine(addr) \in Line
  BY Geometry
<1>2. QED
  BY <1>1, AccessAges, AccessDistinct DEF LruCaches

LEMMA UpdateDescribes ==
  ASSUME NEW t \in Sound, NEW c \in ACS(t), NEW f \in LruCaches, Describes(t, c, f),
         NEW addr \in Address, NEW access \in CAC
  PROVE  LET u == Update(t, c, addr, access)
         IN  /\ access # "N" => Describes(t, u, Lru!Access(f, computeStartLine(addr)))
             /\ access # "A" => Describes(t, u, f)
<1>1. CASE t = "MUST"
  <2>1. c \in MustCaches /\ MustWellFormedCache(c) /\ CacheBounds(f, c) /\ f \in Lru!Ages
    BY <1>1 DEF ACS, Describes, LruCaches
  <2> DEFINE u == UpdateLine(c, addr, access, Must!Update, Must!Join)
  <2>2. /\ access # "N" => CacheBounds(Lru!Access(f, computeStartLine(addr)), u)
        /\ access # "A" => CacheBounds(f, u)
    BY <2>1, MustUpdateLineSound
  <2>3. Update(t, c, addr, access) = u
    BY <1>1 DEF Update
  <2> HIDE DEF u
  <2>4. QED
    BY <1>1, <2>2, <2>3 DEF Describes
<1>2. CASE t = "MAY"
  <2>1. /\ c \in MayCaches /\ MayWellFormedCache(c) /\ MayCacheCovers(f, c)
        /\ f \in Lru!Ages /\ Lru!Distinct(f)
    BY <1>2 DEF ACS, Describes, LruCaches
  <2> DEFINE u == UpdateLine(c, addr, access, May!Update, May!Join)
  <2>2. /\ access # "N" => MayCacheCovers(Lru!Access(f, computeStartLine(addr)), u)
        /\ access # "A" => MayCacheCovers(f, u)
    BY <2>1, MayUpdateLineSound
  <2>3. Update(t, c, addr, access) = u
    BY <1>2 DEF Update
  <2> HIDE DEF u
  <2>4. QED
    BY <1>2, <2>2, <2>3 DEF Describes
<1>3. QED
  BY <1>1, <1>2 DEF Sound

LEMMA JoinDescribes ==
  ASSUME NEW t \in Sound, NEW c \in ACS(t), NEW d \in ACS(t), NEW f \in LruCaches,
         Describes(t, c, f) \/ Describes(t, d, f)
  PROVE  Describes(t, Join(t, c, d), f)
<1>1. CASE t = "MUST"
  <2>1. /\ c \in MustCaches /\ MustWellFormedCache(c) /\ d \in MustCaches /\ MustWellFormedCache(d)
        /\ CacheBounds(f, c) \/ CacheBounds(f, d)
        /\ f \in Lru!Ages
    BY <1>1 DEF ACS, Describes, LruCaches
  <2>2. CacheBounds(f, JoinCaches(c, d, Must!Join))
    BY <2>1, MustJoinCachesSound
  <2>3. Join(t, c, d) = JoinCaches(c, d, Must!Join)
    BY <1>1 DEF Join
  <2>4. QED
    BY <1>1, <2>2, <2>3 DEF Describes
<1>2. CASE t = "MAY"
  <2>1. /\ c \in MayCaches /\ MayWellFormedCache(c) /\ d \in MayCaches /\ MayWellFormedCache(d)
        /\ MayCacheCovers(f, c) \/ MayCacheCovers(f, d)
        /\ f \in Lru!Ages
    BY <1>2 DEF ACS, Describes, LruCaches
  <2>2. MayCacheCovers(f, JoinCaches(c, d, May!Join))
    BY <2>1, MayJoinCachesSound
  <2>3. Join(t, c, d) = JoinCaches(c, d, May!Join)
    BY <1>2 DEF Join
  <2>4. QED
    BY <1>2, <2>2, <2>3 DEF Describes
<1>3. QED
  BY <1>1, <1>2 DEF Sound

LEMMA JoinOfDescribes ==
  ASSUME NEW t \in Sound, NEW preds, Len(preds) \in Nat \ {0}, NEW acs,
         \A i \in 1 .. Len(preds) : acs[preds[i]] \in ACS(t),
         NEW f \in LruCaches, NEW k \in 1 .. Len(preds), Describes(t, acs[preds[k]], f)
  PROVE  Describes(t, JoinOf(t, preds, acs), f)
<1>1. PICK g : /\ JoinOf(t, preds, acs) = g[Len(preds)]
               /\ g[1] = acs[preds[1]]
               /\ \A i \in 2 .. Len(preds) : g[i] = Join(t, g[i - 1], acs[preds[i]])
  BY JoinOfFacts
<1>2. t \in Analysis
  BY DEF Sound, Analysis
<1> DEFINE S == {i \in Nat : i + 1 <= Len(preds) =>
                    /\ g[i + 1] \in ACS(t)
                    /\ k <= i + 1 => Describes(t, g[i + 1], f)}
<1>3. 0 \in S
  <2>1. 1 \in 1 .. Len(preds) /\ (k <= 1 => k = 1)
    OBVIOUS
  <2>2. QED
    BY <1>1, <2>1
<1>4. ASSUME NEW i \in Nat, i \in S
      PROVE  i + 1 \in S
  <2>1. SUFFICES ASSUME i + 1 + 1 <= Len(preds)
                 PROVE  /\ g[i + 1 + 1] \in ACS(t)
                        /\ k <= i + 1 + 1 => Describes(t, g[i + 1 + 1], f)
    OBVIOUS
  <2>2. /\ i + 1 + 1 \in 2 .. Len(preds) /\ i + 1 + 1 \in 1 .. Len(preds)
        /\ i + 1 + 1 - 1 = i + 1 /\ g[i + 1] \in ACS(t)
        /\ k <= i + 1 => Describes(t, g[i + 1], f)
        /\ k <= i + 1 + 1 => k <= i + 1 \/ k = i + 1 + 1
    BY <1>4, <2>1
  <2> DEFINE d == acs[preds[i + 1 + 1]]
  <2>3. g[i + 1 + 1] = Join(t, g[i + 1], d) /\ d \in ACS(t)
    BY <1>1, <2>2
  <2>4. k <= i + 1 + 1 => Describes(t, g[i + 1], f) \/ Describes(t, d, f)
    BY <2>2
  <2> HIDE DEF d
  <2>5. QED
    BY <1>2, <2>2, <2>3, <2>4, JoinType, JoinDescribes
<1> HIDE DEF S
<1>5. Nat \subseteq S
  BY <1>3, <1>4, Induction
<1>6. Len(preds) - 1 \in S /\ Len(preds) - 1 + 1 = Len(preds)
  BY <1>5
<1>7. QED
  BY <1>1, <1>6 DEF S
-----------------------------------------------------------------------------
(* Executions, seen as the sets of their states that are closed: a state   *)
(* is a node, the index of the next access, and the ages of the cache.     *)

After(n, i, f, reached) == IF reached THEN Lru!Access(f, LineAt(n, i)) ELSE f

ClosedByFetch(R) ==
  \A n \in Node : \A i \in Accesses(n) : \A f \in LruCaches : \A reached \in Reaching(cac(n, i)) :
     <<n, i, f>> \in R => <<n, i + 1, After(n, i, f, reached)>> \in R

ClosedByBranch(R) ==
  \A e \in prog.edges : \A f \in LruCaches :
     <<e[1], Len(prog.code[e[1]]) + 1, f>> \in R => <<e[2], 1, f>> \in R

Closed(R) ==
  /\ <<prog.entry, 1, Lru!Cold>> \in R
  /\ ClosedByFetch(R)
  /\ ClosedByBranch(R)

ReachedNodes == Reachable(prog.edges, {prog.entry})

(* The states that the ACS of MUST or MAY describe. *)
Before(t, n, i) == Simulated(t, acs_in[n], prog.code[n], prog.access[n], {})[i - 1]

Described(t) ==
  {s \in ReachedNodes \X Nat \X LruCaches :
     /\ s[2] \in 1 .. Len(prog.code[s[1]]) + 1
     /\ Describes(t, Before(t, s[1], s[2]), s[3])}

LEMMA ReachedFacts ==
  ASSUME prog \in Programs
  PROVE  /\ ReachedNodes \subseteq Node
         /\ prog.entry \in ReachedNodes
         /\ \A e \in prog.edges : e[1] \in ReachedNodes => e[2] \in ReachedNodes
<1>1. IsFiniteSet(prog.edges) /\ prog.entry \in Node
  BY ProgramFacts DEF Node
<1>2. \A e \in prog.edges : e[1] \in Node => e[2] \in Node
  BY ProgramFacts DEF Node
<1>3. ReachedNodes \subseteq Node
  BY <1>1, <1>2, ReachableLeast DEF ReachedNodes
<1>4. prog.entry \in ReachedNodes
  BY <1>1, ReachableStart DEF ReachedNodes
<1>5. \A e \in prog.edges : e[1] \in ReachedNodes => e[2] \in ReachedNodes
  BY <1>1, ReachableClosed DEF ReachedNodes
<1>6. QED
  BY <1>3, <1>4, <1>5

LEMMA AccessFacts ==
  ASSUME prog \in Programs, NEW n \in Node
  PROVE  /\ Accesses(n) = 1 .. Len(prog.code[n])
         /\ Len(prog.code[n]) \in Nat \ {0}
         /\ Block(prog.code[n], prog.access[n])
         /\ \A i \in Accesses(n) : /\ prog.code[n][i] \in Address /\ cac(n, i) \in CAC
                                   /\ i \in Nat /\ i + 1 - 1 = i /\ i - 1 \in 0 .. Len(prog.code[n])
                                   /\ i \in 1 .. Len(prog.code[n]) + 1
                                   /\ i + 1 \in 1 .. Len(prog.code[n]) + 1
<1>1. /\ Accesses(n) = 1 .. Len(prog.code[n])
      /\ Len(prog.code[n]) \in Nat \ {0}
      /\ Block(prog.code[n], prog.access[n])
  BY ProgramFacts DEF Node, Accesses
<1>2. \A i \in 1 .. Len(prog.code[n]) : prog.code[n][i] \in Address /\ prog.access[n][i] \in CAC
  BY <1>1 DEF Block
<1>3. QED
  BY <1>1, <1>2 DEF cac

LEMMA ReachingFacts ==
  ASSUME NEW access \in CAC, NEW reached \in Reaching(access)
  PROVE  IF reached THEN access # "N" ELSE access # "A"
BY DEF CAC, Reaching

(* One access of a block: what describes the cache before it, the access   *)
(* simulated, describes the cache after it.                                *)
LEMMA FetchDescribes ==
  ASSUME prog \in Programs, NEW t \in Sound, NEW n \in Node, NEW i \in Accesses(n),
         NEW c \in ACS(t), NEW f \in LruCaches, Describes(t, c, f),
         NEW reached \in Reaching(cac(n, i))
  PROVE  /\ After(n, i, f, reached) \in LruCaches
         /\ Describes(t, Update(t, c, prog.code[n][i], prog.access[n][i]), After(n, i, f, reached))
<1> DEFINE addr == prog.code[n][i]
           access == prog.access[n][i]
<1>1. addr \in Address /\ access \in CAC /\ access = cac(n, i)
  BY AccessFacts DEF cac
<1>2. LineAt(n, i) = computeStartLine(addr)
  BY DEF LineAt
<1>3. IF reached THEN access # "N" ELSE access # "A"
  BY <1>1, ReachingFacts
<1>4. /\ access # "N" => Describes(t, Update(t, c, addr, access), Lru!Access(f, computeStartLine(addr)))
      /\ access # "A" => Describes(t, Update(t, c, addr, access), f)
  BY <1>1, UpdateDescribes
<1>5. Lru!Access(f, computeStartLine(addr)) \in LruCaches
  BY <1>1, AccessedCache
<1> HIDE DEF addr, access
<1>6. QED
  BY <1>2, <1>3, <1>4, <1>5 DEF After, addr, access

(* A fixed point of MUST or MAY describes all that the program can do. *)
LEMMA DescribedClosed ==
  ASSUME TypeInv, NEW t \in Sound, phase = t, acs_in[prog.entry] = EmptyACS(t),
         \A n \in ReachedNodes : Solved(t, n) /\ Joined(t, n)
  PROVE  Closed(Described(t))
<1>1. /\ prog \in Programs /\ t \in FixPoints /\ t \in Analysis
      /\ acs_in \in [Node -> ACS(t)] /\ acs_out \in [Node -> ACS(t)]
      /\ Followed(t) = prog.edges
  BY DEF TypeInv, FixPoints, FixPointType, Sound, Analysis, AnalysisOf, Nodes, Followed
<1>2. ASSUME NEW n \in Node
      PROVE  /\ \A i \in 1 .. Len(prog.code[n]) + 1 : Before(t, n, i) \in ACS(t)
             /\ Before(t, n, 1) = acs_in[n]
             /\ \A i \in Accesses(n) :
                  Before(t, n, i + 1) = Update(t, Before(t, n, i), prog.code[n][i], prog.access[n][i])
             /\ Before(t, n, Len(prog.code[n]) + 1) = compute_ACS_out(t, n)
  <2> DEFINE g == Simulated(t, acs_in[n], prog.code[n], prog.access[n], {})
  <2>1. /\ Accesses(n) = 1 .. Len(prog.code[n]) /\ Len(prog.code[n]) \in Nat \ {0}
        /\ Block(prog.code[n], prog.access[n])
    BY <1>1, AccessFacts
  <2>2. /\ g[0] = acs_in[n]
        /\ \A i \in 1 .. Len(prog.code[n]) :
              g[i] = Update(t, g[i - 1], prog.code[n][i], prog.access[n][i])
    BY <2>1, SimulatedFacts
  <2>3. \A i \in 0 .. Len(prog.code[n]) : g[i] \in ACS(t)
    BY <1>1, <2>1, SimulatedType
  <2>4. \A i : Before(t, n, i) = g[i - 1]
    BY DEF Before
  <2>5. compute_ACS_out(t, n) = g[Len(prog.code[n])]
    BY DEF compute_ACS_out
  <2> HIDE DEF g
  <2>6. /\ \A i \in 1 .. Len(prog.code[n]) + 1 : i - 1 \in 0 .. Len(prog.code[n])
        /\ \A i \in 1 .. Len(prog.code[n]) : i + 1 - 1 = i
        /\ 1 - 1 = 0 /\ Len(prog.code[n]) + 1 - 1 = Len(prog.code[n])
    BY <2>1
  <2>7. QED
    BY <2>1, <2>2, <2>3, <2>4, <2>5, <2>6
<1>3. <<prog.entry, 1, Lru!Cold>> \in Described(t)
  <2>1. prog.entry \in ReachedNodes /\ prog.entry \in Node
    BY <1>1, ReachedFacts
  <2>2. 1 \in 1 .. Len(prog.code[prog.entry]) + 1
    BY <1>1, <2>1, AccessFacts
  <2>3. Describes(t, Before(t, prog.entry, 1), Lru!Cold)
    BY <1>2, <2>1, EmptyDescribesCold
  <2>4. QED
    BY <2>1, <2>2, <2>3, ColdCache DEF Described
<1>4. ClosedByFetch(Described(t))
  <2>1. SUFFICES ASSUME NEW n \in Node, NEW i \in Accesses(n), NEW f \in LruCaches,
                        NEW reached \in Reaching(cac(n, i)), <<n, i, f>> \in Described(t)
                 PROVE  <<n, i + 1, After(n, i, f, reached)>> \in Described(t)
    BY DEF ClosedByFetch
  <2> DEFINE h == After(n, i, f, reached)
  <2>2. n \in ReachedNodes /\ Describes(t, Before(t, n, i), f)
    BY <2>1 DEF Described
  <2>3. /\ i \in 1 .. Len(prog.code[n]) + 1 /\ i + 1 \in 1 .. Len(prog.code[n]) + 1
        /\ i + 1 \in Nat
    BY <1>1, AccessFacts
  <2>4. Before(t, n, i) \in ACS(t)
    BY <1>2, <2>3
  <2>5. /\ h \in LruCaches
        /\ Describes(t, Update(t, Before(t, n, i), prog.code[n][i], prog.access[n][i]), h)
    BY <1>1, <2>2, <2>4, FetchDescribes
  <2> HIDE DEF h
  <2>6. Describes(t, Before(t, n, i + 1), h)
    BY <1>2, <2>5
  <2>7. QED
    BY <2>2, <2>3, <2>5, <2>6 DEF Described, h
<1>5. ClosedByBranch(Described(t))
  <2>1. SUFFICES ASSUME NEW e \in prog.edges, NEW f \in LruCaches,
                        <<e[1], Len(prog.code[e[1]]) + 1, f>> \in Described(t)
                 PROVE  <<e[2], 1, f>> \in Described(t)
    BY DEF ClosedByBranch
  <2> DEFINE n == e[1]
             m == e[2]
             preds == Predecessors(prog.edges, m)
             seq == SetToSeq(preds)
             out == [p \in preds |-> acs_out[p]]
  <2>2. /\ n \in ReachedNodes /\ m \in ReachedNodes /\ n \in Node /\ m \in Node
        /\ Describes(t, Before(t, n, Len(prog.code[n]) + 1), f)
    BY <1>1, <2>1, ReachedFacts DEF Described
  <2>3. Describes(t, acs_out[n], f)
    BY <1>2, <2>2 DEF Solved
  <2>4. n \in preds
    BY DEF Predecessors
  <2>5. /\ preds \subseteq Node
        /\ Len(seq) \in Nat \ {0}
        /\ \A i \in 1 .. Len(seq) : seq[i] \in preds
        /\ \E i \in 1 .. Len(seq) : seq[i] = n
    <3>1. Nodes(t) = Node
      BY DEF Nodes, Sound
    <3>2. Predecessors(Followed(t), m) = preds
      BY <1>1
    <3> HIDE DEF preds
    <3>3. QED
      BY <1>1, <2>4, <3>1, <3>2, PredecessorsFacts
  <2>6. acs_in[m] = JoinOf(t, seq, out)
    BY <1>1, <2>2, <2>4 DEF Joined, JoinOfPredecessors
  <2> HIDE DEF preds, seq
  <2>7. PICK k \in 1 .. Len(seq) : seq[k] = n
    BY <2>5
  <2>8. \A i \in 1 .. Len(seq) : out[seq[i]] \in ACS(t)
    BY <1>1, <2>5
  <2>9. Describes(t, out[seq[k]], f)
    BY <2>3, <2>4, <2>7
  <2> HIDE DEF out
  <2>10. Describes(t, JoinOf(t, seq, out), f)
    BY <2>5, <2>8, <2>9, JoinOfDescribes
  <2>11. Describes(t, Before(t, m, 1), f)
    BY <1>2, <2>2, <2>6, <2>10
  <2>12. 1 \in 1 .. Len(prog.code[m]) + 1
    BY <1>1, <2>2, AccessFacts
  <2>13. QED
    BY <2>2, <2>11, <2>12 DEF Described
<1>6. QED
  BY <1>3, <1>4, <1>5 DEF Closed
-----------------------------------------------------------------------------
(* Accesses of a block to the same line: they follow one another, and once *)
(* MUST or PS holds the line it holds it at the next ones.                 *)

LEMMA StartLineMonotonic ==
  ASSUME NEW x \in Nat, NEW y \in Nat, x <= y
  PROVE  computeStartLine(x) <= computeStartLine(y)
<1> DEFINE w == cacheline_size
           p == x \div w
           q == y \div w
<1>1. /\ w \in Nat \ {0} /\ p \in Nat /\ q \in Nat
      /\ x % w \in 0 .. w - 1 /\ y % w \in 0 .. w - 1
      /\ x = w * p + (x % w) /\ y = w * q + (y % w)
  BY GeometryAssumption, Division
<1>2. computeStartLine(x) = w * p /\ computeStartLine(y) = w * q
  BY <1>1 DEF computeStartLine
<1>3. w * p \in Nat /\ w * q \in Nat
  BY <1>1
<1>4. SUFFICES ASSUME w * q < w * p
               PROVE  FALSE
  BY <1>2, <1>3
<1> HIDE DEF w, p, q
<1>5. CASE p <= q
  <2>1. PICK d \in Nat : q = p + d
    BY <1>1, <1>5
  <2>2. w * q = w * p + w * d /\ w * d \in Nat
    BY <1>1, <2>1
  <2>3. QED
    BY <1>3, <1>4, <2>2
<1>6. CASE ~ (p <= q)
  <2>1. PICK d \in Nat : p = q + 1 + d
    BY <1>1, <1>6
  <2>2. w * p = w * q + w + w * d /\ w * d \in Nat
    BY <1>1, <2>1
  <2>3. w * q + w <= w * p
    BY <1>1, <1>3, <2>2
  <2>4. QED
    BY <1>1, <1>3, <2>3
<1>7. QED
  BY <1>5, <1>6

Ascending(code) == \A i, j \in DOMAIN code : i < j => code[i] <= code[j]

LEMMA LinesBetween ==
  ASSUME NEW code \in Seq(Address), Ascending(code),
         NEW i \in 1 .. Len(code), NEW j \in 1 .. Len(code), NEW k \in i .. j,
         computeStartLine(code[i]) = computeStartLine(code[j])
  PROVE  k \in 1 .. Len(code) /\ computeStartLine(code[k]) = computeStartLine(code[i])
<1>1. k \in 1 .. Len(code) /\ DOMAIN code = 1 .. Len(code)
  OBVIOUS
<1>7. \A m \in 1 .. Len(code) : code[m] \in Address
  OBVIOUS
<1>2. code[i] \in Nat /\ code[j] \in Nat /\ code[k] \in Nat
  BY <1>1, <1>7, GeometryAssumption
<1>3. code[i] <= code[k] /\ code[k] <= code[j]
  BY <1>1, <1>2 DEF Ascending
<1>4. /\ computeStartLine(code[i]) <= computeStartLine(code[k])
      /\ computeStartLine(code[k]) <= computeStartLine(code[j])
  BY <1>2, <1>3, StartLineMonotonic
<1>5. computeStartLine(code[i]) \in Nat /\ computeStartLine(code[k]) \in Nat
  BY <1>2, StartLine
<1>6. QED
  BY <1>1, <1>4, <1>5

LEMMA MustSetPresent ==
  ASSUME NEW c, NEW a
  PROVE  /\ ~ Must!Absent(Must!Update(c, a), a)
         /\ ~ Must!Absent(c, a) => ~ Must!Absent(Must!Join(Must!Update(c, a), c), a)
<1>1. \A d : Must!Holds(d, a) => ~ Must!Absent(d, a)
  <2>1. SUFFICES ASSUME NEW d, Must!Holds(d, a)
                 PROVE  ~ Must!Absent(d, a)
    OBVIOUS
  <2>2. Must!FirstWay(d, a) \in Must!Way /\ Must!GetAge(d, a) = Must!FirstWay(d, a)
    BY <2>1, MustFirstWayExists DEF Must!GetAge
  <2>3. Must!GetAge(d, a) \in 0 .. nb_ways - 1
    BY <2>2 DEF Must!Way
  <2>4. QED
    BY <2>3, GeometryAssumption DEF Must!Absent
<1>2. 0 \in Must!Way
  BY GeometryAssumption DEF Must!Way
<1> DEFINE u == Must!Update(c, a)
<1>3. a \in u[0]
  BY <1>2 DEF Must!Update, Must!Shift
<1>4. Must!Holds(u, a)
  BY <1>2, <1>3 DEF Must!Holds
<1> HIDE DEF u
<1>5. ASSUME ~ Must!Absent(c, a)
      PROVE  Must!Holds(Must!Join(u, c), a)
  <2>1. Must!Holds(c, a)
    BY <1>5, GetAgeType
  <2>2. PICK i \in Must!Way : a \in c[i]
    BY <2>1 DEF Must!Holds
  <2>3. 0 \in 0 .. i
    BY <2>2 DEF Must!Way
  <2>4. a \in Must!Join(u, c)[i]
    BY <1>3, <2>2, <2>3 DEF Must!Join
  <2>5. QED
    BY <2>2, <2>4 DEF Must!Holds
<1>6. QED
  BY <1>1, <1>4, <1>5 DEF u

LEMMA PsSetPresent ==
  ASSUME NEW c, PsSet(c), NEW a \in Line
  PROVE  /\ ~ Ps!Absent(Ps!Update(c, a), a)
         /\ ~ Ps!Absent(c, a) => ~ Ps!Absent(Ps!Join(Ps!Update(c, a), c), a)
<1> DEFINE u == Ps!Update(c, a)
<1>1. a \in u.present /\ a \notin u.evicted /\ u.conflicts[a] = {}
  BY PsSetFacts DEF Ps!Update, Ps!PersistentSet
<1> HIDE DEF u
<1>2. ASSUME a \in c.present
      PROVE  a \in Ps!Join(u, c).present
  <2> DEFINE added == c.present \ u.evicted
             union == [b \in Line |-> u.conflicts[b] \cup c.conflicts[b]]
             full  == {b \in added : Ps!Cardinality(union[b]) >= nb_ways}
  <2>1. Ps!Join(u, c).present = ((u.present \cup added) \ full) \ c.evicted
    BY DEF Ps!Join, Ps!PersistentSet
  <2>2. a \notin c.evicted /\ c.conflicts[a] \in SUBSET Line /\ Cardinality(c.conflicts[a]) < nb_ways
    BY <1>2, PsSetFacts
  <2>3. union[a] = c.conflicts[a]
    BY <1>1
  <2>4. Ps!Cardinality(union[a]) = Cardinality(c.conflicts[a])
    BY <2>3, SameCardinality
  <2>5. Cardinality(c.conflicts[a]) \in Nat
    BY <2>2, Sizes
  <2>6. a \notin full
    BY <2>2, <2>4, <2>5, GeometryAssumption
  <2> HIDE DEF full
  <2>7. QED
    BY <1>1, <2>1, <2>2, <2>6
<1>3. QED
  BY <1>1, <1>2 DEF Ps!Absent, u

LEMMA PresenceKept ==
  ASSUME NEW t \in {"MUST", "PS"}, NEW c \in ACS(t), NEW a \in Address, NEW b \in Address,
         computeStartLine(a) = computeStartLine(b), ~ Absent(t, c, a), NEW access
  PROVE  ~ Absent(t, Update(t, c, b, access), a)
<1> DEFINE line == computeStartLine(a)
           s == computeSet(a)
<1>1. /\ line \in Line /\ s \in CacheSet /\ computeSet(line) = s
      /\ computeStartLine(b) = line
  BY Geometry
<1>2. DOMAIN c = CacheSet
  BY ACSDomain DEF Analysis
<1> HIDE DEF line, s
<1>3. CASE t = "MUST"
  <2> DEFINE u == Must!Update(c[s], line)
             v == Must!Join(u, c[s])
  <2>1. ~ Must!Absent(c[s], line)
    BY <1>3 DEF Absent, AbsentLine, line, s
  <2>2. ~ Must!Absent(u, line) /\ ~ Must!Absent(v, line)
    BY <2>1, MustSetPresent
  <2>3. Update(t, c, b, access)[s] \in {c[s], u, v}
    BY <1>1, <1>2, <1>3 DEF Update, UpdateLine
  <2> HIDE DEF u, v
  <2>4. ~ Must!Absent(Update(t, c, b, access)[s], line)
    BY <2>1, <2>2, <2>3
  <2>5. QED
    BY <1>3, <2>4 DEF Absent, AbsentLine, line, s
<1>4. CASE t = "PS"
  <2> DEFINE u == Ps!Update(c[s], line)
             v == Ps!Join(u, c[s])
  <2>1. ~ Ps!Absent(c[s], line)
    BY <1>4 DEF Absent, AbsentLine, line, s
  <2>2. PsSet(c[s])
    BY <1>1, <1>4 DEF ACS, PsCaches
  <2>3. ~ Ps!Absent(u, line) /\ ~ Ps!Absent(v, line)
    BY <1>1, <2>1, <2>2, PsSetPresent
  <2>4. Update(t, c, b, access)[s] \in {c[s], u, v}
    BY <1>1, <1>2, <1>4 DEF Update, UpdateLine
  <2> HIDE DEF u, v
  <2>5. ~ Ps!Absent(Update(t, c, b, access)[s], line)
    BY <2>1, <2>3, <2>4
  <2>6. QED
    BY <1>4, <2>5 DEF Absent, AbsentLine, line, s
<1>5. QED
  BY <1>3, <1>4

LEMMA PresentUntil ==
  ASSUME NEW t \in {"MUST", "PS"}, NEW acs \in ACS(t), NEW code, NEW access, Block(code, access),
         Ascending(code), NEW skipped,
         NEW i \in 1 .. Len(code), NEW j \in 1 .. Len(code), i < j,
         computeStartLine(code[i]) = computeStartLine(code[j]),
         ~ Absent(t, Simulated(t, acs, code, access, skipped)[i - 1], code[i])
  PROVE  ~ Absent(t, Simulated(t, acs, code, access, skipped)[j - 1], code[j])
<1> DEFINE g == Simulated(t, acs, code, access, skipped)
<1>1. /\ code \in Seq(Address) /\ Len(code) \in Nat /\ t \in Analysis
      /\ \A k \in 1 .. Len(code) : code[k] \in Address
  BY DEF Block, Analysis
<1>2. \A k \in 1 .. Len(code) : g[k] = IF k \in skipped THEN g[k - 1]
                                       ELSE Update(t, g[k - 1], code[k], access[k])
  BY <1>1, SimulatedFacts
<1>3. \A k \in 0 .. Len(code) : g[k] \in ACS(t)
  BY <1>1, SimulatedType
<1>4. ~ Absent(t, g[i - 1], code[i])
  OBVIOUS
<1> HIDE DEF g
<1> DEFINE S == {d \in Nat : i + d <= j => ~ Absent(t, g[i + d - 1], code[i])}
<1>5. 0 \in S
  BY <1>4
<1>6. ASSUME NEW d \in Nat, d \in S
      PROVE  d + 1 \in S
  <2>1. SUFFICES ASSUME i + (d + 1) <= j
                 PROVE  ~ Absent(t, g[i + (d + 1) - 1], code[i])
    OBVIOUS
  <2> DEFINE k == i + d
  <2>2. /\ k \in i .. j /\ k \in 1 .. Len(code) /\ i + (d + 1) - 1 = k
        /\ k - 1 \in 0 .. Len(code) /\ ~ Absent(t, g[k - 1], code[i])
    BY <1>6, <2>1
  <2> HIDE DEF k
  <2>3. computeStartLine(code[k]) = computeStartLine(code[i])
    BY <1>1, <2>2, LinesBetween
  <2>4. ~ Absent(t, Update(t, g[k - 1], code[k], access[k]), code[i])
    BY <1>1, <1>3, <2>2, <2>3, PresenceKept
  <2>5. g[k] = g[k - 1] \/ g[k] = Update(t, g[k - 1], code[k], access[k])
    BY <1>2, <2>2
  <2>6. QED
    BY <2>2, <2>4, <2>5
<1> HIDE DEF S
<1>7. Nat \subseteq S
  BY <1>5, <1>6, Induction
<1>8. j - i \in S /\ i + (j - i) = j
  BY <1>7
<1>9. ~ Absent(t, g[j - 1], code[i])
  BY <1>8 DEF S
<1>10. computeSet(code[i]) = computeSet(code[j])
  <2>1. /\ computeSet(computeStartLine(code[i])) = computeSet(code[i])
        /\ computeSet(computeStartLine(code[j])) = computeSet(code[j])
    BY <1>1, Geometry
  <2>2. QED
    BY <2>1
<1>11. Absent(t, g[j - 1], code[j]) <=> Absent(t, g[j - 1], code[i])
  BY <1>10 DEF Absent, AbsentLine
<1>12. QED
  BY <1>9, <1>11 DEF g
-----------------------------------------------------------------------------
(* The classes the accesses are given. *)

(* The analysis t is still to classify accesses. *)
Pending(t) == t \in todo \/ AnalysisOf(phase) = t

Justified(n, i) ==
  /\ chmc[n][i] \in {"none", "AH", "FM", "AM", "AU", "NC"}
  /\ chmc[n][i] = "AU" => cac(n, i) = "N"
  /\ chmc[n][i] \in {"AH", "FM", "AM"} => cac(n, i) # "N"
  /\ chmc[n][i] = "NC" => phase = "done"

JustifiedInv == \A n \in Node : \A i \in Accesses(n) : Justified(n, i)

PendingInv ==
  /\ Pending("MUST") => \A n \in Node : \A i \in Accesses(n) : chmc[n][i] = "none"
  /\ Pending("MAY") => \A n \in Node : \A i \in Accesses(n) : chmc[n][i] # "AM"
  /\ phase \in FixPoints => ({AnalysisOf(phase)} \cup Earlier(AnalysisOf(phase))) \cap todo = {}

(* Once a line is known to be there, its next accesses are classified. *)
LinesInv ==
  \A n \in Node : \A i, j \in Accesses(n) :
     i < j /\ LineAt(n, i) = LineAt(n, j) /\ chmc[n][i] \in {"AH", "FM"} => chmc[n][j] # "none"

(* The first access of the program finds the cache empty. *)
EntryInv ==
  /\ chmc[prog.entry][1] \in {"none", "AM", "NC"}
  /\ phase \in FixPoints /\ prog.entry \in Nodes(phase)
       => acs_in[prog.entry] = EmptyACS(AnalysisOf(phase))

NextInv ==
  phase = "done" =>
    \A n \in Node : \A i \in Accesses(n) :
       /\ chmc[n][i] # "none"
       /\ next[n][i] = cac_computation(chmc[n][i], cac(n, i))

ClassInv == JustifiedInv /\ PendingInv /\ LinesInv /\ EntryInv /\ NextInv

(* What an analysis adds. *)
LEMMA ClassifyFacts ==
  ASSUME TypeInv, Classify
  PROVE  /\ phase \in Analysis /\ AnalysisOf(phase) = phase /\ phase \in FixPoints
         /\ phase' = "idle" /\ UNCHANGED <<prog, todo>> /\ Stable
         /\ FixPointType /\ Nodes(phase) \subseteq Node
         /\ \A n \in Node \ Nodes(phase) : \A i \in Accesses(n) : chmc'[n][i] = chmc[n][i]
         /\ \A n \in Nodes(phase) : \A i \in Accesses(n) :
              chmc'[n][i] =
                IF i \in Classified(n) THEN chmc[n][i]
                ELSE IF cac(n, i) = "N" THEN "AU"
                ELSE Verdict(phase, ~ Absent(phase,
                       Simulated(phase, acs_in[n], prog.code[n], prog.access[n],
                                 Classified(n))[i - 1], prog.code[n][i]))
<1>1. /\ phase \in Analysis /\ phase' = "idle" /\ UNCHANGED <<prog, todo>> /\ Stable
      /\ chmc' = [n \in Node |-> IF n \in DOMAIN acs_in THEN ClassifyNode(phase, n)
                                                        ELSE chmc[n]]
  BY DEF Classify
<1>2. AnalysisOf(phase) = phase /\ phase \in FixPoints
  BY <1>1 DEF Analysis, AnalysisOf, FixPoints
<1>3. FixPointType /\ DOMAIN acs_in = Nodes(phase) /\ Nodes(phase) \subseteq Node
  BY <1>2, FollowedFacts DEF TypeInv, FixPointType
<1>4. \A n \in Node \ Nodes(phase) : \A i \in Accesses(n) : chmc'[n][i] = chmc[n][i]
  BY <1>1, <1>3
<1>5. ASSUME NEW n \in Nodes(phase), NEW i \in Accesses(n)
      PROVE  chmc'[n][i] =
                IF i \in Classified(n) THEN chmc[n][i]
                ELSE IF cac(n, i) = "N" THEN "AU"
                ELSE Verdict(phase, ~ Absent(phase,
                       Simulated(phase, acs_in[n], prog.code[n], prog.access[n],
                                 Classified(n))[i - 1], prog.code[n][i]))
  <2>1. chmc'[n] = ClassifyNode(phase, n)
    BY <1>1, <1>3, <1>5
  <2>2. QED
    BY <2>1 DEF ClassifyNode
<1>6. QED
  BY <1>1, <1>2, <1>3, <1>4, <1>5

LEMMA EmptyAbsent ==
  ASSUME NEW t \in Analysis, NEW addr \in Address
  PROVE  Absent(t, EmptyACS(t), addr)
<1>1. computeSet(addr) \in CacheSet
  BY Geometry
<1>2. CASE t = "MUST"
  <2>1. Must!Absent(Must!Empty, computeStartLine(addr))
    <3>1. ~ Must!Holds(Must!Empty, computeStartLine(addr))
      BY DEF Must!Holds, Must!Empty
    <3>2. QED
      BY <3>1, GetAgeType
  <2>2. QED
    BY <1>1, <1>2, <2>1 DEF Absent, AbsentLine, EmptyACS, EmptyCache
<1>3. CASE t = "MAY"
  BY <1>1, <1>3 DEF Absent, AbsentLine, EmptyACS, EmptyCache, May!Absent, May!Empty
<1>4. CASE t = "PS"
  BY <1>1, <1>4 DEF Absent, AbsentLine, EmptyACS, EmptyCache, Ps!Absent, Ps!Empty, Ps!PersistentSet
<1>5. QED
  BY <1>2, <1>3, <1>4 DEF Analysis

LEMMA EntryFacts ==
  ASSUME prog \in Programs
  PROVE  /\ prog.entry \in Node
         /\ 1 \in Accesses(prog.entry) /\ cac(prog.entry, 1) \in {"A", "U"}
         /\ \A fixPoint \in FixPoints : Predecessors(Followed(fixPoint), prog.entry) = {}
<1>1. prog.entry \in Node /\ cac(prog.entry, 1) \in {"A", "U"}
  BY ProgramFacts DEF Node, cac
<1>2. 1 \in Accesses(prog.entry)
  BY <1>1, AccessFacts
<1>3. \A fixPoint \in FixPoints : Predecessors(Followed(fixPoint), prog.entry) = {}
  BY ProgramFacts, FollowedFacts DEF Predecessors
<1>4. QED
  BY <1>1, <1>2, <1>3

LEMMA ClassifyStep ==
  ASSUME TypeInv, ClassInv, Classify
  PROVE  ClassInv'
<1> DEFINE t == phase
           Was(n) == Simulated(t, acs_in[n], prog.code[n], prog.access[n], Classified(n))
           Present(n, i) == ~ Absent(t, Was(n)[i - 1], prog.code[n][i])
<1>1. /\ t \in Analysis /\ AnalysisOf(t) = t /\ t \in FixPoints
      /\ phase' = "idle" /\ prog' = prog /\ todo' = todo
      /\ FixPointType /\ Nodes(t) \subseteq Node /\ prog \in Programs
      /\ \A n \in Node \ Nodes(t) : \A i \in Accesses(n) : chmc'[n][i] = chmc[n][i]
      /\ \A n \in Nodes(t) : \A i \in Accesses(n) :
              chmc'[n][i] = IF i \in Classified(n) THEN chmc[n][i]
                            ELSE IF cac(n, i) = "N" THEN "AU"
                            ELSE Verdict(t, Present(n, i))
  BY ClassifyFacts DEF TypeInv
<1>2. Node' = Node /\ \A n : Accesses(n)' = Accesses(n) /\ \A i : cac(n, i)' = cac(n, i)
  BY <1>1 DEF Node, Accesses, cac
<1>3. \A n : \A i \in Accesses(n) : i \in Classified(n) <=> chmc[n][i] # "none"
  BY DEF Classified
<1> HIDE DEF Was, Present
<1>4. \A p \in BOOLEAN : /\ Verdict(t, p) \in {"AH", "FM", "AM", "none"}
                         /\ Verdict(t, p) = "AM" <=> t = "MAY" /\ ~ p
                         /\ Verdict(t, p) = "AH" <=> t = "MUST" /\ p
                         /\ Verdict(t, p) = "FM" <=> t = "PS" /\ p
  BY <1>1 DEF Verdict, Analysis
<1>5. \A n, i : Present(n, i) \in BOOLEAN
  BY DEF Present
<1>6. ASSUME NEW n \in Node, NEW i \in Accesses(n)
      PROVE  \/ chmc'[n][i] = chmc[n][i]
             \/ chmc'[n][i] = "AU" /\ cac(n, i) = "N"
             \/ /\ chmc'[n][i] = Verdict(t, Present(n, i))
                /\ cac(n, i) # "N" /\ n \in Nodes(t) /\ chmc[n][i] = "none"
  BY <1>1, <1>3
<1>7. JustifiedInv'
  <2>1. ASSUME NEW n \in Node, NEW i \in Accesses(n)
        PROVE  Justified(n, i)'
    <3>1. Justified(n, i) /\ chmc[n][i] # "NC"
      BY <1>1 DEF ClassInv, JustifiedInv, Justified, Analysis
    <3>2. QED
      BY <1>2, <1>4, <1>5, <1>6, <3>1 DEF Justified
  <2>2. QED
    BY <1>2, <2>1 DEF JustifiedInv
<1>8. PendingInv'
  <2>1. AnalysisOf(phase)' = "idle" /\ t \notin todo /\ Earlier(t) \cap todo = {}
    BY <1>1 DEF AnalysisOf, ClassInv, PendingInv
  <2>2. ~ Pending("MUST")'
    BY <1>1, <2>1 DEF Pending, Analysis, Earlier
  <2>3. Pending("MAY")' => "MAY" \in todo /\ t # "MAY"
    BY <1>1, <2>1 DEF Pending
  <2>4. "MAY" \in todo => \A n \in Node : \A i \in Accesses(n) : chmc[n][i] # "AM"
    BY DEF ClassInv, PendingInv, Pending
  <2>5. Pending("MAY")' => \A n \in Node : \A i \in Accesses(n) : chmc'[n][i] # "AM"
    BY <1>4, <1>5, <1>6, <2>3, <2>4
  <2>6. phase' \notin FixPoints
    BY <1>1 DEF FixPoints
  <2>7. QED
    BY <1>2, <2>2, <2>5, <2>6 DEF PendingInv
<1>9. LinesInv'
  <2>1. SUFFICES ASSUME NEW n \in Node, NEW i \in Accesses(n), NEW j \in Accesses(n),
                        i < j, LineAt(n, i) = LineAt(n, j),
                        chmc'[n][i] \in {"AH", "FM"}, chmc'[n][j] = "none"
                 PROVE  FALSE
    BY <1>1, <1>2 DEF LinesInv, LineAt
  <2>2. chmc[n][j] = "none"
    BY <1>6, <2>1
  <2>3. chmc[n][i] \notin {"AH", "FM"}
    BY <2>1, <2>2 DEF ClassInv, LinesInv
  <2>4. /\ chmc'[n][i] = Verdict(t, Present(n, i))
        /\ n \in Nodes(t)
    BY <1>6, <2>1, <2>3
  <2>5. t \in {"MUST", "PS"} /\ Present(n, i)
    BY <1>4, <1>5, <2>1, <2>4
  <2>6. /\ Accesses(n) = 1 .. Len(prog.code[n]) /\ Block(prog.code[n], prog.access[n])
        /\ Ascending(prog.code[n]) /\ acs_in[n] \in ACS(t)
    BY <1>1, <2>4, AccessFacts, ProgramsAssumption DEF FixPointType, Node, Ascending
  <2>7. Present(n, j)
    <3>1. computeStartLine(prog.code[n][i]) = computeStartLine(prog.code[n][j])
      BY <2>1 DEF LineAt
    <3>2. ~ Absent(t, Was(n)[i - 1], prog.code[n][i])
      BY <2>5 DEF Present
    <3>3. ~ Absent(t, Was(n)[j - 1], prog.code[n][j])
      BY <2>1, <2>5, <2>6, <3>1, <3>2, PresentUntil DEF Was
    <3>4. QED
      BY <3>3 DEF Present
  <2>8. chmc'[n][j] = IF cac(n, j) = "N" THEN "AU" ELSE Verdict(t, Present(n, j))
    BY <1>1, <1>3, <2>2, <2>4
  <2>9. QED
    BY <1>4, <2>1, <2>5, <2>7, <2>8
<1>10. EntryInv'
  <2> DEFINE n == prog.entry
  <2>1. n \in Node /\ 1 \in Accesses(n) /\ cac(n, 1) \in {"A", "U"}
    BY <1>1, EntryFacts
  <2>2. chmc[n][1] \in {"none", "AM", "NC"} /\ (n \in Nodes(t) => acs_in[n] = EmptyACS(t))
    BY <1>1 DEF ClassInv, EntryInv
  <2>3. n \in Nodes(t) => ~ Present(n, 1)
    <3>1. SUFFICES ASSUME n \in Nodes(t)
                   PROVE  ~ Present(n, 1)
      OBVIOUS
    <3>2. prog.code[n][1] \in Address /\ Len(prog.code[n]) \in Nat
      BY <1>1, <2>1, AccessFacts
    <3>3. Was(n)[0] = EmptyACS(t)
      BY <2>2, <3>1, <3>2, SimulatedFacts DEF Was
    <3>4. QED
      BY <1>1, <3>2, <3>3, EmptyAbsent DEF Present
  <2> HIDE DEF n
  <2>4. chmc'[n][1] \in {"none", "AM", "NC"}
    BY <1>4, <1>5, <1>6, <2>1, <2>2, <2>3
  <2>5. phase' \notin FixPoints
    BY <1>1 DEF FixPoints
  <2>6. QED
    BY <1>1, <2>4, <2>5 DEF EntryInv, n
<1>11. NextInv'
  BY <1>1 DEF NextInv
<1>12. QED
  BY <1>7, <1>8, <1>9, <1>10, <1>11 DEF ClassInv

LEMMA ClassesKept ==
  ASSUME ClassInv, UNCHANGED <<prog, chmc, next>>, phase' = "done" <=> phase = "done",
         \A t \in {"MUST", "MAY"} : Pending(t)' => Pending(t),
         phase' \in FixPoints => /\ ({AnalysisOf(phase)} \cup Earlier(AnalysisOf(phase)))' \cap todo' = {}
                                 /\ prog.entry \in Nodes(phase')
                                      => acs_in'[prog.entry] = EmptyACS(AnalysisOf(phase)')
  PROVE  ClassInv'
<1>1. Node' = Node /\ \A n : /\ Accesses(n)' = Accesses(n)
                             /\ \A i : cac(n, i)' = cac(n, i) /\ LineAt(n, i)' = LineAt(n, i)
  BY DEF Node, Accesses, cac, LineAt
<1>2. JustifiedInv'
  BY <1>1 DEF ClassInv, JustifiedInv, Justified
<1>3. PendingInv'
  BY <1>1 DEF ClassInv, PendingInv
<1>4. LinesInv'
  BY <1>1 DEF ClassInv, LinesInv
<1>5. EntryInv'
  BY <1>1 DEF ClassInv, EntryInv, Nodes, Node
<1>6. NextInv'
  BY <1>1 DEF ClassInv, NextInv
<1>7. QED
  BY <1>2, <1>3, <1>4, <1>5, <1>6 DEF ClassInv

LEMMA ClassRound ==
  ASSUME TypeInv, ClassInv, NEW fixPoint \in FixPoints, NEW t, t = AnalysisOf(fixPoint),
         NEW visitAll \in BOOLEAN, Round(fixPoint, t, visitAll)
  PROVE  ClassInv'
<1>1. /\ phase = fixPoint /\ UNCHANGED <<prog, todo, phase, chmc, next>>
      /\ ComputeOut(t, Followed(fixPoint), visitAll) \/ ComputeIn(t, Followed(fixPoint), visitAll)
      /\ prog \in Programs /\ FixPointType
  BY DEF Round, executionVars, TypeInv
<1>2. Predecessors(Followed(phase), prog.entry) = {}
  BY <1>1, EntryFacts
<1>3. prog.entry \in Nodes(phase) => acs_in'[prog.entry] = acs_in[prog.entry]
  <2>1. CASE ComputeOut(t, Followed(fixPoint), visitAll)
    BY <2>1 DEF ComputeOut
  <2>2. CASE ComputeIn(t, Followed(fixPoint), visitAll)
    <3>1. prog.entry \notin work
      BY <1>1, <1>2, <2>2 DEF ComputeIn, FixPointType
    <3>2. DOMAIN acs_in = Nodes(phase)
      BY <1>1 DEF FixPointType
    <3>3. QED
      BY <2>2, <3>1, <3>2 DEF ComputeIn
  <2>3. QED
    BY <1>1, <2>1, <2>2
<1>4. AnalysisOf(phase)' = AnalysisOf(phase) /\ \A u : Pending(u)' <=> Pending(u)
  BY <1>1 DEF AnalysisOf, Pending
<1>5. phase \in FixPoints => /\ ({AnalysisOf(phase)} \cup Earlier(AnalysisOf(phase))) \cap todo = {}
                             /\ prog.entry \in Nodes(phase) => acs_in[prog.entry] = EmptyACS(AnalysisOf(phase))
  BY DEF ClassInv, PendingInv, EntryInv
<1>6. \A u : Earlier(u)' = Earlier(u)
  BY DEF Earlier
<1>7. QED
  BY <1>1, <1>3, <1>4, <1>5, <1>6, ClassesKept

LEMMA ClassStep == TypeInv /\ ClassInv /\ [Next]_vars => ClassInv'
<1>1. SUFFICES ASSUME TypeInv, ClassInv, [Next]_vars
               PROVE  ClassInv'
  OBVIOUS
<1>2. CASE StartAnalysis
  <2>1. PICK t \in todo :
          /\ phase = "idle" /\ Earlier(t) \cap todo = {} /\ todo' = todo \ {t}
          /\ phase' = IF t = "MUST" THEN "FixPointMust1stStep" ELSE t
          /\ acs_in' = [n \in IF t = "PS" THEN prog.inLoop ELSE Node |-> EmptyACS(t)]
          /\ UNCHANGED <<prog, chmc, next>>
    BY <1>2 DEF StartAnalysis
  <2>2. t \in Analysis
    BY <1>1, <2>1 DEF TypeInv
  <2>3. AnalysisOf(phase)' = t /\ phase' # "done" /\ phase # "done"
    BY <2>1, <2>2 DEF AnalysisOf, Analysis
  <2>4. \A u \in {"MUST", "MAY"} : Pending(u)' => Pending(u)
    BY <2>1, <2>3 DEF Pending
  <2>5. ({AnalysisOf(phase)} \cup Earlier(AnalysisOf(phase)))' \cap todo' = {}
    BY <2>1, <2>3 DEF Earlier
  <2>6. prog.entry \in Nodes(phase') => acs_in'[prog.entry] = EmptyACS(t)
    BY <2>1, <2>2 DEF Nodes, Analysis
  <2>7. QED
    BY <1>1, <2>1, <2>3, <2>4, <2>5, <2>6, ClassesKept
<1>3. CASE FixPointMust1stStep
  <2>1. "FixPointMust1stStep" \in FixPoints /\ AnalysisOf("FixPointMust1stStep") = "MUST"
    BY DEF FixPoints, AnalysisOf
  <2>2. QED
    BY <1>1, <1>3, <2>1, ClassRound DEF FixPointMust1stStep
<1>4. CASE MustAnalysis \/ PSAnalysis \/ MayAnalysis
  <2>1. PICK t \in Analysis, visitAll \in BOOLEAN : Round(t, t, visitAll)
    BY <1>4 DEF MustAnalysis, PSAnalysis, MayAnalysis, Analysis
  <2>2. t \in FixPoints /\ t = AnalysisOf(t)
    BY DEF FixPoints, AnalysisOf, Analysis
  <2>3. QED
    BY <1>1, <2>1, <2>2, ClassRound
<1>5. CASE EndFixPointMust1stStep
  <2>1. /\ phase = "FixPointMust1stStep" /\ phase' = "MUST"
        /\ UNCHANGED <<prog, todo, acs_in, chmc, next>>
    BY <1>5 DEF EndFixPointMust1stStep
  <2>2. /\ AnalysisOf(phase)' = AnalysisOf(phase) /\ Nodes(phase') = Nodes(phase)
        /\ phase \in FixPoints
    BY <2>1 DEF AnalysisOf, Nodes, FixPoints
  <2>3. /\ ({AnalysisOf(phase)} \cup Earlier(AnalysisOf(phase))) \cap todo = {}
        /\ prog.entry \in Nodes(phase) => acs_in[prog.entry] = EmptyACS(AnalysisOf(phase))
    BY <1>1, <2>2 DEF ClassInv, PendingInv, EntryInv
  <2>4. \A u : (Pending(u)' <=> Pending(u)) /\ Earlier(u)' = Earlier(u)
    BY <2>1, <2>2 DEF Pending, Earlier
  <2>5. QED
    BY <1>1, <2>1, <2>2, <2>3, <2>4, ClassesKept
<1>6. CASE Classify
  BY <1>1, <1>6, ClassifyStep
<1>7. CASE EndAnalysis
  <2> DEFINE final == [n \in Node |-> [i \in Accesses(n) |->
                         IF chmc[n][i] = "none" THEN "NC" ELSE chmc[n][i]]]
  <2>1. /\ phase = "idle" /\ todo = {} /\ phase' = "done"
        /\ chmc' = final
        /\ next' = [n \in Node |-> [i \in Accesses(n) |->
                      cac_computation(final[n][i], cac(n, i))]]
        /\ UNCHANGED <<prog, todo>>
    BY <1>7 DEF EndAnalysis
  <2>2. Node' = Node /\ \A n : /\ Accesses(n)' = Accesses(n)
                               /\ \A i : cac(n, i)' = cac(n, i) /\ LineAt(n, i)' = LineAt(n, i)
    BY <2>1 DEF Node, Accesses, cac, LineAt
  <2>3. \A n \in Node : \A i \in Accesses(n) :
          chmc'[n][i] = IF chmc[n][i] = "none" THEN "NC" ELSE chmc[n][i]
    BY <2>1
  <2>4. \A n \in Node : \A i \in Accesses(n) : next'[n][i] = cac_computation(chmc'[n][i], cac(n, i))
    BY <2>1
  <2> HIDE DEF final
  <2>5. JustifiedInv'
    BY <1>1, <2>1, <2>2, <2>3 DEF ClassInv, JustifiedInv, Justified
  <2>6. PendingInv'
    <3>1. ~ Pending("MUST")' /\ ~ Pending("MAY")' /\ phase' \notin FixPoints
      BY <2>1 DEF Pending, AnalysisOf, FixPoints
    <3>2. QED
      BY <3>1 DEF PendingInv
  <2>7. LinesInv'
    BY <2>2, <2>3 DEF LinesInv
  <2>8. EntryInv'
    <3>1. prog.entry \in Node /\ 1 \in Accesses(prog.entry)
      BY <1>1, EntryFacts DEF TypeInv
    <3>2. chmc[prog.entry][1] \in {"none", "AM", "NC"} /\ phase' \notin FixPoints
      BY <1>1, <2>1 DEF ClassInv, EntryInv, FixPoints
    <3>3. QED
      BY <2>1, <2>3, <3>1, <3>2 DEF EntryInv
  <2>9. NextInv'
    <3>1. \A n \in Node : \A i \in Accesses(n) : chmc'[n][i] # "none"
      BY <2>3
    <3>2. \A c, a : cac_computation(c, a)' = cac_computation(c, a)
      OBVIOUS
    <3>3. QED
      BY <2>2, <2>4, <3>1 DEF NextInv, cac_computation
  <2>10. QED
    BY <2>5, <2>6, <2>7, <2>8, <2>9 DEF ClassInv
<1>8. CASE Fetch \/ Branch \/ UNCHANGED vars
  <2>1. UNCHANGED <<prog, todo, phase, acs_in, chmc, next>>
    BY <1>8 DEF Fetch, Branch, vars, fixPointVars
  <2>2. \A u : (Pending(u)' <=> Pending(u)) /\ Earlier(u)' = Earlier(u)
    BY <2>1 DEF Pending, Earlier, AnalysisOf
  <2>3. AnalysisOf(phase)' = AnalysisOf(phase)
    BY <2>1 DEF AnalysisOf
  <2>4. phase \in FixPoints => /\ ({AnalysisOf(phase)} \cup Earlier(AnalysisOf(phase))) \cap todo = {}
                               /\ prog.entry \in Nodes(phase) => acs_in[prog.entry] = EmptyACS(AnalysisOf(phase))
    BY <1>1 DEF ClassInv, PendingInv, EntryInv
  <2>5. QED
    BY <1>1, <2>1, <2>2, <2>3, <2>4, ClassesKept
<1>9. QED
  BY <1>1, <1>2, <1>3, <1>4, <1>5, <1>6, <1>7, <1>8 DEF Next, Analyse
-----------------------------------------------------------------------------
(* Why the classes are right.  MUST: a line it bounds by the associativity *)
(* is cached.                                                              *)

LEMMA MustDescribedHit ==
  ASSUME NEW f \in LruCaches, NEW c, Describes("MUST", c, f), NEW addr \in Address,
         ~ Absent("MUST", c, addr)
  PROVE  Lru!Cached(f, computeStartLine(addr))
<1> DEFINE line == computeStartLine(addr)
           s == computeSet(addr)
<1>1. line \in Line /\ s \in CacheSet
  BY Geometry
<1>2. Bounds(f, c[s], s) /\ f \in Lru!Ages
  BY <1>1 DEF Describes, CacheBounds, LruCaches
<1>3. ~ Must!Absent(c[s], line)
  BY DEF Absent, AbsentLine
<1> HIDE DEF line, s
<1>4. f[line] <= Must!GetAge(c[s], line) /\ f[line] \in 0 .. nb_ways
  BY <1>1, <1>2, GetAgeBounds DEF Lru!Ages
<1>5. Must!GetAge(c[s], line) < nb_ways
  BY <1>3, GetAgeType, GeometryAssumption DEF Must!Absent
<1>6. f[line] < nb_ways
  BY <1>4, <1>5, GetAgeType, GeometryAssumption
<1>7. QED
  BY <1>6 DEF Lru!Cached, line

(* MAY: it covers the caches in which the lines accessed by the classified *)
(* accesses of the block, which it does not see, count as not cached.      *)

Mask(f, X) == [b \in Line |-> IF b \in X THEN nb_ways ELSE f[b]]

LEMMA MayDescribedMiss ==
  ASSUME NEW f \in LruCaches, NEW X, NEW c, Describes("MAY", c, Mask(f, X)),
         NEW addr \in Address, computeStartLine(addr) \notin X, Absent("MAY", c, addr)
  PROVE  ~ Lru!Cached(f, computeStartLine(addr))
<1> DEFINE line == computeStartLine(addr)
           s == computeSet(addr)
<1>1. line \in Line /\ s \in CacheSet /\ computeSet(line) = s
  BY Geometry
<1>2. MaySetCovers(Mask(f, X), c[s], s)
  BY <1>1 DEF Describes, MayCacheCovers
<1>3. May!Absent(c[s], line)
  BY DEF Absent, AbsentLine
<1>4. line \notin X
  OBVIOUS
<1> HIDE DEF line, s
<1>5. Mask(f, X)[line] = f[line]
  BY <1>1, <1>4 DEF Mask
<1>6. ~ (f[line] < nb_ways)
  BY <1>1, <1>2, <1>3, <1>5 DEF MaySetCovers, May!Absent
<1>7. QED
  BY <1>6 DEF Lru!Cached, line

LEMMA MayOlder ==
  ASSUME NEW f \in Lru!Ages, NEW g \in Lru!Ages, \A b \in Line : f[b] <= g[b],
         NEW c, Describes("MAY", c, f)
  PROVE  Describes("MAY", c, g)
<1>1. SUFFICES ASSUME NEW s \in CacheSet, NEW a \in Line, computeSet(a) = s, g[a] < nb_ways
               PROVE  \E i \in May!Way : i <= g[a] /\ a \in c[s][i]
  BY DEF Describes, MayCacheCovers, MaySetCovers
<1>2. f[a] \in 0 .. nb_ways /\ g[a] \in 0 .. nb_ways /\ f[a] <= g[a]
  BY DEF Lru!Ages
<1>3. f[a] < nb_ways
  BY <1>1, <1>2, GeometryAssumption
<1>4. PICK i \in May!Way : i <= f[a] /\ a \in c[s][i]
  BY <1>1, <1>3 DEF Describes, MayCacheCovers, MaySetCovers
<1>5. i <= g[a]
  BY <1>2, <1>4, WayFacts
<1>6. QED
  BY <1>4, <1>5

LEMMA MaskFacts ==
  ASSUME NEW f \in LruCaches, NEW X
  PROVE  /\ Mask(f, X) \in LruCaches
         /\ Mask(f, {}) = f
<1>1. f \in [Line -> 0 .. nb_ways] /\ nb_ways \in 0 .. nb_ways
  BY GeometryAssumption DEF LruCaches, Lru!Ages
<1>2. Mask(f, X) \in [Line -> 0 .. nb_ways]
  BY <1>1 DEF Mask
<1>3. Mask(f, {}) = f
  BY <1>1 DEF Mask
<1>4. ASSUME NEW a \in Line, NEW b \in Line, a # b, computeSet(a) = computeSet(b),
             Mask(f, X)[a] < nb_ways
      PROVE  Mask(f, X)[a] # Mask(f, X)[b]
  <2>1. a \notin X /\ Mask(f, X)[a] = f[a] /\ Mask(f, X)[b] \in {f[b], nb_ways}
    BY <1>4, GeometryAssumption DEF Mask
  <2>2. f[a] # f[b]
    BY <1>4, <2>1 DEF LruCaches, Lru!Distinct, Lru!Cached
  <2>3. QED
    BY <1>1, <1>4, <2>1, <2>2, GeometryAssumption
<1>5. QED
  BY <1>2, <1>3, <1>4 DEF LruCaches, Lru!Ages, Lru!Distinct, Lru!Cached

(* An access the analysis simulates... *)
LEMMA MaskSimulated ==
  ASSUME NEW f \in LruCaches, NEW X, NEW a \in Line, a \notin X
  PROVE  \A b \in Line : Lru!Access(Mask(f, X), a)[b] <= Mask(Lru!Access(f, a), X)[b]
<1>1. \A b \in Line : f[b] \in 0 .. nb_ways
  BY DEF LruCaches, Lru!Ages
<1>2. SUFFICES ASSUME NEW b \in Line
               PROVE  Lru!Access(Mask(f, X), a)[b] <= Mask(Lru!Access(f, a), X)[b]
  OBVIOUS
<1>3. Mask(f, X) \in LruCaches
  BY MaskFacts
<1>4. Lru!Access(Mask(f, X), a)[b] \in 0 .. nb_ways
  BY <1>3, AccessAges DEF LruCaches, Lru!Ages
<1>5. CASE b \in X
  BY <1>4, <1>5, GeometryAssumption DEF Mask
<1>6. CASE b \notin X
  <2>1. Mask(f, X)[b] = f[b] /\ Mask(f, X)[a] = f[a]
    BY <1>6 DEF Mask
  <2>2. Mask(Lru!Access(f, a), X)[b] = Lru!Access(f, a)[b]
    BY <1>6 DEF Mask
  <2>3. Lru!Access(Mask(f, X), a)[b] = Lru!Access(f, a)[b]
    BY <2>1 DEF Lru!Access
  <2>4. QED
    BY <1>4, <2>2, <2>3, GeometryAssumption
<1>7. QED
  BY <1>5, <1>6

(* ... and one it skips. *)
LEMMA MaskSkipped ==
  ASSUME NEW f \in LruCaches, NEW X, NEW a \in Line
  PROVE  \A b \in Line : Mask(f, X)[b] <= Mask(Lru!Access(f, a), X \cup {a})[b]
<1>1. SUFFICES ASSUME NEW b \in Line
               PROVE  Mask(f, X)[b] <= Mask(Lru!Access(f, a), X \cup {a})[b]
  OBVIOUS
<1>2. Mask(f, X)[b] \in 0 .. nb_ways /\ f[b] \in 0 .. nb_ways
  BY MaskFacts DEF LruCaches, Lru!Ages
<1>3. CASE b \in X \cup {a}
  BY <1>2, <1>3, GeometryAssumption DEF Mask
<1>4. CASE b \notin X \cup {a}
  <2>1. Mask(f, X)[b] = f[b] /\ Mask(Lru!Access(f, a), X \cup {a})[b] = Lru!Access(f, a)[b]
    BY <1>4 DEF Mask
  <2>2. Lru!Access(f, a)[b] \in {f[b], f[b] + 1}
    BY <1>4 DEF Lru!Access
  <2>3. QED
    BY <1>2, <2>1, <2>2
<1>5. QED
  BY <1>3, <1>4

(* What MAY simulates before an access, and the lines it skips.            *)
Seen(n, i) ==
  Simulated("MAY", acs_in[n], prog.code[n], prog.access[n], Classified(n))[i - 1]

Skipped(n, i) == {LineAt(n, k) : k \in {x \in Classified(n) : x < i /\ cac(n, x) # "N"}}

Masked ==
  {s \in Described("MAY") : Describes("MAY", Seen(s[1], s[2]), Mask(s[3], Skipped(s[1], s[2])))}

LEMMA SeenFacts ==
  ASSUME TypeInv, phase = "MAY", NEW n \in Node
  PROVE  /\ \A i \in 1 .. Len(prog.code[n]) + 1 : Seen(n, i) \in ACS("MAY")
         /\ Seen(n, 1) = acs_in[n]
         /\ \A i \in Accesses(n) :
              Seen(n, i + 1) = IF i \in Classified(n) THEN Seen(n, i)
                               ELSE Update("MAY", Seen(n, i), prog.code[n][i], prog.access[n][i])
<1> DEFINE g == Simulated("MAY", acs_in[n], prog.code[n], prog.access[n], Classified(n))
<1>1. /\ prog \in Programs /\ "MAY" \in Analysis /\ acs_in[n] \in ACS("MAY")
  BY DEF TypeInv, FixPoints, FixPointType, Analysis, AnalysisOf, Nodes
<1>2. /\ Accesses(n) = 1 .. Len(prog.code[n]) /\ Len(prog.code[n]) \in Nat \ {0}
      /\ Block(prog.code[n], prog.access[n])
  BY <1>1, AccessFacts
<1>3. /\ g[0] = acs_in[n]
      /\ \A i \in 1 .. Len(prog.code[n]) :
            g[i] = IF i \in Classified(n) THEN g[i - 1]
                   ELSE Update("MAY", g[i - 1], prog.code[n][i], prog.access[n][i])
  BY <1>2, SimulatedFacts
<1>4. \A i \in 0 .. Len(prog.code[n]) : g[i] \in ACS("MAY")
  BY <1>1, <1>2, SimulatedType
<1>5. \A i : Seen(n, i) = g[i - 1]
  BY DEF Seen
<1> HIDE DEF g
<1>6. /\ \A i \in 1 .. Len(prog.code[n]) + 1 : i - 1 \in 0 .. Len(prog.code[n])
      /\ \A i \in 1 .. Len(prog.code[n]) : i + 1 - 1 = i
      /\ 1 - 1 = 0
  BY <1>2
<1>7. QED
  BY <1>2, <1>3, <1>4, <1>5, <1>6

LEMMA SkippedFacts ==
  ASSUME TypeInv, ClassInv, phase = "MAY", NEW n \in Node
  PROVE  /\ Skipped(n, 1) = {}
         /\ \A i \in Accesses(n) :
              /\ i \in Classified(n) /\ cac(n, i) # "N" => Skipped(n, i + 1) = Skipped(n, i) \cup {LineAt(n, i)}
              /\ ~ (i \in Classified(n) /\ cac(n, i) # "N") => Skipped(n, i + 1) = Skipped(n, i)
              /\ i \notin Classified(n) => LineAt(n, i) \notin Skipped(n, i)
<1>1. Accesses(n) = 1 .. Len(prog.code[n]) /\ Len(prog.code[n]) \in Nat
  BY AccessFacts DEF TypeInv
<1>2. Classified(n) \subseteq Accesses(n)
  BY DEF Classified
<1>3. Skipped(n, 1) = {}
  BY <1>1, <1>2 DEF Skipped
<1>4. ASSUME NEW i \in Accesses(n)
      PROVE  /\ i \in Classified(n) /\ cac(n, i) # "N" => Skipped(n, i + 1) = Skipped(n, i) \cup {LineAt(n, i)}
             /\ ~ (i \in Classified(n) /\ cac(n, i) # "N") => Skipped(n, i + 1) = Skipped(n, i)
  <2>1. \A x \in Classified(n) : x < i + 1 <=> x < i \/ x = i
    BY <1>1, <1>2, <1>4
  <2>2. QED
    BY <2>1 DEF Skipped
<1>5. ASSUME NEW i \in Accesses(n), i \notin Classified(n)
      PROVE  LineAt(n, i) \notin Skipped(n, i)
  <2>1. SUFFICES ASSUME NEW k \in Classified(n), k < i, cac(n, k) # "N", LineAt(n, k) = LineAt(n, i)
                 PROVE  FALSE
    BY DEF Skipped
  <2>2. k \in Accesses(n) /\ chmc[n][k] # "none" /\ chmc[n][i] = "none"
    BY <1>2, <1>5, <2>1 DEF Classified
  <2>3. Justified(n, k) /\ phase # "done"
    BY <2>2 DEF ClassInv, JustifiedInv
  <2>4. chmc[n][k] # "AM"
    BY <2>2 DEF ClassInv, PendingInv, Pending, AnalysisOf
  <2>5. chmc[n][k] \in {"AH", "FM"}
    BY <2>1, <2>2, <2>3, <2>4 DEF Justified
  <2>6. QED
    BY <1>5, <2>1, <2>2, <2>5 DEF ClassInv, LinesInv
<1>6. QED
  BY <1>3, <1>4, <1>5

LEMMA MaskedClosed ==
  ASSUME TypeInv, ClassInv, phase = "MAY", Closed(Described("MAY"))
  PROVE  Closed(Masked)
<1> DEFINE t == "MAY"
<1>1. /\ prog \in Programs /\ t \in Sound /\ t \in Analysis
      /\ prog.entry \in Node /\ \A e \in prog.edges : e[2] \in Node
  BY ProgramFacts DEF TypeInv, Sound, Analysis, Node
<1>2. ASSUME NEW n \in Node, NEW f \in LruCaches, <<n, 1, f>> \in Described(t)
      PROVE  <<n, 1, f>> \in Masked
  <2>1. Describes(t, Before(t, n, 1), f)
    BY <1>2 DEF Described
  <2>2. Before(t, n, 1) = acs_in[n]
    <3>1. Len(prog.code[n]) \in Nat /\ 1 - 1 = 0
      BY <1>1, AccessFacts
    <3>2. Before(t, n, 1) = Simulated(t, acs_in[n], prog.code[n], prog.access[n], {})[0]
      BY <3>1 DEF Before
    <3>3. QED
      BY <3>1, <3>2, SimulatedFacts
  <2>3. Seen(n, 1) = acs_in[n]
    BY SeenFacts
  <2>4. Mask(f, Skipped(n, 1)) = f
    BY MaskFacts, SkippedFacts
  <2>5. QED
    BY <1>2, <2>1, <2>2, <2>3, <2>4 DEF Masked
<1>3. <<prog.entry, 1, Lru!Cold>> \in Masked
  BY <1>1, <1>2, ColdCache DEF Closed
<1>4. ClosedByFetch(Masked)
  <2>1. SUFFICES ASSUME NEW n \in Node, NEW i \in Accesses(n), NEW f \in LruCaches,
                        NEW reached \in Reaching(cac(n, i)), <<n, i, f>> \in Masked
                 PROVE  <<n, i + 1, After(n, i, f, reached)>> \in Masked
    BY DEF ClosedByFetch
  <2> DEFINE h == After(n, i, f, reached)
             a == LineAt(n, i)
             X == Skipped(n, i)
  <2>2. <<n, i, f>> \in Described(t) /\ Describes(t, Seen(n, i), Mask(f, X))
    BY <2>1 DEF Masked
  <2>3. <<n, i + 1, h>> \in Described(t)
    BY <2>1, <2>2 DEF Closed, ClosedByFetch
  <2>4. /\ a \in Line /\ i \in 1 .. Len(prog.code[n]) + 1 /\ cac(n, i) \in CAC
    BY <1>1, AccessFacts, Geometry DEF LineAt
  <2>5. Seen(n, i) \in ACS(t) /\ Mask(f, X) \in LruCaches /\ h \in LruCaches
    <3>1. h \in LruCaches
      BY <2>3 DEF Described
    <3> HIDE DEF h, X
    <3>2. QED
      BY <2>4, <3>1, SeenFacts, MaskFacts
  <2>6. IF reached THEN cac(n, i) # "N" ELSE cac(n, i) # "A"
    BY <2>4, ReachingFacts
  <2>7. Describes(t, Seen(n, i + 1), Mask(h, Skipped(n, i + 1)))
    <3>1. CASE i \in Classified(n)
      <4>1. Seen(n, i + 1) = Seen(n, i)
        BY <3>1, SeenFacts
      <4>2. \A b \in Line : Mask(f, X)[b] <= Mask(h, Skipped(n, i + 1))[b]
        <5>1. \A b \in Line : f[b] \in Nat
          BY DEF LruCaches, Lru!Ages
        <5>2. CASE reached
          <6>1. h = Lru!Access(f, a) /\ Skipped(n, i + 1) = X \cup {a}
            BY <2>6, <3>1, <5>2, SkippedFacts DEF After
          <6> HIDE DEF h, X, a
          <6>2. QED
            BY <2>4, <6>1, MaskSkipped
        <5>3. CASE ~ reached
          <6>1. h = f /\ (Skipped(n, i + 1) = X \/ Skipped(n, i + 1) = X \cup {a})
            BY <5>3, SkippedFacts DEF After
          <6> HIDE DEF h, X, a
          <6>2. \A b \in Line : f[b] \in 0 .. nb_ways
            BY DEF LruCaches, Lru!Ages
          <6>3. QED
            BY <6>1, <6>2, GeometryAssumption DEF Mask
        <5>4. QED
          BY <5>2, <5>3
      <4>3. Mask(h, Skipped(n, i + 1)) \in LruCaches
        BY <2>5, MaskFacts
      <4> HIDE DEF h, X
      <4>4. QED
        BY <2>2, <2>5, <4>1, <4>2, <4>3, MayOlder DEF LruCaches
    <3>2. CASE i \notin Classified(n)
      <4>1. /\ Seen(n, i + 1) = Update(t, Seen(n, i), prog.code[n][i], prog.access[n][i])
            /\ Skipped(n, i + 1) = X /\ a \notin X
        BY <3>2, SeenFacts, SkippedFacts
      <4> DEFINE k == After(n, i, Mask(f, X), reached)
      <4> HIDE DEF X
      <4>2. k \in LruCaches /\ Describes(t, Seen(n, i + 1), k)
        BY <1>1, <2>2, <2>5, <4>1, FetchDescribes
      <4>3. \A b \in Line : k[b] <= Mask(h, X)[b]
        <5>1. CASE reached
          BY <2>4, <4>1, <5>1, MaskSimulated DEF After
        <5>2. CASE ~ reached
          <6>1. k = Mask(f, X) /\ h = f
            BY <5>2 DEF After
          <6>2. \A b \in Line : Mask(f, X)[b] \in Nat
            BY <2>5 DEF LruCaches, Lru!Ages
          <6> HIDE DEF h, k
          <6>3. QED
            BY <6>1, <6>2
        <5>3. QED
          BY <5>1, <5>2
      <4>4. Mask(h, X) \in LruCaches
        BY <2>5, MaskFacts
      <4> HIDE DEF h, k
      <4>5. QED
        BY <4>1, <4>2, <4>3, <4>4, MayOlder DEF LruCaches
    <3>3. QED
      BY <3>1, <3>2
  <2> HIDE DEF h
  <2>8. <<n, i + 1, h>> \in Masked
    BY <2>3, <2>7 DEF Masked
  <2>9. QED
    BY <2>8 DEF h
<1>5. ClosedByBranch(Masked)
  BY <1>1, <1>2 DEF Closed, ClosedByBranch, Masked
<1>6. QED
  BY <1>3, <1>4, <1>5 DEF Closed
-----------------------------------------------------------------------------
(* A verdict holds in all the states of a closed set, and so in those the  *)
(* execution goes through.                                                 *)

AlwaysHits(n, i) ==
  \E R : Closed(R) /\ \A f \in LruCaches : <<n, i, f>> \in R => Lru!Cached(f, LineAt(n, i))

AlwaysMisses(n, i) ==
  \E R : Closed(R) /\ \A f \in LruCaches : <<n, i, f>> \in R => ~ Lru!Cached(f, LineAt(n, i))

VerdictInv ==
  \A n \in Node : \A i \in Accesses(n) :
     /\ chmc[n][i] = "AH" => AlwaysHits(n, i)
     /\ chmc[n][i] = "AM" => AlwaysMisses(n, i)

LEMMA VerdictsKept ==
  ASSUME VerdictInv, prog' = prog,
         \A n \in Node : \A i \in Accesses(n) :
            /\ chmc'[n][i] = "AH" => chmc[n][i] = "AH"
            /\ chmc'[n][i] = "AM" => chmc[n][i] = "AM"
  PROVE  VerdictInv'
<1>1. Node' = Node /\ \A n : Accesses(n)' = Accesses(n)
  BY DEF Node, Accesses
<1>2. \A n, i : AlwaysHits(n, i)' = AlwaysHits(n, i) /\ AlwaysMisses(n, i)' = AlwaysMisses(n, i)
  BY DEF AlwaysHits, AlwaysMisses, Closed, ClosedByFetch, ClosedByBranch, After, LineAt, Node,
         Accesses, cac
<1>3. QED
  BY <1>1, <1>2 DEF VerdictInv

(* An analysis that ends has a fixed point that describes all executions.  *)
LEMMA DescribedAtEnd ==
  ASSUME TypeInv, FixInv, ClassInv, NEW t \in Sound, phase = t, Stable
  PROVE  Closed(Described(t))
<1>1. /\ Followed(t) = prog.edges /\ Starts(t) = {prog.entry} /\ Nodes(t) = Node
      /\ AnalysisOf(phase) = t /\ phase \in FixPoints /\ prog.entry \in Node
  BY ProgramFacts DEF TypeInv, Followed, Starts, Nodes, Node, Sound, AnalysisOf, FixPoints
<1>2. acs_in[prog.entry] = EmptyACS(t)
  BY <1>1 DEF ClassInv, EntryInv
<1>3. \A n \in ReachedNodes : Solved(t, n) /\ Joined(t, n)
  <2>1. CASE t = "MUST"
    BY <1>1, <2>1, MustReaches DEF FixInv, ReachedNodes
  <2>2. CASE t = "MAY"
    <3>1. GrowInv(t) /\ t \in {"PS", "MAY"}
      BY <2>2 DEF FixInv
    <3>2. QED
      BY <1>1, <2>2, <3>1, GrowReaches DEF ReachedNodes
  <2>3. QED
    BY <2>1, <2>2 DEF Sound
<1>4. QED
  BY <1>2, <1>3, DescribedClosed

LEMMA ClassifyVerdicts ==
  ASSUME TypeInv, FixInv, ClassInv, VerdictInv, Classify
  PROVE  VerdictInv'
<1> DEFINE t == phase
           Was(n, i) == Simulated(t, acs_in[n], prog.code[n], prog.access[n], Classified(n))[i - 1]
           Present(n, i) == ~ Absent(t, Was(n, i), prog.code[n][i])
<1>1. /\ t \in Analysis /\ AnalysisOf(t) = t /\ t \in FixPoints /\ Stable
      /\ prog' = prog /\ Nodes(t) \subseteq Node /\ prog \in Programs
      /\ \A n \in Node \ Nodes(t) : \A i \in Accesses(n) : chmc'[n][i] = chmc[n][i]
      /\ \A n \in Nodes(t) : \A i \in Accesses(n) :
              chmc'[n][i] = IF i \in Classified(n) THEN chmc[n][i]
                            ELSE IF cac(n, i) = "N" THEN "AU"
                            ELSE Verdict(t, Present(n, i))
  BY ClassifyFacts DEF TypeInv
<1> HIDE DEF Present
<1>2. \A n, i : Present(n, i) \in BOOLEAN
  BY DEF Present
<1>3. \A p \in BOOLEAN : /\ Verdict(t, p) = "AM" => t = "MAY" /\ ~ p
                         /\ Verdict(t, p) = "AH" => t = "MUST" /\ p
  BY <1>1 DEF Verdict, Analysis
<1>4. ASSUME NEW n \in Node, NEW i \in Accesses(n)
      PROVE  \/ chmc'[n][i] = chmc[n][i]
             \/ chmc'[n][i] = "AU"
             \/ chmc'[n][i] = Verdict(t, Present(n, i)) /\ i \notin Classified(n)
  BY <1>1
<1>5. Node' = Node /\ \A n : Accesses(n)' = Accesses(n)
  BY <1>1 DEF Node, Accesses
<1>6. \A n, i : AlwaysHits(n, i)' = AlwaysHits(n, i) /\ AlwaysMisses(n, i)' = AlwaysMisses(n, i)
  BY <1>1 DEF AlwaysHits, AlwaysMisses, Closed, ClosedByFetch, ClosedByBranch, After, LineAt, Node,
              Accesses, cac
<1>7. ASSUME NEW n \in Node, NEW i \in Accesses(n), t = "MUST", Present(n, i)
      PROVE  AlwaysHits(n, i)
  <2>1. Closed(Described("MUST"))
    BY <1>1, <1>7, DescribedAtEnd DEF Sound
  <2>2. Classified(n) = {}
    BY <1>1, <1>7 DEF ClassInv, PendingInv, Pending, Classified
  <2>3. ~ Absent("MUST", Before("MUST", n, i), prog.code[n][i])
    BY <1>7, <2>2 DEF Present, Before
  <2>4. prog.code[n][i] \in Address
    BY <1>1, AccessFacts
  <2>5. ASSUME NEW f \in LruCaches, <<n, i, f>> \in Described("MUST")
        PROVE  Lru!Cached(f, LineAt(n, i))
    <3>1. Describes("MUST", Before("MUST", n, i), f)
      BY <2>5 DEF Described
    <3>2. QED
      BY <2>3, <2>4, <3>1, MustDescribedHit DEF LineAt
  <2>6. QED
    BY <2>1, <2>5 DEF AlwaysHits
<1>8. ASSUME NEW n \in Node, NEW i \in Accesses(n), t = "MAY", ~ Present(n, i), i \notin Classified(n)
      PROVE  AlwaysMisses(n, i)
  <2>1. Closed(Masked)
    BY <1>1, <1>8, DescribedAtEnd, MaskedClosed DEF Sound
  <2>2. Absent("MAY", Seen(n, i), prog.code[n][i])
    BY <1>8 DEF Present, Seen
  <2>3. prog.code[n][i] \in Address /\ LineAt(n, i) \notin Skipped(n, i)
    BY <1>1, <1>8, AccessFacts, SkippedFacts
  <2>4. ASSUME NEW f \in LruCaches, <<n, i, f>> \in Masked
        PROVE  ~ Lru!Cached(f, LineAt(n, i))
    <3>1. Describes("MAY", Seen(n, i), Mask(f, Skipped(n, i)))
      BY <2>4 DEF Masked
    <3>2. QED
      BY <2>2, <2>3, <3>1, MayDescribedMiss DEF LineAt
  <2>5. QED
    BY <2>1, <2>4 DEF AlwaysMisses
<1>9. ASSUME NEW n \in Node, NEW i \in Accesses(n)
      PROVE  /\ chmc'[n][i] = "AH" => AlwaysHits(n, i)
             /\ chmc'[n][i] = "AM" => AlwaysMisses(n, i)
  <2>1. CASE chmc'[n][i] = chmc[n][i]
    BY <1>9, <2>1 DEF VerdictInv
  <2>2. CASE chmc'[n][i] = "AU"
    BY <2>2
  <2>3. CASE chmc'[n][i] = Verdict(t, Present(n, i)) /\ i \notin Classified(n)
    <3>1. CASE Present(n, i)
      <4>1. Present(n, i) = TRUE
        BY <1>2, <3>1
      <4>2. chmc'[n][i] # "AM" /\ (chmc'[n][i] = "AH" => t = "MUST")
        BY <1>3, <2>3, <4>1
      <4>3. QED
        BY <1>7, <1>9, <3>1, <4>2
    <3>2. CASE ~ Present(n, i)
      <4>1. Present(n, i) = FALSE
        BY <1>2, <3>2
      <4>2. chmc'[n][i] # "AH" /\ (chmc'[n][i] = "AM" => t = "MAY")
        BY <1>3, <2>3, <4>1
      <4>3. QED
        BY <1>8, <1>9, <2>3, <3>2, <4>2
    <3>3. QED
      BY <3>1, <3>2
  <2>4. QED
    BY <1>4, <1>9, <2>1, <2>2, <2>3
<1>10. QED
  BY <1>5, <1>6, <1>9 DEF VerdictInv

LEMMA VerdictStep == TypeInv /\ FixInv /\ ClassInv /\ VerdictInv /\ [Next]_vars => VerdictInv'
<1>1. SUFFICES ASSUME TypeInv, FixInv, ClassInv, VerdictInv, [Next]_vars
               PROVE  VerdictInv'
  OBVIOUS
<1>2. CASE Classify
  BY <1>1, <1>2, ClassifyVerdicts
<1>3. CASE EndAnalysis
  <2>1. prog' = prog /\ \A n \in Node : \A i \in Accesses(n) :
                           chmc'[n][i] = IF chmc[n][i] = "none" THEN "NC" ELSE chmc[n][i]
    BY <1>3 DEF EndAnalysis
  <2>2. QED
    BY <1>1, <2>1, VerdictsKept
<1>4. CASE ~ Classify /\ ~ EndAnalysis
  <2>1. prog' = prog /\ chmc' = chmc
    BY <1>1, <1>4 DEF Next, Analyse, StartAnalysis, FixPointMust1stStep, EndFixPointMust1stStep,
                      MustAnalysis, PSAnalysis, MayAnalysis, Round, Fetch, Branch, vars
  <2>2. QED
    BY <1>1, <2>1, VerdictsKept
<1>5. QED
  BY <1>2, <1>3, <1>4

(* The execution stays within every closed set.                            *)
ExecutionInv ==
  /\ pc \in Node \X Nat /\ pc[2] \in 1 .. Len(prog.code[pc[1]]) + 1
  /\ age \in LruCaches
  /\ \A R : Closed(R) => <<pc[1], pc[2], age>> \in R

LEMMA ExecutionStep == TypeInv /\ ExecutionInv /\ [Next]_vars => ExecutionInv'
<1>1. SUFFICES ASSUME TypeInv, ExecutionInv, [Next]_vars
               PROVE  ExecutionInv'
  OBVIOUS
<1> DEFINE n == pc[1]
           i == pc[2]
<1>2. /\ prog \in Programs /\ n \in Node /\ i \in Nat /\ pc = <<n, i>> /\ age \in LruCaches
      /\ i \in 1 .. Len(prog.code[n]) + 1
      /\ Accesses(n) = 1 .. Len(prog.code[n]) /\ Len(prog.code[n]) \in Nat \ {0}
  BY <1>1, AccessFacts DEF TypeInv, ExecutionInv
<1>3. prog' = prog
  BY <1>1 DEF Next, Analyse, StartAnalysis, FixPointMust1stStep, EndFixPointMust1stStep,
              MustAnalysis, PSAnalysis, MayAnalysis, Round, Classify, EndAnalysis, Fetch, Branch, vars
<1>4. Node' = Node /\ \A R : Closed(R)' = Closed(R)
  BY <1>3 DEF Closed, ClosedByFetch, ClosedByBranch, After, LineAt, Node, Accesses, cac
<1>5. CASE Fetch
  <2>1. i \in Accesses(n)
    BY <1>5 DEF Fetch, Running
  <2>2. PICK reached \in Reaching(cac(n, i)) : age' = After(n, i, age, reached)
    BY <1>5 DEF Fetch, After
  <2>3. pc' = <<n, i + 1>> /\ i + 1 \in 1 .. Len(prog.code[n]) + 1 /\ i + 1 \in Nat
    BY <1>2, <1>5, <2>1 DEF Fetch
  <2>4. age' \in LruCaches
    <3>1. prog.code[n][i] \in Address
      BY <1>2, <2>1, AccessFacts
    <3>2. QED
      BY <1>2, <2>2, <3>1, AccessedCache DEF After, LineAt
  <2> HIDE DEF n, i
  <2>5. ASSUME NEW R, Closed(R)
        PROVE  <<n, i + 1, age'>> \in R
    <3>1. <<n, i, age>> \in R
      BY <1>1, <2>5 DEF ExecutionInv, n, i
    <3>2. QED
      BY <1>2, <2>1, <2>2, <2>5, <3>1 DEF Closed, ClosedByFetch
  <2>6. QED
    BY <1>2, <1>3, <1>4, <2>3, <2>4, <2>5 DEF ExecutionInv
<1>6. CASE Branch
  <2>1. PICK m \in Successors(prog.edges, n) : pc' = <<m, 1>> /\ age' = age /\ i > Len(prog.code[n])
    BY <1>6 DEF Branch
  <2>2. PICK e \in prog.edges : e[1] = n /\ e[2] = m
    BY <2>1 DEF Successors
  <2>3. m \in Node /\ i = Len(prog.code[n]) + 1
    BY <1>2, <2>1, <2>2, ProgramFacts DEF Node
  <2>4. 1 \in 1 .. Len(prog.code[m]) + 1
    BY <1>2, <2>3, AccessFacts
  <2> HIDE DEF n, i
  <2>5. ASSUME NEW R, Closed(R)
        PROVE  <<m, 1, age>> \in R
    <3>1. <<n, i, age>> \in R
      BY <1>1, <2>5 DEF ExecutionInv, n, i
    <3>2. QED
      BY <1>2, <2>2, <2>3, <2>5, <3>1 DEF Closed, ClosedByBranch
  <2>6. QED
    BY <1>2, <1>3, <1>4, <2>1, <2>3, <2>4, <2>5 DEF ExecutionInv
<1>7. CASE ~ Fetch /\ ~ Branch
  <2>1. pc' = pc /\ age' = age
    BY <1>1, <1>7 DEF Next, Analyse, StartAnalysis, FixPointMust1stStep, EndFixPointMust1stStep,
                      MustAnalysis, PSAnalysis, MayAnalysis, Round, Classify, EndAnalysis, vars, executionVars
  <2>2. QED
    BY <1>1, <1>3, <1>4, <2>1 DEF ExecutionInv
<1>8. QED
  BY <1>5, <1>6, <1>7

Inv == TypeInv /\ FixInv /\ ClassInv /\ VerdictInv /\ ExecutionInv

LEMMA InitInv == Init => Inv
<1>1. SUFFICES ASSUME Init
               PROVE  Inv
  OBVIOUS
<1>2. /\ prog \in Programs /\ todo \subseteq Analysis /\ phase = "idle" /\ half = "ACS_out"
      /\ \A n \in Node : \A i \in Accesses(n) : chmc[n][i] = "none"
      /\ pc = <<prog.entry, 1>> /\ age = Lru!Cold
  BY <1>1, OptionsAssumption DEF Init
<1>3. TypeInv
  BY <1>2 DEF TypeInv, FixPoints
<1>4. FixInv
  BY <1>2 DEF FixInv
<1>5. prog.entry \in Node /\ 1 \in Accesses(prog.entry)
  BY <1>2, EntryFacts
<1>6. ClassInv
  <2>1. JustifiedInv
    BY <1>2 DEF JustifiedInv, Justified
  <2>2. PendingInv
    BY <1>2 DEF PendingInv, FixPoints
  <2>3. LinesInv
    BY <1>2 DEF LinesInv
  <2>4. EntryInv
    BY <1>2, <1>5 DEF EntryInv, FixPoints
  <2>5. NextInv
    BY <1>2 DEF NextInv
  <2>6. QED
    BY <2>1, <2>2, <2>3, <2>4, <2>5 DEF ClassInv
<1>7. VerdictInv
  BY <1>2 DEF VerdictInv
<1>8. ExecutionInv
  <2>1. 1 \in 1 .. Len(prog.code[prog.entry]) + 1 /\ 1 \in Nat
    BY <1>2, <1>5, AccessFacts
  <2>2. QED
    BY <1>2, <1>5, <2>1, ColdCache DEF ExecutionInv, Closed
<1>9. QED
  BY <1>3, <1>4, <1>6, <1>7, <1>8 DEF Inv

LEMMA Invariance == Spec => []Inv
<1>1. TypeInv /\ TypeInv' /\ Inv /\ [Next]_vars => Inv'
  BY FixStep, ClassStep, VerdictStep, ExecutionStep DEF Inv
<1>2. QED
  BY <1>1, InitInv, TypeCorrectness, PTL DEF Spec

(* What the invariant says of the access about to be executed. *)
LEMMA ExecutedFacts ==
  ASSUME Inv, Running
  PROVE  /\ pc[1] \in Node /\ pc[2] \in Accesses(pc[1])
         /\ Class = "AH" => Hit
         /\ Class = "AM" => ~ Hit
         /\ Justified(pc[1], pc[2]) /\ Class # "none" /\ Hit \in BOOLEAN
         /\ next[pc[1]][pc[2]] = cac_computation(Class, cac(pc[1], pc[2]))
<1> DEFINE n == pc[1]
           i == pc[2]
<1>1. /\ n \in Node /\ i \in Accesses(n) /\ age \in LruCaches /\ phase = "done"
      /\ \A R : Closed(R) => <<n, i, age>> \in R
  BY DEF Inv, ExecutionInv, Running
<1> HIDE DEF n, i
<1>2. Class = chmc[n][i] /\ (Hit <=> Lru!Cached(age, LineAt(n, i)))
  BY DEF Class, Hit, n, i
<1>3. Class = "AH" => Hit
  <2>1. SUFFICES ASSUME Class = "AH"
                 PROVE  Hit
    OBVIOUS
  <2>2. PICK R : Closed(R) /\ \A f \in LruCaches : <<n, i, f>> \in R => Lru!Cached(f, LineAt(n, i))
    BY <1>1, <1>2, <2>1 DEF Inv, VerdictInv, AlwaysHits
  <2>3. QED
    BY <1>1, <1>2, <2>2
<1>4. Class = "AM" => ~ Hit
  <2>1. SUFFICES ASSUME Class = "AM"
                 PROVE  ~ Hit
    OBVIOUS
  <2>2. PICK R : Closed(R) /\ \A f \in LruCaches : <<n, i, f>> \in R => ~ Lru!Cached(f, LineAt(n, i))
    BY <1>1, <1>2, <2>1 DEF Inv, VerdictInv, AlwaysMisses
  <2>3. QED
    BY <1>1, <1>2, <2>2
<1>5. /\ Justified(n, i) /\ Class # "none"
      /\ next[n][i] = cac_computation(Class, cac(n, i))
  BY <1>1, <1>2 DEF Inv, ClassInv, JustifiedInv, NextInv
<1>6. Hit \in BOOLEAN
  BY DEF Hit, Lru!Cached
<1>7. QED
  BY <1>1, <1>3, <1>4, <1>5, <1>6 DEF n, i

(* Whatever path the program takes, an access classified "always hit"      *)
(* hits and one classified "always miss" misses.  ICacheAnalysis.cc        *)
THEOREM ClassificationSound == Spec => []VerdictsHold
<1>1. Inv => VerdictsHold
  BY ExecutedFacts DEF VerdictsHold
<1>2. QED
  BY <1>1, Invariance, PTL

(* The next level is told of the accesses it gets, whatever this level was *)
(* told that is right: by induction on the levels, the classifications of  *)
(* all the levels of a hierarchy are right.  ICacheAnalysis.cc             *)
THEOREM NextLevelSound == Spec => []AccessClassificationSound
<1>1. Inv => AccessClassificationSound
  <2>1. SUFFICES ASSUME Inv, Running
                 PROVE  /\ \A reached \in Reaching(cac(pc[1], pc[2])) :
                              (reached /\ ~ Hit) \in Reaching(next[pc[1]][pc[2]])
                        /\ next[prog.entry][1] \in {"A", "U"}
    BY DEF AccessClassificationSound
  <2>2. prog \in Programs /\ phase = "done"
    BY <2>1 DEF Inv, TypeInv, Running
  <2>3. next[prog.entry][1] \in {"A", "U"}
    <3>1. prog.entry \in Node /\ 1 \in Accesses(prog.entry) /\ cac(prog.entry, 1) \in {"A", "U"}
      BY <2>2, EntryFacts
    <3>2. /\ chmc[prog.entry][1] \in {"AM", "NC"}
          /\ next[prog.entry][1] = cac_computation(chmc[prog.entry][1], cac(prog.entry, 1))
      BY <2>1, <2>2, <3>1 DEF Inv, ClassInv, EntryInv, NextInv
    <3>3. QED
      BY <3>1, <3>2 DEF cac_computation
  <2>4. ASSUME NEW reached \in Reaching(cac(pc[1], pc[2]))
        PROVE  (reached /\ ~ Hit) \in Reaching(next[pc[1]][pc[2]])
    <3> DEFINE access == cac(pc[1], pc[2])
               told == next[pc[1]][pc[2]]
    <3>1. /\ access \in CAC
          /\ Class \in {"AH", "FM", "AM", "AU", "NC"}
          /\ Class = "AU" => access = "N"
          /\ Class = "AM" => access # "N"
          /\ Class = "AH" => Hit
          /\ Class = "AM" => ~ Hit
          /\ told = cac_computation(Class, access)
      BY <2>1, <2>2, ExecutedFacts, AccessFacts DEF Justified, Class
    <3>2. reached \in Reaching(access) /\ reached \in BOOLEAN
      BY DEF Reaching
    <3> HIDE DEF access, told
    <3>3. CASE Class \in {"FM", "NC"}
      <4>1. Reaching(told) = BOOLEAN
        BY <3>1, <3>3 DEF cac_computation, Reaching
      <4>2. QED
        BY <4>1 DEF told
    <3>4. CASE Class = "AH"
      <4>1. Reaching(told) = {FALSE} /\ (reached /\ ~ Hit) = FALSE
        BY <3>1, <3>4 DEF cac_computation, Reaching
      <4>2. QED
        BY <4>1 DEF told
    <3>5. CASE Class = "AU"
      <4>1. Reaching(told) = {FALSE} /\ (reached /\ ~ Hit) = FALSE
        BY <3>1, <3>2, <3>5 DEF cac_computation, Reaching
      <4>2. QED
        BY <4>1 DEF told
    <3>6. CASE Class = "AM"
      <4>1. told = access /\ (reached /\ ~ Hit) = reached
        BY <3>1, <3>2, <3>6 DEF cac_computation
      <4>2. QED
        BY <3>2, <4>1 DEF told
    <3>7. QED
      BY <3>1, <3>3, <3>4, <3>5, <3>6
  <2>5. QED
    BY <2>3, <2>4
<1>2. QED
  BY <1>1, Invariance, PTL
-----------------------------------------------------------------------------
(* First misses.  A persistence cache covers what was accessed since the   *)
(* loop was entered.                                                       *)

Fed(l, a, reached) == IF reached THEN l \cup {a} ELSE l
Told(l, s, a, reached) == IF reached THEN Remembered(l, s, a) ELSE s

LEMMA RememberedTwice ==
  ASSUME NEW l \in SUBSET Line, NEW s \in [Line -> SUBSET Line], NEW a \in Line
  PROVE  /\ Remembered(l, s, a) \in [Line -> SUBSET Line]
         /\ Remembered(l \cup {a}, Remembered(l, s, a), a) = Remembered(l, s, a)
<1> DEFINE r == Remembered(l, s, a)
           q == Remembered(l \cup {a}, r, a)
<1>1. r \in [Line -> SUBSET Line]
  BY DEF Remembered
<1>2. q \in [Line -> SUBSET Line]
  BY <1>1 DEF Remembered
<1>3. \A b \in Line : r[b] = IF b = a THEN {}
                             ELSE IF b \in l /\ computeSet(b) = computeSet(a) THEN s[b] \cup {a}
                             ELSE s[b]
  BY DEF Remembered
<1>4. \A b \in Line : q[b] = IF b = a THEN {}
                             ELSE IF b \in l \cup {a} /\ computeSet(b) = computeSet(a)
                               THEN r[b] \cup {a}
                             ELSE r[b]
  BY DEF Remembered
<1> HIDE DEF r, q
<1>5. ASSUME NEW b \in Line
      PROVE  q[b] = r[b]
  <2>1. CASE b = a
    <3>1. q[b] = {} /\ r[b] = {}
      BY <1>3, <1>4, <2>1
    <3>2. QED
      BY <3>1
  <2>2. CASE b # a /\ b \in l /\ computeSet(b) = computeSet(a)
    <3>1. r[b] = s[b] \cup {a} /\ q[b] = r[b] \cup {a}
      BY <1>3, <1>4, <2>2
    <3>2. QED
      BY <3>1
  <2>3. CASE b # a /\ ~ (b \in l /\ computeSet(b) = computeSet(a))
    <3>1. b \in l \cup {a} <=> b \in l
      BY <2>3
    <3>2. QED
      BY <1>4, <2>3, <3>1
  <2>4. QED
    BY <2>1, <2>2, <2>3
<1>6. q = r
  BY <1>1, <1>2, <1>5
<1>7. QED
  BY <1>1, <1>6 DEF r, q

(* An access that is simulated... *)
LEMMA FetchCovers ==
  ASSUME NEW l \in SUBSET Line, NEW s \in [Line -> SUBSET Line],
         NEW c \in PsCaches, PsCacheCovers(l, s, c), NEW addr \in Address, NEW access \in CAC,
         NEW reached \in Reaching(access)
  PROVE  LET a == computeStartLine(addr)
             k == Fed(l, a, reached)
             sj == Told(l, s, a, reached)
             u == Update("PS", c, addr, access)
         IN  /\ PsCacheCovers(k, sj, u)
             /\ access # "N" => PsCacheCovers(k \cup {a}, Remembered(k, sj, a), u)
             /\ access = "N" => u = c /\ ~ reached
<1> DEFINE a == computeStartLine(addr)
           k == Fed(l, a, reached)
           sj == Told(l, s, a, reached)
           u == Update("PS", c, addr, access)
<1>1. a \in Line
  BY Geometry
<1>2. u = UpdateLine(c, addr, access, Ps!Update, Ps!Join)
  BY DEF Update
<1>3. /\ access # "N" => PsCacheCovers(l \cup {a}, Remembered(l, s, a), u)
      /\ access # "A" => PsCacheCovers(l, s, u)
  BY <1>2, PsUpdateLineSound
<1>4. IF reached THEN access # "N" ELSE access # "A"
  BY ReachingFacts
<1>5. access = "N" => u = c
  BY <1>2 DEF UpdateLine
<1> HIDE DEF a, u
<1>6. CASE reached
  <2>1. k = l \cup {a} /\ sj = Remembered(l, s, a) /\ k \cup {a} = k
    BY <1>6 DEF Fed, Told
  <2>2. Remembered(k, sj, a) = sj
    BY <1>1, <2>1, RememberedTwice
  <2> HIDE DEF k, sj
  <2>3. QED
    BY <1>3, <1>4, <1>6, <2>1, <2>2 DEF a, u, k, sj
<1>7. CASE ~ reached
  <2>1. k = l /\ sj = s
    BY <1>7 DEF Fed, Told
  <2>2. QED
    BY <1>3, <1>4, <1>5, <1>7, <2>1 DEF a, u
<1>8. QED
  BY <1>6, <1>7

(* ... and one that is not, to a line that was the last one simulated.     *)
LEMMA SkipCovers ==
  ASSUME NEW l \in SUBSET Line, NEW s \in [Line -> SUBSET Line], NEW a \in Line, NEW c,
         PsCacheCovers(l, s, c), PsCacheCovers(l \cup {a}, Remembered(l, s, a), c),
         NEW reached \in BOOLEAN
  PROVE  LET k == Fed(l, a, reached)
             sj == Told(l, s, a, reached)
         IN  /\ PsCacheCovers(k, sj, c)
             /\ PsCacheCovers(k \cup {a}, Remembered(k, sj, a), c)
<1> DEFINE k == Fed(l, a, reached)
           sj == Told(l, s, a, reached)
<1>1. CASE reached
  <2>1. k = l \cup {a} /\ sj = Remembered(l, s, a) /\ k \cup {a} = k
    BY <1>1 DEF Fed, Told
  <2>2. Remembered(k, sj, a) = sj
    BY <2>1, RememberedTwice
  <2> HIDE DEF k, sj
  <2>3. QED
    BY <2>1, <2>2 DEF k, sj
<1>2. CASE ~ reached
  BY <1>2 DEF Fed, Told
<1>3. QED
  BY <1>1, <1>2

LEMMA JoinOfCovers ==
  ASSUME NEW preds, Len(preds) \in Nat \ {0}, NEW acs,
         \A i \in 1 .. Len(preds) : acs[preds[i]] \in PsCaches,
         NEW l, NEW s, NEW k \in 1 .. Len(preds), PsCacheCovers(l, s, acs[preds[k]])
  PROVE  PsCacheCovers(l, s, JoinOf("PS", preds, acs))
<1>1. PICK g : /\ JoinOf("PS", preds, acs) = g[Len(preds)]
               /\ g[1] = acs[preds[1]]
               /\ \A i \in 2 .. Len(preds) : g[i] = Join("PS", g[i - 1], acs[preds[i]])
  BY JoinOfFacts
<1>2. \A c, d : Join("PS", c, d) = JoinCaches(c, d, Ps!Join)
  BY DEF Join
<1> DEFINE S == {i \in Nat : i + 1 <= Len(preds) =>
                    /\ g[i + 1] \in PsCaches
                    /\ k <= i + 1 => PsCacheCovers(l, s, g[i + 1])}
<1>3. 0 \in S
  <2>1. 1 \in 1 .. Len(preds) /\ (k <= 1 => k = 1)
    OBVIOUS
  <2>2. QED
    BY <1>1, <2>1
<1>4. ASSUME NEW i \in Nat, i \in S
      PROVE  i + 1 \in S
  <2>1. SUFFICES ASSUME i + 1 + 1 <= Len(preds)
                 PROVE  /\ g[i + 1 + 1] \in PsCaches
                        /\ k <= i + 1 + 1 => PsCacheCovers(l, s, g[i + 1 + 1])
    OBVIOUS
  <2>2. /\ i + 1 + 1 \in 2 .. Len(preds) /\ i + 1 + 1 \in 1 .. Len(preds)
        /\ i + 1 + 1 - 1 = i + 1 /\ g[i + 1] \in PsCaches
        /\ k <= i + 1 => PsCacheCovers(l, s, g[i + 1])
        /\ k <= i + 1 + 1 => k <= i + 1 \/ k = i + 1 + 1
    BY <1>4, <2>1
  <2> DEFINE d == acs[preds[i + 1 + 1]]
  <2>3. g[i + 1 + 1] = JoinCaches(g[i + 1], d, Ps!Join) /\ d \in PsCaches
    BY <1>1, <1>2, <2>2
  <2>4. k <= i + 1 + 1 => PsCacheCovers(l, s, g[i + 1]) \/ PsCacheCovers(l, s, d)
    BY <2>2
  <2> HIDE DEF d
  <2>5. QED
    BY <2>2, <2>3, <2>4, PsJoinCachesSound
<1> HIDE DEF S
<1>5. Nat \subseteq S
  BY <1>3, <1>4, Induction
<1>6. Len(preds) - 1 \in S /\ Len(preds) - 1 + 1 = Len(preds)
  BY <1>5
<1>7. QED
  BY <1>1, <1>6 DEF S

(* A line seen since the loop was entered that the persistence cache holds *)
(* is cached.                                                              *)
LEMMA CoveredHit ==
  ASSUME NEW f, NEW l, NEW s, History(f, l, s), NEW c \in PsCaches, PsCacheCovers(l, s, c),
         NEW addr \in Address, computeStartLine(addr) \in l, ~ Absent("PS", c, addr)
  PROVE  Lru!Cached(f, computeStartLine(addr))
<1> DEFINE a == computeStartLine(addr)
           d == c[computeSet(addr)]
<1>1. a \in Line /\ computeSet(addr) \in CacheSet /\ computeSet(a) = computeSet(addr)
  BY Geometry
<1>2. PsSet(d) /\ PsCovers(l, s, d, computeSet(addr)) /\ a \in d.present /\ a \in l
  BY <1>1 DEF PsCaches, PsCacheCovers, Absent, AbsentLine, Ps!Absent
<1>3. f \in Lru!Ages /\ s \in [Line -> SUBSET Line] /\ f[a] <= Cardinality(s[a])
  BY <1>2 DEF History
<1> HIDE DEF a, d
<1>4. /\ d.conflicts \in [Line -> SUBSET Line]
      /\ d.present \cap d.evicted = {}
      /\ Cardinality(d.conflicts[a]) < nb_ways
  BY <1>2, PsSetFacts
<1>5. s[a] \subseteq d.conflicts[a]
  BY <1>1, <1>2, <1>4 DEF PsCovers
<1>6. d.conflicts[a] \in SUBSET Line
  BY <1>1, <1>4
<1>7. /\ Cardinality(d.conflicts[a]) \in Nat
      /\ Cardinality(s[a]) <= Cardinality(d.conflicts[a])
  BY <1>5, <1>6, Sizes
<1>8. s[a] \in SUBSET Line
  BY <1>1, <1>3
<1>9. Cardinality(s[a]) \in Nat
  BY <1>8, Sizes
<1>10. f[a] \in Nat
  BY <1>1, <1>3, GeometryAssumption DEF Lru!Ages
<1>11. f[a] < nb_ways
  BY <1>3, <1>4, <1>7, <1>9, <1>10, GeometryAssumption
<1>12. QED
  BY <1>11 DEF Lru!Cached, a

-----------------------------------------------------------------------------
(* Executions again, with what missed: the sets of the states <<node,      *)
(* index, ages, missed>> that are closed.                                  *)

Misses == SUBSET (Node \X Nat)

Missing(n, i, f, M, reached) ==
  IF reached /\ ~ Lru!Cached(f, LineAt(n, i)) THEN M \cup {<<n, i>>} ELSE M

ClosedRun(R) ==
  /\ <<prog.entry, 1, Lru!Cold, {}>> \in R
  /\ \A n \in Node : \A i \in Accesses(n) : \A f \in LruCaches : \A M \in Misses :
     \A reached \in Reaching(cac(n, i)) :
        <<n, i, f, M>> \in R
          => <<n, i + 1, After(n, i, f, reached), Missing(n, i, f, M, reached)>> \in R
  /\ \A e \in prog.edges : \A f \in LruCaches : \A M \in Misses :
        <<e[1], Len(prog.code[e[1]]) + 1, f, M>> \in R => <<e[2], 1, f, M>> \in R

(* What PS simulates before an access when it classifies the block.        *)
PsSeen(n, i) ==
  Simulated("PS", acs_in[n], prog.code[n], prog.access[n], Classified(n))[i - 1]

(* In a loop the fixed point of PS covers what was accessed since the loop *)
(* was entered; so do the states it classifies from, and, before another   *)
(* access to the line it simulated last, whether or not that access is     *)
(* simulated.                                                              *)
PsCoveredAt(n, i, l, s) ==
  /\ PsCacheCovers(l, s, Before("PS", n, i))
  /\ SimulatedUpTo(n, i) =>
        /\ PsCacheCovers(l, s, PsSeen(n, i))
        /\ i \in Accesses(n) /\ Simulates(n, i)
             => PsCacheCovers(l \cup {LineAt(n, i)}, Remembered(l, s, LineAt(n, i)), PsSeen(n, i))

(* What missed in the loop was accessed since the loop was entered, or it  *)
(* is not executed again before the loop is left.                          *)
MissesSeen(n, l, M) ==
  \A x \in M : x[1] \in prog.inLoop /\ x[1] \in Reachable(prog.edges, {n}) => LineAt(x[1], x[2]) \in l

Persisted ==
  {x \in Node \X Nat \X LruCaches \X Misses :
     /\ x[2] \in 1 .. Len(prog.code[x[1]]) + 1
     /\ x[1] \in prog.inLoop =>
          \E l, s : /\ History(x[3], l, s)
                    /\ PsCoveredAt(x[1], x[2], l, s)
                    /\ MissesSeen(x[1], l, x[4])
     /\ \A y \in x[4] : x[1] \in Reachable(prog.edges, {y[1]})}

LEMMA PsSeenFacts ==
  ASSUME TypeInv, phase = "PS", NEW n \in prog.inLoop
  PROVE  /\ \A i \in 1 .. Len(prog.code[n]) + 1 : Before("PS", n, i) \in PsCaches /\ PsSeen(n, i) \in PsCaches
         /\ Before("PS", n, 1) = acs_in[n] /\ PsSeen(n, 1) = acs_in[n]
         /\ \A i \in Accesses(n) :
              /\ Before("PS", n, i + 1) = Update("PS", Before("PS", n, i), prog.code[n][i], prog.access[n][i])
              /\ PsSeen(n, i + 1) = IF i \in Classified(n) THEN PsSeen(n, i)
                                    ELSE Update("PS", PsSeen(n, i), prog.code[n][i], prog.access[n][i])
         /\ Before("PS", n, Len(prog.code[n]) + 1) = compute_ACS_out("PS", n)
<1> DEFINE b == Simulated("PS", acs_in[n], prog.code[n], prog.access[n], {})
           g == Simulated("PS", acs_in[n], prog.code[n], prog.access[n], Classified(n))
<1>1. /\ prog \in Programs /\ "PS" \in Analysis /\ acs_in[n] \in ACS("PS") /\ ACS("PS") = PsCaches
      /\ n \in Node
  BY ProgramFacts DEF TypeInv, FixPoints, FixPointType, Analysis, AnalysisOf, Nodes, ACS, Node
<1>2. /\ Accesses(n) = 1 .. Len(prog.code[n]) /\ Len(prog.code[n]) \in Nat \ {0}
      /\ Block(prog.code[n], prog.access[n])
  BY <1>1, AccessFacts
<1>3. /\ b[0] = acs_in[n] /\ g[0] = acs_in[n]
      /\ \A i \in 1 .. Len(prog.code[n]) :
            /\ b[i] = Update("PS", b[i - 1], prog.code[n][i], prog.access[n][i])
            /\ g[i] = IF i \in Classified(n) THEN g[i - 1]
                      ELSE Update("PS", g[i - 1], prog.code[n][i], prog.access[n][i])
  BY <1>2, SimulatedFacts
<1>4. \A i \in 0 .. Len(prog.code[n]) : b[i] \in PsCaches /\ g[i] \in PsCaches
  BY <1>1, <1>2, SimulatedType
<1>5. \A i : Before("PS", n, i) = b[i - 1] /\ PsSeen(n, i) = g[i - 1]
  BY DEF Before, PsSeen
<1>6. compute_ACS_out("PS", n) = b[Len(prog.code[n])]
  BY DEF compute_ACS_out
<1> HIDE DEF b, g
<1>7. /\ \A i \in 1 .. Len(prog.code[n]) + 1 : i - 1 \in 0 .. Len(prog.code[n])
      /\ \A i \in 1 .. Len(prog.code[n]) : i + 1 - 1 = i
      /\ 1 - 1 = 0 /\ Len(prog.code[n]) + 1 - 1 = Len(prog.code[n])
  BY <1>2
<1>8. \A i \in 1 .. Len(prog.code[n]) + 1 : Before("PS", n, i) \in PsCaches /\ PsSeen(n, i) \in PsCaches
  BY <1>4, <1>5, <1>7
<1>9. Before("PS", n, 1) = acs_in[n] /\ PsSeen(n, 1) = acs_in[n]
  BY <1>3, <1>5, <1>7
<1>10. ASSUME NEW i \in Accesses(n)
       PROVE  /\ Before("PS", n, i + 1) = Update("PS", Before("PS", n, i), prog.code[n][i], prog.access[n][i])
              /\ PsSeen(n, i + 1) = IF i \in Classified(n) THEN PsSeen(n, i)
                                    ELSE Update("PS", PsSeen(n, i), prog.code[n][i], prog.access[n][i])
  <2>1. i \in 1 .. Len(prog.code[n]) /\ i + 1 - 1 = i
    BY <1>2, <1>7
  <2>2. /\ Before("PS", n, i + 1) = b[i] /\ PsSeen(n, i + 1) = g[i]
        /\ Before("PS", n, i) = b[i - 1] /\ PsSeen(n, i) = g[i - 1]
    BY <1>5, <2>1
  <2>3. QED
    BY <1>3, <2>1, <2>2
<1>11. Before("PS", n, Len(prog.code[n]) + 1) = compute_ACS_out("PS", n)
  BY <1>5, <1>6, <1>7
<1>12. QED
  BY <1>8, <1>9, <1>10, <1>11

(* No access is classified by PS or MAY before PS has run. *)
UnclassifiedInv ==
  Pending("PS") => \A n \in Node : \A i \in Accesses(n) : chmc[n][i] \notin {"FM", "AM"}

LEMMA BlockLines ==
  ASSUME prog \in Programs, NEW n \in Node, NEW j \in Accesses(n), NEW i \in Accesses(n),
         NEW k \in Accesses(n), j <= i, i <= k, LineAt(n, j) = LineAt(n, k)
  PROVE  LineAt(n, i) = LineAt(n, k)
<1>1. /\ Accesses(n) = 1 .. Len(prog.code[n]) /\ Block(prog.code[n], prog.access[n])
      /\ Ascending(prog.code[n]) /\ Len(prog.code[n]) \in Nat
  BY AccessFacts, ProgramsAssumption DEF Node, Ascending
<1>2. i \in j .. k /\ prog.code[n] \in Seq(Address)
  BY <1>1 DEF Block
<1>3. computeStartLine(prog.code[n][j]) = computeStartLine(prog.code[n][k])
  BY DEF LineAt
<1>4. computeStartLine(prog.code[n][i]) = computeStartLine(prog.code[n][j])
  BY <1>1, <1>2, <1>3, LinesBetween
<1>5. QED
  BY <1>3, <1>4 DEF LineAt

LEMMA SimulatesNext ==
  ASSUME prog \in Programs, NEW n \in Node, NEW i \in Accesses(n), i + 1 \in Accesses(n),
         Simulates(n, i + 1)
  PROVE  /\ LineAt(n, i) = LineAt(n, i + 1)
         /\ Simulates(n, i) \/ (cac(n, i) # "N" /\ chmc[n][i] # "AH")
<1>1. PICK j \in Accesses(n) : /\ j < i + 1 /\ LineAt(n, j) = LineAt(n, i + 1)
                               /\ cac(n, j) # "N" /\ chmc[n][j] # "AH"
  BY DEF Simulates
<1>2. j \in Nat /\ i \in Nat
  BY <1>1, AccessFacts
<1>3. LineAt(n, i) = LineAt(n, i + 1)
  <2>1. j <= i /\ i <= i + 1
    BY <1>1, <1>2
  <2>2. QED
    BY <1>1, <2>1, BlockLines
<1>4. CASE j = i
  BY <1>1, <1>3, <1>4
<1>5. CASE j # i
  <2>1. j < i
    BY <1>1, <1>2, <1>5
  <2>2. LineAt(n, j) = LineAt(n, i)
    BY <1>1, <1>3
  <2>3. Simulates(n, i)
    BY <1>1, <2>1, <2>2, Zenon DEF Simulates
  <2>4. QED
    BY <1>3, <2>3
<1>6. QED
  BY <1>4, <1>5

LEMMA PsFetchCovered ==
  ASSUME TypeInv, ClassInv, UnclassifiedInv, phase = "PS",
         NEW n \in prog.inLoop, NEW i \in Accesses(n),
         NEW l \in SUBSET Line, NEW s \in [Line -> SUBSET Line], PsCoveredAt(n, i, l, s),
         NEW reached \in Reaching(cac(n, i))
  PROVE  PsCoveredAt(n, i + 1, Fed(l, LineAt(n, i), reached), Told(l, s, LineAt(n, i), reached))
<1> DEFINE a == LineAt(n, i)
           addr == prog.code[n][i]
           k == Fed(l, a, reached)
           sj == Told(l, s, a, reached)
           c == PsSeen(n, i)
           d == PsSeen(n, i + 1)
<1>1. /\ prog \in Programs /\ n \in Node
  BY ProgramFacts DEF TypeInv, Node
<1>2. /\ addr \in Address /\ cac(n, i) \in CAC /\ prog.access[n][i] = cac(n, i)
      /\ i \in 1 .. Len(prog.code[n]) + 1
      /\ a = computeStartLine(addr) /\ a \in Line /\ reached \in BOOLEAN /\ i \in Nat
  BY <1>1, AccessFacts, Geometry DEF LineAt, cac, Reaching
<1>3. IF reached THEN cac(n, i) # "N" ELSE cac(n, i) # "A"
  BY <1>2, ReachingFacts
<1>4. /\ Before("PS", n, i) \in PsCaches /\ c \in PsCaches
      /\ Before("PS", n, i + 1) = Update("PS", Before("PS", n, i), addr, cac(n, i))
      /\ d = IF i \in Classified(n) THEN c ELSE Update("PS", c, addr, cac(n, i))
  BY <1>2, PsSeenFacts
<1>5. /\ i \in Classified(n) <=> chmc[n][i] # "none"
      /\ chmc[n][i] \in {"none", "AH", "AU"} /\ (chmc[n][i] = "AU" => cac(n, i) = "N")
  <2>1. Justified(n, i) /\ chmc[n][i] \notin {"FM", "AM"} /\ phase # "done"
    BY <1>1 DEF ClassInv, JustifiedInv, UnclassifiedInv, Pending, AnalysisOf
  <2>2. QED
    BY <2>1 DEF Justified, Classified
<1> HIDE DEF a, addr, c, d
<1>6. PsCacheCovers(k, sj, Before("PS", n, i + 1))
  <2>1. PsCacheCovers(l, s, Before("PS", n, i))
    BY DEF PsCoveredAt
  <2>2. PsCacheCovers(Fed(l, computeStartLine(addr), reached), Told(l, s, computeStartLine(addr), reached),
                      Update("PS", Before("PS", n, i), addr, cac(n, i)))
    BY <1>2, <1>4, <2>1, FetchCovers
  <2>3. QED
    BY <1>2, <1>4, <2>2
<1>7. ASSUME SimulatedUpTo(n, i + 1)
      PROVE  /\ PsCacheCovers(k, sj, d)
             /\ i + 1 \in Accesses(n) /\ Simulates(n, i + 1)
                  => PsCacheCovers(k \cup {LineAt(n, i + 1)}, Remembered(k, sj, LineAt(n, i + 1)), d)
  <2>1. SimulatedUpTo(n, i) /\ (chmc[n][i] = "AH" => Simulates(n, i))
    <3>1. \A x \in Accesses(n) : x \in Nat /\ (x < i => x < i + 1)
      BY <1>1, <1>2, AccessFacts
    <3>2. i < i + 1
      BY <1>2
    <3>3. QED
      BY <1>7, <3>1, <3>2 DEF SimulatedUpTo
  <2>2. /\ PsCacheCovers(l, s, c)
        /\ Simulates(n, i) => PsCacheCovers(l \cup {a}, Remembered(l, s, a), c)
    BY <2>1 DEF PsCoveredAt, c, a
  <2>3. i + 1 \in Accesses(n) /\ Simulates(n, i + 1)
          => LineAt(n, i + 1) = a /\ (Simulates(n, i) \/ (cac(n, i) # "N" /\ chmc[n][i] # "AH"))
    BY <1>1, SimulatesNext DEF a
  <2>4. SUFFICES /\ PsCacheCovers(k, sj, d)
                 /\ Simulates(n, i) \/ (cac(n, i) # "N" /\ chmc[n][i] # "AH")
                      => PsCacheCovers(k \cup {a}, Remembered(k, sj, a), d)
    BY <2>3
  <2>5. Simulates(n, i) => /\ PsCacheCovers(k, sj, c)
                           /\ PsCacheCovers(k \cup {a}, Remembered(k, sj, a), c)
    BY <1>2, <2>2, SkipCovers
  <2>6. CASE chmc[n][i] = "none"
    <3>1. d = Update("PS", c, addr, cac(n, i))
      BY <1>4, <1>5, <2>6
    <3> DEFINE b == computeStartLine(addr)
               v == Fed(l, b, reached)
               vj == Told(l, s, b, reached)
               u == Update("PS", c, addr, cac(n, i))
    <3>2. /\ PsCacheCovers(v, vj, u)
          /\ cac(n, i) # "N" => PsCacheCovers(v \cup {b}, Remembered(v, vj, b), u)
          /\ cac(n, i) = "N" => u = c
      BY <1>2, <1>4, <2>2, FetchCovers
    <3>3. a = b /\ d = u
      BY <1>2, <3>1
    <3>4. k = v /\ sj = vj
      BY <3>3
    <3> HIDE DEF b, u, v, vj
    <3>5. /\ PsCacheCovers(k, sj, d)
          /\ cac(n, i) # "N" => PsCacheCovers(k \cup {a}, Remembered(k, sj, a), d)
          /\ cac(n, i) = "N" => d = c
      BY <3>2, <3>3, <3>4
    <3> HIDE DEF k, sj
    <3>6. QED
      BY <2>5, <3>5
  <2>7. CASE chmc[n][i] = "AH"
    <3>1. d = c
      BY <1>4, <1>5, <2>7
    <3> HIDE DEF k, sj
    <3>2. QED
      BY <2>1, <2>5, <2>7, <3>1
  <2>8. CASE chmc[n][i] = "AU"
    <3>1. d = c /\ cac(n, i) = "N" /\ ~ reached
      BY <1>3, <1>4, <1>5, <2>8
    <3>2. k = l /\ sj = s
      BY <3>1 DEF Fed, Told
    <3> HIDE DEF k, sj
    <3>3. QED
      BY <2>2, <2>5, <3>1, <3>2
  <2>9. QED
    BY <1>5, <2>6, <2>7, <2>8
<1> HIDE DEF k, sj
<1>8. PsCoveredAt(n, i + 1, k, sj)
  BY <1>6, <1>7 DEF PsCoveredAt, d
<1>9. QED
  BY <1>8 DEF k, sj, a

LEMMA NothingCovered ==
  ASSUME NEW f \in LruCaches, NEW c
  PROVE  LET s == [b \in Line |-> {}]
         IN  s \in [Line -> SUBSET Line] /\ History(f, {}, s) /\ PsCacheCovers({}, s, c)
BY DEF History, PsCacheCovers, PsCovers, LruCaches

LEMMA PsEntered ==
  ASSUME TypeInv, phase = "PS", NEW n \in prog.inLoop, NEW l, NEW s, PsCacheCovers(l, s, acs_in[n])
  PROVE  PsCoveredAt(n, 1, l, s)
<1>1. ~ Simulates(n, 1)
  <2>1. \A j \in Accesses(n) : j \in Nat /\ j >= 1
    BY AccessFacts, ProgramFacts DEF TypeInv, Node
  <2>2. QED
    BY <2>1 DEF Simulates
<1>2. QED
  BY <1>1, PsSeenFacts DEF PsCoveredAt

(* Where the program is entered, or a loop from outside it. *)
LEMMA LoopEntered ==
  ASSUME TypeInv, phase = "PS", NEW n \in Node, NEW f \in LruCaches, NEW M \in Misses,
         \A x \in M : n \in Reachable(prog.edges, {x[1]}),
         n \in prog.inLoop =>
            \A x \in M : ~ (x[1] \in prog.inLoop /\ x[1] \in Reachable(prog.edges, {n}))
  PROVE  <<n, 1, f, M>> \in Persisted
<1>1. prog \in Programs
  BY DEF TypeInv
<1>2. 1 \in 1 .. Len(prog.code[n]) + 1 /\ 1 \in Nat
  BY <1>1, AccessFacts
<1>3. ASSUME n \in prog.inLoop
      PROVE  \E l, s : History(f, l, s) /\ PsCoveredAt(n, 1, l, s) /\ MissesSeen(n, l, M)
  <2> DEFINE s == [b \in Line |-> {}]
  <2>1. History(f, {}, s) /\ PsCacheCovers({}, s, acs_in[n])
    BY NothingCovered
  <2> HIDE DEF s
  <2>2. PsCoveredAt(n, 1, {}, s)
    BY <1>3, <2>1, PsEntered
  <2>3. MissesSeen(n, {}, M)
    BY <1>3 DEF MissesSeen
  <2>4. QED
    BY <2>1, <2>2, <2>3
<1>4. QED
  BY <1>2, <1>3 DEF Persisted

LEMMA PersistedFetch ==
  ASSUME TypeInv, ClassInv, UnclassifiedInv, phase = "PS",
         NEW n \in Node, NEW i \in Accesses(n), NEW f \in LruCaches, NEW M \in Misses,
         NEW reached \in Reaching(cac(n, i)), <<n, i, f, M>> \in Persisted
  PROVE  <<n, i + 1, After(n, i, f, reached), Missing(n, i, f, M, reached)>> \in Persisted
<1> DEFINE g == After(n, i, f, reached)
           N == Missing(n, i, f, M, reached)
           a == LineAt(n, i)
<1>1. /\ prog \in Programs /\ IsFiniteSet(prog.edges)
      /\ prog.code[n][i] \in Address /\ a \in Line /\ a = computeStartLine(prog.code[n][i])
      /\ i + 1 \in 1 .. Len(prog.code[n]) + 1 /\ i \in Nat /\ i + 1 \in Nat
  BY AccessFacts, ProgramFacts, Geometry DEF TypeInv, LineAt
<1>2. g \in LruCaches
  BY <1>1, AccessedCache DEF After, LineAt
<1>3. N \in Misses /\ (N = M \/ (N = M \cup {<<n, i>>} /\ reached))
  BY <1>1 DEF Missing, Misses
<1>4. n \in Reachable(prog.edges, {n})
  BY <1>1, ReachableStart
<1> HIDE DEF a, N
<1>5. \A x \in N : n \in Reachable(prog.edges, {x[1]})
  <2>1. \A x \in M : n \in Reachable(prog.edges, {x[1]})
    BY DEF Persisted
  <2>2. \A x \in N : x \in M \/ x = <<n, i>>
    BY <1>3
  <2>3. <<n, i>>[1] = n
    OBVIOUS
  <2>4. QED
    BY <1>4, <2>1, <2>2, <2>3
<1>6. ASSUME n \in prog.inLoop
      PROVE  \E l, s : History(g, l, s) /\ PsCoveredAt(n, i + 1, l, s) /\ MissesSeen(n, l, N)
  <2>1. PICK l, s : History(f, l, s) /\ PsCoveredAt(n, i, l, s) /\ MissesSeen(n, l, M)
    BY <1>6 DEF Persisted
  <2>2. l \in SUBSET Line /\ s \in [Line -> SUBSET Line]
    BY <2>1 DEF History
  <2> DEFINE k == Fed(l, a, reached)
             sj == Told(l, s, a, reached)
  <2>3. PsCoveredAt(n, i + 1, k, sj)
    BY <1>6, <2>1, <2>2, PsFetchCovered DEF a
  <2>4. History(g, k, sj)
    <3>1. CASE reached
      BY <1>1, <2>1, <3>1, HistoryStep DEF Fed, Told, After, a
    <3>2. CASE ~ reached
      BY <2>1, <3>2 DEF Fed, Told, After
    <3>3. QED
      BY <3>1, <3>2
  <2>5. MissesSeen(n, k, N)
    <3>1. l \subseteq k /\ (reached => a \in k)
      BY DEF Fed
    <3> HIDE DEF k
    <3>2. ASSUME NEW x \in N, x[1] \in prog.inLoop, x[1] \in Reachable(prog.edges, {n})
          PROVE  LineAt(x[1], x[2]) \in k
      <4>1. CASE x \in M
        BY <2>1, <3>1, <3>2, <4>1 DEF MissesSeen
      <4>2. CASE x = <<n, i>> /\ reached
        BY <3>1, <4>2 DEF a
      <4>3. QED
        BY <1>3, <3>2, <4>1, <4>2
    <3>3. QED
      BY <3>2 DEF MissesSeen
  <2> HIDE DEF k, sj
  <2>6. QED
    BY <2>3, <2>4, <2>5
<1> HIDE DEF g
<1>7. <<n, i + 1, g, N>> \in Persisted
  BY <1>1, <1>2, <1>3, <1>5, <1>6 DEF Persisted
<1>8. QED
  BY <1>7 DEF g, N

(* Every node of the loops has its fixed point of PS.                      *)
LEMMA LoopsSolved ==
  ASSUME TypeInv, FixInv, phase = "PS", Stable, LoopsClosed(prog), HeadsAccess(prog)
  PROVE  \A n \in prog.inLoop : Solved("PS", n) /\ Joined("PS", n)
<1>1. GrowInv("PS") /\ "PS" \in {"PS", "MAY"}
  BY DEF FixInv
<1>2. \A n \in Reachable(Followed("PS"), Starts("PS")) : Solved("PS", n) /\ Joined("PS", n)
  BY <1>1, GrowReaches
<1>3. prog.inLoop \subseteq Reachable(Followed("PS"), Starts("PS"))
  BY DEF LoopsClosed, Followed, Starts
<1>4. QED
  BY <1>2, <1>3

(* A loop entered from outside it: what missed there is not executed any   *)
(* more.                                                                   *)
LEMMA PersistedEntering ==
  ASSUME TypeInv, phase = "PS", LoopsClosed(prog),
         NEW e \in prog.edges, NEW f \in LruCaches, NEW M \in Misses,
         <<e[1], Len(prog.code[e[1]]) + 1, f, M>> \in Persisted,
         ~ (e[1] \in prog.inLoop /\ e[2] \in prog.inLoop)
  PROVE  <<e[2], 1, f, M>> \in Persisted
<1> DEFINE n == e[1]
           m == e[2]
<1>1. /\ prog \in Programs /\ IsFiniteSet(prog.edges) /\ n \in Node /\ m \in Node
  BY ProgramFacts DEF TypeInv, Node
<1>2. \A x \in M : n \in Reachable(prog.edges, {x[1]})
  BY DEF Persisted
<1>3. \A x \in M : m \in Reachable(prog.edges, {x[1]})
  BY <1>1, <1>2, ReachableClosed
<1>4. m \in Reachable(prog.edges, {n})
  <2>1. n \in Reachable(prog.edges, {n})
    BY <1>1, ReachableStart
  <2>2. QED
    BY <1>1, <2>1, ReachableClosed
<1>5. Reachable(prog.edges, {m}) \subseteq Reachable(prog.edges, {n})
  BY <1>1, <1>4, ReachableTransitive
<1> HIDE DEF n, m
<1>6. ASSUME m \in prog.inLoop, NEW x \in M, x[1] \in prog.inLoop, x[1] \in Reachable(prog.edges, {m})
      PROVE  FALSE
  <2>1. x[1] \in Reachable(prog.edges, {n}) /\ n \in Reachable(prog.edges, {x[1]})
    BY <1>2, <1>5, <1>6
  <2>2. n \in prog.inLoop
    BY <1>6, <2>1 DEF LoopsClosed
  <2>3. QED
    BY <1>6, <2>2 DEF n, m
<1>7. <<m, 1, f, M>> \in Persisted
  BY <1>1, <1>3, <1>6, LoopEntered
<1>8. QED
  BY <1>7 DEF m

LEMMA PersistedBranch ==
  ASSUME TypeInv, FixInv, phase = "PS", Stable, LoopsClosed(prog), HeadsAccess(prog),
         NEW e \in prog.edges, NEW f \in LruCaches, NEW M \in Misses,
         <<e[1], Len(prog.code[e[1]]) + 1, f, M>> \in Persisted,
         e[1] \in prog.inLoop, e[2] \in prog.inLoop
  PROVE  <<e[2], 1, f, M>> \in Persisted
<1> DEFINE n == e[1]
           m == e[2]
           preds == Predecessors(Followed("PS"), m)
           seq == SetToSeq(preds)
           out == [p \in preds |-> acs_out[p]]
<1>1. /\ prog \in Programs /\ IsFiniteSet(prog.edges) /\ n \in Node /\ m \in Node
      /\ n \in prog.inLoop /\ m \in prog.inLoop /\ "PS" \in FixPoints
      /\ acs_out \in [prog.inLoop -> PsCaches] /\ Nodes("PS") = prog.inLoop
  BY ProgramFacts DEF TypeInv, Node, FixPoints, FixPointType, Nodes, AnalysisOf, ACS
<1>2. /\ acs_out[n] = compute_ACS_out("PS", n)
      /\ preds # {} => acs_in[m] = JoinOf("PS", seq, out)
  BY <1>1, LoopsSolved DEF Solved, Joined, JoinOfPredecessors
<1>3. n \in preds
  <2>1. e \in Followed("PS") /\ e = <<n, m>>
    BY <1>1, ProgramFacts DEF Followed
  <2>2. QED
    BY <2>1 DEF Predecessors
<1>4. /\ preds \subseteq prog.inLoop /\ Len(seq) \in Nat \ {0}
      /\ \A i \in 1 .. Len(seq) : seq[i] \in preds
      /\ \E i \in 1 .. Len(seq) : seq[i] = n
  BY <1>1, <1>3, PredecessorsFacts
<1> HIDE DEF preds, seq
<1>5. PICK i \in 1 .. Len(seq) : seq[i] = n
  BY <1>4
<1>6. /\ \A k \in 1 .. Len(seq) : out[seq[k]] \in PsCaches
      /\ out[seq[i]] = acs_out[n]
  BY <1>1, <1>3, <1>4, <1>5
<1> HIDE DEF out
<1>7. PICK l, s : /\ History(f, l, s) /\ PsCoveredAt(n, Len(prog.code[n]) + 1, l, s)
                  /\ MissesSeen(n, l, M)
  BY <1>1 DEF Persisted
<1>8. PsCacheCovers(l, s, acs_out[n])
  <2>1. Before("PS", n, Len(prog.code[n]) + 1) = acs_out[n]
    BY <1>1, <1>2, PsSeenFacts
  <2>2. QED
    BY <1>7, <2>1 DEF PsCoveredAt
<1>9. PsCacheCovers(l, s, JoinOf("PS", seq, out))
  <2>1. PsCacheCovers(l, s, out[seq[i]])
    BY <1>6, <1>8
  <2>2. QED
    BY <1>4, <1>5, <1>6, <2>1, JoinOfCovers
<1>10. PsCoveredAt(m, 1, l, s)
  <2>1. PsCacheCovers(l, s, acs_in[m])
    BY <1>2, <1>3, <1>9
  <2> HIDE DEF m
  <2>2. QED
    BY <1>1, <2>1, PsEntered
<1>11. \A x \in M : m \in Reachable(prog.edges, {x[1]})
  <2>1. \A x \in M : n \in Reachable(prog.edges, {x[1]})
    BY DEF Persisted
  <2>2. QED
    BY <1>1, <2>1, ReachableClosed
<1>12. MissesSeen(m, l, M)
  <2>1. n \in Reachable(prog.edges, {n})
    BY <1>1, ReachableStart
  <2>2. m \in Reachable(prog.edges, {n})
    BY <1>1, <2>1, ReachableClosed
  <2>3. Reachable(prog.edges, {m}) \subseteq Reachable(prog.edges, {n})
    BY <1>1, <2>2, ReachableTransitive
  <2>4. QED
    BY <1>7, <2>3 DEF MissesSeen
<1>13. 1 \in 1 .. Len(prog.code[m]) + 1 /\ 1 \in Nat
  BY <1>1, AccessFacts
<1> HIDE DEF m
<1>14. <<m, 1, f, M>> \in Persisted
  BY <1>1, <1>7, <1>10, <1>11, <1>12, <1>13 DEF Persisted
<1>15. QED
  BY <1>14 DEF m

LEMMA PersistedClosed ==
  ASSUME TypeInv, FixInv, ClassInv, UnclassifiedInv, phase = "PS", Stable,
         LoopsClosed(prog), HeadsAccess(prog)
  PROVE  ClosedRun(Persisted)
<1>1. <<prog.entry, 1, Lru!Cold, {}>> \in Persisted
  <2>1. prog.entry \in Node /\ {} \in Misses
    BY EntryFacts DEF TypeInv, Misses
  <2>2. QED
    BY <2>1, ColdCache, LoopEntered
<1>2. \A n \in Node : \A i \in Accesses(n) : \A f \in LruCaches : \A M \in Misses :
      \A reached \in Reaching(cac(n, i)) :
         <<n, i, f, M>> \in Persisted
           => <<n, i + 1, After(n, i, f, reached), Missing(n, i, f, M, reached)>> \in Persisted
  BY PersistedFetch
<1>3. \A e \in prog.edges : \A f \in LruCaches : \A M \in Misses :
        <<e[1], Len(prog.code[e[1]]) + 1, f, M>> \in Persisted => <<e[2], 1, f, M>> \in Persisted
  BY PersistedEntering, PersistedBranch
<1>4. QED
  BY <1>1, <1>2, <1>3 DEF ClosedRun

(* In all the states of a closed set, an access that missed before hits.   *)
FirstMissHits(n, i) ==
  \E R : /\ ClosedRun(R)
         /\ \A f \in LruCaches : \A M \in Misses :
               <<n, i, f, M>> \in R /\ <<n, i>> \in M => Lru!Cached(f, LineAt(n, i))

PersistInv ==
  /\ UnclassifiedInv
  /\ LoopsClosed(prog) /\ HeadsAccess(prog) =>
       \A n \in Node : \A i \in Accesses(n) :
          chmc[n][i] = "FM" /\ SimulatedUpTo(n, i) => FirstMissHits(n, i)

LEMMA PersistentHits ==
  ASSUME TypeInv, FixInv, ClassInv, UnclassifiedInv, phase = "PS", Stable,
         LoopsClosed(prog), HeadsAccess(prog),
         NEW n \in prog.inLoop, NEW i \in Accesses(n), SimulatedUpTo(n, i),
         ~ Absent("PS", PsSeen(n, i), prog.code[n][i])
  PROVE  FirstMissHits(n, i)
<1>1. /\ prog \in Programs /\ n \in Node /\ IsFiniteSet(prog.edges)
  BY ProgramFacts DEF TypeInv, Node
<1>2. /\ prog.code[n][i] \in Address /\ i \in 1 .. Len(prog.code[n]) + 1
      /\ LineAt(n, i) = computeStartLine(prog.code[n][i])
  BY <1>1, AccessFacts DEF LineAt
<1>3. PsSeen(n, i) \in PsCaches
  BY <1>2, PsSeenFacts
<1>4. n \in Reachable(prog.edges, {n})
  BY <1>1, ReachableStart
<1>5. ASSUME NEW f \in LruCaches, NEW M \in Misses, <<n, i, f, M>> \in Persisted, <<n, i>> \in M
      PROVE  Lru!Cached(f, LineAt(n, i))
  <2>1. PICK l, s : History(f, l, s) /\ PsCoveredAt(n, i, l, s) /\ MissesSeen(n, l, M)
    BY <1>5 DEF Persisted
  <2>2. LineAt(n, i) \in l
    <3>1. <<n, i>>[1] = n /\ <<n, i>>[2] = i
      OBVIOUS
    <3>2. QED
      BY <1>4, <1>5, <2>1, <3>1 DEF MissesSeen
  <2>3. PsCacheCovers(l, s, PsSeen(n, i))
    BY <2>1 DEF PsCoveredAt
  <2>4. Lru!Cached(f, computeStartLine(prog.code[n][i]))
    BY <1>2, <1>3, <2>1, <2>2, <2>3, CoveredHit
  <2>5. QED
    BY <1>2, <2>4
<1>6. ClosedRun(Persisted)
  BY PersistedClosed
<1>7. QED
  BY <1>5, <1>6 DEF FirstMissHits

(* A verdict on the program does not depend on the state of the analysis.  *)
LEMMA SameProgram ==
  ASSUME prog' = prog
  PROVE  /\ Node' = Node
         /\ \A n : Accesses(n)' = Accesses(n)
         /\ \A n, i : FirstMissHits(n, i)' = FirstMissHits(n, i)
         /\ LoopsClosed(prog)' = LoopsClosed(prog) /\ HeadsAccess(prog)' = HeadsAccess(prog)
<1>1. Node' = Node /\ \A n : Accesses(n)' = Accesses(n)
  BY DEF Node, Accesses
<1>2. \A n, i : FirstMissHits(n, i)' = FirstMissHits(n, i)
  BY DEF FirstMissHits, ClosedRun, After, Missing, Misses, LineAt, Node, Accesses, cac
<1>3. LoopsClosed(prog)' = LoopsClosed(prog) /\ HeadsAccess(prog)' = HeadsAccess(prog)
  BY DEF LoopsClosed, HeadsAccess
<1>4. QED
  BY <1>1, <1>2, <1>3

LEMMA SameHits ==
  ASSUME prog' = prog,
         \A n \in Node : \A i \in Accesses(n) : chmc'[n][i] = "AH" <=> chmc[n][i] = "AH"
  PROVE  \A n \in Node : \A i : SimulatedUpTo(n, i)' <=> SimulatedUpTo(n, i)
<1>1. Node' = Node /\ \A n : /\ Accesses(n)' = Accesses(n)
                             /\ \A i : cac(n, i)' = cac(n, i) /\ LineAt(n, i)' = LineAt(n, i)
  BY DEF Node, Accesses, cac, LineAt
<1>2. ASSUME NEW n \in Node, NEW k
      PROVE  Simulates(n, k)' <=> Simulates(n, k)
  BY <1>1 DEF Simulates
<1>3. QED
  BY <1>1, <1>2 DEF SimulatedUpTo

LEMMA PersistKept ==
  ASSUME PersistInv, prog' = prog, Pending("PS")' => Pending("PS"),
         \A n \in Node : \A i \in Accesses(n) :
            /\ chmc'[n][i] = "AH" <=> chmc[n][i] = "AH"
            /\ chmc'[n][i] = "FM" => chmc[n][i] = "FM"
            /\ chmc'[n][i] = "AM" => chmc[n][i] = "AM" \/ ~ Pending("PS")'
  PROVE  PersistInv'
<1>1. UnclassifiedInv'
  BY SameProgram DEF PersistInv, UnclassifiedInv
<1>2. ASSUME LoopsClosed(prog)', HeadsAccess(prog)', NEW n \in Node, NEW i \in Accesses(n),
             chmc'[n][i] = "FM", SimulatedUpTo(n, i)'
      PROVE  FirstMissHits(n, i)'
  <2>1. chmc[n][i] = "FM" /\ SimulatedUpTo(n, i) /\ LoopsClosed(prog) /\ HeadsAccess(prog)
    BY <1>2, SameProgram, SameHits
  <2>2. FirstMissHits(n, i)
    BY <2>1 DEF PersistInv
  <2>3. QED
    BY <2>2, SameProgram
<1>3. QED
  BY <1>1, <1>2, SameProgram DEF PersistInv

LEMMA ClassifyPersists ==
  ASSUME TypeInv, FixInv, ClassInv, PersistInv, Classify
  PROVE  PersistInv'
<1> DEFINE t == phase
           Was(n, i) == Simulated(t, acs_in[n], prog.code[n], prog.access[n], Classified(n))[i - 1]
           Present(n, i) == ~ Absent(t, Was(n, i), prog.code[n][i])
<1>1. /\ t \in Analysis /\ AnalysisOf(t) = t /\ t \in FixPoints /\ Stable /\ phase' = "idle"
      /\ prog' = prog /\ todo' = todo /\ Nodes(t) \subseteq Node /\ prog \in Programs
      /\ \A n \in Node \ Nodes(t) : \A i \in Accesses(n) : chmc'[n][i] = chmc[n][i]
      /\ \A n \in Nodes(t) : \A i \in Accesses(n) :
              chmc'[n][i] = IF i \in Classified(n) THEN chmc[n][i]
                            ELSE IF cac(n, i) = "N" THEN "AU"
                            ELSE Verdict(t, Present(n, i))
  BY ClassifyFacts DEF TypeInv
<1> HIDE DEF Present
<1>2. \A n, i : Present(n, i) \in BOOLEAN
  BY DEF Present
<1>3. \A p \in BOOLEAN : /\ Verdict(t, p) \in {"AH", "FM", "AM", "none"}
                         /\ Verdict(t, p) = "AM" => t = "MAY"
                         /\ Verdict(t, p) = "AH" => t = "MUST"
                         /\ Verdict(t, p) = "FM" => t = "PS" /\ p
  BY <1>1 DEF Verdict, Analysis
<1>4. ASSUME NEW n \in Node, NEW i \in Accesses(n)
      PROVE  \/ chmc'[n][i] = chmc[n][i]
             \/ /\ chmc[n][i] = "none" /\ n \in Nodes(t) /\ i \notin Classified(n)
                /\ chmc'[n][i] = "AU" \/ chmc'[n][i] = Verdict(t, Present(n, i))
  BY <1>1 DEF Classified
<1>5. AnalysisOf(phase)' = "idle" /\ t \notin todo /\ Earlier(t) \cap todo = {}
  BY <1>1 DEF AnalysisOf, ClassInv, PendingInv
<1>6. Pending("PS")' => "PS" \in todo /\ t = "MUST"
  BY <1>1, <1>5 DEF Pending, Analysis, Earlier
<1>7. UnclassifiedInv /\ ("PS" \in todo => Pending("PS"))
  BY DEF PersistInv, Pending
<1>8. UnclassifiedInv'
  <2>1. SUFFICES ASSUME Pending("PS")', NEW n \in Node, NEW i \in Accesses(n)
                 PROVE  chmc'[n][i] \notin {"FM", "AM"}
    BY <1>1, SameProgram DEF UnclassifiedInv
  <2>2. chmc[n][i] \notin {"FM", "AM"} /\ t = "MUST"
    BY <1>6, <1>7, <2>1 DEF UnclassifiedInv
  <2>3. QED
    BY <1>2, <1>3, <1>4, <2>2
<1>9. CASE t = "MUST"
  <2>1. \A n \in Node : \A i \in Accesses(n) : chmc[n][i] = "none"
    BY <1>1, <1>9 DEF ClassInv, PendingInv, Pending
  <2>2. ASSUME NEW n \in Node, NEW i \in Accesses(n)
        PROVE  chmc'[n][i] # "FM"
    BY <1>2, <1>3, <1>4, <1>9, <2>1
  <2>3. QED
    BY <1>1, <1>8, <2>2, SameProgram DEF PersistInv
<1>10. CASE t \in {"PS", "MAY"}
  <2>1. \A n \in Node : \A i \in Accesses(n) : chmc'[n][i] = "AH" <=> chmc[n][i] = "AH"
    BY <1>2, <1>3, <1>4, <1>10
  <2>2. SUFFICES ASSUME LoopsClosed(prog), HeadsAccess(prog), NEW n \in Node, NEW i \in Accesses(n),
                        chmc'[n][i] = "FM", SimulatedUpTo(n, i)
                 PROVE  FirstMissHits(n, i)
    BY <1>1, <1>8, <2>1, SameProgram, SameHits DEF PersistInv
  <2>3. CASE chmc[n][i] = "FM"
    BY <2>2, <2>3 DEF PersistInv
  <2>4. CASE chmc[n][i] # "FM"
    <3>1. /\ n \in Nodes(t) /\ i \notin Classified(n)
          /\ chmc'[n][i] = Verdict(t, Present(n, i))
      BY <1>4, <2>2, <2>4
    <3>2. t = "PS" /\ Present(n, i)
      BY <1>2, <1>3, <2>2, <3>1
    <3>3. n \in prog.inLoop /\ ~ Absent("PS", PsSeen(n, i), prog.code[n][i])
      BY <3>1, <3>2 DEF Nodes, Present, PsSeen
    <3>4. QED
      BY <1>1, <1>7, <2>2, <3>2, <3>3, PersistentHits
  <2>5. QED
    BY <2>3, <2>4
<1>11. QED
  BY <1>1, <1>9, <1>10 DEF Analysis

LEMMA PersistStep ==
  TypeInv /\ FixInv /\ ClassInv /\ PersistInv /\ [Next]_vars => PersistInv'
<1>1. SUFFICES ASSUME TypeInv, FixInv, ClassInv, PersistInv, [Next]_vars
               PROVE  PersistInv'
  OBVIOUS
<1>2. CASE Classify
  BY <1>1, <1>2, ClassifyPersists
<1>3. CASE EndAnalysis
  <2>1. /\ prog' = prog /\ phase' = "done" /\ todo' = todo /\ todo = {}
        /\ \A n \in Node : \A i \in Accesses(n) :
              chmc'[n][i] = IF chmc[n][i] = "none" THEN "NC" ELSE chmc[n][i]
    BY <1>3 DEF EndAnalysis
  <2>2. ~ Pending("PS")'
    BY <2>1 DEF Pending, AnalysisOf
  <2>3. QED
    BY <1>1, <2>1, <2>2, PersistKept
<1>4. CASE StartAnalysis
  <2>1. PICK t \in todo : /\ todo' = todo \ {t} /\ UNCHANGED <<prog, chmc>>
                          /\ phase' = IF t = "MUST" THEN "FixPointMust1stStep" ELSE t
    BY <1>4 DEF StartAnalysis
  <2>2. Pending("PS")' => Pending("PS")
    BY <2>1 DEF Pending, AnalysisOf
  <2>3. QED
    BY <1>1, <2>1, <2>2, PersistKept
<1>5. CASE ~ Classify /\ ~ EndAnalysis /\ ~ StartAnalysis
  <2>1. prog' = prog /\ chmc' = chmc /\ todo' = todo
    BY <1>1, <1>5 DEF Next, Analyse, FixPointMust1stStep, EndFixPointMust1stStep,
                      MustAnalysis, PSAnalysis, MayAnalysis, Round, Fetch, Branch, vars
  <2>2. AnalysisOf(phase)' = AnalysisOf(phase)
    BY <1>1, <1>5 DEF Next, Analyse, FixPointMust1stStep, EndFixPointMust1stStep,
                      MustAnalysis, PSAnalysis, MayAnalysis, Round, Fetch, Branch, vars, AnalysisOf
  <2>3. QED
    BY <1>1, <2>1, <2>2, PersistKept DEF Pending
<1>6. QED
  BY <1>2, <1>3, <1>4, <1>5

(* The execution stays within every closed set.                            *)
RunInv ==
  /\ missed \in Misses
  /\ \A R : ClosedRun(R) => <<pc[1], pc[2], age, missed>> \in R

LEMMA RunStep == TypeInv /\ ExecutionInv /\ RunInv /\ [Next]_vars => RunInv'
<1>1. SUFFICES ASSUME TypeInv, ExecutionInv, RunInv, [Next]_vars
               PROVE  RunInv'
  OBVIOUS
<1> DEFINE n == pc[1]
           i == pc[2]
<1>2. /\ prog \in Programs /\ n \in Node /\ i \in Nat /\ pc = <<n, i>> /\ age \in LruCaches
      /\ missed \in Misses /\ i \in 1 .. Len(prog.code[n]) + 1 /\ Len(prog.code[n]) \in Nat
  BY <1>1, AccessFacts DEF TypeInv, ExecutionInv, RunInv
<1>3. prog' = prog
  BY <1>1 DEF Next, Analyse, StartAnalysis, FixPointMust1stStep, EndFixPointMust1stStep,
              MustAnalysis, PSAnalysis, MayAnalysis, Round, Classify, EndAnalysis, Fetch, Branch, vars
<1>4. Misses' = Misses /\ \A R : ClosedRun(R)' = ClosedRun(R)
  BY <1>3 DEF ClosedRun, After, Missing, Misses, LineAt, Node, Accesses, cac
<1>5. CASE Fetch
  <2>1. i \in Accesses(n)
    BY <1>5 DEF Fetch, Running
  <2>2. PICK reached \in Reaching(cac(n, i)) : /\ age' = After(n, i, age, reached)
                                              /\ missed' = Missing(n, i, age, missed, reached)
    BY <1>2, <1>5 DEF Fetch, After, Missing, Hit
  <2>3. pc' = <<n, i + 1>>
    BY <1>5 DEF Fetch
  <2>4. missed' \in Misses
    BY <1>2, <2>2 DEF Missing, Misses
  <2> HIDE DEF n, i
  <2>5. ASSUME NEW R, ClosedRun(R)
        PROVE  <<n, i + 1, age', missed'>> \in R
    <3>1. <<n, i, age, missed>> \in R
      BY <1>1, <2>5 DEF RunInv, n, i
    <3>2. QED
      BY <1>2, <2>1, <2>2, <2>5, <3>1 DEF ClosedRun
  <2>6. QED
    BY <1>4, <2>3, <2>4, <2>5 DEF RunInv
<1>6. CASE Branch
  <2>1. PICK m \in Successors(prog.edges, n) :
          pc' = <<m, 1>> /\ age' = age /\ missed' = missed /\ i > Len(prog.code[n])
    BY <1>6 DEF Branch
  <2>2. PICK e \in prog.edges : e[1] = n /\ e[2] = m
    BY <2>1 DEF Successors
  <2>3. i = Len(prog.code[n]) + 1
    BY <1>2, <2>1
  <2> HIDE DEF n, i
  <2>4. ASSUME NEW R, ClosedRun(R)
        PROVE  <<m, 1, age, missed>> \in R
    <3>1. <<n, i, age, missed>> \in R
      BY <1>1, <2>4 DEF RunInv, n, i
    <3>2. QED
      BY <1>2, <2>2, <2>3, <2>4, <3>1 DEF ClosedRun
  <2>5. QED
    BY <1>2, <1>4, <2>1, <2>4 DEF RunInv
<1>7. CASE ~ Fetch /\ ~ Branch
  <2>1. pc' = pc /\ age' = age /\ missed' = missed
    BY <1>1, <1>7 DEF Next, Analyse, StartAnalysis, FixPointMust1stStep, EndFixPointMust1stStep,
                      MustAnalysis, PSAnalysis, MayAnalysis, Round, Classify, EndAnalysis, vars, executionVars
  <2>2. QED
    BY <1>1, <1>4, <2>1 DEF RunInv
<1>8. QED
  BY <1>5, <1>6, <1>7

LEMMA FirstMissInit == Init => PersistInv /\ RunInv
<1>1. SUFFICES ASSUME Init
               PROVE  PersistInv /\ RunInv
  OBVIOUS
<1>2. /\ \A n \in Node : \A i \in Accesses(n) : chmc[n][i] = "none"
      /\ pc = <<prog.entry, 1>> /\ age = Lru!Cold /\ missed = {}
  BY <1>1 DEF Init
<1>3. PersistInv
  BY <1>2 DEF PersistInv, UnclassifiedInv
<1>4. RunInv
  BY <1>2 DEF RunInv, ClosedRun, Misses
<1>5. QED
  BY <1>3, <1>4

(* An access classified "first miss" that missed once always hits, in the  *)
(* programs whose loops are closed and whose heads access this level, when *)
(* the lines of the always-hit accesses the classification skips were      *)
(* simulated before.  ICacheAnalysis.cc                                    *)
THEOREM FirstMissSound ==
  Spec => [](LoopsClosed(prog) /\ HeadsAccess(prog) /\ HitsSimulated => FirstMissHitsLater)
<1>1. /\ TypeInv /\ Inv /\ PersistInv /\ RunInv /\ [Next]_vars => PersistInv' /\ RunInv'
      /\ Init => PersistInv /\ RunInv
  BY PersistStep, RunStep, FirstMissInit DEF Inv
<1>2. TypeInv /\ Inv /\ PersistInv /\ RunInv
        => (LoopsClosed(prog) /\ HeadsAccess(prog) /\ HitsSimulated => FirstMissHitsLater)
  <2>1. SUFFICES ASSUME TypeInv, Inv, PersistInv, RunInv, LoopsClosed(prog), HeadsAccess(prog),
                        HitsSimulated, Running, Class = "FM", pc \in missed
                 PROVE  Hit
    BY DEF FirstMissHitsLater
  <2> DEFINE n == pc[1]
             i == pc[2]
  <2>2. /\ n \in Node /\ i \in Accesses(n) /\ age \in LruCaches /\ pc = <<n, i>>
        /\ missed \in Misses /\ chmc[n][i] = "FM"
        /\ \A R : ClosedRun(R) => <<n, i, age, missed>> \in R
    BY <2>1 DEF Inv, ExecutionInv, RunInv, Running, Class
  <2> HIDE DEF n, i
  <2>3. SimulatedUpTo(n, i)
    BY <2>1, <2>2 DEF HitsSimulated
  <2>4. PICK R : /\ ClosedRun(R)
                 /\ \A f \in LruCaches : \A M \in Misses :
                       <<n, i, f, M>> \in R /\ <<n, i>> \in M => Lru!Cached(f, LineAt(n, i))
    BY <2>1, <2>2, <2>3 DEF PersistInv, FirstMissHits
  <2>5. <<n, i>> \in missed
    BY <2>1, <2>2
  <2>6. Lru!Cached(age, LineAt(n, i))
    BY <2>2, <2>4, <2>5
  <2>7. QED
    BY <2>6 DEF Hit, n, i
<1>3. QED
  BY <1>1, <1>2, Invariance, TypeCorrectness, PTL DEF Spec
=============================================================================
