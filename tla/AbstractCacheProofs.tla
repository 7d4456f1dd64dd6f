------------------------ MODULE AbstractCacheProofs ------------------------
(***************************************************************************)
(* The MUST and the MAY caches are well formed and sound, the persistence  *)
(* caches forget no access and are sound, for any number of ways and sets, *)
(* any addresses and any executions.  The copy-on-write pointers that hold *)
(* their sets count their owners exactly, and every pointer behaves as a   *)
(* variable of its own, for any number of pointers.                        *)
(***************************************************************************)
EXTENDS AbstractCaches, CopyOnWrite, CacheLemmas

-----------------------------------------------------------------------------
(* The MUST caches. *)

(* The inductive invariant. *)
MustBounds ==
  \A p \in Path, s \in CacheSet : Bounds(age[p], must[p][s], s)

MustInv ==
  /\ analysis = "MUST"
  /\ MustTypeOK
  /\ MustWellFormed
  /\ MustBounds

MustIInv == analysis = "MUST" => MustInv

LEMMA InitMustInv == MustInit => MustInv
<1> SUFFICES ASSUME MustInit PROVE MustInv
  OBVIOUS
<1>1. age \in [Path -> Lru!Ages]
  BY DEF MustInit, WarmStart
<1>2. \A p \in Path, s \in CacheSet : must[p][s] = Must!Empty
  BY DEF MustInit, EmptyCache
<1>3. Must!Empty \in Must!Contents /\ Must!WellFormed(Must!Empty)
  BY GeometryAssumption DEF Must!Empty, Must!Contents, Must!WellFormed, Must!Way
<1>4. must \in [Path -> [CacheSet -> Must!Contents]]
  BY <1>3 DEF MustInit, EmptyCache
<1>5. \A f, s : Bounds(f, Must!Empty, s)
  BY DEF Bounds, Must!Empty
<1>6. QED
  BY <1>1, <1>2, <1>3, <1>4, <1>5 DEF MustInit, MustInv, MustTypeOK, MustWellFormed, MustBounds

(* One path changes: its ages to f, its MUST cache to m. *)
LEMMA MustPathStep ==
  ASSUME MustInv, analysis' = analysis, NEW p \in Path, NEW f \in Lru!Ages, NEW m \in MustCaches,
         MustWellFormedCache(m), CacheBounds(f, m),
         age' = [age EXCEPT ![p] = f], must' = [must EXCEPT ![p] = m]
  PROVE  MustInv'
<1>1. MustTypeOK'
  BY DEF MustInv, MustTypeOK, MustCaches
<1>2. \A q \in Path, s \in CacheSet :
         /\ age'[q] = IF q = p THEN f ELSE age[q]
         /\ must'[q][s] = IF q = p THEN m[s] ELSE must[q][s]
  BY DEF MustInv, MustTypeOK
<1>3. MustWellFormed'
  BY <1>2 DEF MustInv, MustWellFormed, MustWellFormedCache
<1>4. MustBounds'
  BY <1>2 DEF MustInv, MustBounds, CacheBounds
<1>5. QED
  BY <1>1, <1>3, <1>4 DEF MustInv

LEMMA MustPathFacts ==
  ASSUME MustInv, NEW p \in Path
  PROVE  /\ age[p] \in Lru!Ages
         /\ must[p] \in MustCaches
         /\ MustWellFormedCache(must[p])
         /\ CacheBounds(age[p], must[p])
  BY DEF MustInv, MustTypeOK, MustWellFormed, MustBounds, MustCaches, MustWellFormedCache, CacheBounds

LEMMA NextMustInv == MustInv /\ MustNext => MustInv'
<1> SUFFICES ASSUME MustInv, MustNext PROVE MustInv'
  OBVIOUS
<1>a. analysis' = analysis
  BY DEF MustNext
<1>0. \A p \in Path : age[p] \in Lru!Ages /\ age = [age EXCEPT ![p] = age[p]]
  BY DEF MustInv, MustTypeOK
<1>1. ASSUME NEW p \in Path, NEW addr \in Address, NEW cac \in CAC,
             MustAccess(p, addr, cac)
      PROVE  MustInv'
  <2> DEFINE m == UpdateLine(must[p], addr, cac, Must!Update, Must!Join)
             f == Lru!Access(age[p], computeStartLine(addr))
  <2>1. must' = [must EXCEPT ![p] = m]
    BY <1>1 DEF MustAccess, MustInv, MustTypeOK
  <2>2. /\ m \in MustCaches /\ MustWellFormedCache(m)
        /\ cac # "N" => CacheBounds(f, m)
        /\ cac # "A" => CacheBounds(age[p], m)
    BY MustPathFacts, MustUpdateLineSound
  <2>3. f \in Lru!Ages
    BY MustPathFacts, Geometry, AccessAges
  <2>4. \/ cac # "N" /\ age' = [age EXCEPT ![p] = f]
        \/ cac # "A" /\ age' = age
    BY <1>1 DEF MustAccess, Reach, Touch, MustInv, MustTypeOK
  <2> HIDE DEF m, f
  <2>5. QED
    BY <1>a, <1>0, <2>1, <2>2, <2>3, <2>4, MustPathStep
<1>2. ASSUME NEW p \in Path, NEW addrs \in (SUBSET Address) \ {{}}, NEW cac \in CAC,
             MustAccessOneOf(p, addrs, cac)
      PROVE  MustInv'
  <2> DEFINE m == UpdateLines(must[p], addrs, cac, Must!Update, Must!UpdateSet,
                              Must!Join)
             f(addr) == Lru!Access(age[p], computeStartLine(addr))
  <2>1. must' = [must EXCEPT ![p] = m]
    BY <1>2 DEF MustAccessOneOf, MustInv, MustTypeOK
  <2>2. addrs # {} /\ addrs \in SUBSET Address
    OBVIOUS
  <2>3. /\ m \in MustCaches /\ MustWellFormedCache(m)
        /\ cac # "N" => \A addr \in addrs : CacheBounds(f(addr), m)
        /\ cac # "A" => CacheBounds(age[p], m)
    BY <2>2, MustPathFacts, MustUpdateLinesSound
  <2>4. \A addr \in addrs : f(addr) \in Lru!Ages
    BY MustPathFacts, Geometry, AccessAges
  <2>5. \/ cac # "N" /\ \E addr \in addrs : age' = [age EXCEPT ![p] = f(addr)]
        \/ cac # "A" /\ age' = age
    BY <1>2 DEF MustAccessOneOf, Reach, Touch, MustInv, MustTypeOK
  <2> HIDE DEF m, f
  <2>6. CASE cac # "N" /\ \E addr \in addrs : age' = [age EXCEPT ![p] = f(addr)]
    BY <1>a, <2>1, <2>3, <2>4, <2>6, MustPathStep
  <2>7. CASE cac # "A" /\ age' = age
    BY <1>a, <1>0, <2>1, <2>3, <2>7, MustPathStep
  <2>8. QED
    BY <2>5, <2>6, <2>7
<1>3. ASSUME NEW p \in Path, NEW q \in Path, MustMerge(p, q)
      PROVE  MustInv'
  <2> DEFINE m == JoinCaches(must[p], must[q], Must!Join)
  <2>1. must' = [must EXCEPT ![p] = m, ![q] = m] /\ age' = age
    BY <1>3 DEF MustMerge
  <2>2. m \in MustCaches /\ MustWellFormedCache(m) /\ CacheBounds(age[p], m)
    BY MustPathFacts, MustJoinCachesSound
  <2>3. CacheBounds(age[q], m)
    BY MustPathFacts, MustJoinCachesSound
  <2> HIDE DEF m
  <2>4. MustTypeOK'
    BY <2>1, <2>2 DEF MustInv, MustTypeOK, MustCaches
  <2>5. \A r \in Path : must'[r] = IF r = p \/ r = q THEN m ELSE must[r]
    BY <2>1 DEF MustInv, MustTypeOK
  <2>6. MustWellFormed'
    BY <2>2, <2>5 DEF MustInv, MustWellFormed, MustWellFormedCache
  <2>7. MustBounds'
    BY <2>1, <2>2, <2>3, <2>5 DEF MustInv, MustBounds, CacheBounds
  <2>8. QED
    BY <1>a, <2>4, <2>6, <2>7 DEF MustInv
<1>4. QED
  BY <1>1, <1>2, <1>3 DEF MustNext

LEMMA MustInvSound == MustInv => MustSound
<1> SUFFICES ASSUME MustInv, NEW p \in Path, NEW a \in Line,
                    ~ Must!Absent(must[p][computeSet(a)], a)
             PROVE  /\ age[p][a] < nb_ways
                    /\ age[p][a] <= Must!GetAge(must[p][computeSet(a)], a)
  BY DEF MustSound, Lru!Cached
<1> DEFINE c == must[p][computeSet(a)]
<1>1. age[p] \in Lru!Ages /\ Bounds(age[p], c, computeSet(a))
  BY MustPathFacts, Geometry DEF CacheBounds
<1> HIDE DEF c
<1>2. age[p][a] <= Must!GetAge(c, a)
  BY <1>1, GetAgeBounds
<1>3. Must!GetAge(c, a) \in 0 .. nb_ways /\ Must!GetAge(c, a) < nb_ways
  BY GetAgeType, GeometryAssumption DEF Must!Absent, c
<1>4. age[p][a] \in Nat
  BY <1>1, GeometryAssumption DEF Lru!Ages
<1>5. QED
  BY <1>2, <1>3, <1>4, GeometryAssumption DEF c

(* Every reachable state satisfies the inductive invariant: the other      *)
(* analyses are followed in behaviours of their own.                       *)
LEMMA MustInvariance == Spec => []MustIInv
<1>1. Init => MustIInv
  BY InitMustInv DEF Init, MustIInv, MayInit, PsInit
<1>2. MustIInv /\ [Next]_vars => MustIInv'
  <2> SUFFICES ASSUME MustIInv, [Next]_vars, analysis' = "MUST" PROVE MustInv'
    BY DEF MustIInv
  <2>1. CASE MustNext
    BY <2>1, NextMustInv DEF MustIInv, MustNext
  <2>2. CASE MayNext \/ PsNext
    BY <2>2 DEF MayNext, PsNext
  <2>3. CASE UNCHANGED vars
    <3>1. MustInv /\ UNCHANGED <<analysis, age, must>>
      BY <2>3 DEF MustIInv, vars, mustVars
    <3>2. QED
      BY <3>1 DEF MustInv, MustTypeOK, MustWellFormed, MustBounds
  <2>4. QED
    BY <2>1, <2>2, <2>3 DEF Next
<1>3. QED
  BY <1>1, <1>2, PTL DEF Spec

(* The concrete ages and the MUST caches keep their types. *)
THEOREM MustTypeCorrect == Spec => [](analysis = "MUST" => MustTypeOK)
<1>1. MustIInv => (analysis = "MUST" => MustTypeOK)
  BY DEF MustIInv, MustInv
<1>2. QED
  BY <1>1, MustInvariance, PTL

(* The assertions of MUST::Update hold and the ways stay disjoint: the     *)
(* loops of Cache.cc never meet a set they were not written for.           *)
THEOREM MustSetsWellFormed == Spec => []MustWellFormed
<1>1. MustIInv => MustWellFormed
  BY DEF MustIInv, MustInv, MustWellFormed
<1>2. QED
  BY <1>1, MustInvariance, PTL

(* MUST is sound: what MUST::Absent and MUST::GetAge say of a line holds   *)
(* on every execution, whatever was cached when the program started.       *)
THEOREM MustSoundness == Spec => []MustSound
<1>1. MustIInv => MustSound
  BY MustInvSound DEF MustIInv, MustSound
<1>2. QED
  BY <1>1, MustInvariance, PTL

-----------------------------------------------------------------------------
(* The MAY caches. *)

MayCovers == \A p \in Path, s \in CacheSet : MaySetCovers(age[p], may[p][s], s)

(* The inductive invariant. *)
MayInv ==
  /\ analysis = "MAY"
  /\ MayTypeOK
  /\ \A p \in Path : Lru!Distinct(age[p])
  /\ MayWellFormed
  /\ MayCovers

MayIInv == analysis = "MAY" => MayInv

LEMMA InitMayInv == MayInit => MayInv
<1> SUFFICES ASSUME MayInit PROVE MayInv
  OBVIOUS
<1>1. \A p \in Path : age[p] = Lru!Cold
  BY DEF MayInit, ColdStart
<1>2. age \in [Path -> Lru!Ages]
  BY GeometryAssumption DEF MayInit, ColdStart, Lru!Cold, Lru!Ages
<1>3. \A p \in Path : Lru!Distinct(age[p])
  BY <1>1, GeometryAssumption DEF Lru!Cold, Lru!Distinct, Lru!Cached
<1>4. \A p \in Path, s \in CacheSet : may[p][s] = May!Empty
  BY DEF MayInit, EmptyCache
<1>5. May!Empty \in May!Contents /\ May!WellFormed(May!Empty)
  BY WayFacts DEF May!Empty, May!Contents, May!WellFormed
<1>6. may \in [Path -> [CacheSet -> May!Contents]]
  BY <1>5 DEF MayInit, EmptyCache
<1>7. \A p \in Path, s \in CacheSet : MaySetCovers(age[p], may[p][s], s)
  BY <1>1, GeometryAssumption DEF MaySetCovers, Lru!Cold
<1>8. QED
  BY <1>2, <1>3, <1>4, <1>5, <1>6, <1>7
     DEF MayInit, MayInv, MayTypeOK, MayWellFormed, MayCovers

(* One path changes: its ages to f, its MAY cache to m. *)
LEMMA MayPathStep ==
  ASSUME MayInv, analysis' = analysis, NEW p \in Path, NEW f \in Lru!Ages, Lru!Distinct(f),
         NEW m \in MayCaches, MayWellFormedCache(m), MayCacheCovers(f, m),
         age' = [age EXCEPT ![p] = f], may' = [may EXCEPT ![p] = m]
  PROVE  MayInv'
<1>1. MayTypeOK'
  BY DEF MayInv, MayTypeOK, MayCaches
<1>2. \A q \in Path, s \in CacheSet :
         /\ age'[q] = IF q = p THEN f ELSE age[q]
         /\ may'[q][s] = IF q = p THEN m[s] ELSE may[q][s]
  BY DEF MayInv, MayTypeOK
<1>3. \A q \in Path : Lru!Distinct(age'[q])
  BY <1>2 DEF MayInv, MayTypeOK
<1>4. MayWellFormed'
  BY <1>2 DEF MayInv, MayWellFormed, MayWellFormedCache
<1>5. MayCovers'
  BY <1>2 DEF MayInv, MayCovers, MayCacheCovers
<1>6. QED
  BY <1>1, <1>3, <1>4, <1>5 DEF MayInv

LEMMA MayPathFacts ==
  ASSUME MayInv, NEW p \in Path
  PROVE  /\ age[p] \in Lru!Ages
         /\ Lru!Distinct(age[p])
         /\ may[p] \in MayCaches
         /\ MayWellFormedCache(may[p])
         /\ MayCacheCovers(age[p], may[p])
  BY DEF MayInv, MayTypeOK, MayWellFormed, MayCovers, MayCaches, MayWellFormedCache, MayCacheCovers

LEMMA NextMayInv == MayInv /\ MayNext => MayInv'
<1> SUFFICES ASSUME MayInv, MayNext PROVE MayInv'
  OBVIOUS
<1>a. analysis' = analysis
  BY DEF MayNext
<1>0. \A p \in Path : /\ age[p] \in Lru!Ages
                      /\ Lru!Distinct(age[p])
                      /\ age = [age EXCEPT ![p] = age[p]]
  BY DEF MayInv, MayTypeOK
<1>1. ASSUME NEW p \in Path, NEW addr \in Address, NEW cac \in CAC,
             MayAccess(p, addr, cac)
      PROVE  MayInv'
  <2> DEFINE m == UpdateLine(may[p], addr, cac, May!Update, May!Join)
             f == Lru!Access(age[p], computeStartLine(addr))
  <2>1. may' = [may EXCEPT ![p] = m]
    BY <1>1 DEF MayAccess, MayInv, MayTypeOK
  <2>2. /\ m \in MayCaches /\ MayWellFormedCache(m)
        /\ cac # "N" => MayCacheCovers(f, m)
        /\ cac # "A" => MayCacheCovers(age[p], m)
    BY MayPathFacts, MayUpdateLineSound
  <2>3. f \in Lru!Ages /\ Lru!Distinct(f)
    BY MayPathFacts, Geometry, AccessAges, AccessDistinct
  <2>4. \/ cac # "N" /\ age' = [age EXCEPT ![p] = f]
        \/ cac # "A" /\ age' = age
    BY <1>1 DEF MayAccess, Reach, Touch, MayInv, MayTypeOK
  <2> HIDE DEF m, f
  <2>5. QED
    BY <1>a, <1>0, <2>1, <2>2, <2>3, <2>4, MayPathStep
<1>2. ASSUME NEW p \in Path, NEW addrs \in (SUBSET Address) \ {{}}, NEW cac \in CAC,
             MayAccessOneOf(p, addrs, cac)
      PROVE  MayInv'
  <2> DEFINE m == UpdateLines(may[p], addrs, cac, May!Update, May!UpdateSet,
                              May!Join)
             f(addr) == Lru!Access(age[p], computeStartLine(addr))
  <2>1. may' = [may EXCEPT ![p] = m]
    BY <1>2 DEF MayAccessOneOf, MayInv, MayTypeOK
  <2>2. addrs # {} /\ addrs \in SUBSET Address
    OBVIOUS
  <2>3. /\ m \in MayCaches /\ MayWellFormedCache(m)
        /\ cac # "N" => \A addr \in addrs : MayCacheCovers(f(addr), m)
        /\ cac # "A" => MayCacheCovers(age[p], m)
    BY <2>2, MayPathFacts, MayUpdateLinesSound
  <2>4. \A addr \in addrs : f(addr) \in Lru!Ages /\ Lru!Distinct(f(addr))
    BY MayPathFacts, Geometry, AccessAges, AccessDistinct
  <2>5. \/ cac # "N" /\ \E addr \in addrs : age' = [age EXCEPT ![p] = f(addr)]
        \/ cac # "A" /\ age' = age
    BY <1>2 DEF MayAccessOneOf, Reach, Touch, MayInv, MayTypeOK
  <2> HIDE DEF m, f
  <2>6. CASE cac # "N" /\ \E addr \in addrs : age' = [age EXCEPT ![p] = f(addr)]
    BY <1>a, <2>1, <2>3, <2>4, <2>6, MayPathStep
  <2>7. CASE cac # "A" /\ age' = age
    BY <1>a, <1>0, <2>1, <2>3, <2>7, MayPathStep
  <2>8. QED
    BY <2>5, <2>6, <2>7
<1>3. ASSUME NEW p \in Path, NEW q \in Path, MayMerge(p, q)
      PROVE  MayInv'
  <2> DEFINE m == JoinCaches(may[p], may[q], May!Join)
  <2>1. may' = [may EXCEPT ![p] = m, ![q] = m] /\ age' = age
    BY <1>3 DEF MayMerge
  <2>2. m \in MayCaches /\ MayWellFormedCache(m) /\ MayCacheCovers(age[p], m)
    BY MayPathFacts, MayJoinCachesSound
  <2>3. MayCacheCovers(age[q], m)
    BY MayPathFacts, MayJoinCachesSound
  <2> HIDE DEF m
  <2>4. MayTypeOK' /\ \A r \in Path : Lru!Distinct(age'[r])
    BY <2>1, <2>2 DEF MayInv, MayTypeOK, MayCaches
  <2>5. \A r \in Path : may'[r] = IF r = p \/ r = q THEN m ELSE may[r]
    BY <2>1 DEF MayInv, MayTypeOK
  <2>6. MayWellFormed'
    BY <2>2, <2>5 DEF MayInv, MayWellFormed, MayWellFormedCache
  <2>7. MayCovers'
    BY <2>1, <2>2, <2>3, <2>5 DEF MayInv, MayCovers, MayCacheCovers
  <2>8. QED
    BY <1>a, <2>4, <2>6, <2>7 DEF MayInv
<1>4. QED
  BY <1>1, <1>2, <1>3 DEF MayNext

LEMMA MayInvSound == MayInv => MaySound
<1> SUFFICES ASSUME MayInv, NEW p \in Path, NEW a \in Line, age[p][a] < nb_ways
             PROVE  ~ May!Absent(may[p][computeSet(a)], a)
  BY DEF MaySound, Lru!Cached
<1>1. MaySetCovers(age[p], may[p][computeSet(a)], computeSet(a))
  BY MayPathFacts, Geometry DEF MayCacheCovers
<1>2. QED
  BY <1>1 DEF MaySetCovers, May!Absent

(* Every reachable state satisfies the inductive invariant: the other      *)
(* analyses are followed in behaviours of their own.                       *)
LEMMA MayInvariance == Spec => []MayIInv
<1>1. Init => MayIInv
  BY InitMayInv DEF Init, MayIInv, MustInit, PsInit
<1>2. MayIInv /\ [Next]_vars => MayIInv'
  <2> SUFFICES ASSUME MayIInv, [Next]_vars, analysis' = "MAY" PROVE MayInv'
    BY DEF MayIInv
  <2>1. CASE MayNext
    BY <2>1, NextMayInv DEF MayIInv, MayNext
  <2>2. CASE MustNext \/ PsNext
    BY <2>2 DEF MustNext, PsNext
  <2>3. CASE UNCHANGED vars
    <3>1. MayInv /\ UNCHANGED <<analysis, age, may>>
      BY <2>3 DEF MayIInv, vars, mayVars
    <3>2. QED
      BY <3>1 DEF MayInv, MayTypeOK, MayWellFormed, MayCovers
  <2>4. QED
    BY <2>1, <2>2, <2>3 DEF Next
<1>3. QED
  BY <1>1, <1>2, PTL DEF Spec

(* The concrete ages and the MAY caches keep their types. *)
THEOREM MayTypeCorrect == Spec => [](analysis = "MAY" => MayTypeOK)
<1>1. MayIInv => (analysis = "MAY" => MayTypeOK)
  BY DEF MayIInv, MayInv
<1>2. QED
  BY <1>1, MayInvariance, PTL

(* The ways of a MAY set stay disjoint: the erase loops and the toggling   *)
(* of MAY::Join never meet a set they were not written for.                *)
THEOREM MaySetsWellFormed == Spec => []MayWellFormed
<1>1. MayIInv => MayWellFormed
  BY DEF MayIInv, MayInv, MayWellFormed
<1>2. QED
  BY <1>1, MayInvariance, PTL

(* Updates and joins keep every set well formed.                           *)
THEOREM SetsAreWellFormed == Spec => []SetsWellFormed
BY MustSetsWellFormed, MaySetsWellFormed, PTL DEF SetsWellFormed

(* MAY is sound: a line that MAY::Absent reports is cached on no           *)
(* execution that started with a cold cache.                               *)
THEOREM MaySoundness == Spec => []MaySound
<1>1. MayIInv => MaySound
  BY MayInvSound DEF MayIInv, MaySound
<1>2. QED
  BY <1>1, MayInvariance, PTL

-----------------------------------------------------------------------------
(* The persistence caches. *)

(* The inductive invariant. *)
PsInv ==
  /\ analysis = "PS"
  /\ age \in [Path -> Lru!Ages]
  /\ loaded \in [Path -> SUBSET Line]
  /\ since \in [Path -> [Line -> SUBSET Line]]
  /\ ps \in [Path -> PsCaches]
  /\ \A p \in Path : /\ History(age[p], loaded[p], since[p])
                     /\ PsCacheCovers(loaded[p], since[p], ps[p])

PsIInv == analysis = "PS" => PsInv

LEMMA InitPsInv == PsInit => PsInv
<1> SUFFICES ASSUME PsInit PROVE PsInv
  OBVIOUS
<1> DEFINE none == [b \in Line |-> {}]
<1>1. Lru!Cold \in Lru!Ages
  BY GeometryAssumption DEF Lru!Cold, Lru!Ages
<1>2. History(Lru!Cold, {}, none)
  BY <1>1 DEF History
<1>3. EmptyCache(Ps!Empty) \in PsCaches
  BY EmptySet DEF EmptyCache, PsCaches, PsSet
<1>4. PsCacheCovers({}, none, EmptyCache(Ps!Empty))
  BY DEF PsCacheCovers, PsCovers
<1>5. /\ age = [p \in Path |-> Lru!Cold]
      /\ ps = [p \in Path |-> EmptyCache(Ps!Empty)]
      /\ loaded = [p \in Path |-> {}]
      /\ since = [p \in Path |-> none]
      /\ analysis = "PS"
  BY DEF PsInit, ColdStart
<1>6. none \in [Line -> SUBSET Line]
  OBVIOUS
<1> HIDE DEF none
<1>7. QED
  BY <1>1, <1>2, <1>3, <1>4, <1>5, <1>6 DEF PsInv

LEMMA PsPathFacts ==
  ASSUME PsInv, NEW p \in Path
  PROVE  /\ loaded[p] \in SUBSET Line
         /\ since[p] \in [Line -> SUBSET Line]
         /\ ps[p] \in PsCaches
         /\ History(age[p], loaded[p], since[p])
         /\ PsCacheCovers(loaded[p], since[p], ps[p])
  BY DEF PsInv

(* One path changes: its ages to f, its accesses to l and si, its          *)
(* persistence cache to m.                                                 *)
LEMMA PsPathStep ==
  ASSUME PsInv, analysis' = analysis, NEW p \in Path,
         NEW f, NEW l, NEW si, History(f, l, si),
         NEW m \in PsCaches, PsCacheCovers(l, si, m),
         age' = [age EXCEPT ![p] = f], loaded' = [loaded EXCEPT ![p] = l],
         since' = [since EXCEPT ![p] = si], ps' = [ps EXCEPT ![p] = m]
  PROVE  PsInv'
<1>1. f \in Lru!Ages /\ l \in SUBSET Line /\ si \in [Line -> SUBSET Line]
  BY DEF History
<1>2. /\ age' \in [Path -> Lru!Ages]
      /\ loaded' \in [Path -> SUBSET Line]
      /\ since' \in [Path -> [Line -> SUBSET Line]]
      /\ ps' \in [Path -> PsCaches]
  BY <1>1 DEF PsInv
<1>3. \A q \in Path :
         /\ age'[q] = IF q = p THEN f ELSE age[q]
         /\ loaded'[q] = IF q = p THEN l ELSE loaded[q]
         /\ since'[q] = IF q = p THEN si ELSE since[q]
         /\ ps'[q] = IF q = p THEN m ELSE ps[q]
  BY DEF PsInv
<1>4. ASSUME NEW q \in Path
      PROVE  /\ History(age'[q], loaded'[q], since'[q])
             /\ PsCacheCovers(loaded'[q], since'[q], ps'[q])
  <2>1. CASE q = p
    BY <1>3, <2>1
  <2>2. CASE q # p
    BY <1>3, <2>2 DEF PsInv
  <2>3. QED
    BY <2>1, <2>2
<1>5. QED
  BY <1>2, <1>4 DEF PsInv

LEMMA NextPsInv == PsInv /\ PsNext => PsInv'
<1> SUFFICES ASSUME PsInv, PsNext PROVE PsInv'
  OBVIOUS
<1>a. analysis' = analysis
  BY DEF PsNext
<1>0. \A p \in Path : /\ age = [age EXCEPT ![p] = age[p]]
                      /\ loaded = [loaded EXCEPT ![p] = loaded[p]]
                      /\ since = [since EXCEPT ![p] = since[p]]
  BY DEF PsInv
<1> DEFINE f(p, addr) == Lru!Access(age[p], computeStartLine(addr))
           l(p, addr) == loaded[p] \cup {computeStartLine(addr)}
           si(p, addr) == Remembered(loaded[p], since[p], computeStartLine(addr))
<1>1. ASSUME NEW p \in Path, NEW addr \in Address
      PROVE  History(f(p, addr), l(p, addr), si(p, addr))
  BY PsPathFacts, Geometry, HistoryStep
<1>2. ASSUME NEW p \in Path, NEW addrs \in SUBSET Address, NEW cac \in CAC,
             ReachAndRemember(p, addrs, cac)
      PROVE  \/ /\ cac # "N"
                /\ \E addr \in addrs : /\ age' = [age EXCEPT ![p] = f(p, addr)]
                                       /\ loaded' = [loaded EXCEPT ![p] = l(p, addr)]
                                       /\ since' = [since EXCEPT ![p] = si(p, addr)]
             \/ cac # "A" /\ UNCHANGED <<age, loaded, since>>
  <2>1. CASE cac # "A" /\ UNCHANGED <<age, loaded, since>>
    BY <2>1
  <2>2. ASSUME cac # "N", NEW addr \in addrs, Touch(p, addr), Remember(p, addr)
        PROVE  /\ age' = [age EXCEPT ![p] = f(p, addr)]
               /\ loaded' = [loaded EXCEPT ![p] = l(p, addr)]
               /\ since' = [since EXCEPT ![p] = si(p, addr)]
    BY <2>2 DEF Touch, Remember, Remembered, PsInv
  <2> HIDE DEF f, l, si
  <2>3. QED
    BY <1>2, <2>1, <2>2, Zenon DEF ReachAndRemember
<1> HIDE DEF f, l, si
(* One path accesses one of addrs and its cache becomes m. *)
<1>3. ASSUME NEW p \in Path, NEW addrs \in SUBSET Address, NEW cac \in CAC,
             ReachAndRemember(p, addrs, cac),
             NEW m \in PsCaches, ps' = [ps EXCEPT ![p] = m],
             cac # "N" => \A addr \in addrs : PsCacheCovers(l(p, addr), si(p, addr), m),
             cac # "A" => PsCacheCovers(loaded[p], since[p], m)
      PROVE  PsInv'
  <2>1. CASE cac # "A" /\ UNCHANGED <<age, loaded, since>>
    <3>1. /\ age' = [age EXCEPT ![p] = age[p]]
          /\ loaded' = [loaded EXCEPT ![p] = loaded[p]]
          /\ since' = [since EXCEPT ![p] = since[p]]
      BY <1>0, <2>1, Zenon
    <3>2. History(age[p], loaded[p], since[p]) /\ PsCacheCovers(loaded[p], since[p], m)
      BY <1>3, <2>1, PsPathFacts
    <3>3. QED
      BY <1>a, <1>3, <3>1, <3>2, PsPathStep
  <2>2. ASSUME cac # "N", NEW addr \in addrs,
               age' = [age EXCEPT ![p] = f(p, addr)],
               loaded' = [loaded EXCEPT ![p] = l(p, addr)],
               since' = [since EXCEPT ![p] = si(p, addr)]
        PROVE  PsInv'
    <3>1. /\ History(f(p, addr), l(p, addr), si(p, addr))
          /\ PsCacheCovers(l(p, addr), si(p, addr), m)
      BY <1>1, <1>3, <2>2
    <3>2. QED
      BY <1>a, <1>3, <2>2, <3>1, PsPathStep
  <2>3. QED
    BY <1>2, <1>3, <2>1, <2>2, Zenon
<1>4. ASSUME NEW p \in Path, NEW addr \in Address, NEW cac \in CAC,
             PsAccess(p, addr, cac)
      PROVE  PsInv'
  <2> DEFINE m == UpdateLine(ps[p], addr, cac, Ps!Update, Ps!Join)
  <2>1. ps' = [ps EXCEPT ![p] = m] /\ ReachAndRemember(p, {addr}, cac)
    BY <1>4 DEF PsAccess, PsInv
  <2>2. /\ m \in PsCaches
        /\ cac # "N" => PsCacheCovers(l(p, addr), si(p, addr), m)
        /\ cac # "A" => PsCacheCovers(loaded[p], since[p], m)
    BY PsPathFacts, PsUpdateLineSound DEF l, si
  <2> HIDE DEF m
  <2>3. {addr} \in SUBSET Address
    OBVIOUS
  <2>4. cac # "N" => \A x \in {addr} : PsCacheCovers(l(p, x), si(p, x), m)
    BY <2>2
  <2>5. QED
    BY <1>3, <2>1, <2>2, <2>3, <2>4
<1>5. ASSUME NEW p \in Path, NEW addrs \in (SUBSET Address) \ {{}}, NEW cac \in CAC,
             PsAccessOneOf(p, addrs, cac)
      PROVE  PsInv'
  <2> DEFINE m == UpdateLines(ps[p], addrs, cac, Ps!Update, Ps!UpdateSet, Ps!Join)
  <2>1. ps' = [ps EXCEPT ![p] = m] /\ ReachAndRemember(p, addrs, cac)
    BY <1>5 DEF PsAccessOneOf, PsInv
  <2>2. addrs # {} /\ addrs \in SUBSET Address
    OBVIOUS
  <2>3. /\ m \in PsCaches
        /\ cac # "N" => \A addr \in addrs : PsCacheCovers(l(p, addr), si(p, addr), m)
        /\ cac # "A" => PsCacheCovers(loaded[p], since[p], m)
    BY <2>2, PsPathFacts, PsUpdateLinesSound DEF l, si
  <2> HIDE DEF m
  <2>4. QED
    BY <1>3, <2>1, <2>2, <2>3
<1>6. ASSUME NEW p \in Path, NEW q \in Path, PsMerge(p, q)
      PROVE  PsInv'
  <2> DEFINE m == JoinCaches(ps[p], ps[q], Ps!Join)
  <2>1. /\ ps' = [ps EXCEPT ![p] = m, ![q] = m]
        /\ age' = age /\ loaded' = loaded /\ since' = since
    BY <1>6 DEF PsMerge
  <2>2. /\ m \in PsCaches
        /\ PsCacheCovers(loaded[p], since[p], m)
        /\ PsCacheCovers(loaded[q], since[q], m)
    BY PsPathFacts, PsJoinCachesSound
  <2> HIDE DEF m
  <2>3. ps' \in [Path -> PsCaches]
    BY <2>1, <2>2 DEF PsInv
  <2>4. \A r \in Path : ps'[r] = IF r = p \/ r = q THEN m ELSE ps[r]
    BY <2>1 DEF PsInv
  <2>5. \A r \in Path : PsCacheCovers(loaded[r], since[r], ps'[r])
    BY <2>2, <2>4 DEF PsInv
  <2>6. QED
    BY <1>a, <2>1, <2>3, <2>5 DEF PsInv
<1>7. QED
  BY <1>4, <1>5, <1>6 DEF PsNext

LEMMA PsInvCovers == PsInv => ConflictsCovered
<1> SUFFICES ASSUME PsInv PROVE PsWellFormed /\ NoAccessForgotten
  BY DEF ConflictsCovered
<1>1. PsWellFormed
  BY DEF PsInv, PsCaches, PsSet, PsWellFormed
<1>2. NoAccessForgotten
  <2>1. SUFFICES ASSUME NEW p \in Path, NEW b \in loaded[p]
                 PROVE  LET c == ps[p][computeSet(b)]
                        IN  \/ b \in c.evicted
                            \/ b \in c.present /\ since[p][b] \subseteq c.conflicts[b]
    BY DEF NoAccessForgotten
  <2>2. b \in Line /\ computeSet(b) \in CacheSet
    BY PsPathFacts, Geometry
  <2>3. PsCovers(loaded[p], since[p], ps[p][computeSet(b)], computeSet(b))
    BY <2>2, PsPathFacts DEF PsCacheCovers
  <2>4. QED
    BY <2>3 DEF PsCovers
<1>3. QED
  BY <1>1, <1>2

LEMMA PsInvSound == PsInv => PersistenceSound
<1> SUFFICES ASSUME PsInv, NEW p \in Path, NEW b \in loaded[p],
                    b \in ps[p][computeSet(b)].present
             PROVE  age[p][b] < nb_ways
  BY DEF PersistenceSound, Lru!Cached, Ps!Absent
<1> DEFINE c == ps[p][computeSet(b)]
<1>1. b \in Line /\ computeSet(b) \in CacheSet
  BY PsPathFacts, Geometry
<1>2. PsSet(c) /\ PsCovers(loaded[p], since[p], c, computeSet(b))
  BY <1>1, PsPathFacts DEF PsCaches, PsCacheCovers
<1> HIDE DEF c
<1>3. b \in c.present
  BY DEF c
<1>4. since[p][b] \subseteq c.conflicts[b]
  BY <1>2, <1>3, PsSetFacts DEF PsCovers
<1>5. c.conflicts[b] \in SUBSET Line /\ Cardinality(c.conflicts[b]) < nb_ways
  BY <1>1, <1>2, <1>3, PsSetFacts
<1>6. since[p][b] \in SUBSET Line
  BY <1>1, PsPathFacts
<1>7. /\ Cardinality(c.conflicts[b]) \in Nat
      /\ Cardinality(since[p][b]) \in Nat
      /\ Cardinality(since[p][b]) <= Cardinality(c.conflicts[b])
  BY <1>4, <1>5, <1>6, Sizes
<1>8. age[p][b] <= Cardinality(since[p][b])
  BY PsPathFacts DEF History
<1>9. age[p][b] \in Nat
  BY <1>1, PsPathFacts, GeometryAssumption DEF History, Lru!Ages
<1>10. QED
  BY <1>5, <1>7, <1>8, <1>9, GeometryAssumption

(* Every reachable state satisfies the inductive invariant: the other      *)
(* analyses are followed in behaviours of their own.                       *)
LEMMA PsInvariance == Spec => []PsIInv
<1>1. Init => PsIInv
  BY InitPsInv DEF Init, PsIInv, MustInit, MayInit
<1>2. PsIInv /\ [Next]_vars => PsIInv'
  <2> SUFFICES ASSUME PsIInv, [Next]_vars, analysis' = "PS" PROVE PsInv'
    BY DEF PsIInv
  <2>1. CASE PsNext
    BY <2>1, NextPsInv DEF PsIInv, PsNext
  <2>2. CASE MustNext \/ MayNext
    BY <2>2 DEF MustNext, MayNext
  <2>3. CASE UNCHANGED vars
    <3>1. PsInv /\ UNCHANGED <<analysis, age, ps, loaded, since>>
      BY <2>3 DEF PsIInv, vars, psVars
    <3>2. QED
      BY <3>1 DEF PsInv
  <2>4. QED
    BY <2>1, <2>2, <2>3 DEF Next
<1>3. QED
  BY <1>1, <1>2, PTL DEF Spec

(* The persistence sets forget no access since the loop was entered: a     *)
(* line PS::Update, PS::Join saw is evicted or counts every line of its    *)
(* set accessed since, and the assertions of PS::Absent and PS::GetAge     *)
(* hold.                                                                   *)
THEOREM NoConflictForgotten == Spec => []ConflictsCovered
<1>1. PsIInv => ConflictsCovered
  BY PsInvCovers DEF PsIInv, ConflictsCovered
<1>2. QED
  BY <1>1, PsInvariance, PTL

(* The persistence analysis is sound: a line that PS::Absent does not      *)
(* report absent stays cached once an execution has loaded it.             *)
THEOREM PersistenceSoundness == Spec => []PersistenceSound
<1>1. PsIInv => PersistenceSound
  BY PsInvSound DEF PsIInv, PersistenceSound
<1>2. QED
  BY <1>1, PsInvariance, PTL

-----------------------------------------------------------------------------
(* The copy-on-write pointers. *)

(* The invariant: a counter that reaches 1 must mean a single owner, for   *)
(* writes in place to be private, so TypeOK and CountsOwners together.     *)
CowIInv == TypeOK /\ CountsOwners

(* The owners of an object when x is made to point to t. *)
OwnersAfter(x, t, o) == {y \in Pointer : [p_ EXCEPT ![x] = t][y] = o}

(* Redirecting x takes it from the owners of its object and adds it to     *)
(* those of its target.                                                    *)
LEMMA OwnersCount ==
  ASSUME TypeOK, NEW x \in Pointer, NEW t, NEW o, t # p_[x]
  PROVE  /\ o # t /\ o # p_[x] => OwnersAfter(x, t, o) = Owners(o)
         /\ o = p_[x] => Cardinality(OwnersAfter(x, t, o)) = Cardinality(Owners(o)) - 1
         /\ o = t => Cardinality(OwnersAfter(x, t, o)) = Cardinality(Owners(o)) + 1
         /\ Cardinality(Owners(o)) \in Nat
<1>0. p_ \in [Pointer -> DOMAIN heap \cup {NULL}]
  BY DEF TypeOK
<1>1. IsFiniteSet(Owners(o))
  BY PointerAssumption, FS_Subset DEF Owners
<1>2. Cardinality(Owners(o)) \in Nat
  BY <1>1, FS_CardinalityType
<1>3. ASSUME o # t, o # p_[x] PROVE OwnersAfter(x, t, o) = Owners(o)
  BY <1>0, <1>3 DEF OwnersAfter, Owners
<1>4. ASSUME o = p_[x]
      PROVE  Cardinality(OwnersAfter(x, t, o)) = Cardinality(Owners(o)) - 1
  <2>1. OwnersAfter(x, t, o) = Owners(o) \ {x}
    BY <1>0, <1>4 DEF OwnersAfter, Owners
  <2>2. x \in Owners(o)
    BY <1>4 DEF Owners
  <2> QED
    BY <1>1, <2>1, <2>2, FS_RemoveElement
<1>5. ASSUME o = t
      PROVE  Cardinality(OwnersAfter(x, t, o)) = Cardinality(Owners(o)) + 1
  <2>1. OwnersAfter(x, t, o) = Owners(o) \cup {x}
    BY <1>0, <1>5 DEF OwnersAfter, Owners
  <2>2. x \notin Owners(o)
    BY <1>5 DEF Owners
  <2> QED
    BY <1>1, <2>1, <2>2, FS_AddElement
<1> QED
  BY <1>2, <1>3, <1>4, <1>5

(* What release() leaves of the heap. *)
LEMMA ReleaseKeeps ==
  ASSUME CowIInv, NEW x \in Pointer
  PROVE  LET h == Release(heap, p_[x])
         IN  /\ DOMAIN h \subseteq DOMAIN heap
             /\ DOMAIN heap \ DOMAIN h \subseteq {p_[x]}
             /\ p_[x] # NULL => /\ p_[x] \notin DOMAIN h <=> heap[p_[x]].ref_cnt = 1
                                /\ p_[x] \in DOMAIN h =>
                                     h[p_[x]].ref_cnt = heap[p_[x]].ref_cnt - 1
             /\ h \in [DOMAIN h -> [value : Value, ref_cnt : Nat \ {0}]]
             /\ \A o \in DOMAIN h : /\ h[o].value = heap[o].value
                                    /\ o # p_[x] => h[o] = heap[o]
<1> DEFINE h == Release(heap, p_[x])
<1>0. /\ heap \in [DOMAIN heap -> [value : Value, ref_cnt : Nat \ {0}]]
      /\ p_[x] \in DOMAIN heap \cup {NULL}
      /\ NULL \notin DOMAIN heap
  BY PointerAssumption DEF CowIInv, TypeOK
<1>1. CASE p_[x] = NULL
  BY <1>0, <1>1 DEF Release
<1>2. CASE p_[x] # NULL /\ heap[p_[x]].ref_cnt = 1
  <2>1. h = [u \in DOMAIN heap \ {p_[x]} |-> heap[u]]
    BY <1>2 DEF Release
  <2> QED
    BY <1>0, <1>2, <2>1
<1>3. CASE p_[x] # NULL /\ heap[p_[x]].ref_cnt # 1
  <2>1. h = [heap EXCEPT ![p_[x]].ref_cnt = @ - 1]
    BY <1>3 DEF Release
  <2> QED
    BY <1>0, <1>3, <2>1
<1> QED
  BY <1>1, <1>2, <1>3
-----------------------------------------------------------------------------
(* The value pointer x holds, as Cells sees it. *)
Held(x) == IF p_[x] = NULL THEN Nothing ELSE heap[p_[x]].value

Becomes(x, v) ==
  /\ Held(x)' = v
  /\ \A y \in Pointer \ {x} : Held(y)' = Held(y)

(* Redirecting x to an object t of the heap h' that accounts for the owner *)
(* it gains, after the release of its object, keeps the invariant.         *)
LEMMA Redirection ==
  ASSUME CowIInv, NEW x \in Pointer, NEW t, t # p_[x],
         p_' = [p_ EXCEPT ![x] = t],
         t = NULL \/ t \in Object,
         DOMAIN heap' = DOMAIN Release(heap, p_[x]) \cup ({t} \ {NULL}),
         \A o \in DOMAIN heap' : o # t => heap'[o] = Release(heap, p_[x])[o],
         t # NULL => /\ heap'[t].value \in Value
                     /\ heap'[t] = [value |-> heap'[t].value,
                                    ref_cnt |-> Cardinality(Owners(t)) + 1],
         t \in DOMAIN Release(heap, p_[x]) => heap'[t].value = heap[t].value,
         heap' = [o \in DOMAIN heap' |-> heap'[o]],
         t \in DOMAIN heap => t \in DOMAIN Release(heap, p_[x])
  PROVE  CowIInv' /\ Becomes(x, IF t = NULL THEN Nothing ELSE heap'[t].value)
<1> DEFINE h == Release(heap, p_[x])
<1>0. /\ heap \in [DOMAIN heap -> [value : Value, ref_cnt : Nat \ {0}]]
      /\ DOMAIN heap \subseteq Object
      /\ p_ \in [Pointer -> DOMAIN heap \cup {NULL}]
      /\ NULL \notin DOMAIN heap
  BY PointerAssumption DEF CowIInv, TypeOK
<1>1. /\ DOMAIN h \subseteq DOMAIN heap
      /\ DOMAIN heap \ DOMAIN h \subseteq {p_[x]}
      /\ p_[x] # NULL => /\ p_[x] \notin DOMAIN h <=> heap[p_[x]].ref_cnt = 1
                         /\ p_[x] \in DOMAIN h =>
                              h[p_[x]].ref_cnt = heap[p_[x]].ref_cnt - 1
      /\ h \in [DOMAIN h -> [value : Value, ref_cnt : Nat \ {0}]]
      /\ \A o \in DOMAIN h : /\ h[o].value = heap[o].value
                             /\ o # p_[x] => h[o] = heap[o]
  BY ReleaseKeeps
<1>2. \A o : Owners(o)' = OwnersAfter(x, t, o)
  BY DEF Owners, OwnersAfter
<1>3. ASSUME NEW y \in Pointer \ {x}, p_[y] # NULL
      PROVE  p_[y] \in DOMAIN h
  <2>1. CASE p_[y] # p_[x]
    BY <1>0, <1>1, <1>3, <2>1
  <2>2. CASE p_[y] = p_[x]
    <3>1. y \in OwnersAfter(x, t, p_[x]) /\ IsFiniteSet(OwnersAfter(x, t, p_[x]))
      BY <1>0, <1>3, <2>2, PointerAssumption, FS_Subset DEF OwnersAfter
    <3>2. Cardinality(OwnersAfter(x, t, p_[x])) # 0
      BY <3>1, FS_EmptySet
    <3>3. Cardinality(OwnersAfter(x, t, p_[x])) = Cardinality(Owners(p_[x])) - 1
      BY OwnersCount DEF CowIInv
    <3>4. heap[p_[x]].ref_cnt = Cardinality(Owners(p_[x]))
      BY <1>0, <1>3, <2>2 DEF CowIInv, CountsOwners
    <3>5. heap[p_[x]].ref_cnt # 1
      BY <3>2, <3>3, <3>4
    <3> QED
      BY <1>1, <1>3, <2>2, <3>5
  <2> QED
    BY <2>1, <2>2
<1>4. TypeOK'
  <2>1. DOMAIN heap' \subseteq Object
    BY <1>0, <1>1
  <2>2. ASSUME NEW o \in DOMAIN heap'
        PROVE  heap'[o] \in [value : Value, ref_cnt : Nat \ {0}]
    <3>1. CASE o = t
      <4> Cardinality(Owners(t)) \in Nat
        BY OwnersCount DEF CowIInv
      <4>1. Cardinality(Owners(t)) + 1 \in Nat \ {0}
        OBVIOUS
      <4>2. t # NULL
        BY <2>1, <3>1, PointerAssumption
      <4> QED
        BY <3>1, <4>1, <4>2
    <3>2. CASE o # t
      BY <1>1, <3>2
    <3> QED
      BY <3>1, <3>2
  <2>3. heap' \in [DOMAIN heap' -> [value : Value, ref_cnt : Nat \ {0}]]
    BY <2>2
  <2>4. p_' \in [Pointer -> DOMAIN heap' \cup {NULL}]
    <3>1. ASSUME NEW y \in Pointer PROVE p_'[y] \in DOMAIN heap' \cup {NULL}
      BY <1>0, <1>3
    <3> QED
      BY <1>0, <3>1
  <2> QED
    BY <2>1, <2>3, <2>4 DEF TypeOK
<1>5. CountsOwners'
  <2> SUFFICES ASSUME NEW o \in DOMAIN heap'
               PROVE  heap'[o].ref_cnt = Cardinality(OwnersAfter(x, t, o))
    BY <1>2 DEF CountsOwners
  <2>1. CASE o = t
    <3>1. t # NULL
      BY <1>0, <1>1, <2>1
    <3> QED
      BY <2>1, <3>1, OwnersCount DEF CowIInv
  <2>2. CASE o # t /\ o = p_[x]
    <3>1. o \in DOMAIN h /\ o \in DOMAIN heap /\ o # NULL
      BY <1>0, <1>1, <2>2
    <3>2. h[o].ref_cnt = heap[o].ref_cnt - 1
      BY <1>1, <2>2, <3>1
    <3>3. heap[o].ref_cnt = Cardinality(Owners(o))
      BY <3>1 DEF CowIInv, CountsOwners
    <3> QED
      BY <2>2, <3>2, <3>3, OwnersCount DEF CowIInv
  <2>3. CASE o # t /\ o # p_[x]
    <3>1. o \in DOMAIN h /\ o \in DOMAIN heap /\ heap'[o] = heap[o]
      BY <1>1, <2>3
    <3>2. heap[o].ref_cnt = Cardinality(Owners(o))
      BY <3>1 DEF CowIInv, CountsOwners
    <3> QED
      BY <2>3, <3>1, <3>2, OwnersCount DEF CowIInv
  <2> QED
    BY <2>1, <2>2, <2>3
<1>6. ASSUME NEW y \in Pointer \ {x} PROVE Held(y)' = Held(y)
  <2>1. p_'[y] = p_[y]
    BY <1>0
  <2>2. CASE p_[y] = NULL
    BY <2>1, <2>2 DEF Held
  <2>3. CASE p_[y] # NULL
    <3>1. p_[y] \in DOMAIN h
      BY <1>3, <2>3
    <3>2. heap'[p_[y]].value = heap[p_[y]].value
      BY <1>1, <3>1
    <3> QED
      BY <2>1, <2>3, <3>2 DEF Held
  <2> QED
    BY <2>2, <2>3
<1>7. Held(x)' = IF t = NULL THEN Nothing ELSE heap'[t].value
  BY <1>0 DEF Held
<1> QED
  BY <1>4, <1>5, <1>6, <1>7 DEF CowIInv, Becomes
-----------------------------------------------------------------------------
(* One lemma per operation. *)

LEMMA ResetStep ==
  ASSUME CowIInv, NEW x \in Pointer, NEW v \in Value, Reset(x, v)
  PROVE  CowIInv' /\ Becomes(x, v)
<1> PICK t \in Free : /\ heap' = Allocate(Release(heap, p_[x]), t, v)
                       /\ p_' = [p_ EXCEPT ![x] = t]
  BY DEF Reset
<1> DEFINE h == Release(heap, p_[x])
<1>1. /\ t \in Object /\ t \notin DOMAIN heap /\ t # NULL /\ t # p_[x]
      /\ DOMAIN h \subseteq DOMAIN heap
  BY PointerAssumption, ReleaseKeeps DEF Free, CowIInv, TypeOK
<1>2. Cardinality(Owners(t)) = 0
  <2>1. Owners(t) = {}
    BY <1>1 DEF Owners, CowIInv, TypeOK
  <2> QED
    BY <2>1, FS_EmptySet
<1>3. /\ DOMAIN heap' = DOMAIN h \cup {t}
      /\ heap' = [o \in DOMAIN heap' |-> heap'[o]]
      /\ heap'[t] = [value |-> v, ref_cnt |-> 1]
      /\ \A o \in DOMAIN heap' : o # t => heap'[o] = h[o]
  BY DEF Allocate
<1>4. heap'[t] = [value |-> heap'[t].value, ref_cnt |-> Cardinality(Owners(t)) + 1]
  BY <1>2, <1>3
<1>5. /\ t = NULL \/ t \in Object
      /\ DOMAIN heap' = DOMAIN h \cup ({t} \ {NULL})
      /\ t # NULL => /\ heap'[t].value \in Value
                     /\ heap'[t] = [value |-> heap'[t].value,
                                    ref_cnt |-> Cardinality(Owners(t)) + 1]
      /\ t \in DOMAIN h => heap'[t].value = heap[t].value
      /\ t \in DOMAIN heap => t \in DOMAIN h
  BY <1>1, <1>3, <1>4
<1>6. CowIInv' /\ Becomes(x, IF t = NULL THEN Nothing ELSE heap'[t].value)
  BY <1>1, <1>3, <1>5, Redirection
<1> QED
  BY <1>1, <1>3, <1>6

LEMMA AssignStep ==
  ASSUME CowIInv, NEW x \in Pointer, NEW y \in Pointer, Assign(x, y)
  PROVE  CowIInv' /\ Becomes(x, Held(y))
<1>0. /\ heap \in [DOMAIN heap -> [value : Value, ref_cnt : Nat \ {0}]]
      /\ DOMAIN heap \subseteq Object
      /\ p_[y] \in DOMAIN heap /\ p_[y] # NULL
  BY DEF CowIInv, TypeOK, Assign
<1>1. CASE p_[x] = p_[y]
  BY <1>0, <1>1 DEF Assign, cowVars, CowIInv, TypeOK, CountsOwners, Owners, Becomes, Held
<1>2. CASE p_[x] # p_[y]
  <2> DEFINE h == Release(heap, p_[x])
             t == p_[y]
  <2>1. /\ heap' = Share(h, t)
        /\ p_' = [p_ EXCEPT ![x] = t]
    BY <1>2 DEF Assign
  <2>2. /\ t \in DOMAIN h /\ h[t] = heap[t]
        /\ h \in [DOMAIN h -> [value : Value, ref_cnt : Nat \ {0}]]
    BY <1>0, <1>2, ReleaseKeeps
  <2>3. heap[t].ref_cnt = Cardinality(Owners(t))
    BY <1>0 DEF CowIInv, CountsOwners
  <2>4. /\ DOMAIN heap' = DOMAIN h
        /\ heap' = [o \in DOMAIN heap' |-> heap'[o]]
        /\ heap'[t] = [value |-> heap[t].value, ref_cnt |-> heap[t].ref_cnt + 1]
        /\ \A o \in DOMAIN heap' : o # t => heap'[o] = h[o]
    BY <2>1, <2>2 DEF Share
  <2>5. /\ heap'[t].value \in Value
        /\ heap'[t].value = heap[t].value
        /\ heap'[t] = [value |-> heap'[t].value, ref_cnt |-> Cardinality(Owners(t)) + 1]
    BY <1>0, <2>3, <2>4
  <2>6. DOMAIN heap' = DOMAIN h \cup ({t} \ {NULL})
    BY <2>2, <2>4
  <2>7. CowIInv' /\ Becomes(x, IF t = NULL THEN Nothing ELSE heap'[t].value)
    <3>1. /\ t = NULL \/ t \in Object
          /\ t # NULL => /\ heap'[t].value \in Value
                         /\ heap'[t] = [value |-> heap'[t].value,
                                        ref_cnt |-> Cardinality(Owners(t)) + 1]
          /\ t \in DOMAIN h => heap'[t].value = heap[t].value
          /\ t \in DOMAIN heap => t \in DOMAIN h
          /\ t # p_[x]
      BY <1>0, <1>2, <2>2, <2>5
    <3> QED
      BY <2>1, <2>4, <2>6, <3>1, Redirection
  <2>8. (IF t = NULL THEN Nothing ELSE heap'[t].value) = Held(y)
    BY <1>0, <2>5 DEF Held
  <2> QED
    BY <2>7, <2>8
<1> QED
  BY <1>1, <1>2

LEMMA WriteStep ==
  ASSUME CowIInv, NEW x \in Pointer, NEW v \in Value, Write(x, v)
  PROVE  CowIInv' /\ Becomes(x, v)
<1>1. CASE heap[p_[x]].ref_cnt = 1
  <2>0. /\ heap \in [DOMAIN heap -> [value : Value, ref_cnt : Nat \ {0}]]
        /\ DOMAIN heap \subseteq Object
        /\ p_ \in [Pointer -> DOMAIN heap \cup {NULL}]
        /\ p_[x] \in DOMAIN heap /\ p_[x] # NULL
    BY DEF CowIInv, TypeOK, Write
  <2>1. heap' = [heap EXCEPT ![p_[x]].value = v] /\ p_' = p_
    BY <1>1 DEF Write
  <2>2. TypeOK'
    BY <2>0, <2>1 DEF TypeOK
  <2>3. CountsOwners'
    BY <2>0, <2>1 DEF CowIInv, CountsOwners, Owners
  <2>4. ASSUME NEW y \in Pointer \ {x} PROVE p_[y] # p_[x]
    <3> SUFFICES ASSUME p_[y] = p_[x] PROVE FALSE
      OBVIOUS
    <3>1. Cardinality(Owners(p_[x])) = 1
      BY <1>1, <2>0 DEF CowIInv, CountsOwners
    <3>2. IsFiniteSet(Owners(p_[x]))
      BY PointerAssumption, FS_Subset DEF Owners
    <3>3. x \in Owners(p_[x]) /\ y \in Owners(p_[x])
      BY DEF Owners
    <3>4. PICK owner : Owners(p_[x]) = {owner}
      BY <3>1, <3>2, FS_Singleton
    <3> QED
      BY <3>3, <3>4
  <2>5. Becomes(x, v)
    BY <2>0, <2>1, <2>4 DEF Becomes, Held
  <2> QED
    BY <2>2, <2>3, <2>5 DEF CowIInv
<1>2. CASE heap[p_[x]].ref_cnt # 1
  BY <1>2, ResetStep DEF Write
<1> QED
  BY <1>1, <1>2

LEMMA DestroyStep ==
  ASSUME CowIInv, NEW x \in Pointer, Destroy(x)
  PROVE  CowIInv' /\ Becomes(x, Nothing)
<1>0. /\ heap \in [DOMAIN heap -> [value : Value, ref_cnt : Nat \ {0}]]
      /\ NULL \notin DOMAIN heap
      /\ p_ \in [Pointer -> DOMAIN heap \cup {NULL}]
  BY PointerAssumption DEF CowIInv, TypeOK
<1> DEFINE h == Release(heap, p_[x])
<1>1. heap' = h /\ p_' = [p_ EXCEPT ![x] = NULL]
  BY DEF Destroy
<1>2. CASE p_[x] = NULL
  <2>1. heap' = heap /\ p_' = p_
    BY <1>0, <1>1, <1>2 DEF Release
  <2> QED
    BY <1>2, <2>1 DEF CowIInv, TypeOK, CountsOwners, Owners, Becomes, Held
<1>3. CASE p_[x] # NULL
  <2>1. /\ DOMAIN h \subseteq DOMAIN heap
        /\ h \in [DOMAIN h -> [value : Value, ref_cnt : Nat \ {0}]]
    BY ReleaseKeeps
  <2>2. /\ DOMAIN heap' = DOMAIN h \cup ({NULL} \ {NULL})
        /\ NULL \notin DOMAIN h
        /\ heap' = [o \in DOMAIN heap' |-> heap'[o]]
        /\ \A o \in DOMAIN heap' : o # NULL => heap'[o] = h[o]
    BY <1>0, <1>1, <2>1
  <2>3. CowIInv' /\ Becomes(x, IF NULL = NULL THEN Nothing ELSE heap'[NULL].value)
    BY <1>0, <1>1, <1>3, <2>2, Redirection
  <2> QED
    BY <2>3
<1> QED
  BY <1>2, <1>3
-----------------------------------------------------------------------------
LEMMA PointerStep ==
  ASSUME CowIInv, [CowNext]_cowVars
  PROVE  /\ CowIInv'
         /\ \/ \E x \in Pointer, v \in Value \cup {Nothing} : Becomes(x, v)
            \/ UNCHANGED cowVars
<1>1. ASSUME NEW x \in Pointer, NEW v \in Value, New(x, v)
      PROVE  CowIInv' /\ Becomes(x, v)
  BY <1>1, ResetStep DEF New
<1>2. ASSUME NEW x \in Pointer, NEW v \in Value, Write(x, v)
      PROVE  CowIInv' /\ Becomes(x, v)
  BY <1>2, WriteStep
<1>3. ASSUME NEW x \in Pointer, NEW y \in Pointer, Assign(x, y)
      PROVE  CowIInv' /\ Becomes(x, Held(y)) /\ Held(y) \in Value
  <2>1. Held(y) \in Value
    BY <1>3 DEF Assign, Held, CowIInv, TypeOK
  <2> QED
    BY <1>3, <2>1, AssignStep
<1>4. ASSUME NEW x \in Pointer, Destroy(x)
      PROVE  CowIInv' /\ Becomes(x, Nothing)
  BY <1>4, DestroyStep
<1>5. CASE UNCHANGED cowVars
  BY <1>5 DEF cowVars, CowIInv, TypeOK, CountsOwners, Owners
<1> QED
  BY <1>1, <1>2, <1>3, <1>4, <1>5 DEF CowNext

LEMMA PointersInitially == CowInit => CowIInv
BY DEF CowInit, CowIInv, TypeOK, CountsOwners

(* The pointers have their types and point to allocated objects only. *)
THEOREM PointersTypeCorrect == CowSpec => []TypeOK
<1>1. CowIInv /\ [CowNext]_cowVars => CowIInv'
  BY PointerStep
<1>2. CowIInv => TypeOK
  BY DEF CowIInv
<1> QED
  BY PointersInitially, <1>1, <1>2, PTL DEF CowSpec

(* ref_cnt_ is the number of owners of every allocated object. *)
THEOREM CountersExact == CowSpec => []CountsOwners
<1>1. CowIInv /\ [CowNext]_cowVars => CowIInv'
  BY PointerStep
<1>2. CowIInv => CountsOwners
  BY DEF CowIInv
<1> QED
  BY PointersInitially, <1>1, <1>2, PTL DEF CowSpec

(* Copy-on-write pointers implement independent variables: an operation on *)
(* one leaves the values all the others hold.                              *)
THEOREM CopiesIndependent == CowSpec => Independent
<1> DEFINE value == [x \in Pointer |-> IF p_[x] = NULL THEN Nothing
                                       ELSE heap[p_[x]].value]
<1>1. CowInit => C!Init
  BY DEF CowInit, C!Init
<1>2. CowIInv /\ [CowNext]_cowVars => [C!Next]_value
  <2> SUFFICES ASSUME CowIInv, [CowNext]_cowVars PROVE [C!Next]_value
    OBVIOUS
  <2>1. CASE UNCHANGED cowVars
    BY <2>1 DEF cowVars
  <2>2. ASSUME NEW x \in Pointer, NEW v \in Value \cup {Nothing}, Becomes(x, v)
        PROVE  C!Next
    <3>1. value' = [value EXCEPT ![x] = v]
      BY <2>2 DEF Becomes, Held
    <3> QED
      BY <2>2, <3>1 DEF C!Next, C!Set
  <2> QED
    BY <2>1, <2>2, PointerStep
<1>3. CowIInv /\ [CowNext]_cowVars => CowIInv'
  BY PointerStep
<1> QED
  BY PointersInitially, <1>1, <1>2, <1>3, PTL DEF CowSpec, Independent, C!Spec
=============================================================================
