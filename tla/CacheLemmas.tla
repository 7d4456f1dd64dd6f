----------------------------- MODULE CacheLemmas -----------------------------
(***************************************************************************)
(* Facts about one cache level: its geometry, the LRU cache, and what the  *)
(* operations of the three abstract caches keep: they stay well formed,    *)
(* and go on describing an LRU cache that the same access reaches or not.  *)
(***************************************************************************)
EXTENDS Caches, FiniteSetTheorems, TLAPS

(* Every non-empty set of naturals has a least element. *)
LEMMA LeastNatural ==
  ASSUME NEW S \in SUBSET Nat, S # {}
  PROVE  \E n \in S : \A m \in S : n <= m
<1> DEFINE R == {ss \in Nat \X Nat : ss[1] < ss[2]}
<1>1. R = OpToRel(<, Nat)
  BY Zenon DEF OpToRel
<1>2. IsWellFoundedOn(R, Nat)
  BY <1>1, NatLessThanWellFounded, Zenon
<1>3. \E n \in S : \A m \in S : ~ (<<m, n>> \in R)
  BY <1>2, WFMin, Zenon
<1>4. \A m, n \in S : m < n => <<m, n>> \in R
  OBVIOUS
<1>5. PICK n \in S : \A m \in S : ~ (m < n)
  BY <1>3, <1>4, Zenon
<1>6. \A m \in S : n <= m
  BY <1>5
<1>7. QED
  BY <1>6

(* Every bounded non-empty set of naturals has a greatest element. *)
LEMMA GreatestNatural ==
  ASSUME NEW k \in Nat, NEW S \in SUBSET (0 .. k), S # {}
  PROVE  \E n \in S : \A m \in S : m <= n
<1> DEFINE T == {k - n : n \in S}
<1>1. \A n \in S : n \in 0 .. k /\ k - n \in Nat
  OBVIOUS
<1>2. T \in SUBSET Nat /\ T # {}
  BY <1>1
<1>3. PICK t \in T : \A u \in T : t <= u
  BY <1>2, LeastNatural, Zenon
<1>4. PICK n \in S : t = k - n
  OBVIOUS
<1>5. ASSUME NEW m \in S
      PROVE  m <= n
  <2>1. k - m \in T
    OBVIOUS
  <2>2. k - n <= k - m
    BY <1>3, <1>4, <2>1
  <2>3. QED
    BY <1>1, <2>2
<1>6. QED
  BY <1>5

-----------------------------------------------------------------------------
(* Euclidean division. *)
LEMMA Division ==
  ASSUME NEW n \in Nat \ {0}, NEW x \in Nat
  PROVE  /\ x % n \in 0 .. n - 1
         /\ x \div n \in Nat
         /\ x = n * (x \div n) + (x % n)
  OBVIOUS

LEMMA MultipleModulo ==
  ASSUME NEW n \in Nat \ {0}, NEW q \in Nat
  PROVE  (n * q) % n = 0
  OBVIOUS

(* AbstractCache::computeStartLine: the start of a line is an address of   *)
(* that line, and its own start.                                           *)
LEMMA StartLine ==
  ASSUME NEW addr \in Nat
  PROVE  /\ computeStartLine(addr) \in Nat
         /\ computeStartLine(computeStartLine(addr)) = computeStartLine(addr)
<1> DEFINE q == addr \div cacheline_size
<1>1. q \in Nat /\ addr = cacheline_size * q + (addr % cacheline_size)
  BY Division, GeometryAssumption
<1>2. addr % cacheline_size \in Nat
  BY Division, GeometryAssumption
<1>3. cacheline_size * q \in Nat
  BY <1>1, GeometryAssumption
<1>4. computeStartLine(addr) = cacheline_size * q
  BY <1>1, <1>2, <1>3 DEF computeStartLine
<1>5. computeStartLine(addr) % cacheline_size = 0
  BY <1>1, <1>4, MultipleModulo, GeometryAssumption
<1>6. QED
  BY <1>3, <1>4, <1>5 DEF computeStartLine

(* AbstractCache::computeSet: an address maps to the set of its line. *)
LEMMA SetOfAddress ==
  ASSUME NEW addr \in Nat
  PROVE  /\ computeSet(addr) \in CacheSet
         /\ computeSet(computeStartLine(addr)) = computeSet(addr)
<1>1. computeStartLine(addr) \in Nat
  BY StartLine
<1>2. computeStartLine(addr) \div cacheline_size \in Nat
  BY <1>1, Division, GeometryAssumption
<1>3. computeSet(addr) \in CacheSet
  BY <1>2, Division, GeometryAssumption DEF computeSet, CacheSet
<1>4. QED
  BY <1>3, StartLine DEF computeSet

LEMMA Geometry ==
  /\ \A addr \in Address : /\ computeStartLine(addr) \in Line
                           /\ computeSet(addr) \in CacheSet
                           /\ computeSet(computeStartLine(addr)) = computeSet(addr)
  /\ \A a \in Line : computeSet(a) \in CacheSet
<1>1. \A addr \in Address : addr \in Nat
  BY GeometryAssumption
<1>2. \A addr \in Address : computeStartLine(addr) \in Line
  BY DEF Line
<1>3. \A addr \in Address : /\ computeSet(addr) \in CacheSet
                            /\ computeSet(computeStartLine(addr)) = computeSet(addr)
  BY <1>1, SetOfAddress
<1>4. \A a \in Line : computeSet(a) \in CacheSet
  BY <1>3 DEF Line
<1>5. QED
  BY <1>2, <1>3, <1>4

-----------------------------------------------------------------------------
(* The concrete cache: what an access does to the ages. *)
LEMMA AccessAges ==
  ASSUME NEW f \in Lru!Ages, NEW a \in Line
  PROVE  /\ Lru!Access(f, a) \in Lru!Ages
         /\ Lru!Access(f, a)[a] = 0
         /\ \A b \in Line :
               \/ Lru!Access(f, a)[b] = f[b]
               \/ b = a
               \/ /\ computeSet(b) = computeSet(a)
                  /\ f[b] < f[a]
                  /\ Lru!Access(f, a)[b] = f[b] + 1
  BY GeometryAssumption DEF Lru!Access, Lru!Ages

(* An access to the youngest line of a set changes nothing. *)
LEMMA AccessYoungest ==
  ASSUME NEW f \in Lru!Ages, NEW a \in Line, f[a] = 0
  PROVE  Lru!Access(f, a) = f
<1>1. \A b \in Line : ~ (f[b] < f[a])
  BY GeometryAssumption DEF Lru!Ages
<1>2. f = [b \in Line |-> f[b]]
  BY DEF Lru!Ages
<1>3. QED
  BY <1>1, <1>2 DEF Lru!Access

(* The cache set keeps distinct ages. *)
LEMMA AccessDistinct ==
  ASSUME NEW f \in Lru!Ages, NEW a \in Line, Lru!Distinct(f)
  PROVE  Lru!Distinct(Lru!Access(f, a))
<1> DEFINE g == Lru!Access(f, a)
<1> SUFFICES ASSUME NEW b \in Line, NEW d \in Line, b # d,
                    computeSet(b) = computeSet(d), g[b] < nb_ways
             PROVE  g[b] # g[d]
  BY DEF Lru!Distinct, Lru!Cached
<1>1. /\ f[a] \in 0 .. nb_ways /\ f[b] \in 0 .. nb_ways /\ f[d] \in 0 .. nb_ways
      /\ nb_ways \in Nat
  BY GeometryAssumption DEF Lru!Ages
<1>2. \A x, y \in Line : x # y /\ computeSet(x) = computeSet(y) /\ f[x] < nb_ways
                            => f[x] # f[y]
  BY DEF Lru!Distinct, Lru!Cached
<1>3. /\ g[a] = 0
      /\ g[b] = IF b = a THEN 0
                ELSE IF computeSet(b) = computeSet(a) /\ f[b] < f[a] THEN f[b] + 1
                ELSE f[b]
      /\ g[d] = IF d = a THEN 0
                ELSE IF computeSet(d) = computeSet(a) /\ f[d] < f[a] THEN f[d] + 1
                ELSE f[d]
  BY DEF Lru!Access
<1> HIDE DEF g
<1>4. CASE b = a
  BY <1>1, <1>2, <1>3, <1>4
<1>5. CASE d = a
  BY <1>1, <1>2, <1>3, <1>5
<1>6. CASE b # a /\ d # a
  BY <1>1, <1>2, <1>3, <1>6
<1>7. QED
  BY <1>4, <1>5, <1>6
-----------------------------------------------------------------------------
(* The MUST caches. *)

(* Set c of the MUST cache bounds the ages f: the lines in way i map to    *)
(* cache set s and are at most i old.                                      *)
Bounds(f, c, s) ==
  \A i \in Must!Way : \A a \in c[i] : computeSet(a) = s /\ f[a] <= i
-----------------------------------------------------------------------------
(* MUST: the ways of one abstract set. *)

LEMMA MustFirstWayExists ==
  ASSUME NEW c, NEW a, Must!Holds(c, a)
  PROVE  /\ Must!FirstWay(c, a) \in Must!Way
         /\ a \in c[Must!FirstWay(c, a)]
         /\ \A j \in Must!Way : j < Must!FirstWay(c, a) => a \notin c[j]
<1> DEFINE S == {i \in Must!Way : a \in c[i]}
<1>1. S \in SUBSET Nat /\ S # {}
  BY GeometryAssumption DEF Must!Holds, Must!Way
<1>2. PICK i \in S : \A j \in S : i <= j
  BY <1>1, LeastNatural, Zenon
<1>3. i \in Must!Way /\ a \in c[i] /\ \A j \in Must!Way : j < i => a \notin c[j]
  BY <1>2, GeometryAssumption DEF Must!Way
<1>4. QED
  BY <1>3, Zenon DEF Must!FirstWay

(* MUST::GetAge: the way of a line, or the number of ways. *)
LEMMA GetAgeType ==
  ASSUME NEW c, NEW a
  PROVE  /\ Must!GetAge(c, a) \in 0 .. nb_ways
         /\ ~ Must!Absent(c, a) => /\ Must!Holds(c, a)
                                   /\ Must!GetAge(c, a) = Must!FirstWay(c, a)
         /\ Must!Absent(c, a) => Must!GetAge(c, a) = nb_ways
<1>1. CASE Must!Holds(c, a)
  BY <1>1, MustFirstWayExists, GeometryAssumption DEF Must!GetAge, Must!Absent, Must!Way
<1>2. CASE ~ Must!Holds(c, a)
  BY <1>2, GeometryAssumption DEF Must!GetAge, Must!Absent
<1>3. QED
  BY <1>1, <1>2

LEMMA MaxAgeBounds ==
  ASSUME NEW c, NEW A, A # {}
  PROVE  /\ Must!MaxAge(c, A) \in 0 .. nb_ways
         /\ \A a \in A : Must!GetAge(c, a) <= Must!MaxAge(c, A)
<1>1. CASE \E a \in A : Must!Absent(c, a)
  <2>1. Must!MaxAge(c, A) = nb_ways
    BY <1>1 DEF Must!MaxAge
  <2>2. QED
    BY <2>1, GetAgeType, GeometryAssumption
<1>2. CASE \A a \in A : ~ Must!Absent(c, a)
  <2> DEFINE S == {Must!GetAge(c, a) : a \in A}
  <2>1. \A a \in A : Must!GetAge(c, a) \in Must!Way
    BY <1>2, GetAgeType, GeometryAssumption DEF Must!Absent, Must!Way
  <2>2. S \in SUBSET (0 .. nb_ways) /\ S # {}
    BY GetAgeType
  <2>3. PICK m \in S : \A n \in S : n <= m
    BY <2>2, GreatestNatural, GeometryAssumption, Zenon
  <2>4. m \in Must!Way /\ (\E a \in A : Must!GetAge(c, a) = m)
                       /\ (\A a \in A : Must!GetAge(c, a) <= m)
    BY <2>1, <2>3
  <2>5. /\ Must!MaxAge(c, A) \in Must!Way
        /\ \A a \in A : Must!GetAge(c, a) <= Must!MaxAge(c, A)
    BY <1>2, <2>4, Zenon DEF Must!MaxAge
  <2>6. QED
    BY <2>5, GeometryAssumption DEF Must!Way
<1>3. QED
  BY <1>1, <1>2

(* A line's abstract age bounds its concrete age. *)
LEMMA GetAgeBounds ==
  ASSUME NEW f \in Lru!Ages, NEW c, NEW s, Bounds(f, c, s), NEW a \in Line
  PROVE  f[a] <= Must!GetAge(c, a)
<1>1. CASE Must!Absent(c, a)
  BY <1>1, GetAgeType, GeometryAssumption DEF Lru!Ages
<1>2. CASE ~ Must!Absent(c, a)
  BY <1>2, GetAgeType, MustFirstWayExists DEF Bounds
<1>3. QED
  BY <1>1, <1>2

-----------------------------------------------------------------------------
(* MUST: type. *)

LEMMA ShiftType ==
  ASSUME NEW c \in Must!Contents, NEW pos \in 0 .. nb_ways, NEW mru \in SUBSET Line
  PROVE  Must!Shift(c, pos, mru) \in Must!Contents
<1>1. \A i \in Must!Way : i # 0 => i - 1 \in Must!Way
  BY GeometryAssumption DEF Must!Way
<1>2. QED
  BY <1>1 DEF Must!Shift, Must!Contents

LEMMA MustEraseType ==
  ASSUME NEW c \in Must!Contents, NEW a
  PROVE  Must!Erase(c, a) \in Must!Contents
  BY DEF Must!Erase, Must!Contents

LEMMA MustUpdateType ==
  ASSUME NEW c \in Must!Contents, NEW a \in Line
  PROVE  Must!Update(c, a) \in Must!Contents
<1>1. Must!Holds(c, a) => Must!FirstWay(c, a) \in 0 .. nb_ways
  BY MustFirstWayExists, GeometryAssumption DEF Must!Way
<1>2. nb_ways \in 0 .. nb_ways
  BY GeometryAssumption
<1>3. {a} \in SUBSET Line
  OBVIOUS
<1>4. QED
  BY <1>1, <1>2, <1>3, ShiftType, MustEraseType DEF Must!Update

LEMMA MustUpdateSetType ==
  ASSUME NEW c \in Must!Contents, NEW A \in SUBSET Line, A # {}
  PROVE  Must!UpdateSet(c, A) \in Must!Contents
<1>1. Must!MaxAge(c, A) \in 0 .. nb_ways
  BY MaxAgeBounds
<1>2. QED
  BY <1>1, ShiftType DEF Must!UpdateSet

LEMMA MustJoinType ==
  ASSUME NEW c \in Must!Contents, NEW d \in Must!Contents
  PROVE  Must!Join(c, d) \in Must!Contents
  BY DEF Must!Join, Must!Contents

-----------------------------------------------------------------------------
(* MUST: well-formedness: disjoint ways, at most one line in way 0. *)

LEMMA ShiftMember ==
  ASSUME NEW c, NEW pos \in 0 .. nb_ways, NEW mru, NEW i \in Must!Way, NEW b,
         b \in Must!Shift(c, pos, mru)[i]
  PROVE  \/ i = 0 /\ b \in mru
         \/ i # 0 /\ i - 1 \in Must!Way /\ i <= pos /\ b \in c[i - 1]
         \/ i # 0 /\ i >= pos /\ b \in c[i]
<1>1. i \in Nat /\ pos \in Nat /\ (i # 0 => i - 1 \in Must!Way)
  BY GeometryAssumption DEF Must!Way
<1>2. b \in IF i = 0 THEN mru
            ELSE IF i < pos THEN c[i - 1]
            ELSE IF i = pos THEN c[i] \cup c[i - 1]
            ELSE c[i]
  BY DEF Must!Shift
<1>3. QED
  BY <1>1, <1>2

LEMMA ShiftWellFormed ==
  ASSUME NEW c \in Must!Contents, NEW pos \in 0 .. nb_ways,
         NEW mru \in SUBSET Line,
         \A i, j \in Must!Way : i # j => c[i] \cap c[j] = {},
         \A i \in Must!Way : c[i] \cap mru = {},
         \A a, b \in mru : a = b
  PROVE  Must!WellFormed(Must!Shift(c, pos, mru))
<1> DEFINE g == Must!Shift(c, pos, mru)
<1>1. 0 \in Must!Way /\ \A i \in Must!Way : i \in Nat
  BY GeometryAssumption DEF Must!Way
<1>2. \A i, j \in Must!Way : \A a : a \in c[i] /\ a \in c[j] => i = j
  OBVIOUS
<1>3. ASSUME NEW i \in Must!Way, NEW j \in Must!Way, i < j
      PROVE  g[i] \cap g[j] = {}
  <2> SUFFICES ASSUME NEW a, a \in g[i], a \in g[j]
               PROVE  FALSE
    OBVIOUS
  <2>1. \/ i = 0 /\ a \in mru
        \/ i # 0 /\ i - 1 \in Must!Way /\ i <= pos /\ a \in c[i - 1]
        \/ i # 0 /\ i >= pos /\ a \in c[i]
    BY ShiftMember
  <2>2. \/ j = 0 /\ a \in mru
        \/ j # 0 /\ j - 1 \in Must!Way /\ j <= pos /\ a \in c[j - 1]
        \/ j # 0 /\ j >= pos /\ a \in c[j]
    BY ShiftMember
  <2> HIDE DEF g
  <2>3. i \in Nat /\ j \in Nat /\ pos \in Nat
    BY <1>1, GeometryAssumption
  <2>4. CASE i = 0 /\ a \in mru
    BY <1>3, <2>2, <2>3, <2>4
  <2>5. CASE i # 0 /\ i - 1 \in Must!Way /\ i <= pos /\ a \in c[i - 1]
    BY <1>2, <1>3, <2>2, <2>3, <2>5
  <2>6. CASE i # 0 /\ i >= pos /\ a \in c[i]
    BY <1>2, <1>3, <2>2, <2>3, <2>6
  <2>7. QED
    BY <2>1, <2>4, <2>5, <2>6
<1>4. \A i, j \in Must!Way : i # j => g[i] \cap g[j] = {}
  <2> SUFFICES ASSUME NEW i \in Must!Way, NEW j \in Must!Way, i # j
               PROVE  g[i] \cap g[j] = {}
    OBVIOUS
  <2>1. i < j \/ j < i
    BY <1>1
  <2> HIDE DEF g
  <2>2. QED
    BY <2>1, <1>3
<1>5. g[0] = mru
  BY <1>1 DEF Must!Shift
<1>6. QED
  BY <1>4, <1>5 DEF Must!WellFormed

LEMMA MustUpdateWellFormed ==
  ASSUME NEW c \in Must!Contents, Must!WellFormed(c), NEW a \in Line
  PROVE  Must!WellFormed(Must!Update(c, a))
<1> DEFINE e == Must!Erase(c, a)
<1>1. e \in Must!Contents
  BY MustEraseType
<1>2. \A i \in Must!Way : e[i] \subseteq c[i] /\ a \notin e[i]
  <2>1. \A i, j \in Must!Way : a \in c[i] /\ a \in c[j] => i = j
    BY DEF Must!WellFormed
  <2>2. \A i \in Must!Way : i \in Int
    BY DEF Must!Way
  <2>3. \A i \in Must!Way : \A b : b \in e[i] =>
          /\ b \in c[i]
          /\ b = a => \E j \in Must!Way : j < i /\ a \in c[j]
    BY DEF Must!Erase
  <2> HIDE DEF e
  <2>4. QED
    BY <2>1, <2>2, <2>3
<1>3. \A i, j \in Must!Way : i # j => e[i] \cap e[j] = {}
  BY <1>2 DEF Must!WellFormed
<1>4. CASE a \in c[0]
  BY <1>4 DEF Must!Update
<1>5. CASE a \notin c[0]
  <2> DEFINE pos == IF Must!Holds(c, a) THEN Must!FirstWay(c, a) ELSE nb_ways
  <2>1. pos \in 0 .. nb_ways
    BY MustFirstWayExists, GeometryAssumption DEF Must!Way
  <2>2. Must!Update(c, a) = Must!Shift(e, pos, {a})
    BY <1>5 DEF Must!Update
  <2> HIDE DEF pos, e
  <2>3. QED
    BY <1>1, <1>2, <1>3, <2>1, <2>2, ShiftWellFormed
<1>6. QED
  BY <1>4, <1>5

LEMMA MustUpdateSetWellFormed ==
  ASSUME NEW c \in Must!Contents, Must!WellFormed(c), NEW A \in SUBSET Line, A # {}
  PROVE  Must!WellFormed(Must!UpdateSet(c, A))
<1>1. Must!MaxAge(c, A) \in 0 .. nb_ways
  BY MaxAgeBounds
<1>2. Must!WellFormed(Must!Shift(c, Must!MaxAge(c, A), {}))
  BY <1>1, ShiftWellFormed DEF Must!WellFormed
<1>3. QED
  BY <1>2 DEF Must!UpdateSet

LEMMA MustJoinWellFormed ==
  ASSUME NEW c \in Must!Contents, NEW d \in Must!Contents,
         Must!WellFormed(c), Must!WellFormed(d)
  PROVE  Must!WellFormed(Must!Join(c, d))
<1> DEFINE g == Must!Join(c, d)
<1>1. /\ \A i, j \in Must!Way : \A a : a \in c[i] /\ a \in c[j] => i = j
      /\ \A i, j \in Must!Way : \A a : a \in d[i] /\ a \in d[j] => i = j
      /\ \A a, b : a \in c[0] /\ b \in c[0] => a = b
  BY DEF Must!WellFormed
<1>2. 0 \in Must!Way /\ \A i \in Must!Way : i \in Nat /\ 0 .. i \subseteq Must!Way
  BY GeometryAssumption DEF Must!Way
<1>3. \A i \in Must!Way : \A a : a \in g[i] =>
         \E j, k \in Must!Way : /\ a \in c[j] /\ a \in d[k]
                                /\ j <= i /\ k <= i /\ (j = i \/ k = i)
  <2> SUFFICES ASSUME NEW i \in Must!Way, NEW a, a \in g[i]
               PROVE  \E j, k \in Must!Way : /\ a \in c[j] /\ a \in d[k]
                                             /\ j <= i /\ k <= i /\ (j = i \/ k = i)
    OBVIOUS
  <2>1. CASE a \in c[i] /\ \E j \in 0 .. i : a \in d[j]
    BY <2>1, <1>2
  <2>2. CASE a \in d[i] /\ \E j \in 0 .. i : a \in c[j]
    BY <2>2, <1>2
  <2>3. QED
    BY <2>1, <2>2 DEF Must!Join
<1> HIDE DEF g
<1>4. ASSUME NEW i \in Must!Way, NEW j \in Must!Way, NEW a, a \in g[i], a \in g[j]
      PROVE  i = j
  <2>1. PICK i1, i2 \in Must!Way : /\ a \in c[i1] /\ a \in d[i2]
                                   /\ i1 <= i /\ i2 <= i /\ (i1 = i \/ i2 = i)
    BY <1>3, <1>4
  <2>2. PICK j1, j2 \in Must!Way : /\ a \in c[j1] /\ a \in d[j2]
                                   /\ j1 <= j /\ j2 <= j /\ (j1 = j \/ j2 = j)
    BY <1>3, <1>4
  <2>3. i1 = j1 /\ i2 = j2
    BY <1>1, <2>1, <2>2
  <2>4. QED
    BY <1>2, <2>1, <2>2, <2>3
<1>5. \A a, b : a \in g[0] /\ b \in g[0] => a = b
  <2> SUFFICES ASSUME NEW a, NEW b, a \in g[0], b \in g[0]
               PROVE  a = b
    OBVIOUS
  <2>1. a \in c[0] /\ b \in c[0]
    BY <1>2, <1>3
  <2>2. QED
    BY <1>1, <2>1
<1>6. QED
  BY <1>4, <1>5 DEF Must!WellFormed, g

-----------------------------------------------------------------------------
(* MUST: soundness of the operations on one set. *)

(* Ageing the ways below pos follows an access to a line at most pos old. *)
LEMMA ShiftBounds ==
  ASSUME NEW f \in Lru!Ages, NEW c, NEW s, Bounds(f, c, s),
         NEW a \in Line, computeSet(a) = s,
         NEW pos \in 0 .. nb_ways, pos # 0, f[a] <= pos,
         NEW mru \in SUBSET {a},
         \A i \in Must!Way : c[i] \subseteq Line
  PROVE  Bounds(Lru!Access(f, a), Must!Shift(c, pos, mru), s)
<1> DEFINE g == Must!Shift(c, pos, mru)
           h == Lru!Access(f, a)
<1> SUFFICES ASSUME NEW i \in Must!Way, NEW b \in g[i]
             PROVE  computeSet(b) = s /\ h[b] <= i
  BY DEF Bounds
<1>1. i \in Nat /\ pos \in Nat
  BY GeometryAssumption DEF Must!Way
<1>2. \/ i = 0 /\ b \in mru
      \/ i # 0 /\ i - 1 \in Must!Way /\ i <= pos /\ b \in c[i - 1]
      \/ i # 0 /\ i >= pos /\ b \in c[i]
  BY ShiftMember
<1>3. \A x \in Line : f[x] \in Nat
  BY GeometryAssumption DEF Lru!Ages
<1>4. h[a] = 0
  BY AccessAges
<1>5. \A x \in Line : h[x] = f[x] \/ x = a \/ (f[x] < f[a] /\ h[x] = f[x] + 1)
  BY AccessAges
<1> HIDE DEF g, h
<1>6. CASE b = a
  BY <1>1, <1>4, <1>6
<1>7. CASE b # a /\ i - 1 \in Must!Way /\ i <= pos /\ b \in c[i - 1]
  <2>1. b \in Line /\ computeSet(b) = s /\ f[b] <= i - 1
    BY <1>7 DEF Bounds
  <2>2. QED
    BY <1>1, <1>3, <1>5, <1>7, <2>1
<1>8. CASE b # a /\ i >= pos /\ b \in c[i]
  <2>1. b \in Line /\ computeSet(b) = s /\ f[b] <= i
    BY <1>8 DEF Bounds
  <2>2. QED
    BY <1>1, <1>3, <1>5, <1>8, <2>1
<1>9. QED
  BY <1>2, <1>6, <1>7, <1>8

(* Ageing the ways is sound when nothing is accessed. *)
LEMMA ShiftBoundsNoAccess ==
  ASSUME NEW f \in Lru!Ages, NEW c, NEW s, Bounds(f, c, s),
         NEW pos \in 0 .. nb_ways,
         \A i \in Must!Way : c[i] \subseteq Line
  PROVE  Bounds(f, Must!Shift(c, pos, {}), s)
<1> SUFFICES ASSUME NEW i \in Must!Way, NEW b \in Must!Shift(c, pos, {})[i]
             PROVE  computeSet(b) = s /\ f[b] <= i
  BY DEF Bounds
<1>1. \/ i - 1 \in Must!Way /\ b \in c[i - 1]
      \/ b \in c[i]
  BY ShiftMember
<1>2. i \in Nat /\ \A x \in Line : f[x] \in Nat
  BY GeometryAssumption DEF Must!Way, Lru!Ages
<1>3. CASE b \in c[i]
  BY <1>3 DEF Bounds
<1>4. CASE i - 1 \in Must!Way /\ b \in c[i - 1]
  <2>1. b \in Line /\ computeSet(b) = s /\ f[b] <= i - 1
    BY <1>4 DEF Bounds
  <2>2. QED
    BY <1>2, <2>1
<1>5. QED
  BY <1>1, <1>3, <1>4

LEMMA UpdateBounds ==
  ASSUME NEW f \in Lru!Ages, NEW c \in Must!Contents, NEW s, Bounds(f, c, s),
         NEW a \in Line, computeSet(a) = s
  PROVE  Bounds(Lru!Access(f, a), Must!Update(c, a), s)
<1>1. CASE a \in c[0]
  <2>1. f[a] = 0
    BY <1>1, GeometryAssumption DEF Bounds, Must!Way, Lru!Ages
  <2>2. QED
    BY <1>1, <2>1, AccessYoungest DEF Must!Update
<1>2. CASE a \notin c[0]
  <2> DEFINE e == Must!Erase(c, a)
             pos == IF Must!Holds(c, a) THEN Must!FirstWay(c, a) ELSE nb_ways
  <2>1. Bounds(f, e, s) /\ \A i \in Must!Way : e[i] \subseteq Line
    BY DEF Must!Erase, Bounds, Must!Contents
  <2>2. pos \in 0 .. nb_ways /\ pos # 0
    BY <1>2, MustFirstWayExists, GeometryAssumption DEF Must!Way
  <2>3. f[a] <= pos
    BY MustFirstWayExists, GeometryAssumption DEF Bounds, Lru!Ages
  <2>4. Must!Update(c, a) = Must!Shift(e, pos, {a})
    BY <1>2 DEF Must!Update
  <2> HIDE DEF e, pos
  <2>5. QED
    BY <2>1, <2>2, <2>3, <2>4, ShiftBounds
<1>3. QED
  BY <1>1, <1>2

LEMMA UpdateSetBounds ==
  ASSUME NEW f \in Lru!Ages, NEW c \in Must!Contents, NEW s, Bounds(f, c, s),
         NEW A \in SUBSET Line, A # {}
  PROVE  /\ Bounds(f, Must!UpdateSet(c, A), s)
         /\ \A a \in A : computeSet(a) = s
                => Bounds(Lru!Access(f, a), Must!UpdateSet(c, A), s)
<1> DEFINE m == Must!MaxAge(c, A)
<1>1. m \in 0 .. nb_ways /\ \A a \in A : Must!GetAge(c, a) <= m
  BY MaxAgeBounds
<1>2. \A i \in Must!Way : c[i] \subseteq Line
  BY DEF Must!Contents
<1>3. Must!UpdateSet(c, A) = IF m = 0 THEN c ELSE Must!Shift(c, m, {})
  BY DEF Must!UpdateSet
<1>4. ASSUME NEW a \in A
      PROVE  f[a] <= m
  <2>1. /\ f[a] \in Nat /\ Must!GetAge(c, a) \in Nat
        /\ f[a] <= Must!GetAge(c, a) /\ Must!GetAge(c, a) <= m
    BY <1>1, GetAgeBounds, GetAgeType, GeometryAssumption DEF Lru!Ages
  <2>2. QED
    BY <1>1, <2>1
<1> HIDE DEF m
<1>5. Bounds(f, Must!UpdateSet(c, A), s)
  BY <1>1, <1>2, <1>3, ShiftBoundsNoAccess
<1>6. ASSUME NEW a \in A, computeSet(a) = s
      PROVE  Bounds(Lru!Access(f, a), Must!UpdateSet(c, A), s)
  <2>1. CASE m = 0
    <3>1. f[a] = 0
      BY <1>4, <2>1, GeometryAssumption DEF Lru!Ages
    <3>2. QED
      BY <1>3, <2>1, <3>1, AccessYoungest
  <2>2. CASE m # 0
    BY <1>1, <1>2, <1>3, <1>4, <1>6, <2>2, ShiftBounds
  <2>3. QED
    BY <2>1, <2>2
<1>7. QED
  BY <1>5, <1>6

LEMMA JoinBounds ==
  ASSUME NEW f \in Lru!Ages, NEW c \in Must!Contents, NEW d \in Must!Contents,
         NEW s, Bounds(f, c, s) \/ Bounds(f, d, s)
  PROVE  Bounds(f, Must!Join(c, d), s)
<1> SUFFICES ASSUME NEW i \in Must!Way, NEW a \in Must!Join(c, d)[i]
             PROVE  computeSet(a) = s /\ f[a] <= i
  BY DEF Bounds
<1>1. i \in Nat /\ 0 .. i \subseteq Must!Way
  BY GeometryAssumption DEF Must!Way
<1>2. \E j, k \in 0 .. i : a \in c[j] /\ a \in d[k]
  BY <1>1 DEF Must!Join
<1>3. a \in Line /\ f[a] \in Nat
  BY <1>1, <1>2, GeometryAssumption DEF Must!Contents, Lru!Ages
<1>4. PICK k \in 0 .. i : computeSet(a) = s /\ f[a] <= k
  BY <1>1, <1>2 DEF Bounds
<1>5. QED
  BY <1>1, <1>3, <1>4

(* An access to a line of another set. *)
LEMMA OtherSetBounds ==
  ASSUME NEW f \in Lru!Ages, NEW c \in Must!Contents, NEW s, Bounds(f, c, s),
         NEW a \in Line, computeSet(a) # s
  PROVE  Bounds(Lru!Access(f, a), c, s)
<1>1. \A i \in Must!Way : c[i] \subseteq Line
  BY DEF Must!Contents
<1>2. \A b \in Line : computeSet(b) = s => Lru!Access(f, a)[b] = f[b]
  BY AccessAges
<1>3. QED
  BY <1>1, <1>2 DEF Bounds

-----------------------------------------------------------------------------
(* MUST: the operations on a whole cache. *)

MustCaches == [CacheSet -> Must!Contents]

MustWellFormedCache(m) == \A s \in CacheSet : Must!WellFormed(m[s])

CacheBounds(f, m) == \A s \in CacheSet : Bounds(f, m[s], s)

(* AbstractCache::Update(addr, cac). *)
LEMMA MustUpdateLineSound ==
  ASSUME NEW f \in Lru!Ages, NEW m \in MustCaches, MustWellFormedCache(m), CacheBounds(f, m),
         NEW addr \in Address, NEW cac \in CAC
  PROVE  LET u == UpdateLine(m, addr, cac, Must!Update, Must!Join)
         IN  /\ u \in MustCaches
             /\ MustWellFormedCache(u)
             /\ cac # "N" => CacheBounds(Lru!Access(f, computeStartLine(addr)), u)
             /\ cac # "A" => CacheBounds(f, u)
<1> DEFINE u == UpdateLine(m, addr, cac, Must!Update, Must!Join)
           a == computeStartLine(addr)
           s == computeSet(a)
           g == Lru!Access(f, a)
<1>1. a \in Line /\ s \in CacheSet
  BY Geometry
<1>2. g \in Lru!Ages
  BY <1>1, AccessAges
<1>3. /\ m[s] \in Must!Contents /\ Must!WellFormed(m[s]) /\ Bounds(f, m[s], s)
  BY <1>1 DEF MustCaches, MustWellFormedCache, CacheBounds
<1>4. /\ Must!Update(m[s], a) \in Must!Contents
      /\ Must!WellFormed(Must!Update(m[s], a))
      /\ Bounds(g, Must!Update(m[s], a), s)
  BY <1>1, <1>3, MustUpdateType, MustUpdateWellFormed, UpdateBounds
<1>5. /\ Must!Join(Must!Update(m[s], a), m[s]) \in Must!Contents
      /\ Must!WellFormed(Must!Join(Must!Update(m[s], a), m[s]))
      /\ Bounds(f, Must!Join(Must!Update(m[s], a), m[s]), s)
      /\ Bounds(g, Must!Join(Must!Update(m[s], a), m[s]), s)
  BY <1>2, <1>3, <1>4, MustJoinType, MustJoinWellFormed, JoinBounds
<1>6. \A t \in CacheSet \ {s} : /\ m[t] \in Must!Contents
                               /\ Bounds(f, m[t], t)
                               /\ Bounds(g, m[t], t)
  BY <1>1, OtherSetBounds DEF MustCaches, CacheBounds
<1>7. u = IF cac = "N" THEN m
          ELSE IF cac = "A" THEN [m EXCEPT ![s] = Must!Update(m[s], a)]
          ELSE [m EXCEPT ![s] = Must!Join(Must!Update(m[s], a), m[s])]
  BY DEF UpdateLine
<1> HIDE DEF u, a, s, g
<1>8. CASE cac = "N"
  BY <1>7, <1>8 DEF u
<1>9. CASE cac = "A"
  <2>1. u = [m EXCEPT ![s] = Must!Update(m[s], a)]
    BY <1>7, <1>9
  <2>2. u \in MustCaches /\ MustWellFormedCache(u) /\ CacheBounds(g, u)
    BY <1>1, <1>4, <1>6, <2>1 DEF MustCaches, MustWellFormedCache, CacheBounds
  <2>3. QED
    BY <1>9, <2>2 DEF u, g, a
<1>10. CASE cac \in {"U", "UN"}
  <2>1. u = [m EXCEPT ![s] = Must!Join(Must!Update(m[s], a), m[s])]
    BY <1>7, <1>10
  <2>2. u \in MustCaches /\ MustWellFormedCache(u) /\ CacheBounds(f, u) /\ CacheBounds(g, u)
    BY <1>1, <1>5, <1>6, <2>1 DEF MustCaches, MustWellFormedCache, CacheBounds
  <2>3. QED
    BY <2>2 DEF u, g, a
<1>11. QED
  BY <1>8, <1>9, <1>10 DEF CAC

(* AbstractCache::Update(addrs, cac). *)
LEMMA MustUpdateLinesSound ==
  ASSUME NEW f \in Lru!Ages, NEW m \in MustCaches, MustWellFormedCache(m), CacheBounds(f, m),
         NEW addrs \in SUBSET Address, addrs # {}, NEW cac \in CAC
  PROVE  LET u == UpdateLines(m, addrs, cac, Must!Update, Must!UpdateSet, Must!Join)
         IN  /\ u \in MustCaches
             /\ MustWellFormedCache(u)
             /\ cac # "N" => \A addr \in addrs :
                               CacheBounds(Lru!Access(f, computeStartLine(addr)), u)
             /\ cac # "A" => CacheBounds(f, u)
<1> DEFINE u == UpdateLines(m, addrs, cac, Must!Update, Must!UpdateSet, Must!Join)
<1>1. CASE cac = "N"
  BY <1>1 DEF UpdateLines
<1>2. CASE cac # "N" /\ \A x, y \in addrs : computeStartLine(x) = computeStartLine(y)
  <2> DEFINE x == CHOOSE addr \in addrs : TRUE
  <2>1. x \in addrs
    OBVIOUS
  <2>2. u = UpdateLine(m, x, cac, Must!Update, Must!Join)
    BY <1>2 DEF UpdateLines
  <2>3. \A addr \in addrs : computeStartLine(addr) = computeStartLine(x)
    BY <1>2, <2>1
  <2> HIDE DEF x, u
  <2>4. /\ u \in MustCaches
        /\ MustWellFormedCache(u)
        /\ cac # "N" => CacheBounds(Lru!Access(f, computeStartLine(x)), u)
        /\ cac # "A" => CacheBounds(f, u)
    BY <2>1, <2>2, MustUpdateLineSound
  <2>5. QED
    BY <2>3, <2>4 DEF u
<1>3. CASE cac # "N" /\ \E x, y \in addrs : computeStartLine(x) # computeStartLine(y)
  <2>1. u = [s \in CacheSet |-> IF Inserted(addrs, s) = {} THEN m[s]
                                ELSE Must!UpdateSet(m[s], Inserted(addrs, s))]
    BY <1>3 DEF UpdateLines
  <2> HIDE DEF u
  <2>2. \A s \in CacheSet : Inserted(addrs, s) \in SUBSET Line
    BY Geometry DEF Inserted
  <2>3. ASSUME NEW s \in CacheSet
        PROVE  /\ u[s] \in Must!Contents
               /\ Must!WellFormed(u[s])
               /\ Bounds(f, u[s], s)
    <3>1. m[s] \in Must!Contents /\ Must!WellFormed(m[s]) /\ Bounds(f, m[s], s)
      BY DEF MustCaches, MustWellFormedCache, CacheBounds
    <3>2. CASE Inserted(addrs, s) = {}
      BY <2>1, <3>1, <3>2
    <3>3. CASE Inserted(addrs, s) # {}
      BY <2>1, <2>2, <3>1, <3>3, MustUpdateSetType, MustUpdateSetWellFormed, UpdateSetBounds
    <3>4. QED
      BY <3>2, <3>3
  <2>4. u \in MustCaches
    BY <2>1, <2>3 DEF MustCaches
  <2>5. ASSUME NEW addr \in addrs, NEW s \in CacheSet
        PROVE  Bounds(Lru!Access(f, computeStartLine(addr)), u[s], s)
    <3> DEFINE a == computeStartLine(addr)
    <3>1. a \in Line /\ computeSet(a) = computeSet(addr)
      BY Geometry
    <3>2. m[s] \in Must!Contents /\ Must!WellFormed(m[s]) /\ Bounds(f, m[s], s)
      BY DEF MustCaches, MustWellFormedCache, CacheBounds
    <3>3. CASE computeSet(addr) = s
      <4>1. a \in Inserted(addrs, s)
        BY <3>3 DEF Inserted
      <4>2. u[s] = Must!UpdateSet(m[s], Inserted(addrs, s))
        BY <2>1, <4>1
      <4> HIDE DEF a
      <4>3. Bounds(Lru!Access(f, a), u[s], s)
        BY <2>2, <3>1, <3>2, <3>3, <4>1, <4>2, UpdateSetBounds
      <4>4. QED
        BY <4>3 DEF a
    <3>4. CASE computeSet(addr) # s
      BY <2>3, <3>1, <3>4, OtherSetBounds
    <3>5. QED
      BY <3>3, <3>4
  <2>6. QED
    BY <2>3, <2>4, <2>5 DEF MustWellFormedCache, CacheBounds, u
<1>4. QED
  BY <1>1, <1>2, <1>3

(* AbstractCache::Join. *)
LEMMA MustJoinCachesSound ==
  ASSUME NEW f \in Lru!Ages, NEW m \in MustCaches, NEW n \in MustCaches,
         MustWellFormedCache(m), MustWellFormedCache(n),
         CacheBounds(f, m) \/ CacheBounds(f, n)
  PROVE  LET u == JoinCaches(m, n, Must!Join)
         IN  u \in MustCaches /\ MustWellFormedCache(u) /\ CacheBounds(f, u)
<1> DEFINE u == JoinCaches(m, n, Must!Join)
<1>1. u = [s \in CacheSet |-> Must!Join(m[s], n[s])]
  BY DEF JoinCaches
<1> HIDE DEF u
<1>2. ASSUME NEW s \in CacheSet
      PROVE  /\ u[s] \in Must!Contents
             /\ Must!WellFormed(u[s])
             /\ Bounds(f, u[s], s)
  <2>1. /\ m[s] \in Must!Contents /\ n[s] \in Must!Contents
        /\ Must!WellFormed(m[s]) /\ Must!WellFormed(n[s])
        /\ Bounds(f, m[s], s) \/ Bounds(f, n[s], s)
    BY DEF MustCaches, MustWellFormedCache, CacheBounds
  <2>2. QED
    BY <1>1, <2>1, MustJoinType, MustJoinWellFormed, JoinBounds
<1>3. QED
  BY <1>1, <1>2 DEF MustCaches, MustWellFormedCache, CacheBounds, u
-----------------------------------------------------------------------------
(* The MAY caches. *)

(* Set c of the MAY cache covers the ages f: a cached line of cache set s  *)
(* is in a way no older than its age.                                      *)
MaySetCovers(f, c, s) ==
  \A a \in Line : computeSet(a) = s /\ f[a] < nb_ways
                    => \E i \in May!Way : i <= f[a] /\ a \in c[i]

-----------------------------------------------------------------------------
(* MAY: the ways of one abstract set. *)

LEMMA WayFacts ==
  /\ 0 \in May!Way
  /\ \A i \in May!Way : /\ i \in Nat /\ i < nb_ways
                        /\ i # 0 => i - 1 \in May!Way
  /\ \A i \in Nat : i < nb_ways => i \in May!Way
  BY GeometryAssumption DEF May!Way

LEMMA MayFirstWayExists ==
  ASSUME NEW c, NEW a, ~ May!Absent(c, a)
  PROVE  /\ May!FirstWay(c, a) \in May!Way
         /\ a \in c[May!FirstWay(c, a)]
         /\ \A j \in May!Way : j < May!FirstWay(c, a) => a \notin c[j]
<1> DEFINE S == {i \in May!Way : a \in c[i]}
<1>1. S \in SUBSET Nat /\ S # {}
  BY WayFacts DEF May!Absent
<1>2. PICK i \in S : \A j \in S : i <= j
  BY <1>1, LeastNatural, Zenon
<1>3. i \in May!Way /\ a \in c[i] /\ \A j \in May!Way : j < i => a \notin c[j]
  BY <1>2, WayFacts
<1>4. QED
  BY <1>3, Zenon DEF May!FirstWay

(* Type. *)

LEMMA MayEraseType ==
  ASSUME NEW c \in May!Contents, NEW A
  PROVE  May!Erase(c, A) \in May!Contents
  BY DEF May!Erase, May!Contents

LEMMA MayUpdateType ==
  ASSUME NEW c \in May!Contents, NEW a \in Line
  PROVE  May!Update(c, a) \in May!Contents
<1> DEFINE e == May!Erase(c, {a})
<1>1. \A i \in May!Way : e[i] \in SUBSET Line
  BY MayEraseType DEF May!Contents
<1> HIDE DEF e
<1>2. May!AgeYoungest(e, a) \in May!Contents
  BY <1>1, WayFacts DEF May!AgeYoungest, May!Contents
<1>3. ASSUME NEW pos
      PROVE  May!AgeBelow(e, pos, a) \in May!Contents
  BY <1>1, WayFacts DEF May!AgeBelow, May!Contents
<1>4. QED
  BY <1>2, <1>3 DEF May!Update, e

LEMMA MayUpdateSetType ==
  ASSUME NEW c \in May!Contents, NEW A \in SUBSET Line
  PROVE  May!UpdateSet(c, A) \in May!Contents
<1>1. May!Erase(c, A) \in May!Contents
  BY MayEraseType
<1>2. QED
  BY <1>1, WayFacts DEF May!UpdateSet, May!Contents

LEMMA MayJoinType ==
  ASSUME NEW c \in May!Contents, NEW d \in May!Contents
  PROVE  May!Join(c, d) \in May!Contents
  BY DEF May!Join, May!Contents
-----------------------------------------------------------------------------
(* MAY: well-formedness: disjoint ways. *)

LEMMA EraseFacts ==
  ASSUME NEW c \in May!Contents, May!WellFormed(c), NEW A
  PROVE  \A i \in May!Way : May!Erase(c, A)[i] = c[i] \ A
<1>1. \A i, j \in May!Way : \A b : b \in c[i] /\ b \in c[j] => i = j
  BY DEF May!WellFormed
<1>2. \A i, j \in May!Way : j < i => i # j
  BY WayFacts
<1>3. QED
  BY <1>1, <1>2 DEF May!Erase

LEMMA UpdateMember ==
  ASSUME NEW c \in May!Contents, May!WellFormed(c), NEW a \in Line,
         NEW i \in May!Way, NEW b, b \in May!Update(c, a)[i], b # a
  PROVE  IF a \in c[0]
         THEN \/ i = 1 /\ b \in c[0]
              \/ i # 0 /\ b \in c[i]
         ELSE LET pos == IF May!Absent(c, a) THEN nb_ways ELSE May!FirstWay(c, a)
              IN  \/ i # 0 /\ i - 1 \in May!Way /\ i <= pos /\ b \in c[i - 1]
                  \/ i # 0 /\ i >= pos /\ b \in c[i]
<1> DEFINE e == May!Erase(c, {a})
           pos == IF May!Absent(c, a) THEN nb_ways ELSE May!FirstWay(c, a)
<1>1. \A j \in May!Way : e[j] = c[j] \ {a}
  BY EraseFacts
<1>2. pos \in Nat
  BY MayFirstWayExists, WayFacts, GeometryAssumption
<1>3. CASE a \in c[0]
  <2>1. b \in IF i = 0 THEN {a} ELSE IF i = 1 THEN e[1] \cup e[0] ELSE e[i]
    BY <1>3 DEF May!Update, May!AgeYoungest
  <2> HIDE DEF e
  <2>2. QED
    BY <1>1, <1>3, <2>1, WayFacts
<1>4. CASE a \notin c[0]
  <2>1. b \in IF i = 0 THEN {a}
              ELSE IF i < pos THEN e[i - 1]
              ELSE IF i = pos THEN e[i] \cup e[i - 1]
              ELSE e[i]
    BY <1>4 DEF May!Update, May!AgeBelow
  <2> HIDE DEF e, pos
  <2>2. \/ i # 0 /\ i - 1 \in May!Way /\ i <= pos /\ b \in c[i - 1]
        \/ i # 0 /\ i >= pos /\ b \in c[i]
    BY <1>1, <1>2, <2>1, WayFacts
  <2>3. QED
    BY <1>4, <2>2 DEF pos
<1>5. QED
  BY <1>3, <1>4

LEMMA MayUpdateWellFormed ==
  ASSUME NEW c \in May!Contents, May!WellFormed(c), NEW a \in Line
  PROVE  May!WellFormed(May!Update(c, a))
<1> DEFINE u == May!Update(c, a)
           pos == IF May!Absent(c, a) THEN nb_ways ELSE May!FirstWay(c, a)
<1>1. \A i, j \in May!Way : \A b : b \in c[i] /\ b \in c[j] => i = j
  BY DEF May!WellFormed
<1>2. \A i \in May!Way : a \in u[i] => i = 0
  <2> DEFINE e == May!Erase(c, {a})
  <2>1. \A j \in May!Way : a \notin e[j]
    BY EraseFacts
  <2> HIDE DEF e
  <2>2. \A i \in May!Way : i # 0 => a \notin May!AgeYoungest(e, a)[i]
    BY <2>1, WayFacts DEF May!AgeYoungest
  <2>3. \A i \in May!Way : i # 0 => a \notin May!AgeBelow(e, pos, a)[i]
    BY <2>1, WayFacts DEF May!AgeBelow
  <2>4. u = May!AgeYoungest(e, a) \/ u = May!AgeBelow(e, pos, a)
    BY DEF May!Update, e
  <2> HIDE DEF pos, u
  <2>5. QED
    BY <2>2, <2>3, <2>4
<1>3. pos \in Nat
  BY MayFirstWayExists, WayFacts, GeometryAssumption
<1>4. ASSUME NEW i \in May!Way, NEW j \in May!Way, NEW b, b \in u[i], b \in u[j]
      PROVE  i = j
  <2>1. CASE b = a
    BY <1>2, <1>4, <2>1
  <2>2. CASE b # a /\ a \in c[0]
    <3>1. /\ (i = 1 /\ b \in c[0]) \/ (i # 0 /\ b \in c[i])
          /\ (j = 1 /\ b \in c[0]) \/ (j # 0 /\ b \in c[j])
      BY <1>4, <2>2, UpdateMember
    <3> HIDE DEF u, pos
    <3>2. QED
      BY <1>1, <3>1, WayFacts
  <2>3. CASE b # a /\ a \notin c[0]
    <3>1. /\ \/ i # 0 /\ i - 1 \in May!Way /\ i <= pos /\ b \in c[i - 1]
             \/ i # 0 /\ i >= pos /\ b \in c[i]
          /\ \/ j # 0 /\ j - 1 \in May!Way /\ j <= pos /\ b \in c[j - 1]
             \/ j # 0 /\ j >= pos /\ b \in c[j]
      BY <1>4, <2>3, UpdateMember
    <3> HIDE DEF u, pos
    <3>2. QED
      BY <1>1, <1>3, <3>1, WayFacts
  <2>4. QED
    BY <2>1, <2>2, <2>3
<1>5. QED
  BY <1>4 DEF May!WellFormed

LEMMA MayUpdateSetWellFormed ==
  ASSUME NEW c \in May!Contents, May!WellFormed(c), NEW A \in SUBSET Line
  PROVE  May!WellFormed(May!UpdateSet(c, A))
<1> DEFINE u == May!UpdateSet(c, A)
<1>1. \A i \in May!Way : May!Erase(c, A)[i] = c[i] \ A
  BY EraseFacts
<1>2. May!Erase(c, A) \in May!Contents
  BY MayEraseType
<1>3. \A i \in May!Way : u[i] = IF i = 0 THEN (c[i] \ A) \cup A ELSE c[i] \ A
  BY <1>1, <1>2, WayFacts DEF May!UpdateSet, May!Contents
<1> HIDE DEF u
<1>4. \A i, j \in May!Way : i # j => u[i] \cap u[j] = {}
  BY <1>3 DEF May!WellFormed
<1>5. QED
  BY <1>4 DEF May!WellFormed, u

LEMMA MayJoinWellFormed ==
  ASSUME NEW c \in May!Contents, NEW d \in May!Contents,
         May!WellFormed(c), May!WellFormed(d)
  PROVE  May!WellFormed(May!Join(c, d))
<1> DEFINE g == May!Join(c, d)
<1>1. /\ \A i, j \in May!Way : \A a : a \in c[i] /\ a \in c[j] => i = j
      /\ \A i, j \in May!Way : \A a : a \in d[i] /\ a \in d[j] => i = j
  BY DEF May!WellFormed
<1>2. \A i, j \in May!Way : j < i => j \in 0 .. i - 1
  BY WayFacts
<1>3. \A i \in May!Way : \A a : a \in g[i] =>
         \/ a \in c[i] /\ \A j \in May!Way : j < i => a \notin d[j]
         \/ a \in d[i] /\ \A j \in May!Way : j < i => a \notin c[j]
  BY <1>2 DEF May!Join
<1> HIDE DEF g
<1>4. ASSUME NEW i \in May!Way, NEW j \in May!Way, NEW a, a \in g[i], a \in g[j]
      PROVE  i = j
  <2>1. i \in Nat /\ j \in Nat
    BY WayFacts
  <2>2. i < j \/ j < i \/ i = j
    BY <2>1
  <2>3. QED
    BY <1>1, <1>3, <1>4, <2>2
<1>5. QED
  BY <1>4 DEF May!WellFormed, g
-----------------------------------------------------------------------------
(* MAY: coverage. *)

(* Where MAY::Update leaves the other lines. *)
LEMMA UpdateKeeps ==
  ASSUME NEW c \in May!Contents, May!WellFormed(c), NEW a \in Line,
         NEW i \in May!Way, NEW b \in c[i], b # a
  PROVE  LET u   == May!Update(c, a)
             pos == IF May!Absent(c, a) THEN nb_ways ELSE May!FirstWay(c, a)
         IN  IF a \in c[0]
             THEN /\ i # 0 => b \in u[i]
                  /\ i = 0 /\ 1 \in May!Way => b \in u[1]
             ELSE /\ i >= pos => b \in u[i]
                  /\ i < pos /\ i + 1 \in May!Way => b \in u[i + 1]
<1> DEFINE e == May!Erase(c, {a})
           pos == IF May!Absent(c, a) THEN nb_ways ELSE May!FirstWay(c, a)
           u == May!Update(c, a)
<1>1. b \in e[i]
  BY EraseFacts
<1>2. pos \in Nat
  BY MayFirstWayExists, WayFacts, GeometryAssumption
<1>3. CASE a \in c[0]
  <2>1. u = May!AgeYoungest(e, a)
    BY <1>3 DEF May!Update
  <2> HIDE DEF e, u
  <2>2. /\ i # 0 => b \in u[i]
        /\ i = 0 /\ 1 \in May!Way => b \in u[1]
    BY <1>1, <2>1, WayFacts DEF May!AgeYoungest
  <2>3. QED
    BY <1>3, <2>2 DEF u
<1>4. CASE a \notin c[0]
  <2>1. u = May!AgeBelow(e, pos, a)
    BY <1>4 DEF May!Update
  <2>2. pos # 0
    BY <1>4, MayFirstWayExists, WayFacts, GeometryAssumption
  <2> HIDE DEF e, u, pos
  <2>3. i >= pos => b \in u[i]
    BY <1>1, <1>2, <2>1, <2>2, WayFacts DEF May!AgeBelow
  <2>4. i < pos /\ i + 1 \in May!Way => b \in u[i + 1]
    BY <1>1, <1>2, <2>1, <2>2, WayFacts DEF May!AgeBelow
  <2>5. QED
    BY <1>4, <2>3, <2>4 DEF u, pos
<1>5. QED
  BY <1>3, <1>4

LEMMA UpdateCovers ==
  ASSUME NEW f \in Lru!Ages, Lru!Distinct(f),
         NEW c \in May!Contents, May!WellFormed(c), NEW s, MaySetCovers(f, c, s),
         NEW a \in Line, computeSet(a) = s
  PROVE  MaySetCovers(Lru!Access(f, a), May!Update(c, a), s)
<1> DEFINE g == Lru!Access(f, a)
           u == May!Update(c, a)
           pos == IF May!Absent(c, a) THEN nb_ways ELSE May!FirstWay(c, a)
<1> SUFFICES ASSUME NEW b \in Line, computeSet(b) = s, g[b] < nb_ways
             PROVE  \E i \in May!Way : i <= g[b] /\ b \in u[i]
  BY DEF MaySetCovers
<1>1. /\ f[a] \in 0 .. nb_ways /\ f[b] \in 0 .. nb_ways
      /\ nb_ways \in Nat
  BY GeometryAssumption DEF Lru!Ages
<1>2. g[b] = IF b = a THEN 0 ELSE IF f[b] < f[a] THEN f[b] + 1 ELSE f[b]
  BY DEF Lru!Access
<1>3. CASE b = a
  <2>1. a \in u[0]
    BY WayFacts DEF May!Update, May!AgeYoungest, May!AgeBelow
  <2>2. QED
    BY <1>2, <1>3, <2>1, WayFacts
<1>4. CASE b # a
  <2>1. f[b] < nb_ways
    BY <1>1, <1>2, <1>4
  <2>2. PICK i \in May!Way : i <= f[b] /\ b \in c[i]
    BY <2>1 DEF MaySetCovers
  <2>3. f[b] < f[a] \/ f[a] < f[b]
    BY <1>1, <1>4, <2>1 DEF Lru!Distinct, Lru!Cached
  <2>4. i \in Nat /\ i < nb_ways
    BY WayFacts
  <2>5. f[a] < f[b] => pos <= f[a] /\ pos \in Nat
    <3>1. SUFFICES ASSUME f[a] < f[b]
                   PROVE  pos <= f[a] /\ pos \in Nat
      OBVIOUS
    <3>2. PICK k \in May!Way : k <= f[a] /\ a \in c[k]
      BY <1>1, <2>1, <3>1 DEF MaySetCovers
    <3>3. pos \in May!Way /\ ~ (k < pos)
      BY <3>2, MayFirstWayExists DEF May!Absent
    <3> HIDE DEF pos
    <3>4. pos \in Nat /\ k \in Nat
      BY <3>3, WayFacts
    <3>5. QED
      BY <1>1, <3>2, <3>3, <3>4
  <2>6. IF a \in c[0]
        THEN /\ i # 0 => b \in u[i]
             /\ i = 0 /\ 1 \in May!Way => b \in u[1]
        ELSE /\ i >= pos => b \in u[i]
             /\ i < pos /\ i + 1 \in May!Way => b \in u[i + 1]
    BY <1>4, <2>2, UpdateKeeps
  <2>7. pos \in Nat
    BY MayFirstWayExists, WayFacts, GeometryAssumption
  <2> HIDE DEF pos, u, g
  <2>8. CASE a \in c[0]
    <3>1. g[b] >= 1 /\ g[b] >= f[b] /\ g[b] \in Nat
      BY <1>1, <1>2, <1>4, <2>3
    <3>2. 1 \in May!Way
      BY <3>1, <1>1, WayFacts
    <3>3. QED
      BY <1>1, <2>2, <2>4, <2>6, <2>8, <3>1, <3>2
  <2>9. CASE a \notin c[0]
    <3>1. g[b] >= f[b] /\ g[b] \in Nat
      BY <1>1, <1>2, <1>4
    <3>2. CASE i >= pos
      BY <1>1, <2>2, <2>4, <2>6, <2>9, <3>1, <3>2
    <3>3. CASE i < pos
      <4>1. i + 1 <= g[b]
        BY <1>1, <1>2, <1>4, <2>2, <2>3, <2>4, <2>5, <2>7, <3>3
      <4>2. i + 1 \in May!Way
        BY <1>1, <2>4, <3>1, <4>1, WayFacts
      <4>3. QED
        BY <2>6, <2>9, <3>3, <4>1, <4>2
    <3>4. QED
      BY <2>4, <2>7, <3>2, <3>3
  <2>10. QED
    BY <2>8, <2>9
<1>5. QED
  BY <1>3, <1>4

LEMMA UpdateSetCovers ==
  ASSUME NEW f \in Lru!Ages, NEW c \in May!Contents, May!WellFormed(c),
         NEW s, MaySetCovers(f, c, s), NEW A \in SUBSET Line
  PROVE  /\ MaySetCovers(f, May!UpdateSet(c, A), s)
         /\ \A a \in A : computeSet(a) = s
                           => MaySetCovers(Lru!Access(f, a), May!UpdateSet(c, A), s)
<1> DEFINE u == May!UpdateSet(c, A)
<1>1. \A i \in May!Way : May!Erase(c, A)[i] = c[i] \ A
  BY EraseFacts
<1>2. May!Erase(c, A) \in May!Contents
  BY MayEraseType
<1>3. \A i \in May!Way : u[i] = IF i = 0 THEN (c[i] \ A) \cup A ELSE c[i] \ A
  BY <1>1, <1>2, WayFacts DEF May!UpdateSet, May!Contents
<1> HIDE DEF u
<1>4. ASSUME NEW g \in Lru!Ages, \A b \in Line : b \in A \/ g[b] >= f[b]
      PROVE  MaySetCovers(g, u, s)
  <2> SUFFICES ASSUME NEW b \in Line, computeSet(b) = s, g[b] < nb_ways
               PROVE  \E i \in May!Way : i <= g[b] /\ b \in u[i]
    BY DEF MaySetCovers
  <2>1. g[b] \in Nat /\ f[b] \in Nat /\ nb_ways \in Nat
    BY GeometryAssumption DEF Lru!Ages
  <2>2. CASE b \in A
    <3>1. 0 \in May!Way /\ 0 <= g[b]
      BY <2>1, WayFacts
    <3>2. b \in u[0]
      BY <1>3, <2>2, <3>1
    <3>3. QED
      BY <3>1, <3>2
  <2>3. CASE b \notin A
    <3>1. f[b] <= g[b] /\ f[b] < nb_ways
      BY <1>4, <2>1, <2>3
    <3>2. PICK i \in May!Way : i <= f[b] /\ b \in c[i]
      BY <3>1 DEF MaySetCovers
    <3>3. i \in Nat /\ i <= g[b]
      <4>1. i \in Nat
        BY WayFacts
      <4>2. QED
        BY <2>1, <3>1, <3>2, <4>1
    <3>4. b \in u[i]
      BY <1>3, <2>3, <3>2
    <3>5. QED
      BY <3>3, <3>4
  <2>4. QED
    BY <2>2, <2>3
<1>5. MaySetCovers(f, u, s)
  <2>1. \A b \in Line : f[b] >= f[b]
    BY GeometryAssumption DEF Lru!Ages
  <2>2. QED
    BY <1>4, <2>1
<1>6. ASSUME NEW a \in A
      PROVE  MaySetCovers(Lru!Access(f, a), u, s)
  <2>1. Lru!Access(f, a) \in Lru!Ages
    BY AccessAges
  <2>2. \A b \in Line : b = a \/ Lru!Access(f, a)[b] >= f[b]
    BY GeometryAssumption DEF Lru!Access, Lru!Ages
  <2>3. QED
    BY <1>4, <2>1, <2>2
<1>7. QED
  BY <1>5, <1>6 DEF u

LEMMA JoinCovers ==
  ASSUME NEW f \in Lru!Ages, NEW c \in May!Contents, NEW d \in May!Contents,
         NEW s, MaySetCovers(f, c, s) \/ MaySetCovers(f, d, s)
  PROVE  MaySetCovers(f, May!Join(c, d), s)
<1> SUFFICES ASSUME NEW a \in Line, computeSet(a) = s, f[a] < nb_ways
             PROVE  \E i \in May!Way : i <= f[a] /\ a \in May!Join(c, d)[i]
  BY DEF MaySetCovers
<1> DEFINE S == {j \in May!Way : a \in c[j] \/ a \in d[j]}
<1>1. PICK k \in May!Way : k <= f[a] /\ (a \in c[k] \/ a \in d[k])
  BY DEF MaySetCovers
<1>2. S \in SUBSET Nat /\ k \in S
  BY <1>1, WayFacts
<1>3. PICK i \in S : \A j \in S : i <= j
  BY <1>2, LeastNatural, Zenon
<1>4. i \in May!Way /\ i <= k /\ i \in Nat /\ k \in Nat
  BY <1>2, <1>3
<1>5. \A j \in 0 .. i - 1 : j \in May!Way /\ ~ (i <= j)
  BY <1>4, GeometryAssumption DEF May!Way
<1>6. \A j \in 0 .. i - 1 : a \notin c[j] /\ a \notin d[j]
  BY <1>3, <1>5
<1>7. a \in May!Join(c, d)[i]
  BY <1>3, <1>4, <1>6 DEF May!Join
<1>8. f[a] \in Nat
  BY GeometryAssumption DEF Lru!Ages
<1>9. QED
  BY <1>1, <1>4, <1>7, <1>8

(* An access to a line of another set. *)
LEMMA MayOtherSetCovers ==
  ASSUME NEW f \in Lru!Ages, NEW c \in May!Contents, NEW s, MaySetCovers(f, c, s),
         NEW a \in Line, computeSet(a) # s
  PROVE  MaySetCovers(Lru!Access(f, a), c, s)
<1>1. \A b \in Line : computeSet(b) = s => Lru!Access(f, a)[b] = f[b]
  BY AccessAges
<1>2. QED
  BY <1>1 DEF MaySetCovers
-----------------------------------------------------------------------------
(* MAY: the operations on a whole cache. *)

MayCaches == [CacheSet -> May!Contents]

MayWellFormedCache(m) == \A s \in CacheSet : May!WellFormed(m[s])

MayCacheCovers(f, m) == \A s \in CacheSet : MaySetCovers(f, m[s], s)

(* AbstractCache::Update(addr, cac). *)
LEMMA MayUpdateLineSound ==
  ASSUME NEW f \in Lru!Ages, Lru!Distinct(f),
         NEW m \in MayCaches, MayWellFormedCache(m), MayCacheCovers(f, m),
         NEW addr \in Address, NEW cac \in CAC
  PROVE  LET u == UpdateLine(m, addr, cac, May!Update, May!Join)
         IN  /\ u \in MayCaches
             /\ MayWellFormedCache(u)
             /\ cac # "N" => MayCacheCovers(Lru!Access(f, computeStartLine(addr)), u)
             /\ cac # "A" => MayCacheCovers(f, u)
<1> DEFINE u == UpdateLine(m, addr, cac, May!Update, May!Join)
           a == computeStartLine(addr)
           s == computeSet(a)
           g == Lru!Access(f, a)
<1>1. a \in Line /\ s \in CacheSet
  BY Geometry
<1>2. g \in Lru!Ages
  BY <1>1, AccessAges
<1>3. /\ m[s] \in May!Contents /\ May!WellFormed(m[s]) /\ MaySetCovers(f, m[s], s)
  BY <1>1 DEF MayCaches, MayWellFormedCache, MayCacheCovers
<1>4. /\ May!Update(m[s], a) \in May!Contents
      /\ May!WellFormed(May!Update(m[s], a))
      /\ MaySetCovers(g, May!Update(m[s], a), s)
  BY <1>1, <1>3, MayUpdateType, MayUpdateWellFormed, UpdateCovers
<1>5. /\ May!Join(May!Update(m[s], a), m[s]) \in May!Contents
      /\ May!WellFormed(May!Join(May!Update(m[s], a), m[s]))
      /\ MaySetCovers(f, May!Join(May!Update(m[s], a), m[s]), s)
      /\ MaySetCovers(g, May!Join(May!Update(m[s], a), m[s]), s)
  BY <1>2, <1>3, <1>4, MayJoinType, MayJoinWellFormed, JoinCovers
<1>6. \A t \in CacheSet \ {s} : /\ m[t] \in May!Contents
                               /\ MaySetCovers(f, m[t], t)
                               /\ MaySetCovers(g, m[t], t)
  BY <1>1, MayOtherSetCovers DEF MayCaches, MayCacheCovers
<1>7. u = IF cac = "N" THEN m
          ELSE IF cac = "A" THEN [m EXCEPT ![s] = May!Update(m[s], a)]
          ELSE [m EXCEPT ![s] = May!Join(May!Update(m[s], a), m[s])]
  BY DEF UpdateLine
<1> HIDE DEF u, a, s, g
<1>8. CASE cac = "N"
  BY <1>7, <1>8 DEF u
<1>9. CASE cac = "A"
  <2>1. u = [m EXCEPT ![s] = May!Update(m[s], a)]
    BY <1>7, <1>9
  <2>2. u \in MayCaches /\ MayWellFormedCache(u) /\ MayCacheCovers(g, u)
    BY <1>1, <1>4, <1>6, <2>1 DEF MayCaches, MayWellFormedCache, MayCacheCovers
  <2>3. QED
    BY <1>9, <2>2 DEF u, g, a
<1>10. CASE cac \in {"U", "UN"}
  <2>1. u = [m EXCEPT ![s] = May!Join(May!Update(m[s], a), m[s])]
    BY <1>7, <1>10
  <2>2. u \in MayCaches /\ MayWellFormedCache(u) /\ MayCacheCovers(f, u) /\ MayCacheCovers(g, u)
    BY <1>1, <1>5, <1>6, <2>1 DEF MayCaches, MayWellFormedCache, MayCacheCovers
  <2>3. QED
    BY <2>2 DEF u, g, a
<1>11. QED
  BY <1>8, <1>9, <1>10 DEF CAC

(* AbstractCache::Update(addrs, cac). *)
LEMMA MayUpdateLinesSound ==
  ASSUME NEW f \in Lru!Ages, Lru!Distinct(f),
         NEW m \in MayCaches, MayWellFormedCache(m), MayCacheCovers(f, m),
         NEW addrs \in SUBSET Address, addrs # {}, NEW cac \in CAC
  PROVE  LET u == UpdateLines(m, addrs, cac, May!Update, May!UpdateSet, May!Join)
         IN  /\ u \in MayCaches
             /\ MayWellFormedCache(u)
             /\ cac # "N" => \A addr \in addrs :
                               MayCacheCovers(Lru!Access(f, computeStartLine(addr)), u)
             /\ cac # "A" => MayCacheCovers(f, u)
<1> DEFINE u == UpdateLines(m, addrs, cac, May!Update, May!UpdateSet, May!Join)
<1>1. CASE cac = "N"
  BY <1>1 DEF UpdateLines
<1>2. CASE cac # "N" /\ \A x, y \in addrs : computeStartLine(x) = computeStartLine(y)
  <2> DEFINE x == CHOOSE addr \in addrs : TRUE
  <2>1. x \in addrs
    OBVIOUS
  <2>2. u = UpdateLine(m, x, cac, May!Update, May!Join)
    BY <1>2 DEF UpdateLines
  <2>3. \A addr \in addrs : computeStartLine(addr) = computeStartLine(x)
    BY <1>2, <2>1
  <2> HIDE DEF x, u
  <2>4. /\ u \in MayCaches
        /\ MayWellFormedCache(u)
        /\ cac # "N" => MayCacheCovers(Lru!Access(f, computeStartLine(x)), u)
        /\ cac # "A" => MayCacheCovers(f, u)
    BY <2>1, <2>2, MayUpdateLineSound
  <2>5. QED
    BY <2>3, <2>4 DEF u
<1>3. CASE cac # "N" /\ \E x, y \in addrs : computeStartLine(x) # computeStartLine(y)
  <2>1. u = [s \in CacheSet |-> IF Inserted(addrs, s) = {} THEN m[s]
                                ELSE May!UpdateSet(m[s], Inserted(addrs, s))]
    BY <1>3 DEF UpdateLines
  <2> HIDE DEF u
  <2>2. \A s \in CacheSet : Inserted(addrs, s) \in SUBSET Line
    BY Geometry DEF Inserted
  <2>3. ASSUME NEW s \in CacheSet
        PROVE  /\ u[s] \in May!Contents
               /\ May!WellFormed(u[s])
               /\ MaySetCovers(f, u[s], s)
    <3>1. m[s] \in May!Contents /\ May!WellFormed(m[s]) /\ MaySetCovers(f, m[s], s)
      BY DEF MayCaches, MayWellFormedCache, MayCacheCovers
    <3>2. CASE Inserted(addrs, s) = {}
      BY <2>1, <3>1, <3>2
    <3>3. CASE Inserted(addrs, s) # {}
      BY <2>1, <2>2, <3>1, <3>3, MayUpdateSetType, MayUpdateSetWellFormed, UpdateSetCovers
    <3>4. QED
      BY <3>2, <3>3
  <2>4. u \in MayCaches
    BY <2>1, <2>3 DEF MayCaches
  <2>5. ASSUME NEW addr \in addrs, NEW s \in CacheSet
        PROVE  MaySetCovers(Lru!Access(f, computeStartLine(addr)), u[s], s)
    <3> DEFINE a == computeStartLine(addr)
    <3>1. a \in Line /\ computeSet(a) = computeSet(addr)
      BY Geometry
    <3>2. m[s] \in May!Contents /\ May!WellFormed(m[s]) /\ MaySetCovers(f, m[s], s)
      BY DEF MayCaches, MayWellFormedCache, MayCacheCovers
    <3>3. CASE computeSet(addr) = s
      <4>1. a \in Inserted(addrs, s)
        BY <3>3 DEF Inserted
      <4>2. u[s] = May!UpdateSet(m[s], Inserted(addrs, s))
        BY <2>1, <4>1
      <4> HIDE DEF a
      <4>3. MaySetCovers(Lru!Access(f, a), u[s], s)
        BY <2>2, <3>1, <3>2, <3>3, <4>1, <4>2, UpdateSetCovers
      <4>4. QED
        BY <4>3 DEF a
    <3>4. CASE computeSet(addr) # s
      BY <2>3, <3>1, <3>4, MayOtherSetCovers
    <3>5. QED
      BY <3>3, <3>4
  <2>6. QED
    BY <2>3, <2>4, <2>5 DEF MayWellFormedCache, MayCacheCovers, u
<1>4. QED
  BY <1>1, <1>2, <1>3

(* AbstractCache::Join. *)
LEMMA MayJoinCachesSound ==
  ASSUME NEW f \in Lru!Ages, NEW m \in MayCaches, NEW n \in MayCaches,
         MayWellFormedCache(m), MayWellFormedCache(n),
         MayCacheCovers(f, m) \/ MayCacheCovers(f, n)
  PROVE  LET u == JoinCaches(m, n, May!Join)
         IN  u \in MayCaches /\ MayWellFormedCache(u) /\ MayCacheCovers(f, u)
<1> DEFINE u == JoinCaches(m, n, May!Join)
<1>1. u = [s \in CacheSet |-> May!Join(m[s], n[s])]
  BY DEF JoinCaches
<1> HIDE DEF u
<1>2. ASSUME NEW s \in CacheSet
      PROVE  /\ u[s] \in May!Contents
             /\ May!WellFormed(u[s])
             /\ MaySetCovers(f, u[s], s)
  <2>1. /\ m[s] \in May!Contents /\ n[s] \in May!Contents
        /\ May!WellFormed(m[s]) /\ May!WellFormed(n[s])
        /\ MaySetCovers(f, m[s], s) \/ MaySetCovers(f, n[s], s)
    BY DEF MayCaches, MayWellFormedCache, MayCacheCovers
  <2>2. QED
    BY <1>1, <2>1, MayJoinType, MayJoinWellFormed, JoinCovers
<1>3. QED
  BY <1>1, <1>2 DEF MayCaches, MayWellFormedCache, MayCacheCovers, u
-----------------------------------------------------------------------------
(* The persistence caches. *)

(* "since" after an access to line a (Remember). *)
Remembered(l, si, a) ==
  [b \in Line |-> IF b = a THEN {}
                  ELSE IF b \in l /\ computeSet(b) = computeSet(a)
                    THEN si[b] \cup {a}
                  ELSE si[b]]

(* What the accesses since the loop was entered say of the ages f: the     *)
(* lines accessed since b are no older than b, and b is no older than      *)
(* their number.                                                           *)
History(f, l, si) ==
  /\ f \in Lru!Ages
  /\ l \in SUBSET Line
  /\ si \in [Line -> SUBSET Line]
  /\ \A b \in Line : \A x \in si[b] : computeSet(x) = computeSet(b) /\ f[x] <= f[b]
  /\ \A b \in l : f[b] <= Cardinality(si[b])

(* The sets the analysis builds: well formed, and without conflicts for a  *)
(* line that is not in the map.                                            *)
PsSet(c) ==
  /\ c \in Ps!Contents
  /\ Ps!WellFormed(c)
  /\ \A b \in Line \ c.present : c.conflicts[b] = {}

(* Set s of the persistence cache covers the accesses since the entry. *)
PsCovers(l, si, c, s) ==
  \A b \in l : computeSet(b) = s
                 => \/ b \in c.evicted
                    \/ b \in c.present /\ si[b] \subseteq c.conflicts[b]

PsCaches == {m \in [CacheSet -> Ps!Contents] : \A s \in CacheSet : PsSet(m[s])}

PsCacheCovers(l, si, m) == \A s \in CacheSet : PsCovers(l, si, m[s], s)

-----------------------------------------------------------------------------
(* PS: cardinalities. *)

LEMMA FiniteLines == IsFiniteSet(Line)
<1> DEFINE f == [addr \in Address |-> computeStartLine(addr)]
<1>1. f \in Surjection(Address, Line)
  BY DEF Surjection, Line
<1>2. QED
  BY <1>1, FiniteAddresses, FS_Surjection, Zenon

(* PS.tla has its own instance of the standard operator. *)
LEMMA SameCardinality == \A S : Ps!Cardinality(S) = Cardinality(S)
  BY Zenon DEF Cardinality, Ps!Cardinality

LEMMA Sizes ==
  ASSUME NEW S \in SUBSET Line
  PROVE  /\ Cardinality(S) \in Nat
         /\ \A T \in SUBSET S : Cardinality(T) <= Cardinality(S)
         /\ \A x : Cardinality(S \cup {x}) = IF x \in S THEN Cardinality(S)
                                             ELSE Cardinality(S) + 1
<1>1. IsFiniteSet(S)
  BY FiniteLines, FS_Subset
<1>2. QED
  BY <1>1, FS_CardinalityType, FS_Subset, FS_AddElement

LEMMA NoSize == Cardinality({}) = 0
  BY FS_EmptySet
-----------------------------------------------------------------------------
(* PS: the accesses since the entry. *)

LEMMA HistoryStep ==
  ASSUME NEW f, NEW l, NEW si, History(f, l, si), NEW a \in Line
  PROVE  History(Lru!Access(f, a), l \cup {a}, Remembered(l, si, a))
<1> DEFINE g == Lru!Access(f, a)
           sj == Remembered(l, si, a)
<1>1. /\ f \in Lru!Ages /\ l \in SUBSET Line /\ si \in [Line -> SUBSET Line]
      /\ \A b \in Line : \A x \in si[b] : computeSet(x) = computeSet(b) /\ f[x] <= f[b]
      /\ \A b \in l : f[b] <= Cardinality(si[b])
  BY DEF History
<1>2. g \in Lru!Ages /\ g[a] = 0
  BY <1>1, AccessAges
<1>3. \A b \in Line : f[b] \in Nat /\ g[b] \in Nat
  BY <1>1, <1>2, GeometryAssumption DEF Lru!Ages
<1>4. \A b \in Line \ {a} :
         g[b] = IF computeSet(b) = computeSet(a) /\ f[b] < f[a] THEN f[b] + 1
                ELSE f[b]
  BY DEF Lru!Access
<1>5. sj \in [Line -> SUBSET Line] /\ sj[a] = {}
  BY <1>1 DEF Remembered
<1>6. \A b \in Line \ {a} :
         sj[b] = IF b \in l /\ computeSet(b) = computeSet(a) THEN si[b] \cup {a}
                 ELSE si[b]
  BY DEF Remembered
<1> HIDE DEF g, sj
<1>7. ASSUME NEW b \in Line, NEW x \in sj[b]
      PROVE  computeSet(x) = computeSet(b) /\ g[x] <= g[b]
  <2>1. b # a /\ x \in Line
    BY <1>5, <1>7
  <2>2. CASE x = a
    <3>1. computeSet(x) = computeSet(b)
      BY <1>1, <1>6, <2>1, <2>2
    <3>2. QED
      BY <1>2, <1>3, <2>2, <3>1
  <2>3. CASE x # a
    <3>1. x \in si[b]
      BY <1>6, <2>1, <2>3
    <3>2. computeSet(x) = computeSet(b) /\ f[x] <= f[b]
      BY <1>1, <3>1
    <3>3. g[x] <= g[b]
      BY <1>3, <1>4, <2>1, <2>3, <3>2
    <3>4. QED
      BY <3>2, <3>3
  <2>4. QED
    BY <2>2, <2>3
<1>8. ASSUME NEW b \in l \cup {a}
      PROVE  g[b] <= Cardinality(sj[b])
  <2>1. CASE b = a
    BY <1>2, <1>5, <2>1, NoSize
  <2>2. CASE b # a /\ computeSet(b) # computeSet(a)
    BY <1>1, <1>4, <1>6, <2>2
  <2>3. CASE b # a /\ computeSet(b) = computeSet(a)
    <3>1. /\ sj[b] = si[b] \cup {a}
          /\ si[b] \in SUBSET Line
          /\ f[b] <= Cardinality(si[b])
      BY <1>1, <1>6, <2>3
    <3>2. /\ Cardinality(si[b]) \in Nat
          /\ Cardinality(sj[b]) = IF a \in si[b] THEN Cardinality(si[b])
                                  ELSE Cardinality(si[b]) + 1
      BY <3>1, Sizes
    <3>3. a \in si[b] => ~ (f[b] < f[a])
      BY <1>1, <1>3
    <3>4. g[b] = IF f[b] < f[a] THEN f[b] + 1 ELSE f[b]
      BY <1>1, <1>4, <2>3
    <3>5. f[b] \in Nat
      BY <1>1, <1>3
    <3>6. QED
      BY <3>1, <3>2, <3>3, <3>4, <3>5
  <2>4. QED
    BY <2>1, <2>2, <2>3
<1>9. History(g, l \cup {a}, sj)
  BY <1>1, <1>2, <1>5, <1>7, <1>8 DEF History
<1>10. QED
  BY <1>9 DEF g, sj

-----------------------------------------------------------------------------
(* PS: one abstract set. *)

(* The members of a set PersistentSet makes. *)
LEMMA PersistentSetFacts ==
  ASSUME NEW present \in SUBSET Line, NEW conflicts \in [Line -> SUBSET Line],
         NEW evicted \in SUBSET Line,
         NEW c, c = Ps!PersistentSet(present, conflicts, evicted)
  PROVE  /\ c \in Ps!Contents
         /\ c.present = present /\ c.evicted = evicted
         /\ \A b \in present : c.conflicts[b] = conflicts[b]
         /\ \A b \in Line \ present : c.conflicts[b] = {}
  BY DEF Ps!PersistentSet, Ps!Contents

LEMMA MakePsSet ==
  ASSUME NEW present \in SUBSET Line, NEW conflicts \in [Line -> SUBSET Line],
         NEW evicted \in SUBSET Line,
         present \cap evicted = {},
         \A b \in present : Cardinality(conflicts[b]) < nb_ways /\ b \notin conflicts[b]
  PROVE  PsSet(Ps!PersistentSet(present, conflicts, evicted))
<1> DEFINE c == Ps!PersistentSet(present, conflicts, evicted)
<1>1. /\ c \in Ps!Contents
      /\ c.present = present /\ c.evicted = evicted
      /\ \A b \in present : c.conflicts[b] = conflicts[b]
      /\ \A b \in Line \ present : c.conflicts[b] = {}
  BY PersistentSetFacts
<1> HIDE DEF c
<1>2. PsSet(c)
  BY <1>1, SameCardinality DEF PsSet, Ps!WellFormed
<1>3. QED
  BY <1>2 DEF c

LEMMA PsSetFacts ==
  ASSUME NEW c, PsSet(c)
  PROVE  /\ c.present \in SUBSET Line /\ c.evicted \in SUBSET Line
         /\ c.conflicts \in [Line -> SUBSET Line]
         /\ c.present \cap c.evicted = {}
         /\ \A b \in c.present : /\ Cardinality(c.conflicts[b]) < nb_ways
                                 /\ b \notin c.conflicts[b]
         /\ \A b \in Line \ c.present : c.conflicts[b] = {}
  BY SameCardinality DEF PsSet, Ps!Contents, Ps!WellFormed

LEMMA EmptySet == PsSet(Ps!Empty)
  BY MakePsSet, Zenon DEF Ps!Empty

LEMMA UpdateSound ==
  ASSUME NEW c, PsSet(c), NEW a \in Line,
         NEW l \in SUBSET Line, NEW si \in [Line -> SUBSET Line],
         PsCovers(l, si, c, computeSet(a))
  PROVE  /\ PsSet(Ps!Update(c, a))
         /\ PsCovers(l \cup {a}, Remembered(l, si, a), Ps!Update(c, a), computeSet(a))
<1> DEFINE touched  == [b \in Line |-> c.conflicts[b] \cup {a}]
           to_evict == {b \in c.present : Ps!Cardinality(touched[b]) = nb_ways}
           present  == (c.present \ to_evict) \cup {a}
           conflicts == [touched EXCEPT ![a] = {}]
           evicted  == (c.evicted \cup to_evict) \ {a}
           sj == Remembered(l, si, a)
           u == Ps!Update(c, a)
<1>1. u = Ps!PersistentSet(present, conflicts, evicted)
  BY DEF Ps!Update
<1>2. /\ c.present \in SUBSET Line /\ c.evicted \in SUBSET Line
      /\ c.conflicts \in [Line -> SUBSET Line]
      /\ c.present \cap c.evicted = {}
      /\ \A b \in c.present : /\ Cardinality(c.conflicts[b]) < nb_ways
                              /\ b \notin c.conflicts[b]
  BY PsSetFacts
<1>3. touched \in [Line -> SUBSET Line]
  BY <1>2
<1>4. /\ conflicts \in [Line -> SUBSET Line]
      /\ conflicts[a] = {}
      /\ \A b \in Line \ {a} : conflicts[b] = c.conflicts[b] \cup {a}
  BY <1>3
<1>5. present \in SUBSET Line /\ evicted \in SUBSET Line
  BY <1>2
<1>6. \A b \in c.present \ to_evict : Cardinality(c.conflicts[b] \cup {a}) < nb_ways
  <2>1. SUFFICES ASSUME NEW b \in c.present, b \notin to_evict
                 PROVE  Cardinality(c.conflicts[b] \cup {a}) < nb_ways
    OBVIOUS
  <2>2. Cardinality(c.conflicts[b] \cup {a}) # nb_ways
    BY <1>2, <2>1, SameCardinality
  <2>3. /\ c.conflicts[b] \in SUBSET Line
        /\ Cardinality(c.conflicts[b]) < nb_ways
    BY <1>2
  <2>4. /\ Cardinality(c.conflicts[b]) \in Nat
        /\ \/ Cardinality(c.conflicts[b] \cup {a}) = Cardinality(c.conflicts[b])
           \/ Cardinality(c.conflicts[b] \cup {a}) = Cardinality(c.conflicts[b]) + 1
    BY <2>3, Sizes
  <2>5. QED
    BY <2>2, <2>3, <2>4, GeometryAssumption
<1>7. \A b \in present : Cardinality(conflicts[b]) < nb_ways /\ b \notin conflicts[b]
  <2>1. SUFFICES ASSUME NEW b \in present
                 PROVE  Cardinality(conflicts[b]) < nb_ways /\ b \notin conflicts[b]
    OBVIOUS
  <2> HIDE DEF conflicts, to_evict
  <2>2. CASE b = a
    BY <1>4, <2>2, NoSize, GeometryAssumption
  <2>3. CASE b # a
    <3>1. b \in c.present \ to_evict
      BY <2>1, <2>3
    <3>2. conflicts[b] = c.conflicts[b] \cup {a}
      BY <1>2, <1>4, <2>3, <3>1
    <3>3. QED
      BY <1>2, <1>6, <2>3, <3>1, <3>2
  <2>4. QED
    BY <2>2, <2>3
<1>8. present \cap evicted = {}
  BY <1>2
<1> HIDE DEF conflicts, present, evicted, u
<1>9. PsSet(u)
  BY <1>1, <1>4, <1>5, <1>7, <1>8, MakePsSet
<1>10. /\ u.present = present /\ u.evicted = evicted
       /\ \A b \in present : u.conflicts[b] = conflicts[b]
  BY <1>1, <1>4, <1>5 DEF Ps!PersistentSet
<1>11. ASSUME NEW b \in l \cup {a}, computeSet(b) = computeSet(a)
       PROVE  \/ b \in u.evicted
              \/ b \in u.present /\ sj[b] \subseteq u.conflicts[b]
  <2>1. CASE b = a
    BY <1>10, <2>1 DEF present, Remembered
  <2>2. CASE b # a
    <3>1. b \in l /\ sj[b] = si[b] \cup {a}
      BY <1>11, <2>2 DEF Remembered
    <3> HIDE DEF sj, to_evict
    <3>2. CASE b \in c.evicted
      BY <1>10, <2>2, <3>2 DEF evicted
    <3>3. CASE b \in c.present /\ si[b] \subseteq c.conflicts[b]
      <4>1. CASE b \in to_evict
        BY <1>10, <2>2, <4>1 DEF evicted
      <4>2. CASE b \notin to_evict
        BY <1>4, <1>10, <2>2, <3>1, <3>3, <4>2 DEF present
      <4>3. QED
        BY <4>1, <4>2
    <3>4. QED
      BY <1>11, <3>1, <3>2, <3>3 DEF PsCovers
  <2>3. QED
    BY <2>1, <2>2
<1>12. QED
  BY <1>9, <1>11 DEF PsCovers, u

LEMMA UpdateSetSound ==
  ASSUME NEW c, PsSet(c), NEW A \in SUBSET Line,
         NEW l \in SUBSET Line, NEW si \in [Line -> SUBSET Line],
         NEW s, PsCovers(l, si, c, s)
  PROVE  /\ PsSet(Ps!UpdateSet(c, A))
         /\ PsCovers(l, si, Ps!UpdateSet(c, A), s)
         /\ \A a \in A : computeSet(a) = s
              => PsCovers(l \cup {a}, Remembered(l, si, a), Ps!UpdateSet(c, A), s)
<1> DEFINE absent   == (A \ c.present) \ c.evicted
           touched  == [b \in Line |-> IF b \in A THEN (c.conflicts[b] \cup A) \ {b}
                                       ELSE c.conflicts[b] \cup A]
           to_evict == {b \in c.present \cup absent :
                           Ps!Cardinality(touched[b]) >= nb_ways}
           present  == (c.present \cup absent) \ to_evict
           evicted  == c.evicted \cup to_evict
           u == Ps!UpdateSet(c, A)
<1>1. u = Ps!PersistentSet(present, touched, evicted)
  BY DEF Ps!UpdateSet
<1>2. /\ c.present \in SUBSET Line /\ c.evicted \in SUBSET Line
      /\ c.conflicts \in [Line -> SUBSET Line]
      /\ c.present \cap c.evicted = {}
      /\ \A b \in c.present : /\ Cardinality(c.conflicts[b]) < nb_ways
                              /\ b \notin c.conflicts[b]
  BY PsSetFacts
<1>3. /\ touched \in [Line -> SUBSET Line]
      /\ \A b \in Line : touched[b] = IF b \in A THEN (c.conflicts[b] \cup A) \ {b}
                                      ELSE c.conflicts[b] \cup A
  BY <1>2
<1> HIDE DEF touched
<1>4. present \in SUBSET Line /\ evicted \in SUBSET Line /\ present \cap evicted = {}
  BY <1>2
<1>5. \A b \in present : Cardinality(touched[b]) < nb_ways
  <2>1. \A b \in present : touched[b] \in SUBSET Line /\ ~ (Cardinality(touched[b]) >= nb_ways)
    BY <1>2, <1>3, SameCardinality
  <2>2. QED
    BY <2>1, Sizes, GeometryAssumption
<1>6. \A b \in present : b \notin touched[b]
  BY <1>2, <1>3
<1> HIDE DEF present, evicted, u
<1>7. PsSet(u)
  BY <1>1, <1>3, <1>4, <1>5, <1>6, MakePsSet
<1>8. /\ u.present = present /\ u.evicted = evicted
      /\ \A b \in present : u.conflicts[b] = touched[b]
  BY <1>1, <1>3, <1>4 DEF Ps!PersistentSet
<1>9. \A b \in c.present \cup absent : b \in u.evicted \/ b \in u.present
  BY <1>8 DEF present, evicted
<1>10. \A b \in c.evicted : b \in u.evicted
  BY <1>8 DEF evicted
<1>11. \A b \in u.present : u.conflicts[b] = touched[b] /\ b \in Line
  BY <1>4, <1>8
<1> HIDE DEF to_evict
<1>12. ASSUME NEW b \in l, computeSet(b) = s
       PROVE  \/ b \in u.evicted
              \/ /\ b \in u.present
                 /\ si[b] \subseteq u.conflicts[b]
                 /\ A \ {b} \subseteq u.conflicts[b]
  <2>1. CASE b \in c.evicted
    BY <1>10, <2>1
  <2>2. CASE b \in c.present /\ si[b] \subseteq c.conflicts[b]
    <3>1. b \notin si[b]
      BY <1>2, <2>2
    <3>2. si[b] \subseteq touched[b] /\ A \ {b} \subseteq touched[b]
      BY <1>3, <2>2, <3>1
    <3>3. QED
      BY <1>9, <1>11, <2>2, <3>2
  <2>3. QED
    BY <1>12, <2>1, <2>2 DEF PsCovers
<1>13. PsCovers(l, si, u, s)
  BY <1>12 DEF PsCovers
<1>14. ASSUME NEW a \in A, computeSet(a) = s,
              NEW b \in l \cup {a}, computeSet(b) = s
       PROVE  \/ b \in u.evicted
              \/ b \in u.present /\ Remembered(l, si, a)[b] \subseteq u.conflicts[b]
  <2>1. CASE b = a
    <3>1. Remembered(l, si, a)[b] = {}
      BY <2>1 DEF Remembered
    <3>2. b \in c.evicted \/ b \in c.present \cup absent
      BY <2>1
    <3>3. QED
      BY <1>9, <1>10, <3>1, <3>2
  <2>2. CASE b # a
    <3>1. b \in l /\ Remembered(l, si, a)[b] = si[b] \cup {a}
      BY <1>14, <2>2 DEF Remembered
    <3>2. a \in A \ {b}
      BY <2>2
    <3>3. QED
      BY <1>12, <1>14, <3>1, <3>2
  <2>3. QED
    BY <2>1, <2>2
<1>15. \A a \in A : computeSet(a) = s => PsCovers(l \cup {a}, Remembered(l, si, a), u, s)
  BY <1>14 DEF PsCovers
<1>16. QED
  BY <1>7, <1>13, <1>15 DEF u

LEMMA JoinSound ==
  ASSUME NEW c, PsSet(c), NEW d, PsSet(d)
  PROVE  /\ PsSet(Ps!Join(c, d))
         /\ \A l, si, s : PsCovers(l, si, c, s) \/ PsCovers(l, si, d, s)
                            => PsCovers(l, si, Ps!Join(c, d), s)
<1> DEFINE added == d.present \ c.evicted
           union == [b \in Line |-> c.conflicts[b] \cup d.conflicts[b]]
           full  == {b \in added : Ps!Cardinality(union[b]) >= nb_ways}
           present == ((c.present \cup added) \ full) \ d.evicted
           evicted == c.evicted \cup full \cup d.evicted
           u == Ps!Join(c, d)
<1>1. u = Ps!PersistentSet(present, union, evicted)
  BY DEF Ps!Join
<1>2. /\ c.present \in SUBSET Line /\ c.evicted \in SUBSET Line
      /\ c.conflicts \in [Line -> SUBSET Line]
      /\ c.present \cap c.evicted = {}
      /\ \A b \in c.present : /\ Cardinality(c.conflicts[b]) < nb_ways
                              /\ b \notin c.conflicts[b]
      /\ \A b \in Line \ c.present : c.conflicts[b] = {}
  BY PsSetFacts
<1>3. /\ d.present \in SUBSET Line /\ d.evicted \in SUBSET Line
      /\ d.conflicts \in [Line -> SUBSET Line]
      /\ d.present \cap d.evicted = {}
      /\ \A b \in d.present : /\ Cardinality(d.conflicts[b]) < nb_ways
                              /\ b \notin d.conflicts[b]
      /\ \A b \in Line \ d.present : d.conflicts[b] = {}
  BY PsSetFacts
<1>4. /\ union \in [Line -> SUBSET Line]
      /\ \A b \in Line : union[b] = c.conflicts[b] \cup d.conflicts[b]
  BY <1>2, <1>3
<1> HIDE DEF union
<1>5. present \in SUBSET Line /\ evicted \in SUBSET Line /\ present \cap evicted = {}
  BY <1>2, <1>3
<1>6. ASSUME NEW b \in present
      PROVE  Cardinality(union[b]) < nb_ways /\ b \notin union[b]
  <2>1. b \in Line /\ union[b] \in SUBSET Line
    BY <1>4, <1>5
  <2>2. b \notin union[b]
    BY <1>2, <1>3, <1>4, <2>1
  <2>3. CASE b \in added
    <3>1. ~ (Cardinality(union[b]) >= nb_ways)
      BY <2>3, SameCardinality
    <3>2. Cardinality(union[b]) \in Nat
      BY <2>1, Sizes
    <3>3. QED
      BY <2>2, <3>1, <3>2, GeometryAssumption
  <2>4. CASE b \notin added
    <3>1. b \in c.present /\ b \notin d.present
      BY <1>2, <2>4
    <3>2. union[b] = c.conflicts[b]
      BY <1>3, <1>4, <2>1, <3>1
    <3>3. QED
      BY <1>2, <2>2, <3>1, <3>2
  <2>5. QED
    BY <2>3, <2>4
<1>7. \A b \in c.present \cup d.present :
         b \in evicted \/ (b \in present /\ b \in Line)
  BY <1>2, <1>3, <1>5
<1>8. c.evicted \subseteq evicted /\ d.evicted \subseteq evicted
  OBVIOUS
<1> HIDE DEF present, evicted, u
<1>9. PsSet(u)
  BY <1>1, <1>4, <1>5, <1>6, MakePsSet
<1>10. /\ u.present = present /\ u.evicted = evicted
       /\ \A b \in present : u.conflicts[b] = union[b]
  BY <1>1, <1>4, <1>5 DEF Ps!PersistentSet
<1>11. ASSUME NEW l, NEW si, NEW s, PsCovers(l, si, c, s) \/ PsCovers(l, si, d, s),
              NEW b \in l, computeSet(b) = s
       PROVE  \/ b \in u.evicted
              \/ b \in u.present /\ si[b] \subseteq u.conflicts[b]
  <2>1. \/ b \in c.evicted \/ b \in d.evicted
        \/ b \in c.present /\ si[b] \subseteq c.conflicts[b]
        \/ b \in d.present /\ si[b] \subseteq d.conflicts[b]
    BY <1>11 DEF PsCovers
  <2>2. QED
    BY <1>4, <1>7, <1>8, <1>10, <2>1
<1>12. QED
  BY <1>9, <1>11 DEF PsCovers, u

(* An access to a line of another set. *)
LEMMA PsOtherSetCovers ==
  ASSUME NEW l \in SUBSET Line, NEW si, NEW c, NEW s, PsCovers(l, si, c, s),
         NEW a \in Line, computeSet(a) # s
  PROVE  PsCovers(l \cup {a}, Remembered(l, si, a), c, s)
<1>1. \A b \in l \cup {a} : computeSet(b) = s
                             => b \in l /\ Remembered(l, si, a)[b] = si[b]
  BY DEF Remembered
<1>2. QED
  BY <1>1 DEF PsCovers
-----------------------------------------------------------------------------
(* PS: the operations on a whole cache. *)

(* AbstractCache::Update(addr, cac). *)
LEMMA PsUpdateLineSound ==
  ASSUME NEW l \in SUBSET Line, NEW si \in [Line -> SUBSET Line],
         NEW m \in PsCaches, PsCacheCovers(l, si, m),
         NEW addr \in Address, NEW cac \in CAC
  PROVE  LET u == UpdateLine(m, addr, cac, Ps!Update, Ps!Join)
             a == computeStartLine(addr)
         IN  /\ u \in PsCaches
             /\ cac # "N" => PsCacheCovers(l \cup {a}, Remembered(l, si, a), u)
             /\ cac # "A" => PsCacheCovers(l, si, u)
<1> DEFINE u == UpdateLine(m, addr, cac, Ps!Update, Ps!Join)
           a == computeStartLine(addr)
           s == computeSet(a)
           k == l \cup {a}
           sj == Remembered(l, si, a)
<1>1. a \in Line /\ s \in CacheSet
  BY Geometry
<1>2. PsSet(m[s]) /\ PsCovers(l, si, m[s], s)
  BY <1>1 DEF PsCaches, PsCacheCovers
<1>3. PsSet(Ps!Update(m[s], a)) /\ PsCovers(k, sj, Ps!Update(m[s], a), s)
  BY <1>1, <1>2, UpdateSound
<1>4. /\ PsSet(Ps!Join(Ps!Update(m[s], a), m[s]))
      /\ PsCovers(l, si, Ps!Join(Ps!Update(m[s], a), m[s]), s)
      /\ PsCovers(k, sj, Ps!Join(Ps!Update(m[s], a), m[s]), s)
  BY <1>2, <1>3, JoinSound
<1>5. \A t \in CacheSet \ {s} : /\ PsSet(m[t])
                               /\ PsCovers(l, si, m[t], t)
                               /\ PsCovers(k, sj, m[t], t)
  BY <1>1, PsOtherSetCovers DEF PsCaches, PsCacheCovers
<1>6. u = IF cac = "N" THEN m
          ELSE IF cac = "A" THEN [m EXCEPT ![s] = Ps!Update(m[s], a)]
          ELSE [m EXCEPT ![s] = Ps!Join(Ps!Update(m[s], a), m[s])]
  BY DEF UpdateLine
<1> HIDE DEF u, a, s, k, sj
<1>7. \A c : PsSet(c) => c \in Ps!Contents
  BY DEF PsSet
<1>8. CASE cac = "N"
  BY <1>6, <1>8 DEF u
<1>9. CASE cac = "A"
  <2>1. u = [m EXCEPT ![s] = Ps!Update(m[s], a)]
    BY <1>6, <1>9
  <2>2. u \in PsCaches /\ PsCacheCovers(k, sj, u)
    BY <1>1, <1>3, <1>5, <1>7, <2>1 DEF PsCaches, PsCacheCovers
  <2>3. QED
    BY <1>9, <2>2 DEF u, k, sj, a
<1>10. CASE cac \in {"U", "UN"}
  <2>1. u = [m EXCEPT ![s] = Ps!Join(Ps!Update(m[s], a), m[s])]
    BY <1>6, <1>10
  <2>2. u \in PsCaches /\ PsCacheCovers(l, si, u) /\ PsCacheCovers(k, sj, u)
    BY <1>1, <1>4, <1>5, <1>7, <2>1 DEF PsCaches, PsCacheCovers
  <2>3. QED
    BY <2>2 DEF u, k, sj, a
<1>11. QED
  BY <1>8, <1>9, <1>10 DEF CAC

(* AbstractCache::Update(addrs, cac). *)
LEMMA PsUpdateLinesSound ==
  ASSUME NEW l \in SUBSET Line, NEW si \in [Line -> SUBSET Line],
         NEW m \in PsCaches, PsCacheCovers(l, si, m),
         NEW addrs \in SUBSET Address, addrs # {}, NEW cac \in CAC
  PROVE  LET u == UpdateLines(m, addrs, cac, Ps!Update, Ps!UpdateSet, Ps!Join)
         IN  /\ u \in PsCaches
             /\ cac # "N" => \A addr \in addrs :
                  LET a == computeStartLine(addr)
                  IN  PsCacheCovers(l \cup {a}, Remembered(l, si, a), u)
             /\ cac # "A" => PsCacheCovers(l, si, u)
<1> DEFINE u == UpdateLines(m, addrs, cac, Ps!Update, Ps!UpdateSet, Ps!Join)
           Accessed(a, v) == PsCacheCovers(l \cup {a}, Remembered(l, si, a), v)
<1>1. CASE cac = "N"
  BY <1>1 DEF UpdateLines
<1>2. CASE cac # "N" /\ \A x, y \in addrs : computeStartLine(x) = computeStartLine(y)
  <2> DEFINE x == CHOOSE addr \in addrs : TRUE
  <2>1. x \in addrs
    OBVIOUS
  <2>2. u = UpdateLine(m, x, cac, Ps!Update, Ps!Join)
    BY <1>2 DEF UpdateLines
  <2>3. \A addr \in addrs : computeStartLine(addr) = computeStartLine(x)
    BY <1>2, <2>1
  <2> HIDE DEF x, u
  <2>4. /\ u \in PsCaches
        /\ cac # "N" => Accessed(computeStartLine(x), u)
        /\ cac # "A" => PsCacheCovers(l, si, u)
    BY <2>1, <2>2, PsUpdateLineSound
  <2> HIDE DEF Accessed
  <2>5. \A addr \in addrs : Accessed(computeStartLine(addr), u)
    BY <1>2, <2>3, <2>4
  <2>6. QED
    BY <2>4, <2>5 DEF u, Accessed
<1>3. CASE cac # "N" /\ \E x, y \in addrs : computeStartLine(x) # computeStartLine(y)
  <2>1. u = [s \in CacheSet |-> IF Inserted(addrs, s) = {} THEN m[s]
                                ELSE Ps!UpdateSet(m[s], Inserted(addrs, s))]
    BY <1>3 DEF UpdateLines
  <2> HIDE DEF u
  <2>2. \A s \in CacheSet : Inserted(addrs, s) \in SUBSET Line
    BY Geometry DEF Inserted
  <2>3. ASSUME NEW s \in CacheSet
        PROVE  PsSet(u[s]) /\ PsCovers(l, si, u[s], s)
    <3>1. PsSet(m[s]) /\ PsCovers(l, si, m[s], s)
      BY DEF PsCaches, PsCacheCovers
    <3>2. CASE Inserted(addrs, s) = {}
      BY <2>1, <3>1, <3>2
    <3>3. CASE Inserted(addrs, s) # {}
      BY <2>1, <2>2, <3>1, <3>3, UpdateSetSound
    <3>4. QED
      BY <3>2, <3>3
  <2>4. \A c : PsSet(c) => c \in Ps!Contents
    BY DEF PsSet
  <2>5. u \in PsCaches
    BY <2>1, <2>3, <2>4 DEF PsCaches
  <2>6. ASSUME NEW addr \in addrs, NEW s \in CacheSet
        PROVE  LET a == computeStartLine(addr)
               IN  PsCovers(l \cup {a}, Remembered(l, si, a), u[s], s)
    <3> DEFINE a == computeStartLine(addr)
    <3>1. a \in Line /\ computeSet(a) = computeSet(addr)
      BY Geometry
    <3>2. PsSet(m[s]) /\ PsCovers(l, si, m[s], s)
      BY DEF PsCaches, PsCacheCovers
    <3>3. CASE computeSet(addr) = s
      <4>1. a \in Inserted(addrs, s)
        BY <3>3 DEF Inserted
      <4>2. u[s] = Ps!UpdateSet(m[s], Inserted(addrs, s))
        BY <2>1, <4>1
      <4> HIDE DEF a
      <4>3. PsCovers(l \cup {a}, Remembered(l, si, a), u[s], s)
        BY <2>2, <3>1, <3>2, <3>3, <4>1, <4>2, UpdateSetSound
      <4>4. QED
        BY <4>3 DEF a
    <3>4. CASE computeSet(addr) # s
      BY <2>3, <3>1, <3>4, PsOtherSetCovers
    <3>5. QED
      BY <3>3, <3>4
  <2>7. QED
    BY <2>3, <2>5, <2>6 DEF PsCacheCovers, u
<1>4. QED
  BY <1>1, <1>2, <1>3

(* AbstractCache::Join. *)
LEMMA PsJoinCachesSound ==
  ASSUME NEW m \in PsCaches, NEW n \in PsCaches
  PROVE  LET u == JoinCaches(m, n, Ps!Join)
         IN  /\ u \in PsCaches
             /\ \A l, si : PsCacheCovers(l, si, m) \/ PsCacheCovers(l, si, n)
                             => PsCacheCovers(l, si, u)
<1> DEFINE u == JoinCaches(m, n, Ps!Join)
<1>1. u = [s \in CacheSet |-> Ps!Join(m[s], n[s])]
  BY DEF JoinCaches
<1> HIDE DEF u
<1>2. \A s \in CacheSet : PsSet(m[s]) /\ PsSet(n[s])
  BY DEF PsCaches
<1>3. \A s \in CacheSet : PsSet(u[s])
  BY <1>1, <1>2, JoinSound
<1>4. \A c : PsSet(c) => c \in Ps!Contents
  BY DEF PsSet
<1>5. u \in PsCaches
  BY <1>1, <1>3, <1>4 DEF PsCaches
<1>6. ASSUME NEW l, NEW si, PsCacheCovers(l, si, m) \/ PsCacheCovers(l, si, n)
      PROVE  PsCacheCovers(l, si, u)
  BY <1>1, <1>2, <1>6, JoinSound DEF PsCacheCovers
<1>7. QED
  BY <1>5, <1>6 DEF u
=============================================================================
