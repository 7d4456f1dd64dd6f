-------------------------- MODULE IPETBoundsProofs --------------------------
(***************************************************************************)
(* What the analysis makes of the counts of an execution bounds what the   *)
(* execution pays, for every program.  The accesses of an execution are    *)
(* counted by instruction, type of cache and level they pass: the totals   *)
(* are the uses of the caches and, with the latencies, the time.  Each     *)
(* count is at most what the statistics and the times of the nodes say of  *)
(* the classification of its instruction and the frequency of its node.    *)
(***************************************************************************)
EXTENDS IPETProofs

(* The sum of f over a finite set, in whatever order.                      *)
Total(S, f) == (CHOOSE w : IsSum(w, S, f))[S]

LEMMA TotalIsSum ==
  ASSUME NEW S, IsFiniteSet(S), NEW f
  PROVE  \E w : IsSum(w, S, f) /\ Total(S, f) = w[S]
<1> DEFINE w == CHOOSE x : IsSum(x, S, f)
<1>1. PICK x : IsSum(x, S, f)
  BY SumExists
<1>2. IsSum(w, S, f)
  BY <1>1, Zenon
<1>3. Total(S, f) = w[S]
  BY DEF Total
<1> HIDE DEF w
<1>4. QED
  BY <1>2, <1>3

LEMMA TotalOfPart ==
  ASSUME NEW S, IsFiniteSet(S), NEW f, NEW w, IsSum(w, S, f), NEW T \in SUBSET S
  PROVE  w[T] = Total(T, f)
<1>1. IsFiniteSet(T)
  BY FS_Subset
<1>2. PICK u : IsSum(u, T, f) /\ Total(T, f) = u[T]
  BY <1>1, TotalIsSum
<1> DEFINE Q == {s \in SUBSET T : w[s] = u[s]}
<1>3. \A s \in SUBSET T : /\ w[s] = IF s = {} THEN 0 ELSE f[Some(s)] + w[s \ {Some(s)}]
                         /\ u[s] = IF s = {} THEN 0 ELSE f[Some(s)] + u[s \ {Some(s)}]
  BY <1>2 DEF IsSum
<1>4. {} \in Q
  BY <1>3
<1>5. ASSUME NEW s \in SUBSET T, s # {}, s \ {Some(s)} \in Q
      PROVE  s \in Q
  BY <1>3, <1>5
<1>6. SUBSET T \subseteq Q
  <2> HIDE DEF Q
  <2>1. QED
    BY <1>1, <1>4, <1>5, SubsetInduction
<1>7. T \in Q
  BY <1>6
<1>8. QED
  BY <1>2, <1>7

LEMMA TotalUnfold ==
  ASSUME NEW S, IsFiniteSet(S), NEW f
  PROVE  /\ Total({}, f) = 0
         /\ S # {} => Total(S, f) = f[Some(S)] + Total(S \ {Some(S)}, f)
<1>1. PICK w : IsSum(w, S, f)
  BY SumExists
<1>2. w[S] = Total(S, f) /\ w[{}] = Total({}, f) /\ w[S \ {Some(S)}] = Total(S \ {Some(S)}, f)
  BY <1>1, TotalOfPart
<1>3. /\ w[S] = IF S = {} THEN 0 ELSE f[Some(S)] + w[S \ {Some(S)}]
      /\ w[{}] = 0
  BY <1>1 DEF IsSum
<1>4. QED
  BY <1>2, <1>3

(* What holds of the sums of the empty set and of one element more.        *)
LEMMA TotalType ==
  ASSUME NEW S, IsFiniteSet(S), NEW f
  PROVE  /\ (\A x \in S : f[x] \in Int) => Total(S, f) \in Int
         /\ (\A x \in S : f[x] \in Nat) => Total(S, f) \in Nat
<1> DEFINE Q == {s \in SUBSET S : /\ (\A x \in S : f[x] \in Int) => Total(s, f) \in Int
                                  /\ (\A x \in S : f[x] \in Nat) => Total(s, f) \in Nat}
<1>1. {} \in Q
  <2>1. Total({}, f) = 0
    BY TotalUnfold
  <2>2. QED
    BY <2>1
<1>2. ASSUME NEW s \in SUBSET S, s # {}, s \ {Some(s)} \in Q
      PROVE  s \in Q
  <2>1. Total(s, f) = f[Some(s)] + Total(s \ {Some(s)}, f)
    BY <1>2, TotalUnfold, FS_Subset
  <2>2. Some(s) \in S
    BY <1>2, Smaller
  <2>3. QED
    BY <1>2, <2>1, <2>2
<1>3. SUBSET S \subseteq Q
  <2> HIDE DEF Q
  <2>1. QED
    BY <1>1, <1>2, SubsetInduction
<1>4. QED
  BY <1>3

LEMMA TotalRemove ==
  ASSUME NEW S, IsFiniteSet(S), NEW f, \A x \in S : f[x] \in Int, NEW a \in S
  PROVE  Total(S, f) = Total(S \ {a}, f) + f[a]
<1> DEFINE Q == {n \in Nat : \A s \in SUBSET S : Cardinality(s) = n =>
                    \A b \in s : Total(s, f) = Total(s \ {b}, f) + f[b]}
<1>1. 0 \in Q
  <2>1. \A s \in SUBSET S : Cardinality(s) = 0 => s = {}
    BY Smaller
  <2>2. QED
    BY <2>1
<1>2. ASSUME NEW n \in Nat, n \in Q
      PROVE  n + 1 \in Q
  <2>1. SUFFICES ASSUME NEW s \in SUBSET S, Cardinality(s) = n + 1, NEW b \in s
                 PROVE  Total(s, f) = Total(s \ {b}, f) + f[b]
    OBVIOUS
  <2> DEFINE x == Some(s)
  <2>2. IsFiniteSet(s) /\ x \in s
    BY FS_Subset, Smaller
  <2>3. Total(s, f) = f[x] + Total(s \ {x}, f)
    BY <2>2, TotalUnfold
  <2>4. Total(s \ {x}, f) \in Int /\ f[x] \in Int /\ f[b] \in Int
    <3>1. IsFiniteSet(s \ {x})
      BY <2>2, FS_Subset
    <3>2. QED
      BY <2>2, <3>1, TotalType
  <2> HIDE DEF x
  <2>5. CASE b = x
    BY <2>3, <2>4, <2>5
  <2>6. CASE b # x
    <3> DEFINE r == s \ {b, x}
    <3>1. /\ s \ {x} \in SUBSET S /\ s \ {b} \in SUBSET S /\ b \in s \ {x} /\ x \in s \ {b}
          /\ (s \ {x}) \ {b} = r /\ (s \ {b}) \ {x} = r
      BY <2>2, <2>6
    <3>2. Cardinality(s \ {x}) = n /\ Cardinality(s \ {b}) = n
      <4>1. Cardinality(s \ {x}) = Cardinality(s) - 1 /\ Cardinality(s \ {b}) = Cardinality(s) - 1
        BY <2>2, FS_RemoveElement
      <4>2. QED
        BY <2>1, <4>1
    <3>3. Total(s \ {x}, f) = Total(r, f) + f[b] /\ Total(s \ {b}, f) = Total(r, f) + f[x]
      BY <1>2, <3>1, <3>2
    <3>4. Total(r, f) \in Int
      <4>1. IsFiniteSet(r)
        BY <2>2, FS_Subset
      <4>2. QED
        BY <4>1, TotalType
    <3> HIDE DEF r
    <3>5. QED
      BY <2>3, <2>4, <3>3, <3>4
  <2>7. QED
    BY <2>5, <2>6
<1>3. Nat \subseteq Q
  <2> HIDE DEF Q
  <2>1. QED
    BY <1>1, <1>2, Induction
<1>4. Cardinality(S) \in Q
  BY <1>3, FS_CardinalityType
<1>5. QED
  BY <1>4

(* Sums of two functions, term by term.                                    *)
LEMMA TotalTerms ==
  ASSUME NEW S, IsFiniteSet(S), NEW f, NEW g, \A x \in S : f[x] \in Int /\ g[x] \in Int
  PROVE  /\ (\A x \in S : f[x] = g[x]) => Total(S, f) = Total(S, g)
         /\ (\A x \in S : f[x] <= g[x]) => Total(S, f) <= Total(S, g)
         /\ (\A x \in S : f[x] = 0) => Total(S, f) = 0
<1> DEFINE Q == {s \in SUBSET S : /\ (\A x \in S : f[x] = g[x]) => Total(s, f) = Total(s, g)
                                  /\ (\A x \in S : f[x] <= g[x]) => Total(s, f) <= Total(s, g)
                                  /\ (\A x \in S : f[x] = 0) => Total(s, f) = 0}
<1>1. {} \in Q
  <2>1. Total({}, f) = 0 /\ Total({}, g) = 0
    BY TotalUnfold
  <2>2. QED
    BY <2>1
<1>2. ASSUME NEW s \in SUBSET S, s # {}, s \ {Some(s)} \in Q
      PROVE  s \in Q
  <2> DEFINE x == Some(s)
             r == s \ {x}
  <2>1. IsFiniteSet(s) /\ IsFiniteSet(r) /\ r \in SUBSET S
    BY FS_Subset
  <2>2. Total(s, f) = f[x] + Total(r, f) /\ Total(s, g) = g[x] + Total(r, g)
    BY <1>2, <2>1, TotalUnfold
  <2>3. x \in S
    BY <1>2, Smaller
  <2>4. Total(r, f) \in Int /\ Total(r, g) \in Int /\ f[x] \in Int /\ g[x] \in Int
    BY <2>1, <2>3, TotalType
  <2>5. /\ (\A y \in S : f[y] = g[y]) => Total(r, f) = Total(r, g)
        /\ (\A y \in S : f[y] <= g[y]) => Total(r, f) <= Total(r, g)
        /\ (\A y \in S : f[y] = 0) => Total(r, f) = 0
    BY <1>2
  <2> HIDE DEF x, r
  <2>6. /\ (\A y \in S : f[y] = g[y]) => Total(s, f) = Total(s, g)
        /\ (\A y \in S : f[y] <= g[y]) => Total(s, f) <= Total(s, g)
        /\ (\A y \in S : f[y] = 0) => Total(s, f) = 0
    BY <2>2, <2>3, <2>4, <2>5
  <2>7. QED
    BY <2>6
<1>3. SUBSET S \subseteq Q
  <2> HIDE DEF Q
  <2>1. QED
    BY <1>1, <1>2, SubsetInduction
<1>4. S \in Q
  BY <1>3
<1>5. QED
  BY <1>4

LEMMA TotalPlus ==
  ASSUME NEW S, IsFiniteSet(S), NEW f, NEW g, NEW h,
         \A x \in S : f[x] \in Int /\ g[x] \in Int /\ h[x] = f[x] + g[x]
  PROVE  Total(S, h) = Total(S, f) + Total(S, g)
<1> DEFINE Q == {s \in SUBSET S : Total(s, h) = Total(s, f) + Total(s, g)}
<1>1. {} \in Q
  <2>1. Total({}, f) = 0 /\ Total({}, g) = 0 /\ Total({}, h) = 0
    BY TotalUnfold
  <2>2. QED
    BY <2>1
<1>2. ASSUME NEW s \in SUBSET S, s # {}, s \ {Some(s)} \in Q
      PROVE  s \in Q
  <2> DEFINE x == Some(s)
             r == s \ {x}
  <2>1. IsFiniteSet(s) /\ IsFiniteSet(r) /\ r \in SUBSET S
    BY FS_Subset
  <2>2. /\ Total(s, f) = f[x] + Total(r, f) /\ Total(s, g) = g[x] + Total(r, g)
        /\ Total(s, h) = h[x] + Total(r, h)
    BY <1>2, <2>1, TotalUnfold
  <2>3. x \in S
    BY <1>2, Smaller
  <2>4. Total(r, f) \in Int /\ Total(r, g) \in Int /\ f[x] \in Int /\ g[x] \in Int
    BY <2>1, <2>3, TotalType
  <2>5. Total(r, h) = Total(r, f) + Total(r, g) /\ h[x] = f[x] + g[x]
    BY <1>2, <2>3
  <2> HIDE DEF x, r
  <2>6. Total(s, h) = Total(s, f) + Total(s, g)
    BY <2>2, <2>4, <2>5
  <2>7. QED
    BY <2>6
<1>3. SUBSET S \subseteq Q
  <2> HIDE DEF Q
  <2>1. QED
    BY <1>1, <1>2, SubsetInduction
<1>4. QED
  BY <1>3

(* Zeros do not count, and ones count the elements.                        *)
LEMMA TotalSupport ==
  ASSUME NEW S, IsFiniteSet(S), NEW f, NEW T \in SUBSET S,
         \A x \in S : f[x] \in Int, \A x \in S \ T : f[x] = 0
  PROVE  Total(S, f) = Total(T, f)
<1> DEFINE Q == {s \in SUBSET S : Total(s, f) = Total(s \cap T, f)}
<1>1. {} \in Q
  <2>1. {} \cap T = {}
    OBVIOUS
  <2>2. QED
    BY <2>1
<1>2. ASSUME NEW s \in SUBSET S, s # {}, s \ {Some(s)} \in Q
      PROVE  s \in Q
  <2> DEFINE x == Some(s)
             r == s \ {x}
  <2>1. IsFiniteSet(s) /\ IsFiniteSet(r) /\ IsFiniteSet(r \cap T) /\ IsFiniteSet(s \cap T)
    BY FS_Subset
  <2>2. Total(s, f) = f[x] + Total(r, f) /\ Total(r, f) = Total(r \cap T, f)
    BY <1>2, <2>1, TotalUnfold
  <2>3. x \in s /\ x \in S /\ f[x] \in Int /\ Total(r, f) \in Int
    <3>1. x \in s /\ x \in S
      BY <1>2, Smaller
    <3>2. \A y \in r : f[y] \in Int
      OBVIOUS
    <3> HIDE DEF x, r
    <3>3. QED
      BY <2>1, <3>1, <3>2, TotalType
  <2>4. CASE x \in T
    <3>1. x \in s \cap T /\ (s \cap T) \ {x} = r \cap T
      BY <2>3, <2>4
    <3>2. Total(s \cap T, f) = Total((s \cap T) \ {x}, f) + f[x]
      <4> HIDE DEF x
      <4>1. QED
        BY <2>1, <3>1, TotalRemove
    <3>3. Total(s \cap T, f) = Total(r \cap T, f) + f[x]
      BY <3>1, <3>2
    <3> HIDE DEF x, r
    <3>4. Total(s, f) = Total(s \cap T, f)
      BY <2>2, <2>3, <3>3
    <3>5. QED
      BY <3>4
  <2>5. CASE x \notin T
    <3>1. s \cap T = r \cap T /\ f[x] = 0
      BY <2>3, <2>5
    <3>2. Total(s \cap T, f) = Total(r \cap T, f)
      BY <3>1, Zenon
    <3> HIDE DEF x, r
    <3>3. Total(s, f) = Total(s \cap T, f)
      BY <2>2, <2>3, <3>1, <3>2
    <3>4. QED
      BY <3>3
  <2>6. QED
    BY <2>4, <2>5
<1>3. SUBSET S \subseteq Q
  <2> HIDE DEF Q
  <2>1. QED
    BY <1>1, <1>2, SubsetInduction
<1>4. S \cap T = T
  OBVIOUS
<1>5. QED
  BY <1>3, <1>4

LEMMA TotalCounts ==
  ASSUME NEW S, IsFiniteSet(S), NEW f, \A x \in S : f[x] = 1
  PROVE  Total(S, f) = Cardinality(S)
<1> DEFINE Q == {s \in SUBSET S : Total(s, f) = Cardinality(s)}
<1>1. {} \in Q
  <2>1. Total({}, f) = 0 /\ Cardinality({}) = 0
    BY TotalUnfold, FS_EmptySet
  <2>2. QED
    BY <2>1
<1>2. ASSUME NEW s \in SUBSET S, s # {}, s \ {Some(s)} \in Q
      PROVE  s \in Q
  <2>1. Total(s, f) = f[Some(s)] + Total(s \ {Some(s)}, f)
    BY <1>2, TotalUnfold, FS_Subset
  <2>2. Some(s) \in S /\ Cardinality(s) \in Nat /\ Cardinality(s \ {Some(s)}) = Cardinality(s) - 1
    BY <1>2, Smaller
  <2>3. QED
    BY <1>2, <2>1, <2>2
<1>3. SUBSET S \subseteq Q
  <2> HIDE DEF Q
  <2>1. QED
    BY <1>1, <1>2, SubsetInduction
<1>4. QED
  BY <1>3

(* The sum over S is the sum of the sums over the parts that m makes of it.*)
PartIn(S, m, G) == {x \in S : m[x] \in G}
SumsOfParts(S, f, F, m, h) == \A y \in F : h[y] = Total(PartIn(S, m, {y}), f)

LEMMA TotalParts ==
  ASSUME NEW S, IsFiniteSet(S), NEW f, \A x \in S : f[x] \in Int,
         NEW F, IsFiniteSet(F), NEW m, NEW h, SumsOfParts(S, f, F, m, h)
  PROVE  Total(F, h) = Total(PartIn(S, m, F), f)
<1> DEFINE Part(G) == PartIn(S, m, G)
           Q == {G \in SUBSET F : Total(G, h) = Total(Part(G), f)}
<1>1. {} \in Q
  <2>1. Part({}) = {}
    BY DEF PartIn
  <2>2. Total({}, f) = 0 /\ Total({}, h) = 0
    BY TotalUnfold
  <2> HIDE DEF Part
  <2>3. QED
    BY <2>1, <2>2
<1>2. ASSUME NEW G \in SUBSET F, G # {}, G \ {Some(G)} \in Q
      PROVE  G \in Q
  <2> DEFINE y == Some(G)
             H == G \ {y}
             P == Part({y})
  <2>1. y \in G /\ y \in F /\ IsFiniteSet(G)
    BY <1>2, Smaller, FS_Subset
  <2>2. Total(G, h) = h[y] + Total(H, h)
    BY <1>2, <2>1, TotalUnfold
  <2>3. h[y] = Total(P, f) /\ Total(H, h) = Total(Part(H), f)
    BY <1>2, <2>1 DEF SumsOfParts
  <2>4. Part(G) = Part(H) \cup P /\ Part(H) \cap P = {} /\ Part(G) \in SUBSET S
    BY <2>1 DEF PartIn
  <2> HIDE DEF y, H, P, Part
  <2>5. Total(Part(G), f) = Total(Part(H), f) + Total(P, f)
    <3> DEFINE T == Part(G)
               f1 == [x \in T |-> IF x \in P THEN 0 ELSE f[x]]
               f2 == [x \in T |-> IF x \in P THEN f[x] ELSE 0]
    <3>1. IsFiniteSet(T) /\ Part(H) \in SUBSET T /\ P \in SUBSET T
      BY <2>4, FS_Subset
    <3>2. \A x \in T : f[x] \in Int
      BY <2>4
    <3>3. \A x \in T : f1[x] \in Int /\ f2[x] \in Int /\ f[x] = f1[x] + f2[x]
      BY <3>2
    <3>4. \A x \in T \ Part(H) : f1[x] = 0
      BY <2>4
    <3>5. \A x \in T \ P : f2[x] = 0
      OBVIOUS
    <3>6. (\A x \in Part(H) : f1[x] = f[x]) /\ (\A x \in P : f2[x] = f[x])
      BY <2>4
    <3>7. /\ \A x \in Part(H) : f1[x] \in Int /\ f[x] \in Int
          /\ \A x \in P : f2[x] \in Int /\ f[x] \in Int
      BY <3>1, <3>2, <3>3
    <3>8. IsFiniteSet(Part(H)) /\ IsFiniteSet(P)
      BY <3>1, FS_Subset
    <3> HIDE DEF T, f1, f2
    <3>9. Total(T, f) = Total(T, f1) + Total(T, f2)
      BY <3>1, <3>3, TotalPlus
    <3>10. Total(T, f1) = Total(Part(H), f1) /\ Total(T, f2) = Total(P, f2)
      BY <3>1, <3>3, <3>4, <3>5, TotalSupport
    <3>11. Total(Part(H), f1) = Total(Part(H), f)
      BY <3>6, <3>7, <3>8, TotalTerms
    <3>12. Total(P, f2) = Total(P, f)
      BY <3>6, <3>7, <3>8, TotalTerms
    <3>13. QED
      BY <3>9, <3>10, <3>11, <3>12 DEF T
  <2>6. Total(P, f) \in Int /\ Total(Part(H), f) \in Int
    <3>1. P \in SUBSET S /\ Part(H) \in SUBSET S
      BY <2>4
    <3>2. IsFiniteSet(P) /\ IsFiniteSet(Part(H))
      BY <3>1, FS_Subset
    <3>3. QED
      BY <3>1, <3>2, TotalType
  <2>7. Total(G, h) = Total(Part(G), f)
    BY <2>2, <2>3, <2>5, <2>6
  <2>8. QED
    BY <2>7
<1>3. SUBSET F \subseteq Q
  <2> HIDE DEF Q
  <2>1. QED
    BY <1>1, <1>2, SubsetInduction
<1>4. QED
  BY <1>3

LEMMA TotalUpto ==
  ASSUME NEW f, NEW k \in Nat, \A l \in 1 .. k + 1 : f[l] \in Int
  PROVE  Total(1 .. k + 1, f) = Total(1 .. k, f) + f[k + 1]
<1>1. IsFiniteSet(1 .. k + 1) /\ k + 1 \in 1 .. k + 1 /\ (1 .. k + 1) \ {k + 1} = 1 .. k
  BY FS_Interval
<1>2. QED
  BY <1>1, TotalRemove

(* Folds over a finite set from b: ch chooses the element, g adds it.      *)
IsFold(w, S, ch, b, g) ==
  w = [s \in SUBSET S |-> IF s = {} THEN b ELSE g[<<ch[s], w[s \ {ch[s]}]>>]]

LEMMA FoldExists ==
  ASSUME NEW S, IsFiniteSet(S), NEW ch, \A s \in SUBSET S : s # {} => ch[s] \in s,
         NEW V, NEW b \in V, NEW g, \A x \in S : \A v \in V : g[<<x, v>>] \in V
  PROVE  \E w \in [SUBSET S -> V] : IsFold(w, S, ch, b, g)
<1> DEFINE Small(n) == {s \in SUBSET S : Cardinality(s) <= n}
           Next_(w, s) == IF s = {} THEN b ELSE g[<<ch[s], w[s \ {ch[s]}]>>]
           Q == {n \in Nat : \E w \in [Small(n) -> V] : w = [s \in Small(n) |-> Next_(w, s)]}
<1>1. ASSUME NEW n \in Nat, NEW s \in Small(n + 1), s # {}
      PROVE  s \ {ch[s]} \in Small(n) /\ s \ {ch[s]} \in Small(n + 1) /\ ch[s] \in S
  <2>1. s \in SUBSET S /\ ch[s] \in s /\ Cardinality(s) <= n + 1
    BY <1>1
  <2>2. IsFiniteSet(s) /\ Cardinality(s) \in Nat
    BY <2>1, FS_Subset, FS_CardinalityType
  <2>3. Cardinality(s \ {ch[s]}) = Cardinality(s) - 1
    BY <2>1, <2>2, FS_RemoveElement
  <2>4. QED
    BY <2>1, <2>2, <2>3
<1>2. 0 \in Q
  <2> DEFINE w == [s \in Small(0) |-> b]
  <2>1. ASSUME NEW s \in Small(0)
        PROVE  s = {}
    <3>1. s \in SUBSET S /\ Cardinality(s) <= 0
      OBVIOUS
    <3>2. Cardinality(s) \in Nat /\ (s = {} <=> Cardinality(s) = 0)
      BY <3>1, Smaller, Zenon
    <3>3. QED
      BY <3>1, <3>2
  <2>2. w = [s \in Small(0) |-> Next_(w, s)] /\ w \in [Small(0) -> V]
    BY <2>1
  <2>3. QED
    BY <2>2
<1>3. ASSUME NEW n \in Nat, n \in Q
      PROVE  n + 1 \in Q
  <2>1. PICK w \in [Small(n) -> V] : w = [s \in Small(n) |-> Next_(w, s)]
    BY <1>3
  <2> DEFINE u == [s \in Small(n + 1) |-> Next_(w, s)]
  <2>2. ASSUME NEW s \in Small(n + 1), s # {}
        PROVE  w[s \ {ch[s]}] = u[s \ {ch[s]}]
    <3>1. s \ {ch[s]} \in Small(n) /\ s \ {ch[s]} \in Small(n + 1)
      BY <1>1, <2>2
    <3>2. QED
      BY <2>1, <3>1
  <2>3. u = [s \in Small(n + 1) |-> Next_(u, s)]
    BY <2>2
  <2>4. u \in [Small(n + 1) -> V]
    <3>1. ASSUME NEW s \in Small(n + 1)
          PROVE  Next_(w, s) \in V
      <4>1. CASE s # {}
        <5>1. w[s \ {ch[s]}] \in V /\ ch[s] \in S
          BY <1>1, <2>1, <4>1
        <5>2. QED
          BY <4>1, <5>1
      <4>2. QED
        BY <4>1
    <3> HIDE DEF Small, Next_
    <3>2. QED
      BY <3>1
  <2>5. n + 1 \in Nat
    OBVIOUS
  <2>6. \E x \in [Small(n + 1) -> V] : x = [s \in Small(n + 1) |-> Next_(x, s)]
    <3> HIDE DEF u, Small, Next_
    <3>1. QED
      BY <2>3, <2>4, Zenon
  <2> HIDE DEF u, Small, Next_
  <2>7. QED
    BY <2>5, <2>6, Zenon
<1>4. Cardinality(S) \in Q
  <2>1. Nat \subseteq Q
    <3> HIDE DEF Q
    <3>1. QED
      BY <1>2, <1>3, Induction
  <2>2. QED
    BY <2>1, FS_CardinalityType
<1>5. Small(Cardinality(S)) = SUBSET S
  BY FS_Subset
<1>6. PICK w \in [SUBSET S -> V] : w = [s \in SUBSET S |-> Next_(w, s)]
  BY <1>4, <1>5
<1>7. QED
  BY <1>6 DEF IsFold

(* The contextual nodes, and their instructions.                           *)
Types == {"code", "data"}
InstructionsIn(p, cs, c, n) == p.cfg[cs[c].function].instructions[n]
Places(p, cs) == UNION {{<<c, n>> : n \in NodesIn(p, cs, c)} : c \in 1 .. Len(cs)}
Sites(p, cs) == UNION {{<<y, i>> : i \in DOMAIN InstructionsIn(p, cs, y[1], y[2])} : y \in Places(p, cs)}
Instr(p, cs, x) == InstructionsIn(p, cs, x[1][1], x[1][2])[x[2]]

Classified(ins) ==
  /\ ins.code \in [1 .. NbLevels -> {"AH", "AM", "FM", "NC", "AU"}]
  /\ ins.kind = "load" => /\ ins.data \in [1 .. NbLevels -> {"AH", "AM", "FM", "NC", "AU"}]
                          /\ ins.blocks \in [1 .. NbLevels -> Nat \ {0}]
Refers(ins, type) == type = "data" => ins.kind = "load"

LEMMA ImageFinite ==
  ASSUME NEW S, IsFiniteSet(S), NEW f, NEW T, T = {f[x] : x \in S}
  PROVE  IsFiniteSet(T)
<1> DEFINE g == [x \in S |-> f[x]]
<1>1. g \in Surjection(S, T)
  BY DEF Surjection
<1> HIDE DEF g
<1>2. QED
  BY <1>1, FS_Surjection

LEMMA SitesFacts ==
  ASSUME NEW p, NEW cs, NEW k, ContextTree(p, cs, k)
  PROVE  /\ IsFiniteSet(Places(p, cs)) /\ IsFiniteSet(Sites(p, cs))
         /\ \A c, n : <<c, n>> \in Places(p, cs) <=> c \in 1 .. Len(cs) /\ n \in NodesIn(p, cs, c)
         /\ \A y \in Places(p, cs) : y = <<y[1], y[2]>> /\ y[1] \in 1 .. Len(cs)
         /\ \A y \in Places(p, cs) :
              LET is == InstructionsIn(p, cs, y[1], y[2])
              IN  is \in Seq(ToSet(is)) /\ DOMAIN is = 1 .. Len(is) /\ Len(is) \in Nat
         /\ \A y, i : <<y, i>> \in Sites(p, cs)
                        <=> y \in Places(p, cs) /\ i \in DOMAIN InstructionsIn(p, cs, y[1], y[2])
         /\ \A x \in Sites(p, cs) :
              LET ins == Instr(p, cs, x)
              IN  /\ x[1] \in Places(p, cs) /\ x[2] \in DOMAIN InstructionsIn(p, cs, x[1][1], x[1][2])
                  /\ x = <<x[1], x[2]>> /\ Classified(ins)
                  /\ \A type \in Types : Refers(ins, type) =>
                       \A l \in 1 .. NbLevels :
                          /\ getCHMC(ins, type, l) \in {"AH", "AM", "FM", "NC", "AU"}
                          /\ countAccessedBlocks(ins, type, l) \in Nat \ {0}
<1>1. /\ p \in Programs /\ Len(cs) \in Nat \ {0}
      /\ \A c \in 1 .. Len(cs) : cs[c].function \in DOMAIN p.cfg
  BY ContextTypes
<1>2. ASSUME NEW c \in 1 .. Len(cs)
      PROVE  IsFiniteSet({<<c, n>> : n \in NodesIn(p, cs, c)})
  <2> DEFINE S == NodesIn(p, cs, c)
             f == [n \in S |-> <<c, n>>]
  <2>1. IsFiniteSet(S)
    <3> DEFINE nodes == p.cfg[cs[c].function].nodes
    <3>1. nodes \in Seq(S)
      BY <1>1, ProgramFacts DEF NodesIn
    <3>2. S = {nodes[i] : i \in DOMAIN nodes} /\ DOMAIN nodes = 1 .. Len(nodes) /\ Len(nodes) \in Nat
      BY <3>1 DEF NodesIn, NodesOf, ToSet
    <3> HIDE DEF nodes, S
    <3>3. IsFiniteSet(DOMAIN nodes)
      BY <3>2, FS_Interval
    <3>4. QED
      BY <3>2, <3>3, ImageFinite
  <2>2. {<<c, n>> : n \in S} = {f[n] : n \in S}
    OBVIOUS
  <2> HIDE DEF S, f
  <2>3. IsFiniteSet({<<c, n>> : n \in S})
    BY <2>1, <2>2, ImageFinite
  <2>4. QED
    BY <2>3 DEF S
<1>3. IsFiniteSet(Places(p, cs))
  <2> DEFINE D == 1 .. Len(cs)
             f == [c \in D |-> {<<c, n>> : n \in NodesIn(p, cs, c)}]
             T == {f[c] : c \in D}
  <2>1. Places(p, cs) = UNION T
    BY DEF Places
  <2>2. \A t \in T : IsFiniteSet(t)
    BY <1>2
  <2> HIDE DEF f
  <2>3. IsFiniteSet(D)
    BY <1>1, FS_Interval
  <2> HIDE DEF D
  <2>4. IsFiniteSet(T)
    BY <2>3, ImageFinite
  <2> HIDE DEF T
  <2>5. QED
    BY <2>1, <2>2, <2>4, FS_UNION
<1>4. \A c, n : <<c, n>> \in Places(p, cs) <=> c \in 1 .. Len(cs) /\ n \in NodesIn(p, cs, c)
  BY DEF Places
<1>5. \A y \in Places(p, cs) : y = <<y[1], y[2]>> /\ y[1] \in 1 .. Len(cs) /\ y[2] \in NodesIn(p, cs, y[1])
  BY DEF Places
<1>6. ASSUME NEW y \in Places(p, cs)
      PROVE  LET is == InstructionsIn(p, cs, y[1], y[2])
             IN  /\ is \in Seq(ToSet(is)) /\ DOMAIN is = 1 .. Len(is) /\ Len(is) \in Nat
                 /\ \A i \in DOMAIN is : Classified(is[i])
  <2>1. y[1] \in 1 .. Len(cs) /\ y[2] \in ToSet(p.cfg[cs[y[1]].function].nodes)
    BY <1>5 DEF NodesIn, NodesOf
  <2> DEFINE is == p.cfg[cs[y[1]].function].instructions[y[2]]
  <2>2. /\ is \in Seq(ToSet(is))
        /\ \A i \in DOMAIN is : Classified(is[i])
    BY <1>1, <2>1, InstructionsAssumption DEF Classified
  <2>3. is = InstructionsIn(p, cs, y[1], y[2])
    BY DEF InstructionsIn
  <2> HIDE DEF is
  <2>4. DOMAIN is = 1 .. Len(is) /\ Len(is) \in Nat
    BY <2>2
  <2>5. QED
    BY <2>2, <2>3, <2>4
<1>7. IsFiniteSet(Sites(p, cs))
  <2> DEFINE D == Places(p, cs)
             f == [y \in D |-> {<<y, i>> : i \in DOMAIN InstructionsIn(p, cs, y[1], y[2])}]
             T == {f[y] : y \in D}
  <2>1. Sites(p, cs) = UNION T
    BY DEF Sites
  <2>2. ASSUME NEW y \in D
        PROVE  IsFiniteSet(f[y])
    <3> DEFINE is == InstructionsIn(p, cs, y[1], y[2])
               S == DOMAIN is
               g == [i \in S |-> <<y, i>>]
    <3>1. S = 1 .. Len(is) /\ Len(is) \in Nat
      BY <1>6
    <3>2. IsFiniteSet(S)
      BY <3>1, FS_Interval
    <3>3. f[y] = {g[i] : i \in S}
      OBVIOUS
    <3> HIDE DEF f, g, S
    <3>4. QED
      BY <3>2, <3>3, ImageFinite
  <2>3. \A t \in T : IsFiniteSet(t)
    <3> HIDE DEF f
    <3>1. QED
      BY <2>2
  <2> HIDE DEF D, f
  <2>4. IsFiniteSet(T)
    BY <1>3, ImageFinite DEF D
  <2> HIDE DEF T
  <2>5. QED
    BY <2>1, <2>3, <2>4, FS_UNION
<1>8. \A y, i : <<y, i>> \in Sites(p, cs)
                  <=> y \in Places(p, cs) /\ i \in DOMAIN InstructionsIn(p, cs, y[1], y[2])
  BY DEF Sites
<1>9. \A x \in Sites(p, cs) : /\ x[1] \in Places(p, cs) /\ x = <<x[1], x[2]>>
                              /\ x[2] \in DOMAIN InstructionsIn(p, cs, x[1][1], x[1][2])
  BY DEF Sites
<1>10. ASSUME NEW x \in Sites(p, cs)
       PROVE  Classified(Instr(p, cs, x))
  <2> DEFINE ins == Instr(p, cs, x)
  <2> DEFINE is == InstructionsIn(p, cs, x[1][1], x[1][2])
  <2>1. x[1] \in Places(p, cs) /\ x[2] \in DOMAIN is /\ ins = is[x[2]]
    BY <1>9 DEF Instr
  <2>2. \A i \in DOMAIN is : Classified(is[i])
    BY <1>6, <2>1, Zenon
  <2> HIDE DEF is
  <2>3. QED
    BY <2>1, <2>2, Zenon
<1>11. ASSUME NEW x \in Sites(p, cs), NEW type \in Types, Refers(Instr(p, cs, x), type), NEW l \in 1 .. NbLevels
       PROVE  /\ getCHMC(Instr(p, cs, x), type, l) \in {"AH", "AM", "FM", "NC", "AU"}
              /\ countAccessedBlocks(Instr(p, cs, x), type, l) \in Nat \ {0}
  <2> DEFINE ins == Instr(p, cs, x)
  <2>1. Classified(ins)
    BY <1>10
  <2> HIDE DEF ins
  <2>2. /\ getCHMC(ins, type, l) \in {"AH", "AM", "FM", "NC", "AU"}
        /\ countAccessedBlocks(ins, type, l) \in Nat \ {0}
    <3>1. CASE type = "code"
      <4>1. getCHMC(ins, type, l) = ins.code[l] /\ countAccessedBlocks(ins, type, l) = 1
        BY <3>1 DEF getCHMC, countAccessedBlocks
      <4>2. ins.code[l] \in {"AH", "AM", "FM", "NC", "AU"}
        BY <2>1 DEF Classified
      <4>3. 1 \in Nat \ {0}
        OBVIOUS
      <4>4. QED
        BY <4>1, <4>2, <4>3, Zenon
    <3>2. CASE type = "data"
      <4>1. getCHMC(ins, type, l) = ins.data[l] /\ countAccessedBlocks(ins, type, l) = ins.blocks[l]
        BY <3>2 DEF getCHMC, countAccessedBlocks
      <4>2. ins.kind = "load"
        BY <1>11, <3>2 DEF Refers, ins
      <4>3. QED
        BY <2>1, <4>1, <4>2 DEF Classified
    <3>3. QED
      BY <3>1, <3>2 DEF Types
  <2>3. QED
    BY <2>2 DEF ins
<1>12. QED
  BY <1>3, <1>4, <1>5, <1>6, <1>7, <1>8, <1>9, <1>11, <1>10

-----------------------------------------------------------------------------
(* What an instruction asks of the caches of a type and which level        *)
(* answers, with the outcome a.                                            *)
Asks(ch, ins, type) ==
  IF type = "code" THEN ~ ch.perfectIcache ELSE ins.kind = "load" /\ ~ ch.perfectDcache
Server(a, type) == IF type = "code" THEN a[1] ELSE a[2][2]
BlockOf(ins, a, type, l) == IF type = "code" THEN 1 ELSE BlockAt(ins, a[2][1], l)
Mark(x, type, l, b) == <<x[1][1], x[1][2], x[2], type, l, b>>

(* An answer for each access: none from a level that always misses, nor    *)
(* from beyond one that always hits or that has loaded the block.          *)
Answered(ch, M, x, ins, a) ==
  \A type \in Types : Asks(ch, ins, type) =>
    /\ Server(a, type) \in 1 .. NbLevels + 1
    /\ type = "data" => a[2][1] \in 1 .. ins.blocks[1]
    /\ \A l \in 1 .. NbLevels : l < Server(a, type) =>
         /\ getCHMC(ins, type, l) \notin {"AH", "AU"}
         /\ Mark(x, type, l, BlockOf(ins, a, type, l)) \notin M
    /\ \A l \in 1 .. NbLevels : l <= Server(a, type) => getCHMC(ins, type, l) # "AU"

(* The accesses of the node y that level l of a type does not answer.      *)
Passing(p, cs, ch, y, o, type, l) ==
  {x \in Sites(p, cs) : /\ x[1] = y /\ Asks(ch, Instr(p, cs, x), type)
                        /\ l < Server(o[x[2]], type)}

Answers(p, cs, ch, nc, M, U, y, o, nd, N, V) ==
  /\ nd = Incremented(nc, y)
  /\ \A x \in Sites(p, cs) : x[1] = y => Answered(ch, M, x, Instr(p, cs, x), o[x[2]])
  /\ \A x \in Sites(p, cs), type \in Types, l \in 1 .. NbLevels : \A b :
       Mark(x, type, l, b) \in N <=>
         \/ Mark(x, type, l, b) \in M
         \/ /\ x \in Passing(p, cs, ch, y, o, type, l)
            /\ getCHMC(Instr(p, cs, x), type, l) = "FM"
            /\ b = BlockOf(Instr(p, cs, x), o[x[2]], type, l)
  /\ \A type \in Types, l \in 1 .. NbLevels :
       /\ V[<<type, l>>].references = U[<<type, l>>].references
            + Cardinality(Passing(p, cs, ch, y, o, type, l - 1))
       /\ V[<<type, l>>].misses = U[<<type, l>>].misses
            + Cardinality(Passing(p, cs, ch, y, o, type, l))
-----------------------------------------------------------------------------
LEMMA OutcomeAnswers ==
  ASSUME NEW x, NEW is, NEW c, NEW n, NEW i \in DOMAIN is, x = <<<<c, n>>, i>>, is = Instructions(c, n),
         NEW a \in Outcomes(c, n, i)
  PROVE  Answered(caches, missed, x, is[i], a)
<1> DEFINE ins == is[i]
<1>1. ins = Instructions(c, n)[i] /\ NbLevels \in Nat \ {0}
  BY LatenciesAssumption
<1>2. ASSUME NEW type \in Types, Asks(caches, ins, type)
      PROVE  /\ type = "data" => a[2][1] \in 1 .. ins.blocks[1]
             /\ \E b : /\ type = "code" => b = 1
                       /\ type = "data" => b = a[2][1]
                       /\ Server(a, type) \in MayServe(IF type = "code" THEN ins.code ELSE ins.data,
                                                       Loaded(c, n, i, type, b))
  <2> HIDE DEF ins
  <2>1. CASE type = "code"
    <3>1. a[1] \in MayServe(ins.code, Loaded(c, n, i, "code", 1))
      BY <1>1, <1>2, <2>1 DEF Outcomes, Asks
    <3>2. QED
      BY <2>1, <3>1 DEF Server
  <2>2. CASE type = "data"
    <3>1. ins.kind = "load" /\ ~ caches.perfectDcache
      BY <1>2, <2>2 DEF Asks
    <3>2. a[2] \in UNION {{b} \X MayServe(ins.data, Loaded(c, n, i, "data", b)) : b \in 1 .. ins.blocks[1]}
      BY <1>1, <3>1 DEF Outcomes
    <3>3. PICK b \in 1 .. ins.blocks[1] : a[2] \in {b} \X MayServe(ins.data, Loaded(c, n, i, "data", b))
      BY <3>2
    <3>4. a[2][1] = b /\ a[2][2] \in MayServe(ins.data, Loaded(c, n, i, "data", b))
      BY <3>3
    <3>5. QED
      BY <2>2, <3>4 DEF Server
  <2>3. QED
    BY <2>1, <2>2 DEF Types
<1>3. ASSUME NEW type \in Types, Asks(caches, ins, type)
      PROVE  /\ Server(a, type) \in 1 .. NbLevels + 1
             /\ \A l \in 1 .. NbLevels : l < Server(a, type) =>
                  /\ getCHMC(ins, type, l) \notin {"AH", "AU"}
                  /\ Mark(x, type, l, BlockOf(ins, a, type, l)) \notin missed
             /\ \A l \in 1 .. NbLevels : l <= Server(a, type) => getCHMC(ins, type, l) # "AU"
  <2> DEFINE classes == IF type = "code" THEN ins.code ELSE ins.data
             s == Server(a, type)
  <2>1. PICK b : /\ type = "code" => b = 1
                 /\ type = "data" => b = a[2][1]
                 /\ s \in MayServe(classes, Loaded(c, n, i, type, b))
    BY <1>2, <1>3
  <2> HIDE DEF s, classes
  <2>2. /\ s \in 1 .. NbLevels + 1
        /\ s <= NbLevels => classes[s] # "AU"
        /\ \A l \in 1 .. s - 1 : classes[l] \notin {"AH", "AU"} /\ l \notin Loaded(c, n, i, type, b)
    BY <2>1 DEF MayServe
  <2>3. ASSUME NEW l \in 1 .. NbLevels, l < s
        PROVE  /\ getCHMC(ins, type, l) \notin {"AH", "AU"}
               /\ Mark(x, type, l, BlockOf(ins, a, type, l)) \notin missed
    <3>1. l \in 1 .. s - 1
      BY <1>1, <2>2, <2>3
    <3>2. classes[l] \notin {"AH", "AU"} /\ l \notin Loaded(c, n, i, type, b)
      BY <2>2, <3>1
    <3>3. <<c, n, i, type, l, IF type = "code" THEN 1 ELSE BlockAt(ins, b, l)>> \notin missed
      BY <1>1, <3>2 DEF Loaded
    <3>4. BlockOf(ins, a, type, l) = IF type = "code" THEN 1 ELSE BlockAt(ins, b, l)
      BY <2>1 DEF BlockOf, Types
    <3>5. Mark(x, type, l, BlockOf(ins, a, type, l)) = <<c, n, i, type, l, BlockOf(ins, a, type, l)>>
      BY DEF Mark
    <3>6. getCHMC(ins, type, l) = classes[l]
      BY DEF getCHMC, classes
    <3> HIDE DEF ins
    <3>7. QED
      BY <3>2, <3>3, <3>4, <3>5, <3>6
  <2>4. ASSUME NEW l \in 1 .. NbLevels, l <= s
        PROVE  getCHMC(ins, type, l) # "AU"
    <3>1. getCHMC(ins, type, l) = classes[l]
      BY DEF getCHMC, classes
    <3>2. CASE l = s
      BY <1>1, <2>2, <3>1, <3>2
    <3>3. CASE l # s
      <4>1. l < s
        BY <1>1, <2>2, <2>4, <3>3
      <4>2. QED
        BY <2>3, <4>1
    <3>4. QED
      BY <3>2, <3>3
  <2>5. QED
    BY <2>2, <2>3, <2>4 DEF s
<1>4. QED
  BY <1>2, <1>3 DEF Answered

FirstBlock(a, type) == IF type = "code" THEN 1 ELSE a[2][1]
AccessOf(a, type) == <<type, FirstBlock(a, type), Server(a, type)>>

LEMMA AccessFacts ==
  ASSUME NEW ins, NEW a, NEW z
  PROVE  z \in Accesses(ins, a) <=> \E type \in Types : Asks(caches, ins, type) /\ z = AccessOf(a, type)
<1>1. AccessOf(a, "code") = <<"code", 1, a[1]>> /\ AccessOf(a, "data") = <<"data", a[2][1], a[2][2]>>
  BY DEF AccessOf, FirstBlock, Server
<1>2. /\ Asks(caches, ins, "code") <=> ~ caches.perfectIcache
      /\ Asks(caches, ins, "data") <=> ins.kind = "load" /\ ~ caches.perfectDcache
  BY DEF Asks
<1>3. Accesses(ins, a) = (IF Asks(caches, ins, "code") THEN {AccessOf(a, "code")} ELSE {})
                         \cup (IF Asks(caches, ins, "data") THEN {AccessOf(a, "data")} ELSE {})
  BY <1>1, <1>2 DEF Accesses
<1>4. QED
  BY <1>3 DEF Types

OutcomesTime(is, o) == MapThenSumSet(LAMBDA i : OutcomeTime(is[i], o[i]), DOMAIN is)

LEMMA VisitAnswers ==
  ASSUME Tree_, DOMAIN uses = Types \X (1 .. NbLevels), NEW y \in Places(program, contexts), Visit(y[1], y[2])
  PROVE  \E o : /\ Answers(program, contexts, caches, nodeCount, missed, uses, y, o,
                           nodeCount', missed', uses')
                /\ ~ Pipelined =>
                     elapsed' = elapsed + OutcomesTime(InstructionsIn(program, contexts, y[1], y[2]), o)
                /\ DOMAIN uses' = DOMAIN uses
<1> DEFINE c == y[1]
           n == y[2]
           is == Instructions(c, n)
           all(o) == UNION {{i} \X Accesses(is[i], o[i]) : i \in DOMAIN is}
<1>1. PICK o \in [DOMAIN is -> UNION {Outcomes(c, n, i) : i \in DOMAIN is}] :
         /\ \A i \in DOMAIN is : o[i] \in Outcomes(c, n, i)
         /\ elapsed' = IF Pipelined THEN Last(inFlight').wb ELSE elapsed + OutcomesTime(is, o)
         /\ missed' = missed \cup UNION
              {{<<c, n, x[1], x[2][1], l,
                  IF x[2][1] = "code" THEN 1 ELSE BlockAt(is[x[1]], x[2][2], l)>>
                  : l \in {k \in 1 .. NbLevels :
                            k < x[2][3] /\ getCHMC(is[x[1]], x[2][1], k) = "FM"}}
                 : x \in all(o)}
         /\ uses' = [tl \in DOMAIN uses |->
              [references |-> uses[tl].references
                 + Cardinality({x \in all(o) : x[2][1] = tl[1] /\ tl[2] <= x[2][3]}),
               misses |-> uses[tl].misses
                 + Cardinality({x \in all(o) : x[2][1] = tl[1] /\ tl[2] < x[2][3]})]]
  BY Zenon DEF Visit, OutcomesTime
<1>2. nodeCount' = Incremented(nodeCount, y)
  <2>1. y = <<c, n>>
    BY SitesFacts DEF Tree_
  <2>2. nodeCount' = Incremented(nodeCount, <<c, n>>)
    BY DEF Visit
  <2>3. QED
    BY <2>1, <2>2
<1>3. is = InstructionsIn(program, contexts, c, n)
  BY DEF Instructions, InstructionsIn, Cfg, getCurrentFunction
<1> HIDE DEF c, n, is
<1> DEFINE In(x) == Instr(program, contexts, x)
           Pass(type, l) == Passing(program, contexts, caches, y, o, type, l)
<1>4. /\ y = <<c, n>>
      /\ IsFiniteSet(Sites(program, contexts))
      /\ \A i : <<y, i>> \in Sites(program, contexts) <=> i \in DOMAIN is
      /\ \A x \in Sites(program, contexts) : x = <<x[1], x[2]>>
      /\ \A x \in Sites(program, contexts) : x[1] = y => x[2] \in DOMAIN is /\ In(x) = is[x[2]]
  BY <1>3, SitesFacts DEF Tree_, c, n, Instr
<1>5. ASSUME NEW x \in Sites(program, contexts), x[1] = y
      PROVE  Answered(caches, missed, x, In(x), o[x[2]])
  <2> DEFINE i == x[2]
  <2>1. /\ i \in DOMAIN is /\ In(x) = is[i] /\ x = <<<<c, n>>, i>> /\ is = Instructions(c, n)
        /\ o[i] \in Outcomes(c, n, i)
    BY <1>1, <1>4, <1>5 DEF is
  <2> HIDE DEF i, In
  <2>2. QED
    BY <2>1, OutcomeAnswers DEF i
<1>6. ASSUME NEW z
      PROVE  z \in all(o) <=> \E i \in DOMAIN is, type \in Types :
                                Asks(caches, is[i], type) /\ z = <<i, AccessOf(o[i], type)>>
  BY AccessFacts
<1> HIDE DEF all
<1>7. ASSUME NEW x \in Sites(program, contexts), NEW type \in Types, NEW l \in 1 .. NbLevels, NEW b
      PROVE  Mark(x, type, l, b) \in missed' <=>
               \/ Mark(x, type, l, b) \in missed
               \/ /\ x \in Pass(type, l)
                  /\ getCHMC(In(x), type, l) = "FM"
                  /\ b = BlockOf(In(x), o[x[2]], type, l)
  <2> DEFINE m == Mark(x, type, l, b)
             Of(z, k) == <<c, n, z[1], z[2][1], k, IF z[2][1] = "code" THEN 1 ELSE BlockAt(is[z[1]], z[2][2], k)>>
             Loading(z) == {k \in 1 .. NbLevels : k < z[2][3] /\ getCHMC(is[z[1]], z[2][1], k) = "FM"}
             j == x[2]
             w == <<j, AccessOf(o[j], type)>>
  <2>1. m \in missed' <=> m \in missed \/ \E z \in all(o) : \E k \in Loading(z) : m = Of(z, k)
    BY <1>1
  <2>2. m = <<x[1][1], x[1][2], j, type, l, b>>
    BY DEF Mark
  <2>3. w[1] = j /\ w[2][1] = type /\ w[2][2] = FirstBlock(o[j], type) /\ w[2][3] = Server(o[j], type)
    BY DEF AccessOf
  <2>4. BlockOf(is[j], o[j], type, l) = IF type = "code" THEN 1 ELSE BlockAt(is[j], FirstBlock(o[j], type), l)
    BY DEF BlockOf, FirstBlock
  <2>5. ASSUME NEW z \in all(o), NEW k \in Loading(z), m = Of(z, k)
        PROVE  x[1] = y /\ j \in DOMAIN is /\ z = w /\ k = l /\ Asks(caches, is[j], type)
    <3>1. x[1][1] = c /\ x[1][2] = n /\ z[1] = j /\ z[2][1] = type /\ k = l
      BY <2>2, <2>5
    <3>2. x[1] = y
      <4>1. x[1] = <<x[1][1], x[1][2]>>
        BY SitesFacts DEF Tree_
      <4>2. QED
        BY <1>4, <3>1, <4>1
    <3>3. PICK i \in DOMAIN is, t \in Types : Asks(caches, is[i], t) /\ z = <<i, AccessOf(o[i], t)>>
      BY <1>6
    <3>4. i = j /\ t = type
      BY <3>1, <3>3 DEF AccessOf
    <3>5. QED
      BY <3>1, <3>2, <3>3, <3>4
  <2>6. ASSUME x \in Pass(type, l), getCHMC(In(x), type, l) = "FM", b = BlockOf(In(x), o[x[2]], type, l)
        PROVE  \E z \in all(o) : \E k \in Loading(z) : m = Of(z, k)
    <3>1. x[1] = y /\ Asks(caches, In(x), type) /\ l < Server(o[j], type)
      BY <2>6 DEF Passing
    <3>2. j \in DOMAIN is /\ In(x) = is[j] /\ x[1][1] = c /\ x[1][2] = n
      BY <1>4, <3>1
    <3> HIDE DEF In
    <3>3. w \in all(o)
      BY <1>6, <3>1, <3>2
    <3>4. l \in Loading(w) /\ m = Of(w, l)
      BY <2>2, <2>3, <2>4, <2>6, <3>1, <3>2
    <3>5. QED
      BY <3>3, <3>4
  <2>7. ASSUME NEW z \in all(o), NEW k \in Loading(z), m = Of(z, k)
        PROVE  /\ x \in Pass(type, l)
               /\ getCHMC(In(x), type, l) = "FM"
               /\ b = BlockOf(In(x), o[x[2]], type, l)
    <3>1. x[1] = y /\ j \in DOMAIN is /\ z = w /\ k = l /\ Asks(caches, is[j], type)
      BY <2>5, <2>7
    <3>2. In(x) = is[j]
      BY <1>4, <3>1
    <3>3. l < Server(o[j], type) /\ getCHMC(is[j], type, l) = "FM"
      BY <2>3, <2>7, <3>1
    <3>4. b = BlockOf(is[j], o[j], type, l)
      BY <2>2, <2>3, <2>4, <2>7, <3>1
    <3> HIDE DEF In
    <3>5. QED
      BY <3>1, <3>2, <3>3, <3>4 DEF Passing, In
  <2> HIDE DEF m, Of, Loading, In, Pass
  <2>8. QED
    BY <2>1, <2>6, <2>7 DEF m
<1>8. ASSUME NEW type \in Types, NEW k \in Int
      PROVE  Cardinality({z \in all(o) : z[2][1] = type /\ k < z[2][3]}) = Cardinality(Pass(type, k))
  <2> DEFINE S == Pass(type, k)
             T == {z \in all(o) : z[2][1] = type /\ k < z[2][3]}
             f == [x \in S |-> <<x[2], AccessOf(o[x[2]], type)>>]
  <2>1. IsFiniteSet(S)
    <3>1. S \subseteq Sites(program, contexts)
      BY DEF Passing
    <3>2. QED
      BY <1>4, <3>1, FS_Subset
  <2>2. ASSUME NEW x \in S
        PROVE  /\ f[x] \in T /\ f[x][1] = x[2] /\ x = <<y, x[2]>>
    <3>1. x \in Sites(program, contexts) /\ x[1] = y /\ Asks(caches, In(x), type) /\ k < Server(o[x[2]], type)
      BY <2>2 DEF Passing
    <3>2. x[2] \in DOMAIN is /\ In(x) = is[x[2]] /\ x = <<y, x[2]>>
      BY <1>4, <3>1
    <3> HIDE DEF In
    <3>3. f[x] \in all(o)
      BY <1>6, <3>1, <3>2
    <3>4. f[x][2][1] = type /\ f[x][2][3] = Server(o[x[2]], type)
      BY DEF AccessOf
    <3>5. QED
      BY <3>1, <3>2, <3>3, <3>4
  <2>3. ASSUME NEW z \in T
        PROVE  \E x \in S : f[x] = z
    <3>1. PICK i \in DOMAIN is, t \in Types : Asks(caches, is[i], t) /\ z = <<i, AccessOf(o[i], t)>>
      BY <1>6
    <3>2. t = type /\ k < Server(o[i], type)
      BY <2>3, <3>1 DEF AccessOf
    <3> DEFINE x == <<y, i>>
    <3>3. x \in Sites(program, contexts) /\ x[1] = y /\ x[2] = i
      BY <1>4
    <3>4. In(x) = is[i]
      BY <1>4, <3>3
    <3> HIDE DEF x, In
    <3>5. x \in S
      BY <3>1, <3>2, <3>3, <3>4 DEF Passing, In
    <3>6. f[x] = z
      BY <3>1, <3>2, <3>3, <3>5
    <3>7. QED
      BY <3>5, <3>6
  <2>4. f \in Bijection(S, T)
    <3>1. \A x \in S : f[x] \in T
      BY <2>2
    <3>2. \A x, z \in S : f[x] = f[z] => x = z
      BY <2>2
    <3>3. f \in [S -> T]
      BY <3>1
    <3> HIDE DEF f, S, T
    <3>4. QED
      BY <2>3, <3>2, <3>3 DEF Bijection, Injection, Surjection, IsInjective
  <2>5. Cardinality(T) = Cardinality(S)
    <3> HIDE DEF f, S, T
    <3>1. QED
      BY <2>1, <2>4, FS_Bijection DEF ExistsBijection
  <2>6. QED
    BY <2>5
<1>9. ASSUME NEW type \in Types, NEW l \in 1 .. NbLevels
      PROVE  /\ uses'[<<type, l>>].references = uses[<<type, l>>].references + Cardinality(Pass(type, l - 1))
             /\ uses'[<<type, l>>].misses = uses[<<type, l>>].misses + Cardinality(Pass(type, l))
  <2>1. <<type, l>> \in DOMAIN uses
    OBVIOUS
  <2>2. /\ uses'[<<type, l>>].references = uses[<<type, l>>].references
             + Cardinality({z \in all(o) : z[2][1] = type /\ l <= z[2][3]})
        /\ uses'[<<type, l>>].misses = uses[<<type, l>>].misses
             + Cardinality({z \in all(o) : z[2][1] = type /\ l < z[2][3]})
    BY <1>1, <2>1
  <2>3. l \in Int /\ l - 1 \in Int
    BY LatenciesAssumption
  <2>4. {z \in all(o) : z[2][1] = type /\ l <= z[2][3]} = {z \in all(o) : z[2][1] = type /\ l - 1 < z[2][3]}
    <3>1. ASSUME NEW z \in all(o)
          PROVE  z[2][3] \in Int
      <4>1. PICK i \in DOMAIN is, t \in Types : Asks(caches, is[i], t) /\ z = <<i, AccessOf(o[i], t)>>
        BY <1>6
      <4> DEFINE x == <<y, i>>
      <4>2. x \in Sites(program, contexts) /\ x[1] = y /\ x[2] = i
        BY <1>4
      <4> HIDE DEF x
      <4>3. Answered(caches, missed, x, is[i], o[i])
        BY <1>4, <1>5, <4>2
      <4>4. Server(o[i], t) \in 1 .. NbLevels + 1
        BY <4>1, <4>3 DEF Answered
      <4>5. z[2][3] = Server(o[i], t)
        BY <4>1 DEF AccessOf
      <4>6. QED
        BY <4>4, <4>5, LatenciesAssumption
    <3>2. QED
      BY <2>3, <3>1
  <2>5. QED
    BY <1>8, <2>2, <2>3, <2>4
<1>10. Answers(program, contexts, caches, nodeCount, missed, uses, y, o, nodeCount', missed', uses')
  BY <1>2, <1>5, <1>7, <1>9 DEF Answers
<1>11. ~ Pipelined => elapsed' = elapsed + OutcomesTime(is, o)
  BY <1>1
<1>12. DOMAIN uses' = DOMAIN uses
  BY <1>1
<1> HIDE DEF In, Pass
<1>13. QED
  BY <1>3, <1>10, <1>11, <1>12 DEF c, n

-----------------------------------------------------------------------------
(* The invariant: w[<<x, type, l>>] accesses of the instruction x passed   *)
(* the first l levels of the caches of a type: as many as its node has     *)
(* executions at most, none beyond a level that always hits, and, beyond a *)
(* level where the first access of a block misses, one for each block that *)
(* it loaded.                                                              *)
Loads(M, x, type, l) == {b \in Nat : Mark(x, type, l, b) \in M}
Passed(p, cs, w, type, l) == [x \in Sites(p, cs) |-> w[<<x, type, l>>]]

Counts(p, cs) == [Sites(p, cs) \X Types \X (0 .. NbLevels) -> Nat]

(* No access reaches a level that it does not use.                         *)
Bypassing(p, cs, w) ==
  \A x \in Sites(p, cs), type \in Types, l \in 1 .. NbLevels :
     Refers(Instr(p, cs, x), type) /\ getCHMC(Instr(p, cs, x), type, l) = "AU" => w[<<x, type, l - 1>>] = 0

Accounted(p, cs, nc, M, U, w) ==
  /\ w \in Counts(p, cs)
  /\ \A x \in Sites(p, cs), type \in Types :
       /\ w[<<x, type, 0>>] <= Count(nc, x[1])
       /\ ~ Refers(Instr(p, cs, x), type) => w[<<x, type, 0>>] = 0
       /\ \A l \in 1 .. NbLevels :
            /\ w[<<x, type, l>>] <= w[<<x, type, l - 1>>]
            /\ Refers(Instr(p, cs, x), type) =>
                 LET class == getCHMC(Instr(p, cs, x), type, l)
                     loaded == Loads(M, x, type, l)
                 IN  /\ class \in {"AH", "AU"} => w[<<x, type, l>>] = 0
                     /\ class = "FM" => w[<<x, type, l>>] <= Cardinality(loaded)
                     /\ loaded \subseteq 1 .. countAccessedBlocks(Instr(p, cs, x), type, l)
  /\ \A type \in Types, l \in 1 .. NbLevels :
       /\ U[<<type, l>>].references = Total(Sites(p, cs), Passed(p, cs, w, type, l - 1))
       /\ U[<<type, l>>].misses = Total(Sites(p, cs), Passed(p, cs, w, type, l))
  /\ Bypassing(p, cs, w)
  /\ Numbers(nc)
  /\ \A c, n : Count(nc, <<c, n>>) > 0 => c \in 1 .. Len(cs) /\ Seen(p, cs, c)

(* The accesses that passed, after the answers o to the node y.            *)
PassedBy(p, cs, ch, w, y, o) ==
  [t \in Sites(p, cs) \X Types \X (0 .. NbLevels) |->
     w[t] + One(t[1] \in Passing(p, cs, ch, y, o, t[2], t[3]))]

LEMMA PartOf ==
  ASSUME NEW a \in Nat \ {0}, NEW m \in Nat \ {0}, NEW b \in 1 .. a
  PROVE  ((b - 1) * m) \div a + 1 \in 1 .. m
<1> DEFINE n == (b - 1) * m
           q == n \div a
           r == n % a
<1>1. b - 1 \in Nat /\ n \in Nat
  OBVIOUS
<1> HIDE DEF n
<1>2. q \in Nat /\ r \in 0 .. a - 1 /\ n = a * q + r
  BY <1>1
<1> HIDE DEF q, r
<1>3. n <= (a - 1) * m
  <2>1. b - 1 <= a - 1 /\ b - 1 \in Nat /\ a - 1 \in Nat
    OBVIOUS
  <2>2. \A i, j \in Nat : i <= j => i * m <= j * m
    OBVIOUS
  <2>3. QED
    BY <2>1, <2>2 DEF n
<1>4. CASE q >= m
  <2>1. a * q >= a * m
    <3>1. \A i, j \in Nat : i <= j => a * i <= a * j
      OBVIOUS
    <3>2. QED
      BY <1>2, <1>4, <3>1
  <2>2. (a - 1) * m = a * m - m /\ a * q \in Int /\ a * m \in Int
    BY <1>2
  <2>3. QED
    BY <1>1, <1>2, <1>3, <2>1, <2>2
<1>5. CASE q < m
  <2>1. q + 1 \in 1 .. m
    BY <1>2, <1>5
  <2>2. QED
    BY <2>1 DEF q, n
<1>6. QED
  BY <1>2, <1>4, <1>5

(* The block that an answer is about is one of those the load may access.  *)
LEMMA BlockIn ==
  ASSUME NEW p, NEW cs, NEW k, ContextTree(p, cs, k), NEW x \in Sites(p, cs), NEW type \in Types,
         NEW l \in 1 .. NbLevels, NEW ch, Asks(ch, Instr(p, cs, x), type), NEW a,
         type = "data" => a[2][1] \in 1 .. Instr(p, cs, x).blocks[1]
  PROVE  /\ Refers(Instr(p, cs, x), type)
         /\ BlockOf(Instr(p, cs, x), a, type, l) \in 1 .. countAccessedBlocks(Instr(p, cs, x), type, l)
<1> DEFINE ins == Instr(p, cs, x)
<1>1. Classified(ins) /\ 1 \in 1 .. NbLevels
  BY SitesFacts, LatenciesAssumption
<1> HIDE DEF ins
<1>2. /\ Asks(ch, ins, type)
      /\ type = "data" => a[2][1] \in 1 .. ins.blocks[1]
  BY DEF ins
<1>3. CASE type = "code"
  <2>1. Refers(ins, type) /\ BlockOf(ins, a, type, l) = 1 /\ countAccessedBlocks(ins, type, l) = 1
    BY <1>3 DEF Refers, BlockOf, countAccessedBlocks
  <2>2. QED
    BY <2>1 DEF ins
<1>4. CASE type = "data"
  <2>1. ins.kind = "load"
    BY <1>2, <1>4 DEF Asks
  <2>2. ins.blocks[1] \in Nat \ {0} /\ ins.blocks[l] \in Nat \ {0}
    BY <1>1, <2>1 DEF Classified
  <2>3. BlockAt(ins, a[2][1], l) \in 1 .. ins.blocks[l]
    BY <1>2, <1>4, <2>2, PartOf DEF BlockAt
  <2>4. BlockOf(ins, a, type, l) = BlockAt(ins, a[2][1], l) /\ countAccessedBlocks(ins, type, l) = ins.blocks[l]
    BY <1>4 DEF BlockOf, countAccessedBlocks
  <2>5. QED
    BY <2>1, <2>3, <2>4 DEF Refers, ins
<1>5. QED
  BY <1>3, <1>4 DEF Types

LEMMA PassedTotal ==
  ASSUME NEW p, NEW cs, NEW k, ContextTree(p, cs, k), NEW w, NEW ch, NEW y, NEW o,
         w \in Counts(p, cs), NEW type \in Types, NEW l \in 0 .. NbLevels
  PROVE  Total(Sites(p, cs), Passed(p, cs, PassedBy(p, cs, ch, w, y, o), type, l))
           = Total(Sites(p, cs), Passed(p, cs, w, type, l))
             + Cardinality(Passing(p, cs, ch, y, o, type, l))
<1> DEFINE S == Sites(p, cs)
           T == Passing(p, cs, ch, y, o, type, l)
           f == Passed(p, cs, w, type, l)
           g == [x \in S |-> One(x \in T)]
           h == Passed(p, cs, PassedBy(p, cs, ch, w, y, o), type, l)
<1>1. IsFiniteSet(S) /\ T \in SUBSET S
  BY SitesFacts DEF Passing
<1>2. IsFiniteSet(T)
  BY <1>1, FS_Subset
<1>3. \A x \in S : f[x] \in Int /\ g[x] \in Int /\ h[x] = f[x] + g[x]
  BY DEF Passed, PassedBy, One, Counts
<1>4. \A x \in S : x \in T => g[x] = 1
  BY DEF One
<1>5. \A x \in S \ T : g[x] = 0
  BY DEF One
<1> HIDE DEF S, T, f, g, h
<1>6. Total(S, h) = Total(S, f) + Total(S, g)
  BY <1>1, <1>3, TotalPlus
<1>7. Total(S, g) = Total(T, g)
  BY <1>1, <1>3, <1>5, TotalSupport
<1>8. Total(T, g) = Cardinality(T)
  <2>1. \A x \in T : g[x] = 1
    BY <1>1, <1>4
  <2>2. QED
    BY <1>2, <2>1, TotalCounts
<1>9. Total(S, h) = Total(S, f) + Cardinality(T)
  BY <1>6, <1>7, <1>8
<1>10. QED
  BY <1>9 DEF S, T, f, h

LEMMA AnswersAccount ==
  ASSUME NEW p, NEW cs, NEW k, ContextTree(p, cs, k), NEW ch, NEW nc, NEW M, NEW U, NEW w,
         Accounted(p, cs, nc, M, U, w), NEW y \in Places(p, cs), Seen(p, cs, y[1]), NEW o, NEW nd,
         NEW N, NEW V, Answers(p, cs, ch, nc, M, U, y, o, nd, N, V)
  PROVE  Accounted(p, cs, nd, N, V, PassedBy(p, cs, ch, w, y, o))
<1> DEFINE S == Sites(p, cs)
           v == PassedBy(p, cs, ch, w, y, o)
           T(type, l) == Passing(p, cs, ch, y, o, type, l)
           In(x) == Instr(p, cs, x)
<1>1. /\ w \in [S \X Types \X (0 .. NbLevels) -> Nat] /\ NbLevels \in Nat \ {0} /\ Numbers(nc)
      /\ nd = Incremented(nc, y)
      /\ y = <<y[1], y[2]>> /\ y[1] \in 1 .. Len(cs)
  BY SitesFacts, LatenciesAssumption DEF Accounted, Answers, Counts
<1>2. v \in [S \X Types \X (0 .. NbLevels) -> Nat]
  BY <1>1 DEF PassedBy, One
<1>3. \A x \in S, type \in Types, l \in 0 .. NbLevels :
        /\ v[<<x, type, l>>] = w[<<x, type, l>>] + One(x \in T(type, l))
        /\ v[<<x, type, l>>] \in Nat /\ w[<<x, type, l>>] \in Nat
  BY <1>1, <1>2 DEF PassedBy
<1>4. \A j : Count(nd, j) = Count(nc, j) + One(j = y) /\ Count(nc, j) \in Nat /\ Count(nd, j) \in Nat
  <2>1. \A j : Count(nc, j) \in Nat
    BY <1>1 DEF Numbers
  <2>2. \A j : Count(nd, j) = Count(nc, j) + One(j = y)
    BY <1>1, CountAfter
  <2>3. QED
    BY <2>1, <2>2 DEF One
<1>5. ASSUME NEW x \in S, NEW type \in Types, NEW l \in 0 .. NbLevels, x \in T(type, l)
      PROVE  /\ x[1] = y /\ Asks(ch, In(x), type) /\ l < Server(o[x[2]], type)
             /\ type = "data" => o[x[2]][2][1] \in 1 .. In(x).blocks[1]
             /\ Server(o[x[2]], type) \in Int
             /\ l # 0 =>
                  /\ getCHMC(In(x), type, l) \notin {"AH", "AU"}
                  /\ Mark(x, type, l, BlockOf(In(x), o[x[2]], type, l)) \notin M
                  /\ Refers(In(x), type)
                  /\ BlockOf(In(x), o[x[2]], type, l) \in 1 .. countAccessedBlocks(In(x), type, l)
  <2>1. x[1] = y /\ Asks(ch, In(x), type) /\ l < Server(o[x[2]], type)
    BY <1>5 DEF Passing
  <2>2. Answered(ch, M, x, In(x), o[x[2]])
    BY <2>1 DEF Answers
  <2> HIDE DEF In
  <2>3. /\ type = "data" => o[x[2]][2][1] \in 1 .. In(x).blocks[1]
        /\ Server(o[x[2]], type) \in 1 .. NbLevels + 1
        /\ l # 0 => /\ getCHMC(In(x), type, l) \notin {"AH", "AU"}
                    /\ Mark(x, type, l, BlockOf(In(x), o[x[2]], type, l)) \notin M
    <3>1. l # 0 => l \in 1 .. NbLevels
      BY <1>1
    <3>2. QED
      BY <2>1, <2>2, <3>1 DEF Answered
  <2>4. l # 0 => /\ Refers(In(x), type)
                 /\ BlockOf(In(x), o[x[2]], type, l) \in 1 .. countAccessedBlocks(In(x), type, l)
    <3>1. l # 0 => l \in 1 .. NbLevels
      BY <1>1
    <3>2. QED
      BY <2>1, <2>3, <3>1, BlockIn DEF In
  <2>5. Server(o[x[2]], type) \in Int
    BY <1>1, <2>3
  <2>6. QED
    BY <2>1, <2>3, <2>4, <2>5
<1>6. ASSUME NEW x \in S, NEW type \in Types, ~ Refers(In(x), type)
      PROVE  \A l \in 0 .. NbLevels : x \notin T(type, l)
  BY <1>5, <1>6 DEF Refers, Asks, Types
<1>7. ASSUME NEW x \in S, NEW type \in Types
      PROVE  /\ v[<<x, type, 0>>] <= Count(nd, x[1])
             /\ ~ Refers(In(x), type) => v[<<x, type, 0>>] = 0
  <2>1. /\ w[<<x, type, 0>>] <= Count(nc, x[1])
        /\ ~ Refers(In(x), type) => w[<<x, type, 0>>] = 0
    BY DEF Accounted
  <2>2. v[<<x, type, 0>>] = w[<<x, type, 0>>] + One(x \in T(type, 0)) /\ w[<<x, type, 0>>] \in Nat
    BY <1>1, <1>3
  <2>3. x \in T(type, 0) => x[1] = y
    BY DEF Passing
  <2>4. ~ Refers(In(x), type) => x \notin T(type, 0)
    BY <1>1, <1>6
  <2> HIDE DEF v, T, In
  <2>5. QED
    BY <1>4, <2>1, <2>2, <2>3, <2>4 DEF One
<1>8. ASSUME NEW x \in S, NEW type \in Types, NEW l \in 1 .. NbLevels
      PROVE  v[<<x, type, l>>] <= v[<<x, type, l - 1>>]
  <2>1. w[<<x, type, l>>] <= w[<<x, type, l - 1>>]
    BY DEF Accounted
  <2>2. l \in 0 .. NbLevels /\ l - 1 \in 0 .. NbLevels /\ l \in Int
    BY <1>1
  <2>3. x \in T(type, l) => x \in T(type, l - 1)
    <3>1. x \in T(type, l) => x[1] = y /\ Asks(ch, In(x), type) /\ l < Server(o[x[2]], type)
                              /\ Server(o[x[2]], type) \in Int
      BY <1>5, <2>2
    <3>2. \A s \in Int : l < s => l - 1 < s
      BY <2>2
    <3>3. QED
      BY <3>1, <3>2 DEF Passing
  <2>4. /\ v[<<x, type, l>>] = w[<<x, type, l>>] + One(x \in T(type, l))
        /\ v[<<x, type, l - 1>>] = w[<<x, type, l - 1>>] + One(x \in T(type, l - 1))
        /\ w[<<x, type, l>>] \in Nat /\ w[<<x, type, l - 1>>] \in Nat
    BY <1>3, <2>2
  <2> HIDE DEF v, T
  <2>5. QED
    BY <2>1, <2>3, <2>4 DEF One
<1>9. ASSUME NEW x \in S, NEW type \in Types, NEW l \in 1 .. NbLevels, Refers(In(x), type)
      PROVE  LET class == getCHMC(In(x), type, l)
                 loaded == Loads(N, x, type, l)
             IN  /\ class \in {"AH", "AU"} => v[<<x, type, l>>] = 0
                 /\ class = "FM" => v[<<x, type, l>>] <= Cardinality(loaded)
                 /\ loaded \subseteq 1 .. countAccessedBlocks(In(x), type, l)
  <2> DEFINE class == getCHMC(In(x), type, l)
             old == Loads(M, x, type, l)
             new == Loads(N, x, type, l)
             b == BlockOf(In(x), o[x[2]], type, l)
             m == countAccessedBlocks(In(x), type, l)
             here == x \in T(type, l)
             V0 == w[<<x, type, l>>]
             V1 == v[<<x, type, l>>]
  <2>1. /\ class \in {"AH", "AU"} => V0 = 0
        /\ class = "FM" => V0 <= Cardinality(old)
        /\ old \subseteq 1 .. m
    BY <1>9 DEF Accounted
  <2>2. l \in 0 .. NbLevels /\ l # 0 /\ m \in Nat \ {0}
    BY <1>1, <1>9, SitesFacts
  <2>3. V1 = V0 + One(here) /\ V0 \in Nat
    BY <1>3, <2>2
  <2>4. here => class \notin {"AH", "AU"} /\ Mark(x, type, l, b) \notin M /\ b \in 1 .. m
    BY <1>5, <2>2
  <2>5. \A j : Mark(x, type, l, j) \in N <=> Mark(x, type, l, j) \in M \/ (here /\ class = "FM" /\ j = b)
    BY DEF Answers
  <2>6. new = IF here /\ class = "FM" THEN old \cup {b} ELSE old
    <3> HIDE DEF here, b, class
    <3>1. b \in 1 .. m => b \in Nat
      BY <2>2
    <3>2. QED
      BY <2>4, <2>5, <3>1 DEF Loads
  <2>7. IsFiniteSet(old)
    <3>1. IsFiniteSet(1 .. m)
      BY <2>2, FS_Interval
    <3>2. QED
      BY <2>1, <3>1, FS_Subset
  <2>8. b \notin old \/ ~ here
    BY <2>4 DEF Loads
  <2>9. /\ Cardinality(old) \in Nat
        /\ Cardinality(old \cup {b}) = IF b \in old THEN Cardinality(old) ELSE Cardinality(old) + 1
    BY <2>7, FS_AddElement, FS_CardinalityType
  <2> HIDE DEF class, old, new, b, m, here, V0, V1
  <2>10. new \subseteq 1 .. m
    BY <2>1, <2>4, <2>6
  <2>11. class \in {"AH", "AU"} => V1 = 0
    BY <2>1, <2>3, <2>4 DEF One
  <2>12. class = "FM" => V1 <= Cardinality(new)
    <3>1. CASE here
      BY <2>1, <2>3, <2>6, <2>8, <2>9, <3>1 DEF One
    <3>2. CASE ~ here
      BY <2>1, <2>3, <2>6, <2>9, <3>2 DEF One
    <3>3. QED
      BY <3>1, <3>2
  <2>13. QED
    BY <2>10, <2>11, <2>12 DEF class, new, m, V1
<1>10. ASSUME NEW type \in Types, NEW l \in 1 .. NbLevels
       PROVE  /\ V[<<type, l>>].references = Total(S, Passed(p, cs, v, type, l - 1))
              /\ V[<<type, l>>].misses = Total(S, Passed(p, cs, v, type, l))
  <2>1. l \in 0 .. NbLevels /\ l - 1 \in 0 .. NbLevels
    BY <1>1
  <2>2. /\ V[<<type, l>>].references = U[<<type, l>>].references + Cardinality(T(type, l - 1))
        /\ V[<<type, l>>].misses = U[<<type, l>>].misses + Cardinality(T(type, l))
    BY DEF Answers
  <2>3. /\ U[<<type, l>>].references = Total(S, Passed(p, cs, w, type, l - 1))
        /\ U[<<type, l>>].misses = Total(S, Passed(p, cs, w, type, l))
    BY DEF Accounted
  <2>4. ASSUME NEW j \in 0 .. NbLevels
        PROVE  Total(S, Passed(p, cs, v, type, j)) = Total(S, Passed(p, cs, w, type, j)) + Cardinality(T(type, j))
    <3>1. w \in Counts(p, cs)
      BY <1>1 DEF Counts
    <3>2. QED
      BY <3>1, PassedTotal
  <2> HIDE DEF S, v, T
  <2>5. QED
    BY <2>1, <2>2, <2>3, <2>4
<1>11. ASSUME NEW c, NEW n, Count(nd, <<c, n>>) > 0
       PROVE  c \in 1 .. Len(cs) /\ Seen(p, cs, c)
  <2>1. Count(nc, <<c, n>>) > 0 => c \in 1 .. Len(cs) /\ Seen(p, cs, c)
    BY DEF Accounted
  <2>2. <<c, n>> = y => c = y[1]
    BY <1>1
  <2>3. Count(nd, <<c, n>>) = Count(nc, <<c, n>>) + One(<<c, n>> = y) /\ Count(nc, <<c, n>>) \in Nat
    BY <1>4
  <2>4. CASE <<c, n>> = y
    BY <1>1, <2>2, <2>4
  <2>5. CASE <<c, n>> # y
    BY <1>11, <2>1, <2>3, <2>5 DEF One
  <2>6. QED
    BY <2>4, <2>5
<1>12. Numbers(nd)
  BY <1>4 DEF Numbers
<1>13. Bypassing(p, cs, v)
  <2> SUFFICES ASSUME NEW x \in S, NEW type \in Types, NEW l \in 1 .. NbLevels,
                      Refers(In(x), type), getCHMC(In(x), type, l) = "AU"
               PROVE  v[<<x, type, l - 1>>] = 0
    BY DEF Bypassing
  <2>1. w[<<x, type, l - 1>>] = 0
    BY DEF Accounted, Bypassing
  <2>2. l - 1 \in 0 .. NbLevels
    BY <1>1
  <2>3. x \notin T(type, l - 1)
    <3>1. SUFFICES ASSUME x \in T(type, l - 1) PROVE FALSE
      OBVIOUS
    <3>2. x[1] = y /\ Asks(ch, In(x), type) /\ l - 1 < Server(o[x[2]], type) /\ Server(o[x[2]], type) \in Int
      BY <1>5, <2>2, <3>1
    <3>3. Answered(ch, M, x, In(x), o[x[2]])
      BY <3>2 DEF Answers
    <3>4. l <= Server(o[x[2]], type)
      BY <3>2
    <3> HIDE DEF In
    <3>5. QED
      BY <3>2, <3>3, <3>4 DEF Answered
  <2>4. v[<<x, type, l - 1>>] = w[<<x, type, l - 1>>] + One(x \in T(type, l - 1))
    BY <1>3, <2>2
  <2> HIDE DEF v, T
  <2>5. QED
    BY <2>1, <2>3, <2>4 DEF One
<1> SUFFICES Accounted(p, cs, nd, N, V, v)
  OBVIOUS
<1> HIDE DEF v
<1>14. QED
  BY <1>2, <1>7, <1>8, <1>9, <1>10, <1>11, <1>12, <1>13 DEF Accounted, Counts

-----------------------------------------------------------------------------
(* The time of an execution: for each instruction, what the levels that    *)
(* its accesses reached take.                                              *)
Latencies == [1 .. NbLevels -> Nat]
Paid(latency, w, x, type) ==
  Total(1 .. NbLevels, [l \in 1 .. NbLevels |-> latency[l] * w[<<x, type, l - 1>>]])
  + MemoryLoadLatency * w[<<x, type, NbLevels>>]

Duration(ch, ins, n, w, x) ==
  IF ch.perfectIcache /\ ch.perfectDcache THEN n * PerfectICacheLatency
  ELSE (IF ch.perfectIcache THEN n * PerfectICacheLatency ELSE Paid(levelAccessCostInstr, w, x, "code"))
     + (IF ch.perfectDcache THEN n * PerfectDCacheLatency
        ELSE IF ins.kind = "store" THEN n * MemoryStoreLatency
        ELSE IF ins.kind = "load" THEN Paid(levelAccessCostData, w, x, "data")
        ELSE 0)

LEMMA AccessTimeTotal ==
  ASSUME NEW latency, NEW s \in Int
  PROVE  AccessTime(latency, s) = Total(1 .. Lesser(s, NbLevels), [l \in 1 .. Lesser(s, NbLevels) |-> latency[l]])
                                  + (IF s > NbLevels THEN MemoryLoadLatency ELSE 0)
<1> DEFINE S == 1 .. Lesser(s, NbLevels)
           f == [l \in S |-> latency[l]]
           Iter(w) == w = [r \in SUBSET S |->
                             IF r = {} THEN 0
                             ELSE latency[CHOOSE x \in r : TRUE] + w[r \ {CHOOSE x \in r : TRUE}]]
           total == CHOOSE w : Iter(w)
           more == IF s > NbLevels THEN MemoryLoadLatency ELSE 0
<1>1. IsFiniteSet(S)
  <2>1. Lesser(s, NbLevels) \in Int
    BY LatenciesAssumption DEF Lesser
  <2>2. QED
    BY <2>1, FS_Interval
<1>2. \A x : IsSum(x, S, f) <=> Iter(x)
  BY DEF IsSum, Some
<1>3. Iter(total)
  <2>1. PICK x : IsSum(x, S, f)
    <3> HIDE DEF f, S
    <3>1. QED
      BY <1>1, SumExists
  <2>2. Iter(x)
    BY <1>2, <2>1
  <2> HIDE DEF Iter
  <2>3. QED
    BY <2>2, Zenon
<1>4. AccessTime(latency, s) = total[S] + more
  BY DEF AccessTime, MapThenSumSet, MapThenFoldSet
<1>5. IsSum(total, S, f)
  BY <1>2, <1>3
<1> HIDE DEF total, Iter, S, f
<1>6. total[S] = Total(S, f)
  BY <1>1, <1>5, TotalOfPart
<1>7. QED
  BY <1>4, <1>6 DEF S, f

LEMMA Distributes ==
  ASSUME NEW a \in Nat, NEW b \in Nat, NEW i \in {0, 1}
  PROVE  /\ a * (b + i) = a * b + a * i /\ a * b \in Nat /\ a * i \in Nat
         /\ a * i = IF i = 1 THEN a ELSE 0
<1>1. CASE i = 0
  BY <1>1
<1>2. CASE i = 1
  BY <1>2
<1>3. QED
  BY <1>1, <1>2

LEMMA PaidAfter ==
  ASSUME NEW p, NEW cs, NEW k, ContextTree(p, cs, k), NEW w, w \in Counts(p, cs), NEW ch, NEW y, NEW o,
         NEW latency \in Latencies, NEW x \in Sites(p, cs), NEW type \in Types
  PROVE  LET asks == x[1] = y /\ Asks(ch, Instr(p, cs, x), type)
             v == PassedBy(p, cs, ch, w, y, o)
         IN  /\ Paid(latency, w, x, type) \in Nat
             /\ asks /\ Server(o[x[2]], type) \in 1 .. NbLevels + 1 =>
                  /\ AccessTime(latency, Server(o[x[2]], type)) \in Nat
                  /\ Paid(latency, v, x, type)
                       = Paid(latency, w, x, type) + AccessTime(latency, Server(o[x[2]], type))
             /\ ~ asks => Paid(latency, v, x, type) = Paid(latency, w, x, type)
<1> DEFINE L == 1 .. NbLevels
           asks == x[1] = y /\ Asks(ch, Instr(p, cs, x), type)
           s == Server(o[x[2]], type)
           v == PassedBy(p, cs, ch, w, y, o)
           T(l) == x \in Passing(p, cs, ch, y, o, type, l)
           f == [l \in L |-> latency[l] * w[<<x, type, l - 1>>]]
           g == [l \in L |-> latency[l] * One(T(l - 1))]
           h == [l \in L |-> latency[l] * v[<<x, type, l - 1>>]]
           M == MemoryLoadLatency
           W == w[<<x, type, NbLevels>>]
           V == v[<<x, type, NbLevels>>]
<1>1. NbLevels \in Nat \ {0} /\ M \in Nat /\ IsFiniteSet(L)
  <2>1. NbLevels \in Nat \ {0} /\ M \in Nat
    BY LatenciesAssumption
  <2>2. QED
    BY <2>1, FS_Interval
<1>2. /\ w \in [Sites(p, cs) \X Types \X (0 .. NbLevels) -> Nat]
      /\ v \in [Sites(p, cs) \X Types \X (0 .. NbLevels) -> Nat]
  BY DEF PassedBy, One, Counts
<1>3. \A l \in 0 .. NbLevels :
        /\ v[<<x, type, l>>] = w[<<x, type, l>>] + One(T(l))
        /\ w[<<x, type, l>>] \in Nat
  BY <1>2 DEF PassedBy
<1>4. \A l \in L : l - 1 \in 0 .. NbLevels /\ latency[l] \in Nat
  BY <1>1 DEF Latencies
<1>5. \A l \in L : /\ f[l] \in Nat /\ g[l] \in Nat /\ h[l] = f[l] + g[l]
                   /\ g[l] = IF T(l - 1) THEN latency[l] ELSE 0
  <2> SUFFICES ASSUME NEW l \in L
               PROVE  /\ f[l] \in Nat /\ g[l] \in Nat /\ h[l] = f[l] + g[l]
                      /\ g[l] = IF T(l - 1) THEN latency[l] ELSE 0
    OBVIOUS
  <2> DEFINE i == One(T(l - 1))
             a == latency[l]
             b == w[<<x, type, l - 1>>]
             c == v[<<x, type, l - 1>>]
  <2>1. /\ a \in Nat /\ b \in Nat /\ c = b + i
        /\ f[l] = a * b /\ g[l] = a * i /\ h[l] = a * c
    BY <1>3, <1>4
  <2>2. i \in {0, 1} /\ (i = 1 <=> T(l - 1))
    BY DEF One
  <2> HIDE DEF i, a, b, c, f, g, h, T
  <2>3. /\ a * (b + i) = a * b + a * i /\ a * b \in Nat /\ a * i \in Nat
        /\ a * i = IF i = 1 THEN a ELSE 0
    BY <2>1, <2>2, Distributes
  <2>4. QED
    BY <2>1, <2>2, <2>3 DEF a
<1>6. /\ M * V = M * W + M * One(T(NbLevels)) /\ M * W \in Nat /\ W \in Nat
      /\ M * One(T(NbLevels)) = IF T(NbLevels) THEN M ELSE 0
  <2> DEFINE i == One(T(NbLevels))
  <2>1. V = W + i /\ W \in Nat
    BY <1>1, <1>3
  <2>2. i \in {0, 1} /\ (i = 1 <=> T(NbLevels))
    BY DEF One
  <2> HIDE DEF V, W, T, M, i
  <2>3. /\ M * (W + i) = M * W + M * i /\ M * W \in Nat
        /\ M * i = IF i = 1 THEN M ELSE 0
    BY <1>1, <2>1, <2>2, Distributes
  <2>4. QED
    BY <2>1, <2>2, <2>3 DEF i
<1>7. \A l \in 0 .. NbLevels : T(l) <=> asks /\ l < s
  BY DEF Passing
<1>8. Paid(latency, w, x, type) = Total(L, f) + M * W /\ Paid(latency, v, x, type) = Total(L, h) + M * V
  BY DEF Paid
<1>9. Total(L, h) = Total(L, f) + Total(L, g) /\ Total(L, f) \in Nat /\ Total(L, g) \in Nat
  <2>1. \A l \in L : f[l] \in Int /\ g[l] \in Int /\ h[l] = f[l] + g[l]
    BY <1>5
  <2>2. \A l \in L : f[l] \in Nat /\ g[l] \in Nat
    BY <1>5
  <2> HIDE DEF L, f, g, h
  <2>3. Total(L, h) = Total(L, f) + Total(L, g)
    BY <1>1, <2>1, TotalPlus
  <2>4. Total(L, f) \in Nat
    BY <1>1, <2>2, TotalType
  <2>5. Total(L, g) \in Nat
    BY <1>1, <2>2, TotalType
  <2>6. QED
    BY <2>3, <2>4, <2>5
<1>10. ASSUME ~ asks
       PROVE  Total(L, g) = 0 /\ ~ T(NbLevels)
  <2>1. \A l \in L : g[l] = 0
    BY <1>4, <1>5, <1>7, <1>10
  <2>2. ~ T(NbLevels)
    BY <1>1, <1>7, <1>10
  <2>3. Total(L, g) = 0
    <3>1. \A l \in L : g[l] \in Int
      BY <2>1
    <3> HIDE DEF L, g
    <3>2. QED
      BY <1>1, <2>1, <3>1, TotalTerms
  <2>4. QED
    BY <2>2, <2>3
<1>11. ASSUME asks, s \in 1 .. NbLevels + 1
       PROVE  Total(L, g) + (IF T(NbLevels) THEN M ELSE 0) = AccessTime(latency, s)
  <2> DEFINE R == 1 .. Lesser(s, NbLevels)
             r == [l \in R |-> latency[l]]
  <2>1. /\ R \in SUBSET L /\ s \in Int
        /\ \A l \in L : l \in R <=> l - 1 < s
        /\ T(NbLevels) <=> s > NbLevels
    BY <1>1, <1>7, <1>11 DEF Lesser
  <2>2. \A l \in L : g[l] = IF l \in R THEN latency[l] ELSE 0
    <3> SUFFICES ASSUME NEW l \in L
                 PROVE  g[l] = IF l \in R THEN latency[l] ELSE 0
      OBVIOUS
    <3>1. l - 1 \in 0 .. NbLevels /\ g[l] = IF T(l - 1) THEN latency[l] ELSE 0
      BY <1>4, <1>5
    <3>2. T(l - 1) <=> l - 1 < s
      BY <1>7, <1>11, <3>1
    <3> HIDE DEF R, L, g, T, s, asks
    <3>3. l \in R <=> l - 1 < s
      BY <2>1
    <3>4. QED
      BY <3>1, <3>2, <3>3
  <2>3. Total(L, g) = Total(R, g)
    <3> HIDE DEF f, g, h, T, L, s, asks, R
    <3>1. \A l \in L : g[l] \in Int
      BY <1>5
    <3>2. \A l \in L \ R : g[l] = 0
      BY <2>2
    <3>3. QED
      BY <1>1, <2>1, <3>1, <3>2, TotalSupport
  <2>4. Total(R, g) = Total(R, r)
    <3>1. \A l \in R : g[l] = r[l] /\ g[l] \in Int /\ r[l] \in Int
      <4> HIDE DEF f, g, h, T, L, s, asks, R
      <4>1. \A l \in R : l \in L /\ g[l] = latency[l] /\ g[l] \in Nat
        BY <1>5, <2>1, <2>2
      <4>2. QED
        BY <4>1
    <3>2. IsFiniteSet(R)
      BY <1>1, <2>1, FS_Subset
    <3> HIDE DEF R, g, r
    <3>3. QED
      BY <3>1, <3>2, TotalTerms
  <2>5. AccessTime(latency, s) = Total(R, r) + (IF s > NbLevels THEN M ELSE 0)
    BY <2>1, AccessTimeTotal
  <2> HIDE DEF L, R, g, r, T
  <2>6. QED
    BY <2>1, <2>3, <2>4, <2>5
<1>12. /\ Paid(latency, w, x, type) \in Nat
       /\ asks /\ s \in 1 .. NbLevels + 1 =>
            /\ AccessTime(latency, s) \in Nat
            /\ Paid(latency, v, x, type) = Paid(latency, w, x, type) + AccessTime(latency, s)
       /\ ~ asks => Paid(latency, v, x, type) = Paid(latency, w, x, type)
  <2> DEFINE F == Total(L, f)
             G == Total(L, g)
             H == Total(L, h)
             A == AccessTime(latency, s)
             MV == M * V
             MW == M * W
             B == IF T(NbLevels) THEN M ELSE 0
  <2>1. /\ MV = MW + B /\ MW \in Nat /\ B \in Nat
        /\ H = F + G /\ F \in Nat /\ G \in Nat
        /\ Paid(latency, w, x, type) = F + MW /\ Paid(latency, v, x, type) = H + MV
        /\ ~ asks => G = 0 /\ B = 0
        /\ asks /\ s \in 1 .. NbLevels + 1 => G + B = A
    BY <1>1, <1>6, <1>8, <1>9, <1>10, <1>11
  <2> HIDE DEF F, G, H, A, MV, MW, B, asks, v, s
  <2>2. QED
    BY <2>1 DEF A
<1>13. QED
  BY <1>12

LEMMA OutcomeTimeTerms ==
  ASSUME NEW ins, NEW a
  PROVE  OutcomeTime(ins, a) =
           IF caches.perfectIcache /\ caches.perfectDcache THEN PerfectICacheLatency
           ELSE (IF caches.perfectIcache THEN PerfectICacheLatency
                 ELSE AccessTime(levelAccessCostInstr, Server(a, "code")))
              + (IF caches.perfectDcache THEN PerfectDCacheLatency
                 ELSE IF ins.kind = "store" THEN MemoryStoreLatency
                 ELSE IF ins.kind = "load" THEN AccessTime(levelAccessCostData, Server(a, "data"))
                 ELSE 0)
BY DEF OutcomeTime, FetchLatency, Server

LEMMA Again ==
  ASSUME NEW n \in Nat, NEW a \in Nat
  PROVE  (n + 1) * a = n * a + a /\ n * a \in Nat
OBVIOUS

LEMMA DurationAfter ==
  ASSUME NEW p, NEW cs, NEW k, ContextTree(p, cs, k), NEW nc, NEW M, NEW U, NEW w,
         NEW y, NEW o, NEW nd, NEW N, NEW V, w \in Counts(p, cs), Numbers(nc),
         Answers(p, cs, caches, nc, M, U, y, o, nd, N, V), NEW x \in Sites(p, cs)
  PROVE  LET ins == Instr(p, cs, x)
             v == PassedBy(p, cs, caches, w, y, o)
             old == Duration(caches, ins, Count(nc, x[1]), w, x)
             new == Duration(caches, ins, Count(nd, x[1]), v, x)
         IN  /\ old \in Nat
             /\ x[1] = y => OutcomeTime(ins, o[x[2]]) \in Nat /\ new = old + OutcomeTime(ins, o[x[2]])
             /\ x[1] # y => new = old
<1> DEFINE ins == Instr(p, cs, x)
           v == PassedBy(p, cs, caches, w, y, o)
           a == o[x[2]]
           n == Count(nc, x[1])
           m == Count(nd, x[1])
           here == x[1] = y
           oI == Paid(levelAccessCostInstr, w, x, "code")
           nI == Paid(levelAccessCostInstr, v, x, "code")
           aI == AccessTime(levelAccessCostInstr, Server(a, "code"))
           oD == Paid(levelAccessCostData, w, x, "data")
           nD == Paid(levelAccessCostData, v, x, "data")
           aD == AccessTime(levelAccessCostData, Server(a, "data"))
           PI == caches.perfectIcache
           PD == caches.perfectDcache
<1>1. /\ levelAccessCostInstr \in Latencies /\ levelAccessCostData \in Latencies
      /\ MemoryStoreLatency \in Nat /\ PerfectICacheLatency \in Nat /\ PerfectDCacheLatency \in Nat
      /\ NbLevels \in Nat \ {0}
  BY LatenciesAssumption DEF Latencies
<1>2. n \in Nat /\ m = IF here THEN n + 1 ELSE n
  <2>1. nd = Incremented(nc, y)
    BY DEF Answers
  <2>2. m = n + One(here) /\ n \in Nat
    BY <2>1, CountAfter DEF Numbers
  <2>3. QED
    BY <2>2 DEF One
<1>3. "code" \in Types /\ "data" \in Types
  BY DEF Types
<1>4. ASSUME here, NEW type \in Types, Asks(caches, ins, type)
      PROVE  Server(a, type) \in 1 .. NbLevels + 1
  <2>1. Answered(caches, M, x, ins, a)
    BY <1>4 DEF Answers
  <2> HIDE DEF ins, a
  <2>2. QED
    BY <1>4, <2>1 DEF Answered
<1>5. /\ oI \in Nat
      /\ here /\ ~ PI => aI \in Nat /\ nI = oI + aI
      /\ ~ here => nI = oI
  <2>1. Asks(caches, ins, "code") <=> ~ PI
    BY DEF Asks
  <2> DEFINE asks == here /\ Asks(caches, ins, "code")
             s == Server(a, "code")
  <2>2. /\ oI \in Nat
        /\ asks /\ s \in 1 .. NbLevels + 1 => aI \in Nat /\ nI = oI + aI
        /\ ~ asks => nI = oI
    BY <1>1, <1>3, PaidAfter
  <2>3. asks => s \in 1 .. NbLevels + 1
    BY <1>3, <1>4
  <2> HIDE DEF s, oI, nI, aI, here
  <2>4. QED
    BY <2>1, <2>2, <2>3
<1>6. /\ oD \in Nat
      /\ here /\ ~ PD /\ ins.kind = "load" => aD \in Nat /\ nD = oD + aD
      /\ ~ here => nD = oD
  <2>1. Asks(caches, ins, "data") <=> ins.kind = "load" /\ ~ PD
    BY DEF Asks
  <2> DEFINE asks == here /\ Asks(caches, ins, "data")
             s == Server(a, "data")
  <2>2. /\ oD \in Nat
        /\ asks /\ s \in 1 .. NbLevels + 1 => aD \in Nat /\ nD = oD + aD
        /\ ~ asks => nD = oD
    BY <1>1, <1>3, PaidAfter
  <2>3. asks => s \in 1 .. NbLevels + 1
    BY <1>3, <1>4
  <2> HIDE DEF s, oD, nD, aD, here
  <2>4. QED
    BY <2>1, <2>2, <2>3
<1> DEFINE old == Duration(caches, ins, n, w, x)
           new == Duration(caches, ins, m, v, x)
           fetch(k_, q) == IF PI THEN k_ * PerfectICacheLatency ELSE q
           data(k_, q) == IF PD THEN k_ * PerfectDCacheLatency
                          ELSE IF ins.kind = "store" THEN k_ * MemoryStoreLatency
                          ELSE IF ins.kind = "load" THEN q ELSE 0
           fetched == IF PI THEN PerfectICacheLatency ELSE aI
           read == IF PD THEN PerfectDCacheLatency
                   ELSE IF ins.kind = "store" THEN MemoryStoreLatency
                   ELSE IF ins.kind = "load" THEN aD ELSE 0
           time == OutcomeTime(ins, a)
<1>7. /\ old = IF PI /\ PD THEN n * PerfectICacheLatency ELSE fetch(n, oI) + data(n, oD)
      /\ new = IF PI /\ PD THEN m * PerfectICacheLatency ELSE fetch(m, nI) + data(m, nD)
  BY DEF Duration
<1>8. time = IF PI /\ PD THEN PerfectICacheLatency ELSE fetched + read
  BY OutcomeTimeTerms
<1> HIDE DEF ins, v, a, n, m, here, oI, nI, aI, oD, nD, aD, PI, PD, old, new, time
<1>9. /\ n * PerfectICacheLatency \in Nat /\ (n + 1) * PerfectICacheLatency = n * PerfectICacheLatency + PerfectICacheLatency
      /\ n * PerfectDCacheLatency \in Nat /\ (n + 1) * PerfectDCacheLatency = n * PerfectDCacheLatency + PerfectDCacheLatency
      /\ n * MemoryStoreLatency \in Nat /\ (n + 1) * MemoryStoreLatency = n * MemoryStoreLatency + MemoryStoreLatency
  BY <1>1, <1>2, Again
<1>10. fetch(n, oI) \in Nat /\ data(n, oD) \in Nat
  BY <1>5, <1>6, <1>9
<1>11. CASE here
  <2>1. fetched \in Nat /\ fetch(m, nI) = fetch(n, oI) + fetched
    BY <1>1, <1>2, <1>5, <1>9, <1>11
  <2>2. read \in Nat /\ data(m, nD) = data(n, oD) + read
    BY <1>1, <1>2, <1>6, <1>9, <1>11
  <2> HIDE DEF fetched, read, fetch, data
  <2>3. old \in Nat /\ time \in Nat /\ new = old + time
    BY <1>1, <1>2, <1>7, <1>8, <1>9, <1>10, <1>11, <2>1, <2>2
  <2>4. QED
    BY <1>11, <2>3 DEF old, new, time, ins, a, n, m, v, here
<1>12. CASE ~ here
  <2>1. fetch(m, nI) = fetch(n, oI) /\ data(m, nD) = data(n, oD)
    BY <1>2, <1>5, <1>6, <1>12
  <2> HIDE DEF fetch, data
  <2>2. old \in Nat /\ new = old
    BY <1>1, <1>2, <1>7, <1>9, <1>10, <1>12, <2>1
  <2>3. QED
    BY <1>12, <2>2 DEF old, new, ins, n, m, v, here
<1>13. QED
  BY <1>11, <1>12

LEMMA OutcomesTimeTotal ==
  ASSUME NEW is, IsFiniteSet(DOMAIN is), NEW o
  PROVE  OutcomesTime(is, o) = Total(DOMAIN is, [i \in DOMAIN is |-> OutcomeTime(is[i], o[i])])
<1> DEFINE S == DOMAIN is
           f == [i \in S |-> OutcomeTime(is[i], o[i])]
           Iter(w) == w = [r \in SUBSET S |->
                             IF r = {} THEN 0
                             ELSE OutcomeTime(is[CHOOSE x \in r : TRUE], o[CHOOSE x \in r : TRUE])
                                  + w[r \ {CHOOSE x \in r : TRUE}]]
           total == CHOOSE w : Iter(w)
<1>1. \A x : IsSum(x, S, f) <=> Iter(x)
  BY DEF IsSum, Some
<1>2. Iter(total)
  <2>1. PICK x : IsSum(x, S, f)
    <3> HIDE DEF f, S
    <3>1. QED
      BY SumExists DEF S
  <2>2. Iter(x)
    <3> HIDE DEF f, S, Iter
    <3>1. QED
      BY <1>1, <2>1
  <2> HIDE DEF Iter
  <2>3. QED
    BY <2>2, Zenon
<1>3. OutcomesTime(is, o) = total[S]
  BY DEF OutcomesTime, MapThenSumSet, MapThenFoldSet
<1>4. IsSum(total, S, f) /\ IsFiniteSet(S)
  BY <1>1, <1>2
<1> HIDE DEF total, Iter, S, f
<1>5. total[S] = Total(S, f)
  BY <1>4, TotalOfPart
<1>6. QED
  BY <1>3, <1>5 DEF S, f

(* The invariant of the time: what the accesses that passed take, and the  *)
(* times of the annotated functions that were called.                      *)
Spent(p, cs, ch, nc, w) ==
  [x \in Sites(p, cs) |-> Duration(ch, Instr(p, cs, x), Count(nc, x[1]), w, x)]
Charged(p, cs, xc) ==
  [c \in 1 .. Len(cs) |-> IF cs[c].function \in DOMAIN p.wcet THEN Count(xc, c) * p.wcet[cs[c].function] ELSE 0]

Timed(p, cs, ch, nc, xc, w, el) ==
  /\ Numbers(xc)
  /\ \A c : Count(xc, c) > 0 => /\ c \in 2 .. Len(cs) /\ cs[c].function \in DOMAIN p.wcet
                                /\ Seen(p, cs, cs[c].caller)
  /\ ch.pipeline = "off" =>
       el = Total(Sites(p, cs), Spent(p, cs, ch, nc, w)) + Total(1 .. Len(cs), Charged(p, cs, xc))

LEMMA TotalOne ==
  ASSUME NEW a, NEW f, f[a] \in Int
  PROVE  Total({a}, f) = f[a]
<1>1. IsFiniteSet({a}) /\ a \in {a} /\ \A x \in {a} : f[x] \in Int
  BY FS_Singleton
<1>2. Total({a}, f) = Total({a} \ {a}, f) + f[a]
  <2> DEFINE S == {a}
  <2>1. IsFiniteSet(S) /\ a \in S /\ \A x \in S : f[x] \in Int
    BY <1>1
  <2> HIDE DEF S
  <2>2. Total(S, f) = Total(S \ {a}, f) + f[a]
    BY <2>1, TotalRemove
  <2>3. QED
    BY <2>2 DEF S
<1>3. Total({a} \ {a}, f) = 0
  <2>1. {a} \ {a} = {}
    OBVIOUS
  <2>2. Total({}, f) = 0
    <3> DEFINE S == {a}
    <3>1. IsFiniteSet(S)
      BY <1>1
    <3> HIDE DEF S
    <3>2. QED
      BY <3>1, TotalUnfold
  <2>3. QED
    BY <2>1, <2>2
<1>4. QED
  BY <1>2, <1>3

(* The time of the answers to a node is that of its instructions.          *)
LEMMA OutcomesOfSites ==
  ASSUME NEW p, NEW cs, NEW k, ContextTree(p, cs, k), NEW y \in Places(p, cs), NEW o,
         \A x \in Sites(p, cs) : x[1] = y => OutcomeTime(Instr(p, cs, x), o[x[2]]) \in Nat
  PROVE  OutcomesTime(InstructionsIn(p, cs, y[1], y[2]), o)
           = Total(Sites(p, cs), [x \in Sites(p, cs) |->
                                    IF x[1] = y THEN OutcomeTime(Instr(p, cs, x), o[x[2]]) ELSE 0])
<1> DEFINE S == Sites(p, cs)
           T == {x \in S : x[1] = y}
           is == InstructionsIn(p, cs, y[1], y[2])
           D == DOMAIN is
           g == [x \in S |-> IF x[1] = y THEN OutcomeTime(Instr(p, cs, x), o[x[2]]) ELSE 0]
           h == [i \in D |-> OutcomeTime(is[i], o[i])]
           m == [x \in T |-> x[2]]
<1>1. /\ IsFiniteSet(S) /\ D = 1 .. Len(is) /\ Len(is) \in Nat
      /\ \A i : <<y, i>> \in S <=> i \in D
      /\ \A x \in S : x = <<x[1], x[2]>>
  BY SitesFacts
<1>2. IsFiniteSet(D) /\ IsFiniteSet(T) /\ T \in SUBSET S
  <2>1. IsFiniteSet(D)
    <3>1. D = 1 .. Len(is) /\ Len(is) \in Int /\ 1 \in Int
      BY <1>1
    <3> HIDE DEF D, is
    <3>2. QED
      BY <3>1, FS_Interval
  <2>2. T \in SUBSET S
    OBVIOUS
  <2> HIDE DEF D, T, S
  <2>3. QED
    BY <1>1, <2>1, <2>2, FS_Subset
<1>3. \A x \in S : g[x] \in Int /\ (x \notin T => g[x] = 0)
  OBVIOUS
<1>4. \A i \in D : /\ <<y, i>> \in T
                   /\ PartIn(T, m, {i}) = {<<y, i>>}
                   /\ g[<<y, i>>] = h[i]
  <2> SUFFICES ASSUME NEW i \in D
               PROVE  /\ <<y, i>> \in T
                      /\ PartIn(T, m, {i}) = {<<y, i>>}
                      /\ g[<<y, i>>] = h[i]
    OBVIOUS
  <2> DEFINE x == <<y, i>>
  <2>1. x \in S /\ x[1] = y /\ x[2] = i
    BY <1>1
  <2>2. Instr(p, cs, x) = is[i]
    BY DEF Instr
  <2>3. \A z \in T : m[z] = i => z = x
    BY <1>1
  <2>4. QED
    BY <2>1, <2>2, <2>3 DEF PartIn
<1>5. \A x \in T : m[x] \in D
  BY <1>1
<1>6. PartIn(T, m, D) = T
  BY <1>5 DEF PartIn
<1>7. \A i \in D : h[i] = Total(PartIn(T, m, {i}), g)
  <2> SUFFICES ASSUME NEW i \in D
               PROVE  h[i] = Total(PartIn(T, m, {i}), g)
    OBVIOUS
  <2>1. PartIn(T, m, {i}) = {<<y, i>>} /\ g[<<y, i>>] = h[i] /\ g[<<y, i>>] \in Int
    BY <1>3, <1>4
  <2> HIDE DEF T, m, g, h, D, S
  <2>2. QED
    BY <2>1, TotalOne
<1>8. OutcomesTime(is, o) = Total(D, h)
  <2>1. IsFiniteSet(DOMAIN is)
    BY <1>2
  <2> HIDE DEF is
  <2>2. QED
    BY <2>1, OutcomesTimeTotal
<1> HIDE DEF S, T, D, g, h, m, is
<1>9. \A x \in T : g[x] \in Int
  BY <1>2, <1>3
<1>10. Total(D, h) = Total(PartIn(T, m, D), g)
  <2>1. SumsOfParts(T, g, D, m, h)
    BY <1>7 DEF SumsOfParts
  <2>2. QED
    BY <1>2, <1>9, <2>1, TotalParts
<1>11. Total(S, g) = Total(T, g)
  BY <1>1, <1>2, <1>3, TotalSupport
<1>12. QED
  BY <1>6, <1>8, <1>10, <1>11 DEF S, g, is

LEMMA ChargedType ==
  ASSUME NEW p, NEW cs, NEW k, ContextTree(p, cs, k), NEW xc, Numbers(xc)
  PROVE  /\ IsFiniteSet(1 .. Len(cs))
         /\ \A c \in 1 .. Len(cs) : Charged(p, cs, xc)[c] \in Nat
         /\ Total(1 .. Len(cs), Charged(p, cs, xc)) \in Nat
<1> DEFINE D == 1 .. Len(cs)
           f == Charged(p, cs, xc)
<1>1. p \in Programs /\ Len(cs) \in Nat \ {0}
  BY ContextTypes
<1>2. IsFiniteSet(D)
  BY <1>1, FS_Interval
<1>3. \A c \in D : f[c] \in Nat
  <2> SUFFICES ASSUME NEW c \in D
               PROVE  f[c] \in Nat
    OBVIOUS
  <2> DEFINE n == Count(xc, c)
             t == p.wcet[cs[c].function]
  <2>1. n \in Nat
    BY DEF Numbers
  <2>2. cs[c].function \in DOMAIN p.wcet => t \in Nat
    BY <1>1, TimesAssumption
  <2>3. f[c] = IF cs[c].function \in DOMAIN p.wcet THEN n * t ELSE 0
    BY DEF Charged
  <2> HIDE DEF n, t, f
  <2>4. cs[c].function \in DOMAIN p.wcet => n * t \in Nat
    BY <2>1, <2>2
  <2>5. QED
    BY <2>3, <2>4
<1>4. Total(D, f) \in Nat
  <2> HIDE DEF D, f
  <2>1. QED
    BY <1>2, <1>3, TotalType
<1>5. QED
  BY <1>2, <1>3, <1>4

LEMMA AnswersTimed ==
  ASSUME NEW p, NEW cs, NEW k, ContextTree(p, cs, k), NEW nc, NEW xc, NEW M, NEW U, NEW w,
         NEW y \in Places(p, cs), NEW o, NEW nd, NEW N, NEW V, w \in Counts(p, cs), Numbers(nc),
         Answers(p, cs, caches, nc, M, U, y, o, nd, N, V), NEW el, NEW em,
         Timed(p, cs, caches, nc, xc, w, el),
         ~ Pipelined => em = el + OutcomesTime(InstructionsIn(p, cs, y[1], y[2]), o)
  PROVE  Timed(p, cs, caches, nd, xc, PassedBy(p, cs, caches, w, y, o), em)
<1> DEFINE S == Sites(p, cs)
           v == PassedBy(p, cs, caches, w, y, o)
           f == Spent(p, cs, caches, nc, w)
           h == Spent(p, cs, caches, nd, v)
           g == [x \in S |-> IF x[1] = y THEN OutcomeTime(Instr(p, cs, x), o[x[2]]) ELSE 0]
           C == Total(1 .. Len(cs), Charged(p, cs, xc))
           time == OutcomesTime(InstructionsIn(p, cs, y[1], y[2]), o)
<1>1. \A x \in S : /\ f[x] \in Int /\ g[x] \in Int /\ h[x] = f[x] + g[x]
                   /\ x[1] = y => OutcomeTime(Instr(p, cs, x), o[x[2]]) \in Nat
  <2> SUFFICES ASSUME NEW x \in S
               PROVE  /\ f[x] \in Int /\ g[x] \in Int /\ h[x] = f[x] + g[x]
                      /\ x[1] = y => OutcomeTime(Instr(p, cs, x), o[x[2]]) \in Nat
    OBVIOUS
  <2> DEFINE old == Duration(caches, Instr(p, cs, x), Count(nc, x[1]), w, x)
             new == Duration(caches, Instr(p, cs, x), Count(nd, x[1]), v, x)
             t == OutcomeTime(Instr(p, cs, x), o[x[2]])
  <2>1. /\ old \in Nat
        /\ x[1] = y => t \in Nat /\ new = old + t
        /\ x[1] # y => new = old
    BY DurationAfter
  <2>2. f[x] = old /\ h[x] = new /\ g[x] = IF x[1] = y THEN t ELSE 0
    BY DEF Spent
  <2> HIDE DEF old, new, t, f, g, h
  <2>3. QED
    BY <2>1, <2>2 DEF t
<1>2. IsFiniteSet(S)
  BY SitesFacts
<1>3. time = Total(S, g)
  BY <1>1, OutcomesOfSites
<1>4. caches.pipeline = "off" => el = Total(S, f) + C /\ em = el + time
  BY DEF Timed, Pipelined
<1>5. /\ Numbers(xc)
      /\ \A c : Count(xc, c) > 0 => /\ c \in 2 .. Len(cs) /\ cs[c].function \in DOMAIN p.wcet
                                    /\ Seen(p, cs, cs[c].caller)
  BY DEF Timed
<1>6. C \in Int
  BY <1>5, ChargedType
<1> SUFFICES caches.pipeline = "off" => em = Total(S, h) + C
  BY <1>5 DEF Timed
<1> HIDE DEF S, f, g, h, C, time
<1>7. Total(S, h) = Total(S, f) + Total(S, g)
  BY <1>1, <1>2, TotalPlus
<1>8. Total(S, f) \in Int /\ Total(S, g) \in Int
  BY <1>1, <1>2, TotalType
<1>9. QED
  BY <1>3, <1>4, <1>6, <1>7, <1>8

(* What the accesses w that passed account for: the references and the     *)
(* misses, and the time.                                                   *)
Accounts(p, cs, ch, nc, xc, M, U, el, w) ==
  Accounted(p, cs, nc, M, U, w) /\ Timed(p, cs, ch, nc, xc, w, el)
NoUses(U) == \A type \in Types, l \in 1 .. NbLevels :
               U[<<type, l>>].references = 0 /\ U[<<type, l>>].misses = 0

LEMMA CountOfNone ==
  ASSUME NEW k
  PROVE  Count(<<>>, k) = 0
BY DEF Count

LEMMA AccountsEmpty ==
  ASSUME NEW p, NEW cs, NEW k, ContextTree(p, cs, k), NEW ch, NEW U, NoUses(U)
  PROVE  \E w : Accounts(p, cs, ch, <<>>, <<>>, {}, U, 0, w)
<1> DEFINE S == Sites(p, cs)
           w == [t \in S \X Types \X (0 .. NbLevels) |-> 0]
           f == Spent(p, cs, ch, <<>>, w)
           g == Charged(p, cs, <<>>)
           D == 1 .. Len(cs)
<1>1. NbLevels \in Nat \ {0} /\ IsFiniteSet(S) /\ p \in Programs
  BY SitesFacts, LatenciesAssumption, ContextTypes
<1>2. /\ w \in Counts(p, cs)
      /\ \A x \in S, type \in Types, l \in 0 .. NbLevels : w[<<x, type, l>>] = 0
  BY DEF Counts
<1>3. Numbers(<<>>) /\ \A k_ : ~ (Count(<<>>, k_) > 0)
  BY CountOfNone DEF Numbers
<1>4. \A x \in S, type \in Types, l \in 1 .. NbLevels : Loads({}, x, type, l) = {}
  BY DEF Loads
<1>5. Cardinality({}) = 0
  BY FS_EmptySet
<1>6. \A l \in 1 .. NbLevels : l \in 0 .. NbLevels /\ l - 1 \in 0 .. NbLevels
  BY <1>1
<1>7. ASSUME NEW type \in Types, NEW l \in 0 .. NbLevels
      PROVE  Total(S, Passed(p, cs, w, type, l)) = 0
  <2> DEFINE h == Passed(p, cs, w, type, l)
  <2>1. \A x \in S : h[x] = 0
    BY <1>2 DEF Passed
  <2> HIDE DEF h, S
  <2>2. \A x \in S : h[x] \in Int
    BY <2>1
  <2>3. Total(S, h) = 0
    BY <1>1, <2>1, <2>2, TotalTerms
  <2>4. QED
    BY <2>3 DEF h
<1>8. Bypassing(p, cs, w)
  <2> HIDE DEF w, S
  <2>1. QED
    BY <1>2, <1>6 DEF Bypassing, S
<1>9. Accounted(p, cs, <<>>, {}, U, w)
  <2>1. ASSUME NEW x \in S, NEW type \in Types
        PROVE  /\ w[<<x, type, 0>>] <= Count(<<>>, x[1])
               /\ ~ Refers(Instr(p, cs, x), type) => w[<<x, type, 0>>] = 0
               /\ \A l \in 1 .. NbLevels :
                    /\ w[<<x, type, l>>] <= w[<<x, type, l - 1>>]
                    /\ Refers(Instr(p, cs, x), type) =>
                         LET class == getCHMC(Instr(p, cs, x), type, l)
                             loaded == Loads({}, x, type, l)
                         IN  /\ class \in {"AH", "AU"} => w[<<x, type, l>>] = 0
                             /\ class = "FM" => w[<<x, type, l>>] <= Cardinality(loaded)
                             /\ loaded \subseteq 1 .. countAccessedBlocks(Instr(p, cs, x), type, l)
    <3>1. w[<<x, type, 0>>] = 0 /\ Count(<<>>, x[1]) = 0
      BY <1>1, <1>2, CountOfNone
    <3>2. \A l \in 1 .. NbLevels : /\ w[<<x, type, l>>] = 0 /\ w[<<x, type, l - 1>>] = 0
                                   /\ Loads({}, x, type, l) = {}
      BY <1>2, <1>4, <1>6
    <3> HIDE DEF w
    <3>3. ASSUME NEW l \in 1 .. NbLevels
          PROVE  /\ w[<<x, type, l>>] <= w[<<x, type, l - 1>>]
                 /\ w[<<x, type, l>>] <= Cardinality(Loads({}, x, type, l))
                 /\ \A S_ : Loads({}, x, type, l) \subseteq S_
      <4>1. w[<<x, type, l>>] = 0 /\ w[<<x, type, l - 1>>] = 0 /\ Loads({}, x, type, l) = {}
        BY <3>2
      <4>2. QED
        BY <1>5, <4>1
    <3>4. w[<<x, type, 0>>] <= Count(<<>>, x[1])
      BY <3>1
    <3>5. QED
      BY <3>1, <3>2, <3>3, <3>4, Zenon
  <2>2. ASSUME NEW type \in Types, NEW l \in 1 .. NbLevels
        PROVE  /\ U[<<type, l>>].references = Total(S, Passed(p, cs, w, type, l - 1))
               /\ U[<<type, l>>].misses = Total(S, Passed(p, cs, w, type, l))
    <3>1. l \in 0 .. NbLevels /\ l - 1 \in 0 .. NbLevels
      BY <1>6
    <3>2. U[<<type, l>>].references = 0 /\ U[<<type, l>>].misses = 0
      BY DEF NoUses
    <3>3. Total(S, Passed(p, cs, w, type, l)) = 0 /\ Total(S, Passed(p, cs, w, type, l - 1)) = 0
      BY <1>7, <3>1
    <3> HIDE DEF w, S
    <3>4. QED
      BY <3>2, <3>3
  <2> HIDE DEF w
  <2>3. QED
    BY <1>8, <1>2, <1>3, <2>1, <2>2 DEF Accounted
<1>10. ASSUME NEW latency \in Latencies, NEW x \in S, NEW type \in Types
      PROVE  Paid(latency, w, x, type) = 0
  <2> DEFINE L == 1 .. NbLevels
             h == [l \in L |-> latency[l] * w[<<x, type, l - 1>>]]
  <2>1. \A l \in L : h[l] = 0
    <3> SUFFICES ASSUME NEW l \in L
                 PROVE  h[l] = 0
      OBVIOUS
    <3>1. w[<<x, type, l - 1>>] = 0 /\ latency[l] \in Nat
      BY <1>2, <1>6 DEF Latencies
    <3> HIDE DEF w
    <3>2. QED
      BY <3>1
  <2>2. IsFiniteSet(L)
    BY <1>1, FS_Interval
  <2>3. Total(L, h) = 0
    <3> HIDE DEF h, L
    <3>1. \A l \in L : h[l] \in Int
      BY <2>1
    <3>2. QED
      BY <2>1, <2>2, <3>1, TotalTerms
  <2>4. w[<<x, type, NbLevels>>] = 0 /\ MemoryLoadLatency \in Nat
    BY <1>1, <1>2, LatenciesAssumption
  <2>5. Paid(latency, w, x, type) = Total(L, h) + MemoryLoadLatency * w[<<x, type, NbLevels>>]
    BY DEF Paid
  <2> HIDE DEF h, L, w
  <2>6. QED
    BY <2>3, <2>4, <2>5
<1>11. \A x \in S : f[x] = 0
  <2> SUFFICES ASSUME NEW x \in S
               PROVE  f[x] = 0
    OBVIOUS
  <2>1. Paid(levelAccessCostInstr, w, x, "code") = 0 /\ Paid(levelAccessCostData, w, x, "data") = 0
    BY <1>10, LatenciesAssumption DEF Latencies, Types
  <2>2. 0 * PerfectICacheLatency = 0 /\ 0 * PerfectDCacheLatency = 0 /\ 0 * MemoryStoreLatency = 0
    BY LatenciesAssumption
  <2>3. f[x] = Duration(ch, Instr(p, cs, x), 0, w, x)
    BY CountOfNone DEF Spent
  <2> HIDE DEF w, f
  <2>4. QED
    BY <2>1, <2>2, <2>3 DEF Duration
<1>12. \A c \in D : g[c] = 0
  <2> SUFFICES ASSUME NEW c \in D
               PROVE  g[c] = 0
    OBVIOUS
  <2> DEFINE t == p.wcet[cs[c].function]
  <2>1. cs[c].function \in DOMAIN p.wcet => t \in Nat
    BY <1>1, TimesAssumption
  <2>2. g[c] = IF cs[c].function \in DOMAIN p.wcet THEN 0 * t ELSE 0
    BY CountOfNone DEF Charged
  <2> HIDE DEF t, g
  <2>3. QED
    BY <2>1, <2>2
<1>13. Total(S, f) = 0 /\ Total(D, g) = 0
  <2>1. IsFiniteSet(D)
    BY <1>3, ChargedType
  <2> HIDE DEF S, D, f, g
  <2>2. (\A x \in S : f[x] \in Int) /\ (\A c \in D : g[c] \in Int)
    BY <1>11, <1>12
  <2>3. Total(S, f) = 0
    BY <1>1, <1>11, <2>2, TotalTerms
  <2>4. Total(D, g) = 0
    BY <1>12, <2>1, <2>2, TotalTerms
  <2>5. QED
    BY <2>3, <2>4
<1>14. Timed(p, cs, ch, <<>>, <<>>, w, 0)
  <2> HIDE DEF w
  <2>1. QED
    BY <1>3, <1>13 DEF Timed
<1> HIDE DEF w
<1>15. QED
  BY <1>9, <1>14 DEF Accounts

(* A call of an annotated function takes its time.                         *)
LEMMA ChargeAfter ==
  ASSUME NEW p, NEW cs, NEW k, ContextTree(p, cs, k), NEW ch, NEW nc, NEW xc, NEW w, NEW el,
         Timed(p, cs, ch, nc, xc, w, el), w \in Counts(p, cs), Numbers(nc),
         NEW d \in 2 .. Len(cs), cs[d].function \in DOMAIN p.wcet, Seen(p, cs, cs[d].caller),
         Total(Sites(p, cs), Spent(p, cs, ch, nc, w)) \in Int
  PROVE  Timed(p, cs, ch, nc, Incremented(xc, d), w, el + p.wcet[cs[d].function])
<1> DEFINE D == 1 .. Len(cs)
           xd == Incremented(xc, d)
           t == p.wcet[cs[d].function]
           f == Charged(p, cs, xc)
           g == [c \in D |-> IF c = d THEN t ELSE 0]
           h == Charged(p, cs, xd)
           A == Total(Sites(p, cs), Spent(p, cs, ch, nc, w))
<1>1. /\ Numbers(xc)
      /\ \A c : Count(xc, c) > 0 => /\ c \in 2 .. Len(cs) /\ cs[c].function \in DOMAIN p.wcet
                                    /\ Seen(p, cs, cs[c].caller)
      /\ ch.pipeline = "off" => el = A + Total(D, f)
  BY DEF Timed
<1>2. \A c : Count(xd, c) = Count(xc, c) + One(c = d) /\ Count(xc, c) \in Nat
  BY <1>1, CountAfter DEF Numbers
<1>3. Numbers(xd)
  BY <1>2 DEF Numbers, One
<1>4. IsFiniteSet(D) /\ (\A c \in D : f[c] \in Nat) /\ Total(D, f) \in Nat
  BY <1>1, ChargedType
<1>5. p \in Programs /\ d \in D /\ t \in Nat
  <2>1. p \in Programs /\ Len(cs) \in Nat
    BY ContextTypes
  <2>2. QED
    BY <2>1, TimesAssumption
<1>6. ASSUME NEW c \in D
      PROVE  f[c] \in Int /\ g[c] \in Int /\ h[c] = f[c] + g[c]
  <2> DEFINE n == Count(xc, c)
             m == Count(xd, c)
             u == p.wcet[cs[c].function]
             annotated == cs[c].function \in DOMAIN p.wcet
  <2>1. n \in Nat /\ m = n + One(c = d)
    BY <1>2
  <2>2. annotated => u \in Nat
    BY <1>5, TimesAssumption
  <2>3. f[c] = (IF annotated THEN n * u ELSE 0) /\ h[c] = (IF annotated THEN m * u ELSE 0)
    BY DEF Charged
  <2>4. g[c] = IF c = d THEN t ELSE 0
    OBVIOUS
  <2>5. c = d => annotated /\ u = t
    OBVIOUS
  <2> HIDE DEF n, m, u, annotated, f, g, h, t
  <2>6. annotated => (n + 1) * u = n * u + u /\ n * u \in Nat
    BY <2>1, <2>2, Again
  <2>7. CASE c = d
    <3>1. m = n + 1
      BY <2>1, <2>7 DEF One
    <3>2. QED
      BY <2>2, <2>3, <2>4, <2>5, <2>6, <2>7, <3>1
  <2>8. CASE c # d
    <3>1. m = n
      BY <2>1, <2>8 DEF One
    <3>2. QED
      BY <2>3, <2>4, <2>6, <2>8, <3>1
  <2>9. QED
    BY <2>7, <2>8
<1>7. Total(D, g) = t
  <2>1. \A c \in D \ {d} : g[c] = 0
    OBVIOUS
  <2>2. g[d] = t /\ {d} \in SUBSET D
    BY <1>5
  <2> HIDE DEF D, g, t
  <2>3. Total(D, g) = Total({d}, g)
    BY <1>4, <1>6, <2>1, <2>2, TotalSupport
  <2>4. Total({d}, g) = g[d]
    BY <1>5, <2>2, TotalOne
  <2>5. QED
    BY <2>2, <2>3, <2>4
<1>8. Total(D, h) = Total(D, f) + Total(D, g)
  <2> HIDE DEF D, f, g, h
  <2>1. QED
    BY <1>4, <1>6, TotalPlus
<1>9. \A c : Count(xd, c) > 0 => /\ c \in 2 .. Len(cs) /\ cs[c].function \in DOMAIN p.wcet
                                 /\ Seen(p, cs, cs[c].caller)
  <2> SUFFICES ASSUME NEW c, Count(xd, c) > 0, c # d
               PROVE  Count(xc, c) > 0
    BY <1>1
  <2>1. QED
    BY <1>2 DEF One
<1>10. ch.pipeline = "off" => el + t = A + Total(D, h)
  <2> HIDE DEF A, D, f, g, h, t
  <2>1. A \in Int
    BY DEF A
  <2>2. QED
    BY <1>1, <1>4, <1>5, <1>7, <1>8, <2>1
<1> HIDE DEF xd
<1>11. Timed(p, cs, ch, nc, xd, w, el + t)
  BY <1>3, <1>9, <1>10 DEF Timed
<1>12. QED
  BY <1>11 DEF xd

LEMMA SpentType ==
  ASSUME NEW p, NEW cs, NEW k, ContextTree(p, cs, k), NEW ch, NEW nc, Numbers(nc), NEW w, w \in Counts(p, cs)
  PROVE  /\ \A x \in Sites(p, cs) : Spent(p, cs, ch, nc, w)[x] \in Nat
         /\ Total(Sites(p, cs), Spent(p, cs, ch, nc, w)) \in Nat
<1> DEFINE S == Sites(p, cs)
           f == Spent(p, cs, ch, nc, w)
<1>1. /\ levelAccessCostInstr \in Latencies /\ levelAccessCostData \in Latencies
      /\ MemoryStoreLatency \in Nat /\ PerfectICacheLatency \in Nat /\ PerfectDCacheLatency \in Nat
      /\ "code" \in Types /\ "data" \in Types
  BY LatenciesAssumption DEF Latencies, Types
<1>2. ASSUME NEW x \in S
      PROVE  f[x] \in Nat
  <2> DEFINE n == Count(nc, x[1])
             ins == Instr(p, cs, x)
             fetched == Paid(levelAccessCostInstr, w, x, "code")
             read == Paid(levelAccessCostData, w, x, "data")
  <2>1. n \in Nat
    BY DEF Numbers
  <2>2. fetched \in Nat /\ read \in Nat
    <3>1. \A latency \in Latencies, type \in Types : Paid(latency, w, x, type) \in Nat
      BY PaidAfter
    <3>2. QED
      BY <1>1, <3>1
  <2>3. f[x] = Duration(ch, ins, n, w, x)
    BY DEF Spent
  <2>4. n * PerfectICacheLatency \in Nat /\ n * PerfectDCacheLatency \in Nat /\ n * MemoryStoreLatency \in Nat
    BY <1>1, <2>1, Again
  <2>5. Duration(ch, ins, n, w, x) =
          IF ch.perfectIcache /\ ch.perfectDcache THEN n * PerfectICacheLatency
          ELSE (IF ch.perfectIcache THEN n * PerfectICacheLatency ELSE fetched)
             + (IF ch.perfectDcache THEN n * PerfectDCacheLatency
                ELSE IF ins.kind = "store" THEN n * MemoryStoreLatency
                ELSE IF ins.kind = "load" THEN read
                ELSE 0)
    BY DEF Duration
  <2> HIDE DEF n, ins, fetched, read, f
  <2>6. QED
    BY <2>2, <2>3, <2>4, <2>5
<1>3. IsFiniteSet(S)
  BY SitesFacts
<1>4. Total(S, f) \in Nat
  <2> HIDE DEF S, f
  <2>1. QED
    BY <1>2, <1>3, TotalType
<1>5. QED
  BY <1>2, <1>4

-----------------------------------------------------------------------------
(* The invariant: the references, the misses and the time are those of     *)
(* accesses that passed, as many as the executions of the nodes and the    *)
(* classifications allow.                                                  *)
Account ==
  /\ DOMAIN uses = Types \X (1 .. NbLevels)
  /\ node = None => /\ nodeCount = <<>> /\ externalCount = <<>> /\ missed = {}
                    /\ NoUses(uses) /\ elapsed = 0
  /\ node # None => \E w : Accounts(program, contexts, caches, nodeCount, externalCount, missed, uses, elapsed, w)
  /\ phase = "done" => node # None

LEMMA AccountHere ==
  ASSUME Execution, Account
  PROVE  \E w : Accounts(program, contexts, caches, nodeCount, externalCount, missed, uses, elapsed, w)
<1>1. CASE node = None
  <2>1. ContextTree(program, contexts, explored) /\ NoUses(uses)
    BY <1>1 DEF Execution, Tree_, Account
  <2>2. \E w : Accounts(program, contexts, caches, <<>>, <<>>, {}, uses, 0, w)
    BY <2>1, AccountsEmpty
  <2>3. QED
    BY <1>1, <2>2 DEF Account
<1>2. QED
  BY <1>1 DEF Account

LEMMA ArriveAccounts ==
  ASSUME Execution, Account, NEW d, Stands(d, node'), stack' = GetCallerNodeStack(d), Arrive
  PROVE  /\ DOMAIN uses' = DOMAIN uses
         /\ \E w : Accounts(program, contexts, caches, nodeCount', externalCount, missed', uses', elapsed', w)
<1> DEFINE y == <<d, node'>>
<1>1. PICK w : /\ Accounted(program, contexts, nodeCount, missed, uses, w)
               /\ Timed(program, contexts, caches, nodeCount, externalCount, w, elapsed)
  BY AccountHere DEF Accounts
<1>2. /\ Tree_ /\ ContextTree(program, contexts, explored) /\ d \in DOMAIN contexts
      /\ DOMAIN contexts = 1 .. Len(contexts)
      /\ DOMAIN uses = Types \X (1 .. NbLevels)
  BY RootFacts DEF Execution, Tree_, Stands, Account
<1>3. IF Seen(program, contexts, d) THEN Visit(d, node') ELSE Unseen
  <2>1. CurrentContext(stack') = d
    BY <1>2, StackOfContext
  <2>2. IF isReachableState(d) THEN Visit(d, node') ELSE Unseen
    BY <2>1 DEF Arrive
  <2>3. QED
    BY <2>2, ReachableState
<1>4. CASE ~ Seen(program, contexts, d)
  <2>1. UNCHANGED <<nodeCount, missed, uses, elapsed>>
    BY <1>3, <1>4 DEF Unseen
  <2>2. QED
    BY <1>1, <2>1 DEF Accounts
<1>5. CASE Seen(program, contexts, d)
  <2>1. y \in Places(program, contexts) /\ y[1] = d /\ y[2] = node'
    <3>1. node' \in NodesIn(program, contexts, d)
      BY DEF Stands, NodesIn, getCurrentFunction
    <3>2. QED
      BY <1>2, <3>1, SitesFacts
  <2>2. Visit(y[1], y[2]) /\ Seen(program, contexts, y[1])
    BY <1>3, <1>5, <2>1
  <2> HIDE DEF y
  <2>3. PICK o : /\ Answers(program, contexts, caches, nodeCount, missed, uses, y, o,
                            nodeCount', missed', uses')
                 /\ ~ Pipelined =>
                      elapsed' = elapsed + OutcomesTime(InstructionsIn(program, contexts, y[1], y[2]), o)
                 /\ DOMAIN uses' = DOMAIN uses
    BY <1>2, <2>1, <2>2, VisitAnswers
  <2> DEFINE v == PassedBy(program, contexts, caches, w, y, o)
  <2>4. Accounted(program, contexts, nodeCount', missed', uses', v)
    BY <1>1, <1>2, <2>1, <2>2, <2>3, AnswersAccount
  <2>5. Timed(program, contexts, caches, nodeCount', externalCount, v, elapsed')
    <3>1. w \in Counts(program, contexts) /\ Numbers(nodeCount)
      BY <1>1 DEF Accounted
    <3>2. QED
      BY <1>1, <1>2, <2>1, <2>3, <3>1, AnswersTimed
  <2>6. QED
    BY <2>3, <2>4, <2>5 DEF Accounts
<1>6. QED
  BY <1>4, <1>5

LEMMA AccountKeeps ==
  ASSUME Execution, Account, Unanalysed, NEW d, Stands(d, node'), stack' = GetCallerNodeStack(d), Arrive,
         externalCount' = externalCount, phase' # "done"
  PROVE  Account'
<1>1. /\ DOMAIN uses' = DOMAIN uses
      /\ \E w : Accounts(program, contexts, caches, nodeCount', externalCount, missed', uses', elapsed', w)
  BY ArriveAccounts
<1>2. UNCHANGED <<program, contexts, caches>>
  BY DEF Unanalysed, contextVars
<1>3. \E w : Accounts(program', contexts', caches', nodeCount', externalCount', missed', uses', elapsed', w)
  BY <1>1, <1>2
<1>4. node' # None
  BY ProgramFacts, RootFacts DEF Stands, Execution, getCurrentFunction, Functions
<1>5. QED
  BY <1>1, <1>3, <1>4 DEF Account

LEMMA CallAccounts ==
  ASSUME Execution, Account, CallFunction
  PROVE  Account'
<1> DEFINE c == CurrentContext(stack)
           f == GetCallee(FunctionOn(stack), node)
           d == getCalleeContext(c, node)
<1>1. /\ Call /\ Unanalysed /\ phase' = phase /\ phase = "execution" /\ node # None
      /\ IF isReachableState(c) /\ HasExternalWCET(f)
         THEN /\ externalCount' = Incremented(externalCount, d)
              /\ elapsed' = elapsed + program.wcet[f]
              /\ UNCHANGED <<nodeCount, missed, uses>>
         ELSE Arrive /\ externalCount' = externalCount
  BY DEF CallFunction, Call, Running
<1>2. stack' = GetCallerNodeStack(d) /\ Stands(d, node') /\ d \in 2 .. Len(contexts) /\ contexts[d].caller = c
      /\ contexts[d].node = node
  BY <1>1, CallFacts, RootFacts DEF Execution, Stands
<1>3. CASE ~ (isReachableState(c) /\ HasExternalWCET(f))
  BY <1>1, <1>2, <1>3, AccountKeeps
<1>4. CASE isReachableState(c) /\ HasExternalWCET(f)
  <2>1. /\ contexts[d].function = f /\ contexts[d].function \in DOMAIN program.wcet
        /\ Seen(program, contexts, contexts[d].caller)
    <3>1. FunctionOn(stack) = getCurrentFunction(c)
      BY <1>1, HereFacts
    <3>2. contexts[d].function = f
      BY <1>2, <3>1, CallerFacts DEF Execution, getCurrentFunction
    <3>3. QED
      BY <1>2, <1>4, <3>2, ReachableState DEF HasExternalWCET
  <2>2. PICK w : /\ Accounted(program, contexts, nodeCount, missed, uses, w)
                 /\ Timed(program, contexts, caches, nodeCount, externalCount, w, elapsed)
    BY AccountHere DEF Accounts
  <2>3. ContextTree(program, contexts, explored) /\ w \in Counts(program, contexts) /\ Numbers(nodeCount)
    BY <2>2 DEF Execution, Tree_, Accounted
  <2> HIDE DEF d, c, f
  <2>4. Timed(program, contexts, caches, nodeCount, externalCount', w, elapsed')
    <3>1. Total(Sites(program, contexts), Spent(program, contexts, caches, nodeCount, w)) \in Int
      BY <2>3, SpentType
    <3>2. Timed(program, contexts, caches, nodeCount, Incremented(externalCount, d), w,
                elapsed + program.wcet[contexts[d].function])
      BY <1>2, <2>1, <2>2, <2>3, <3>1, ChargeAfter
    <3>3. QED
      BY <1>1, <1>4, <2>1, <3>2
  <2>5. /\ UNCHANGED <<program, contexts, caches, nodeCount, missed, uses>> /\ phase' # "done"
    BY <1>1, <1>4 DEF Unanalysed, contextVars
  <2>6. node' # None
    BY <1>2, ProgramFacts, RootFacts DEF Stands, Execution, getCurrentFunction, Functions
  <2>7. \E u : Accounts(program', contexts', caches', nodeCount', externalCount', missed', uses', elapsed', u)
    BY <2>2, <2>4, <2>5 DEF Accounts
  <2>8. QED
    BY <2>5, <2>6, <2>7 DEF Account
<1>5. QED
  BY <1>3, <1>4

LEMMA AnalyseAccounts ==
  ASSUME Execution, Account, Analyse
  PROVE  Account'
<1>1. node' = None /\ UNCHANGED <<node, nodeCount, externalCount, missed, uses, elapsed>>
  BY AnalyseKeeps DEF Analyse, runVars, ipetVars
<1>2. phase' # "done"
  <2>1. CASE BuildCallGraph
    <3>1. CASE \E n \in CallsLeft : ScanKnownCall(n) \/ AddCallee(n)
      BY <3>1 DEF ScanKnownCall, AddCallee, CallsLeft
    <3>2. CASE EndBuild
      BY <3>2 DEF EndBuild
    <3>3. CASE TestCycles
      BY <3>3 DEF TestCycles
    <3>4. QED
      BY <2>1, <3>1, <3>2, <3>3 DEF BuildCallGraph
  <2>2. CASE Explore \/ initialise
    BY <2>2 DEF Explore, initialise
  <2>3. QED
    BY <2>1, <2>2 DEF Analyse
<1>3. QED
  BY <1>1, <1>2 DEF Account

LEMMA AccountStarts == IPETInit => Account
<1> SUFFICES ASSUME IPETInit
             PROVE  Account
  OBVIOUS
<1>1. /\ node = None /\ nodeCount = <<>> /\ externalCount = <<>> /\ missed = {} /\ elapsed = 0
      /\ phase # "done"
      /\ uses = [tl \in Types \X (1 .. NbLevels) |-> [references |-> 0, misses |-> 0]]
  BY DEF IPETInit, Init, InitRun, Types
<1>2. NoUses(uses)
  BY <1>1 DEF NoUses
<1>3. QED
  BY <1>1, <1>2 DEF Account

LEMMA AccountKept ==
  ASSUME Execution, Account, [IPETNext]_vars
  PROVE  Account'
<1>1. CASE Analyse
  BY <1>1, AnalyseAccounts
<1>2. CASE Enter
  <2>1. Begin /\ Unanalysed /\ Arrive /\ phase' = phase /\ phase = "execution" /\ externalCount' = externalCount
    BY <1>2 DEF Enter, Begin
  <2>2. stack' = GetCallerNodeStack(1) /\ Stands(1, node')
    BY <2>1, EntryFacts, RootFacts DEF Execution, Stands
  <2>3. QED
    BY <2>1, <2>2, AccountKeeps
<1>3. CASE Step
  <2>1. PICK v : Branch(v) /\ Unanalysed /\ Arrive /\ phase' = phase /\ externalCount' = externalCount
    BY <1>3 DEF Step
  <2>2. phase = "execution" /\ node # None
    BY <2>1 DEF Branch, Running
  <2> DEFINE c == CurrentContext(stack)
  <2>3. stack' = GetCallerNodeStack(c) /\ Stands(c, node')
    BY <2>1, <2>2, HereFacts, BranchFacts DEF Stands
  <2>4. QED
    BY <2>1, <2>2, <2>3, AccountKeeps
<1>4. CASE CallFunction
  BY <1>4, CallAccounts
<1>5. CASE ReturnToCaller
  <2>1. PICK v : Return(v) /\ Unanalysed /\ Arrive /\ phase' = phase /\ externalCount' = externalCount
    BY <1>5 DEF ReturnToCaller
  <2>2. phase = "execution"
    BY <2>1 DEF Return, Running
  <2> DEFINE d == contexts[CurrentContext(stack)].caller
  <2>3. stack' = GetCallerNodeStack(d) /\ Stands(d, node')
    BY <2>1, ReturnFacts DEF Stands
  <2>4. QED
    BY <2>1, <2>2, <2>3, AccountKeeps
<1>6. CASE Stop
  <2>1. /\ node # None
        /\ UNCHANGED <<program, contexts, caches, node, nodeCount, externalCount, missed, uses, elapsed>>
    BY <1>6 DEF Stop, Running, Unanalysed, contextVars, runVars, ipetVars
  <2>2. QED
    BY <2>1 DEF Account
<1>7. CASE UNCHANGED vars
  <2>1. UNCHANGED <<program, phase, contexts, caches, node, nodeCount, externalCount, missed, uses, elapsed>>
    BY <1>7 DEF vars, contextVars, runVars, ipetVars
  <2>2. QED
    BY <2>1 DEF Account
<1>8. QED
  BY <1>1, <1>2, <1>3, <1>4, <1>5, <1>6, <1>7 DEF IPETNext, Done

-----------------------------------------------------------------------------
(* At the end, what an execution counted is in the sums of the analysis:   *)
(* a function entered by an execution that counts is neither dead nor      *)
(* below annotated ones alone.                                             *)
Entered(p, cs, c) == c = 1 \/ Seen(p, cs, cs[c].caller)

LEMMA EnteredUsed ==
  ASSUME IInv, Execution, phase # "calls", NEW c \in DOMAIN contexts, Entered(program, contexts, c)
  PROVE  getCurrentFunction(c) \in Used
<1> DEFINE p == program
           E == {x \in Calling : ~ HasExternalWCET(x[1])}
           R == Reachable(E, {p.entry})
           D == 1 .. Len(contexts)
           P(d) == Entered(p, contexts, d) => getCurrentFunction(d) \in R /\ getCurrentFunction(d) \in Live
           S == {n \in Nat : \A d \in D : d <= n => P(d)}
<1>1. /\ Tree_ /\ ContextTree(p, contexts, explored) /\ p \in Programs
      /\ DOMAIN contexts = D /\ Len(contexts) \in Nat \ {0}
      /\ getCurrentFunction(1) = p.entry
  BY RootFacts, ContextTypes DEF Execution, Tree_
<1>2. Calling = Graph(p) /\ IsFiniteSet(Calling)
  BY <1>1, CallingIsGraph, GraphFinite
<1>3. IsFiniteSet(E)
  <2>1. E \in SUBSET Calling
    OBVIOUS
  <2> HIDE DEF E
  <2>2. QED
    BY <1>2, <2>1, FS_Subset
<1>4. P(1)
  <2>1. {p.entry} \subseteq R /\ {p.entry} \subseteq Live
    <3> HIDE DEF E
    <3>1. QED
      BY <1>2, <1>3, ReachableStart DEF Live
  <2>2. QED
    BY <1>1, <2>1
<1>5. ASSUME NEW d \in 2 .. Len(contexts), P(contexts[d].caller)
      PROVE  P(d)
  <2> DEFINE q == contexts[d].caller
             f == getCurrentFunction(q)
             n == contexts[d].node
             g == getCurrentFunction(d)
  <2> SUFFICES ASSUME Entered(p, contexts, d)
               PROVE  g \in R /\ g \in Live
    OBVIOUS
  <2>1. d # 1 /\ Seen(p, contexts, q)
    BY <1>1 DEF Entered
  <2>2. q \in D /\ IsCall(f, n) /\ g = GetCallee(f, n)
    BY <1>1, CallerFacts
  <2>3. Entered(p, contexts, q) /\ f \notin DOMAIN p.wcet
    <3>1. CASE q = 1
      BY <1>1, <2>1, <3>1, SeenFacts DEF Entered
    <3>2. CASE q # 1
      <4>1. q \in 2 .. Len(contexts)
        BY <1>1, <2>2, <3>2
      <4>2. QED
        BY <1>1, <2>1, <4>1, SeenFacts DEF Entered, getCurrentFunction
    <3>3. QED
      BY <3>1, <3>2
  <2>4. f \in R /\ f \in Live
    BY <1>5, <2>3
  <2>5. <<f, g>> \in Calling
    <3>1. f \in Functions /\ n \in DOMAIN program.cfg[f].callee
      BY <1>1, <2>2, RootFacts DEF IsCall
    <3>2. QED
      BY <2>2, <3>1 DEF Calling
  <2>6. <<f, g>> \in E
    BY <2>3, <2>5 DEF HasExternalWCET
  <2> HIDE DEF E, f, g
  <2>7. g \in R
    BY <1>3, <2>4, <2>6, ReachableClosed
  <2>8. g \in Live
    BY <1>2, <2>4, <2>5, ReachableClosed DEF Live
  <2>9. QED
    BY <2>7, <2>8
<1>6. Nat \subseteq S
  <2>1. 0 \in S
    BY <1>1
  <2>2. ASSUME NEW n \in Nat, n \in S
        PROVE  n + 1 \in S
    <3>1. ASSUME NEW d \in D, d <= n + 1
          PROVE  P(d)
      <4>1. CASE d = 1
        BY <1>4, <4>1
      <4>2. CASE d # 1
        <5>1. d \in 2 .. Len(contexts)
          BY <1>1, <4>2
        <5>2. contexts[d].caller \in D /\ contexts[d].caller < d
          BY <1>1, <5>1, CallerFacts
        <5>3. contexts[d].caller <= n
          BY <1>1, <2>2, <3>1, <5>2
        <5> HIDE DEF P
        <5>4. P(contexts[d].caller)
          BY <2>2, <5>2, <5>3
        <5>5. QED
          BY <1>5, <5>1, <5>4
      <4>3. QED
        BY <4>1, <4>2
    <3> HIDE DEF P
    <3>2. QED
      BY <3>1
  <2> HIDE DEF S
  <2>3. QED
    BY <2>1, <2>2, Induction
<1>7. P(c)
  <2>1. c \in Nat /\ c \in D /\ c <= c
    BY <1>1
  <2> HIDE DEF P
  <2>2. QED
    BY <1>6, <2>1
<1>8. ~ isDeadCode(getCurrentFunction(c))
  BY <1>7, DeadCodeExact
<1>9. getCurrentFunction(c) \in Functions
  BY <1>1, RootFacts
<1>10. QED
  BY <1>7, <1>8, <1>9 DEF Used, isUnused

LEMMA SeenCounted ==
  ASSUME IInv, Execution, phase # "calls", NEW c \in DOMAIN contexts, Seen(program, contexts, c)
  PROVE  getCurrentFunction(c) \in Counted
<1>1. ContextTree(program, contexts, explored) /\ DOMAIN contexts = 1 .. Len(contexts) /\ Len(contexts) \in Nat
      /\ getCurrentFunction(1) = program.entry
  BY RootFacts DEF Execution, Tree_
<1>2. Entered(program, contexts, c) /\ contexts[c].function \notin DOMAIN program.wcet
  <2>1. CASE c = 1
    BY <1>1, <2>1, SeenFacts DEF Entered, getCurrentFunction
  <2>2. CASE c # 1
    <3>1. c \in 2 .. Len(contexts)
      BY <1>1, <2>2
    <3>2. QED
      BY <1>1, <3>1, SeenFacts DEF Entered
  <2>3. QED
    BY <2>1, <2>2
<1>3. QED
  BY <1>2, EnteredUsed DEF Counted, HasExternalWCET, getCurrentFunction

(* The contextual nodes of the analysis are contextual nodes of the        *)
(* program, and have all of the executions.                                *)
LEMMA ContextualCounts ==
  ASSUME IInv, Execution, phase # "calls", NEW w,
         Accounted(program, contexts, nodeCount, missed, uses, w)
  PROVE  /\ ContextualNodes \subseteq Places(program, contexts)
         /\ \A y \in Places(program, contexts) : Count(nodeCount, y) > 0 => y \in ContextualNodes
<1>1. ContextTree(program, contexts, explored) /\ DOMAIN contexts = 1 .. Len(contexts)
  BY RootFacts DEF Execution, Tree_
<1>2. \A c, n : <<c, n>> \in Places(program, contexts)
                  <=> c \in DOMAIN contexts /\ n \in NodesIn(program, contexts, c)
  BY <1>1, SitesFacts
<1>3. ASSUME NEW y \in ContextualNodes
      PROVE  y \in Places(program, contexts)
  <2>1. PICK f \in Counted : y \in ContextList(f) \X Nodes(f)
    BY <1>3 DEF ContextualNodes
  <2>2. PICK c \in ContextList(f), n \in Nodes(f) : y = <<c, n>>
    BY <2>1
  <2>3. c \in DOMAIN contexts /\ contexts[c].function = f
    BY DEF ContextList, getCurrentFunction
  <2>4. n \in NodesIn(program, contexts, c)
    BY <2>3 DEF Nodes, NodesIn, NodesOf
  <2>5. QED
    BY <1>2, <2>2, <2>3, <2>4
<1>4. ASSUME NEW y \in Places(program, contexts), Count(nodeCount, y) > 0
      PROVE  y \in ContextualNodes
  <2> DEFINE c == y[1]
             n == y[2]
             f == getCurrentFunction(c)
  <2>1. y = <<c, n>>
    BY <1>1, SitesFacts
  <2>2. c \in DOMAIN contexts /\ n \in NodesIn(program, contexts, c)
    BY <1>2, <2>1
  <2>3. Seen(program, contexts, c)
    BY <1>4, <2>1 DEF Accounted
  <2>4. f \in Counted
    BY <2>2, <2>3, SeenCounted
  <2>5. c \in ContextList(f) /\ n \in Nodes(f)
    BY <2>2 DEF ContextList, Nodes, NodesIn, NodesOf, getCurrentFunction
  <2> HIDE DEF c, n, f
  <2>6. QED
    BY <2>1, <2>4, <2>5 DEF ContextualNodes
<1>5. QED
  BY <1>3, <1>4

(* The folds over 1 .. n take the elements from the first to the last.     *)
LEMMA LargestOf ==
  ASSUME NEW n \in Nat, NEW s \in SUBSET (1 .. n), s # {}
  PROVE  Max(s) \in s /\ \A x \in s : Max(s) >= x
<1> DEFINE T == {n - x : x \in s}
<1>1. T \in SUBSET Nat /\ T # {}
  <2>1. \A x \in s : n - x \in Nat
    OBVIOUS
  <2>2. PICK x \in s : TRUE
    OBVIOUS
  <2>3. n - x \in T
    OBVIOUS
  <2>4. QED
    BY <2>1, <2>3
<1>2. \E m \in T : \A t \in T : m <= t
  <2> HIDE DEF T
  <2>1. QED
    BY <1>1, LeastElement
<1>3. PICK x \in s : \A t \in T : n - x <= t
  BY <1>2
<1>4. \A y \in s : x >= y
  <2> SUFFICES ASSUME NEW y \in s
               PROVE  x >= y
    OBVIOUS
  <2>1. n - x <= n - y
    BY <1>3
  <2>2. QED
    BY <2>1
<1>5. \E z \in s : \A y \in s : z >= y
  BY <1>4
<1>6. QED
  BY <1>5 DEF Max

LEMMA LargestUpto ==
  ASSUME NEW n \in Nat, NEW l \in 1 .. n
  PROVE  Max(1 .. l) = l /\ (1 .. l) \ {l} = 1 .. l - 1 /\ 1 .. l # {} /\ 1 .. l \in SUBSET (1 .. n)
                         /\ 1 .. l - 1 \in SUBSET (1 .. n)
<1>1. 1 .. l # {} /\ 1 .. l \in SUBSET (1 .. n) /\ l \in 1 .. l /\ 1 .. l - 1 \in SUBSET (1 .. n)
  OBVIOUS
<1>2. Max(1 .. l) \in 1 .. l /\ \A x \in 1 .. l : Max(1 .. l) >= x
  BY <1>1, LargestOf
<1>3. Max(1 .. l) = l
  BY <1>1, <1>2
<1>4. (1 .. l) \ {l} = 1 .. l - 1
  OBVIOUS
<1>5. QED
  BY <1>1, <1>3, <1>4

Largest(n) == [s \in SUBSET (1 .. n) |-> Max(s)]
Stepwise(n, V, g) == \A l \in 1 .. n : \A v \in V : g[<<l, v>>] \in V

LEMMA UptoFoldExists ==
  ASSUME NEW n \in Nat, NEW V, NEW b \in V, NEW g, Stepwise(n, V, g)
  PROVE  \E w \in [SUBSET (1 .. n) -> V] : IsFold(w, 1 .. n, Largest(n), b, g)
<1> DEFINE S == 1 .. n
           ch == Largest(n)
<1>1. IsFiniteSet(S)
  BY FS_Interval
<1>2. \A s \in SUBSET S : s # {} => ch[s] \in s
  BY LargestOf DEF Largest
<1>3. \A x \in S : \A v \in V : g[<<x, v>>] \in V
  BY DEF Stepwise
<1> HIDE DEF S, ch
<1>4. \E w \in [SUBSET S -> V] : IsFold(w, S, ch, b, g)
  BY <1>1, <1>2, <1>3, FoldExists
<1>5. QED
  BY <1>4 DEF S, ch

(* The fold iter goes through the values of v.                             *)
Follows(iter, n, V, b, g) ==
  \A s \in SUBSET (1 .. n) :
     /\ s = {} => iter[s] = b
     /\ s # {} /\ iter[s \ {Max(s)}] \in V => iter[s] = g[<<Max(s), iter[s \ {Max(s)}]>>]
Stages(v, n, V, b, g) ==
  /\ v \in [0 .. n -> V]
  /\ v[0] = b
  /\ \A l \in 1 .. n : v[l] = g[<<l, v[l - 1]>>]

LEMMA FoldStages ==
  ASSUME NEW n \in Nat, NEW V, NEW b \in V, NEW g, Stepwise(n, V, g), NEW iter, Follows(iter, n, V, b, g)
  PROVE  \E v : Stages(v, n, V, b, g) /\ iter[1 .. n] = v[n]
<1> DEFINE v == [l \in 0 .. n |-> iter[1 .. l]]
           Q == {l \in Nat : l <= n => v[l] \in V}
<1>1. v[0] = b
  <2>1. 1 .. 0 = {} /\ {} \in SUBSET (1 .. n)
    OBVIOUS
  <2>2. iter[1 .. 0] = b
    BY <2>1 DEF Follows
  <2>3. QED
    BY <2>2
<1>2. ASSUME NEW l \in 1 .. n, v[l - 1] \in V
      PROVE  v[l] = g[<<l, v[l - 1]>>] /\ v[l] \in V
  <2>1. Max(1 .. l) = l /\ (1 .. l) \ {l} = 1 .. l - 1 /\ 1 .. l # {} /\ 1 .. l \in SUBSET (1 .. n)
    BY LargestUpto
  <2>2. l \in 0 .. n /\ l - 1 \in 0 .. n
    OBVIOUS
  <2>3. v[l] = iter[1 .. l] /\ v[l - 1] = iter[1 .. l - 1]
    BY <2>2
  <2> HIDE DEF v
  <2>4. iter[(1 .. l) \ {Max(1 .. l)}] = v[l - 1]
    BY <2>1, <2>3, Zenon
  <2>5. iter[1 .. l] = g[<<Max(1 .. l), iter[(1 .. l) \ {Max(1 .. l)}]>>]
    BY <1>2, <2>1, <2>4, Zenon DEF Follows
  <2>6. v[l] = g[<<l, v[l - 1]>>]
    BY <2>1, <2>3, <2>4, <2>5, Zenon
  <2>7. g[<<l, v[l - 1]>>] \in V
    BY <1>2 DEF Stepwise
  <2>8. QED
    BY <2>6, <2>7
<1>3. 0 \in Q
  BY <1>1
<1>4. ASSUME NEW l \in Nat, l \in Q
      PROVE  l + 1 \in Q
  <2> SUFFICES ASSUME l + 1 <= n
               PROVE  v[l + 1] \in V
    OBVIOUS
  <2> DEFINE k == l + 1
  <2> HIDE DEF v
  <2>1. k \in 1 .. n /\ k - 1 = l /\ l <= n
    OBVIOUS
  <2>2. l <= n => v[l] \in V
    BY <1>4
  <2>3. v[k - 1] \in V
    BY <2>1, <2>2, Zenon
  <2> HIDE DEF k
  <2>4. v[k] \in V
    BY <1>2, <2>1, <2>3
  <2>5. QED
    BY <2>4 DEF k
<1>5. Nat \subseteq Q
  <2> HIDE DEF Q
  <2>1. QED
    BY <1>3, <1>4, Induction
<1>6. \A l \in 0 .. n : l \in Nat /\ l <= n
  OBVIOUS
<1>7. \A l \in 0 .. n : v[l] \in V
  BY <1>5, <1>6, Zenon
<1>8. v \in [0 .. n -> V]
  BY <1>7
<1>9. \A l \in 1 .. n : v[l] = g[<<l, v[l - 1]>>]
  <2> SUFFICES ASSUME NEW l \in 1 .. n
               PROVE  v[l] = g[<<l, v[l - 1]>>]
    OBVIOUS
  <2>1. l - 1 \in 0 .. n
    OBVIOUS
  <2> HIDE DEF v
  <2>2. QED
    BY <1>2, <1>7, <2>1
<1>10. v[n] = iter[1 .. n]
  OBVIOUS
<1> HIDE DEF v
<1>11. Stages(v, n, V, b, g)
  BY <1>1, <1>8, <1>9 DEF Stages
<1>12. QED
  BY <1>10, <1>11

-----------------------------------------------------------------------------
(* What the statistics count of an instruction bounds what passed.         *)
Leveled(ins, type) ==
  \A l \in 1 .. NbLevels : /\ getCHMC(ins, type, l) \in {"AH", "AM", "FM", "NC", "AU"}
                           /\ countAccessedBlocks(ins, type, l) \in Nat \ {0}

(* How many accesses of those that reach a level go on to the next one.    *)
Onward(ins, type, l, previous) ==
  CASE getCHMC(ins, type, l) \in {"AM", "NC"} -> previous
    [] getCHMC(ins, type, l) = "FM" -> Lesser(previous, countAccessedBlocks(ins, type, l))
    [] OTHER -> 0

LEMMA OnwardType ==
  ASSUME NEW ins, NEW type, Leveled(ins, type), NEW l \in 1 .. NbLevels, NEW v \in Nat
  PROVE  Onward(ins, type, l, v) \in Nat
<1>1. countAccessedBlocks(ins, type, l) \in Nat
  BY DEF Leveled
<1>2. QED
  BY <1>1 DEF Onward, Lesser

(* Of n accesses, v[l] may pass the first l levels, up to level.           *)
Occurs(v, ins, type, n, level) ==
  /\ v \in [0 .. level - 1 -> Nat]
  /\ v[0] = n
  /\ \A l \in 1 .. level - 1 : v[l] = Onward(ins, type, l, v[l - 1])
  /\ getOccurrencesCount(n, ins, type, level) = v[level - 1]

LEMMA OccurrencesUnfold ==
  ASSUME NEW ins, NEW type, Leveled(ins, type), NEW n \in Nat, NEW level \in 1 .. NbLevels
  PROVE  \E v : Occurs(v, ins, type, n, level)
<1> DEFINE m == level - 1
           seq == [l \in 1 .. m |-> l]
           after(previous, l) == CASE getCHMC(ins, type, l) \in {"AM", "NC"} -> previous
                                   [] getCHMC(ins, type, l) = "FM" -> Lesser(previous, countAccessedBlocks(ins, type, l))
                                   [] OTHER -> 0
           D == DOMAIN seq
           Iter(w) == w = [s \in SUBSET D |->
                             IF s = {} THEN n ELSE after(w[s \ {Max(s)}], seq[Max(s)])]
           iter == CHOOSE w : Iter(w)
           g == [z \in (1 .. m) \X Nat |-> Onward(ins, type, z[1], z[2])]
<1>1. m \in Nat /\ D = 1 .. m /\ m \in 0 .. m /\ 0 \in 0 .. m /\ \A l \in 1 .. m : l \in 1 .. NbLevels
  BY LatenciesAssumption
<1>2. getOccurrencesCount(n, ins, type, level) = iter[D]
  BY DEF getOccurrencesCount, FoldLeft, MapThenFoldSet
<1>3. \A l, v : after(v, l) = Onward(ins, type, l, v)
  BY DEF Onward
<1>4. \A l \in 1 .. m : seq[l] = l
  OBVIOUS
<1> HIDE DEF m, seq, after
<1>5. \A l \in 1 .. m : \A v \in Nat : Onward(ins, type, l, v) \in Nat
  BY <1>1, OnwardType
<1>6. Stepwise(m, Nat, g)
  BY <1>5 DEF Stepwise
<1>7. \E w \in [SUBSET (1 .. m) -> Nat] : IsFold(w, 1 .. m, Largest(m), n, g)
  <2> HIDE DEF g
  <2>1. QED
    BY <1>1, <1>6, UptoFoldExists
<1>8. PICK w \in [SUBSET (1 .. m) -> Nat] : IsFold(w, 1 .. m, Largest(m), n, g)
  BY <1>7
<1>9. Iter(w)
  <2>1. ASSUME NEW s \in SUBSET (1 .. m)
        PROVE  w[s] = IF s = {} THEN n ELSE after(w[s \ {Max(s)}], seq[Max(s)])
    <3>1. w[s] = IF s = {} THEN n ELSE g[<<Largest(m)[s], w[s \ {Largest(m)[s]}]>>]
      BY <1>8 DEF IsFold
    <3>2. Largest(m)[s] = Max(s) /\ w[s \ {Max(s)}] \in Nat
      BY <1>8 DEF Largest
    <3>3. s # {} => Max(s) \in 1 .. m
      BY <1>1, LargestOf
    <3>4. s # {} => g[<<Max(s), w[s \ {Max(s)}]>>] = after(w[s \ {Max(s)}], seq[Max(s)])
      BY <1>3, <1>4, <3>2, <3>3
    <3> HIDE DEF g
    <3>5. QED
      BY <3>1, <3>2, <3>4
  <2>2. w = [s \in SUBSET (1 .. m) |-> IF s = {} THEN n ELSE after(w[s \ {Max(s)}], seq[Max(s)])]
    <3>1. w = [s \in SUBSET (1 .. m) |-> w[s]]
      BY <1>8
    <3>2. QED
      BY <2>1, <3>1
  <2>3. QED
    BY <1>1, <2>2
<1>10. Iter(iter)
  <2> HIDE DEF Iter
  <2>1. QED
    BY <1>9, Zenon
<1> HIDE DEF iter
<1>11. Follows(iter, m, Nat, n, g)
  <2> SUFFICES ASSUME NEW s \in SUBSET (1 .. m)
               PROVE  /\ s = {} => iter[s] = n
                      /\ s # {} /\ iter[s \ {Max(s)}] \in Nat => iter[s] = g[<<Max(s), iter[s \ {Max(s)}]>>]
    BY DEF Follows
  <2>1. iter[s] = IF s = {} THEN n ELSE after(iter[s \ {Max(s)}], seq[Max(s)])
    BY <1>1, <1>10
  <2>2. s # {} => Max(s) \in 1 .. m
    BY <1>1, LargestOf
  <2>3. QED
    BY <1>3, <1>4, <2>1, <2>2
<1> HIDE DEF Iter, D
<1>12. \E v : Stages(v, m, Nat, n, g) /\ iter[1 .. m] = v[m]
  <2> HIDE DEF g
  <2>1. m \in Nat
    BY <1>1
  <2>2. QED
    BY <1>6, <1>11, <2>1, FoldStages
<1>13. PICK v : Stages(v, m, Nat, n, g) /\ iter[1 .. m] = v[m]
  BY <1>12
<1>14. ASSUME NEW l \in 1 .. m
       PROVE  v[l] = Onward(ins, type, l, v[l - 1])
  <2> DEFINE u == v[l - 1]
  <2>1. v \in [0 .. m -> Nat] /\ v[l] = g[<<l, u>>]
    BY <1>13 DEF Stages
  <2>2. l - 1 \in 0 .. m
    BY <1>1
  <2>3. u \in Nat
    BY <2>1, <2>2
  <2> HIDE DEF u
  <2>4. v[l] = Onward(ins, type, l, u)
    BY <2>1, <2>3
  <2>5. QED
    BY <2>4 DEF u
<1>15. v[0] = n /\ v \in [0 .. m -> Nat]
  BY <1>13 DEF Stages
<1>16. getOccurrencesCount(n, ins, type, level) = v[m]
  BY <1>1, <1>2, <1>13 DEF D
<1>17. Occurs(v, ins, type, n, level)
  BY <1>14, <1>15, <1>16 DEF m, Occurs
<1>18. QED
  BY <1>17

(* Of n accesses, f[l] pass the first l levels.                            *)
Narrows(f, ins, type, n) ==
  /\ f \in [0 .. NbLevels -> Nat]
  /\ f[0] <= n
  /\ \A l \in 1 .. NbLevels :
       /\ f[l] <= f[l - 1]
       /\ getCHMC(ins, type, l) \in {"AH", "AU"} => f[l] = 0
       /\ getCHMC(ins, type, l) = "FM" => f[l] <= countAccessedBlocks(ins, type, l)
       /\ getCHMC(ins, type, l) = "AU" => f[l - 1] = 0

LEMMA CountsBound ==
  ASSUME NEW ins, NEW type, Leveled(ins, type), NEW n \in Nat, NEW f, Narrows(f, ins, type, n),
         NEW level \in 1 .. NbLevels
  PROVE  /\ getOccurrencesCount(n, ins, type, level) \in Nat
         /\ MissesCount(n, ins, type, level) \in Nat
         /\ f[level - 1] <= getOccurrencesCount(n, ins, type, level)
         /\ f[level] <= MissesCount(n, ins, type, level)
<1>1. PICK v : Occurs(v, ins, type, n, level)
  BY OccurrencesUnfold
<1>2. /\ v \in [0 .. level - 1 -> Nat]
      /\ v[0] = n
      /\ \A l \in 1 .. level - 1 : v[l] = Onward(ins, type, l, v[l - 1])
      /\ getOccurrencesCount(n, ins, type, level) = v[level - 1]
  BY <1>1 DEF Occurs
<1>3. ASSUME NEW l \in 1 .. NbLevels, NEW a \in Nat, f[l - 1] <= a
      PROVE  f[l] <= Onward(ins, type, l, a)
  <2> DEFINE class == getCHMC(ins, type, l)
             b == countAccessedBlocks(ins, type, l)
  <2>1. /\ class \in {"AH", "AM", "FM", "NC", "AU"} /\ b \in Nat
        /\ f[l] <= f[l - 1] /\ f[l] \in Nat /\ f[l - 1] \in Nat
        /\ class \in {"AH", "AU"} => f[l] = 0
        /\ class = "FM" => f[l] <= b
    <3>1. /\ class \in {"AH", "AM", "FM", "NC", "AU"} /\ b \in Nat
          /\ f[l] <= f[l - 1]
          /\ class \in {"AH", "AU"} => f[l] = 0
          /\ class = "FM" => f[l] <= b
      BY DEF Leveled, Narrows
    <3>2. f[l] \in Nat /\ f[l - 1] \in Nat
      <4>1. l \in 0 .. NbLevels /\ l - 1 \in 0 .. NbLevels
        BY LatenciesAssumption
      <4>2. f \in [0 .. NbLevels -> Nat]
        BY DEF Narrows
      <4>3. QED
        BY <4>1, <4>2
    <3>3. QED
      BY <3>1, <3>2
  <2>2. Onward(ins, type, l, a) = IF class \in {"AM", "NC"} THEN a ELSE IF class = "FM" THEN Lesser(a, b) ELSE 0
    BY DEF Onward
  <2> HIDE DEF class, b
  <2>3. QED
    BY <1>3, <2>1, <2>2 DEF Lesser
<1> DEFINE Q == {l \in Nat : l <= level - 1 => f[l] <= v[l]}
<1>4. 0 \in Q
  BY <1>2 DEF Narrows
<1>5. ASSUME NEW l \in Nat, l \in Q
      PROVE  l + 1 \in Q
  <2>1. SUFFICES ASSUME l + 1 <= level - 1
                 PROVE  f[l + 1] <= v[l + 1]
    OBVIOUS
  <2>2. /\ l + 1 \in 1 .. level - 1 /\ l + 1 \in 1 .. NbLevels /\ l + 1 - 1 = l
        /\ f[l] <= v[l] /\ l \in 0 .. level - 1
    <3>1. level \in Int /\ l \in Nat /\ level <= NbLevels /\ NbLevels \in Nat
      BY LatenciesAssumption
    <3>2. /\ l + 1 \in 1 .. level - 1 /\ l + 1 \in 1 .. NbLevels /\ l + 1 - 1 = l
          /\ l <= level - 1 /\ l \in 0 .. level - 1
      BY <2>1, <3>1
    <3>3. l <= level - 1 => f[l] <= v[l]
      BY <1>5
    <3>4. QED
      BY <3>2, <3>3
  <2>3. v[l] \in Nat /\ v[l + 1] = Onward(ins, type, l + 1, v[l])
    BY <1>2, <2>2
  <2>4. f[l + 1 - 1] <= v[l]
    BY <2>2
  <2>5. QED
    BY <1>3, <2>2, <2>3, <2>4
<1>6. Nat \subseteq Q
  <2> HIDE DEF Q
  <2>1. QED
    BY <1>4, <1>5, Induction
<1>7. level - 1 \in Nat /\ level - 1 \in 0 .. level - 1
  BY LatenciesAssumption
<1>8. f[level - 1] <= v[level - 1] /\ v[level - 1] \in Nat
  BY <1>2, <1>6, <1>7
<1>9. MissesCount(n, ins, type, level) = Onward(ins, type, level, v[level - 1])
  BY <1>2 DEF MissesCount, Onward
<1>10. f[level] <= Onward(ins, type, level, v[level - 1]) /\ Onward(ins, type, level, v[level - 1]) \in Nat
  BY <1>3, <1>8, OnwardType
<1>11. QED
  BY <1>2, <1>8, <1>9, <1>10

PassedAt(w, x, type) == [l \in 0 .. NbLevels |-> w[<<x, type, l>>]]

LEMMA PassedNarrow ==
  ASSUME NEW p, NEW cs, NEW k, ContextTree(p, cs, k), NEW nc, NEW M, NEW U, NEW w,
         Accounted(p, cs, nc, M, U, w), NEW x \in Sites(p, cs), NEW type \in Types
  PROVE  /\ Count(nc, x[1]) \in Nat
         /\ Refers(Instr(p, cs, x), type) =>
              /\ Leveled(Instr(p, cs, x), type)
              /\ Narrows(PassedAt(w, x, type), Instr(p, cs, x), type, Count(nc, x[1]))
         /\ Count(nc, x[1]) = 0 \/ ~ Refers(Instr(p, cs, x), type) =>
              \A l \in 0 .. NbLevels : w[<<x, type, l>>] = 0
<1> DEFINE ins == Instr(p, cs, x)
           n == Count(nc, x[1])
           f == PassedAt(w, x, type)
           refers == Refers(ins, type)
<1>1. NbLevels \in Nat \ {0} /\ 0 \in 0 .. NbLevels
  BY LatenciesAssumption
<1>2. f \in [0 .. NbLevels -> Nat] /\ \A l \in 0 .. NbLevels : f[l] = w[<<x, type, l>>]
  BY DEF Accounted, Counts, PassedAt
<1>3. n \in Nat
  BY DEF Accounted, Numbers
<1>4. w[<<x, type, 0>>] <= n /\ (~ refers => w[<<x, type, 0>>] = 0)
  BY DEF Accounted
<1>5. \A l \in 1 .. NbLevels : l \in 0 .. NbLevels /\ l - 1 \in 0 .. NbLevels
  BY <1>1
<1>6. \A l \in 1 .. NbLevels : w[<<x, type, l>>] <= w[<<x, type, l - 1>>]
  BY DEF Accounted
<1>7. ASSUME refers, NEW l \in 1 .. NbLevels
      PROVE  /\ getCHMC(ins, type, l) \in {"AH", "AU"} => f[l] = 0
             /\ getCHMC(ins, type, l) = "FM" => f[l] <= countAccessedBlocks(ins, type, l)
  <2> DEFINE class == getCHMC(ins, type, l)
             loaded == Loads(M, x, type, l)
             b == countAccessedBlocks(ins, type, l)
             v == w[<<x, type, l>>]
  <2>1. /\ class \in {"AH", "AU"} => v = 0
        /\ class = "FM" => v <= Cardinality(loaded)
        /\ loaded \subseteq 1 .. b
    BY <1>7 DEF Accounted
  <2>2. b \in Nat \ {0}
    BY <1>7, SitesFacts
  <2>3. f[l] = v /\ v \in Nat
    BY <1>2, <1>5
  <2> HIDE DEF class, loaded, b, v, f
  <2>4. Cardinality(loaded) <= b /\ Cardinality(loaded) \in Nat
    <3> DEFINE B == 1 .. b
    <3>1. b \in Int /\ 1 \in Int /\ 1 <= b
      BY <2>2
    <3>2. IsFiniteSet(B) /\ Cardinality(B) = b
      BY <3>1, FS_Interval
    <3>3. loaded \in SUBSET B
      BY <2>1
    <3> HIDE DEF B
    <3>4. IsFiniteSet(loaded) /\ Cardinality(loaded) <= Cardinality(B)
      BY <3>2, <3>3, FS_Subset
    <3>5. Cardinality(loaded) \in Nat
      BY <3>4, FS_CardinalityType
    <3>6. QED
      BY <3>2, <3>4, <3>5
  <2>5. class = "FM" => f[l] <= b
    BY <2>1, <2>2, <2>3, <2>4
  <2>6. QED
    BY <2>1, <2>3, <2>5 DEF class, b
<1>8. \A l \in 1 .. NbLevels : refers /\ getCHMC(ins, type, l) = "AU" => f[l - 1] = 0
  <2>1. \A l \in 1 .. NbLevels : refers /\ getCHMC(ins, type, l) = "AU" => w[<<x, type, l - 1>>] = 0
    BY DEF Accounted, Bypassing
  <2> HIDE DEF refers, ins, f
  <2>2. QED
    BY <1>2, <1>5, <2>1
<1>9. refers => Leveled(ins, type)
  BY SitesFacts DEF Leveled
<1>10. refers => Narrows(f, ins, type, n)
  <2> SUFFICES ASSUME refers
               PROVE  Narrows(f, ins, type, n)
    OBVIOUS
  <2>1. f[0] <= n
    BY <1>1, <1>2, <1>4
  <2>2. \A l \in 1 .. NbLevels : f[l] <= f[l - 1]
    BY <1>2, <1>5, <1>6
  <2> HIDE DEF f, n, ins, refers
  <2>3. QED
    BY <1>2, <1>7, <1>8, <2>1, <2>2 DEF Narrows
<1>11. ASSUME n = 0 \/ ~ refers, NEW l \in 0 .. NbLevels
       PROVE  w[<<x, type, l>>] = 0
  <2> DEFINE Q == {j \in Nat : j <= NbLevels => f[j] = 0}
  <2>1. 0 \in Q
    <3>1. f[0] = w[<<x, type, 0>>] /\ f[0] \in Nat
      BY <1>1, <1>2
    <3> HIDE DEF f, n, refers
    <3>2. f[0] = 0
      BY <1>3, <1>4, <1>11, <3>1
    <3>3. QED
      BY <3>2
  <2>2. ASSUME NEW j \in Nat, j \in Q
        PROVE  j + 1 \in Q
    <3> SUFFICES ASSUME j + 1 <= NbLevels
                 PROVE  f[j + 1] = 0
      OBVIOUS
    <3>1. j + 1 \in 1 .. NbLevels /\ j \in 0 .. NbLevels /\ j + 1 \in 0 .. NbLevels /\ j + 1 - 1 = j
      BY <1>1
    <3>2. f[j] = 0
      BY <1>1, <2>2, <3>1
    <3>3. w[<<x, type, j + 1>>] <= w[<<x, type, j>>]
      BY <1>6, <3>1
    <3>4. f[j + 1] = w[<<x, type, j + 1>>] /\ f[j] = w[<<x, type, j>>] /\ f[j + 1] \in Nat
      BY <1>2, <3>1
    <3> HIDE DEF f
    <3>5. QED
      BY <3>2, <3>3, <3>4
  <2>3. Nat \subseteq Q
    <3> HIDE DEF Q
    <3>1. QED
      BY <2>1, <2>2, Induction
  <2>4. f[l] = 0
    BY <1>1, <2>3
  <2>5. QED
    BY <1>2, <2>4
<1>12. QED
  BY <1>3, <1>9, <1>10, <1>11

(* The accesses whose instructions the statistics count.                   *)
Referring(type) ==
  {x \in UNION {{cn} \X DOMAIN Instructions(cn[1], cn[2]) :
                  cn \in {y \in ContextualNodes : n_(y[1], y[2]) > 0}} :
     type = "data" => Instructions(x[1][1], x[1][2])[x[2]].kind = "load"}
Occurrences(type, l) ==
  [x \in Referring(type) |->
     getOccurrencesCount(n_(x[1][1], x[1][2]), Instructions(x[1][1], x[1][2])[x[2]], type, l)]
Missing(type, l) ==
  [x \in Referring(type) |->
     MissesCount(n_(x[1][1], x[1][2]), Instructions(x[1][1], x[1][2])[x[2]], type, l)]

LEMMA StatisticsTotal ==
  ASSUME NEW type, IsFiniteSet(Referring(type)), NEW l
  PROVE  /\ PerformStatistics(type, l).references = Total(Referring(type), Occurrences(type, l))
         /\ PerformStatistics(type, l).misses = Total(Referring(type), Missing(type, l))
<1> DEFINE S == Referring(type)
           f == Occurrences(type, l)
           g == Missing(type, l)
           A(x) == getOccurrencesCount(n_(x[1][1], x[1][2]), Instructions(x[1][1], x[1][2])[x[2]], type, l)
           B(x) == MissesCount(n_(x[1][1], x[1][2]), Instructions(x[1][1], x[1][2])[x[2]], type, l)
<1>1. /\ PerformStatistics(type, l).references = MapThenSumSet(A, S)
      /\ PerformStatistics(type, l).misses = MapThenSumSet(B, S)
  BY DEF PerformStatistics, Referring
<1>2. MapThenSumSet(A, S) = Total(S, f)
  <2> DEFINE Iter(w) == w = [r \in SUBSET S |->
                               IF r = {} THEN 0
                               ELSE A(CHOOSE x \in r : TRUE) + w[r \ {CHOOSE x \in r : TRUE}]]
             total == CHOOSE w : Iter(w)
  <2>1. f = [x \in S |-> A(x)]
    BY DEF Occurrences
  <2>2. MapThenSumSet(A, S) = total[S]
    BY DEF MapThenSumSet, MapThenFoldSet
  <2> HIDE DEF S, A, f
  <2>3. \A x : IsSum(x, S, f) <=> Iter(x)
    BY <2>1 DEF IsSum, Some
  <2>4. Iter(total)
    <3>1. PICK x : IsSum(x, S, f)
      BY SumExists DEF S
    <3>2. Iter(x)
      <4> HIDE DEF Iter
      <4>1. QED
        BY <2>3, <3>1
    <3> HIDE DEF Iter
    <3>3. QED
      BY <3>2, Zenon
  <2>5. IsSum(total, S, f)
    BY <2>3, <2>4
  <2> HIDE DEF total, Iter
  <2>6. total[S] = Total(S, f)
    BY <2>5, TotalOfPart DEF S
  <2>7. QED
    BY <2>2, <2>6
<1>3. MapThenSumSet(B, S) = Total(S, g)
  <2> DEFINE Iter(w) == w = [r \in SUBSET S |->
                               IF r = {} THEN 0
                               ELSE B(CHOOSE x \in r : TRUE) + w[r \ {CHOOSE x \in r : TRUE}]]
             total == CHOOSE w : Iter(w)
  <2>1. g = [x \in S |-> B(x)]
    BY DEF Missing
  <2>2. MapThenSumSet(B, S) = total[S]
    BY DEF MapThenSumSet, MapThenFoldSet
  <2> HIDE DEF S, B, g
  <2>3. \A x : IsSum(x, S, g) <=> Iter(x)
    BY <2>1 DEF IsSum, Some
  <2>4. Iter(total)
    <3>1. PICK x : IsSum(x, S, g)
      BY SumExists DEF S
    <3>2. Iter(x)
      <4> HIDE DEF Iter
      <4>1. QED
        BY <2>3, <3>1
    <3> HIDE DEF Iter
    <3>3. QED
      BY <3>2, Zenon
  <2>5. IsSum(total, S, g)
    BY <2>3, <2>4
  <2> HIDE DEF total, Iter
  <2>6. total[S] = Total(S, g)
    BY <2>5, TotalOfPart DEF S
  <2>7. QED
    BY <2>2, <2>6
<1>4. QED
  BY <1>1, <1>2, <1>3

LEMMA ReferringSites ==
  ASSUME IInv, Execution, phase # "calls", NEW w,
         Accounted(program, contexts, nodeCount, missed, uses, w), NEW type \in Types
  PROVE  /\ IsFiniteSet(Referring(type)) /\ Referring(type) \in SUBSET Sites(program, contexts)
         /\ \A x \in Referring(type) :
              /\ Instructions(x[1][1], x[1][2])[x[2]] = Instr(program, contexts, x)
              /\ n_(x[1][1], x[1][2]) = Count(nodeCount, x[1])
              /\ Refers(Instr(program, contexts, x), type)
         /\ \A x \in Sites(program, contexts) : x \notin Referring(type) =>
              Count(nodeCount, x[1]) = 0 \/ ~ Refers(Instr(program, contexts, x), type)
<1> DEFINE S == Sites(program, contexts)
           R == Referring(type)
           In(x) == Instr(program, contexts, x)
<1>1. ContextTree(program, contexts, explored)
  BY RootFacts DEF Execution, Tree_
<1>2. /\ ContextualNodes \subseteq Places(program, contexts)
      /\ \A y \in Places(program, contexts) : Count(nodeCount, y) > 0 => y \in ContextualNodes
  BY ContextualCounts
<1>3. /\ IsFiniteSet(S)
      /\ \A y \in Places(program, contexts) : y = <<y[1], y[2]>>
      /\ \A y, i : <<y, i>> \in S <=> y \in Places(program, contexts) /\ i \in DOMAIN InstructionsIn(program, contexts, y[1], y[2])
      /\ \A x \in S : x[1] \in Places(program, contexts) /\ x = <<x[1], x[2]>>
  BY <1>1, SitesFacts
<1>4. \A y : Instructions(y[1], y[2]) = InstructionsIn(program, contexts, y[1], y[2])
  BY DEF Instructions, InstructionsIn, Cfg, getCurrentFunction
<1>5. \A y \in Places(program, contexts) : n_(y[1], y[2]) = Count(nodeCount, y)
  BY <1>3 DEF n_
<1> DEFINE Of(y) == {y} \X DOMAIN Instructions(y[1], y[2])
           Loading(x) == type = "data" => Instructions(x[1][1], x[1][2])[x[2]].kind = "load"
<1>6. \A x : x \in R <=> /\ \E y \in ContextualNodes : n_(y[1], y[2]) > 0 /\ x \in Of(y)
                          /\ Loading(x)
  <2>1. R = {x \in UNION {Of(cn) : cn \in {y \in ContextualNodes : n_(y[1], y[2]) > 0}} : Loading(x)}
    BY DEF Referring
  <2> HIDE DEF Of, Loading, R
  <2>2. QED
    BY <2>1
<1>7. \A x : Instructions(x[1][1], x[1][2])[x[2]] = In(x)
  BY <1>4 DEF Instr
<1>8. ASSUME NEW x \in R
      PROVE  x \in S /\ n_(x[1][1], x[1][2]) = Count(nodeCount, x[1]) /\ Refers(In(x), type)
  <2>1. (\E y \in ContextualNodes : n_(y[1], y[2]) > 0 /\ x \in Of(y)) /\ Loading(x)
    <3> HIDE DEF Of, Loading, R
    <3>1. QED
      BY <1>6
  <2>2. PICK y \in ContextualNodes : x \in Of(y)
    BY <2>1
  <2>3. PICK i \in DOMAIN Instructions(y[1], y[2]) : x = <<y, i>>
    BY <2>2
  <2>4. x[1] = y /\ y \in Places(program, contexts) /\ x \in S
    BY <1>2, <1>3, <1>4, <2>3
  <2>5. n_(x[1][1], x[1][2]) = Count(nodeCount, x[1])
    BY <1>5, <2>4
  <2>6. Refers(In(x), type)
    BY <1>7, <2>1 DEF Refers
  <2>7. QED
    BY <2>4, <2>5, <2>6
<1>9. ASSUME NEW x \in S, x \notin R
      PROVE  Count(nodeCount, x[1]) = 0 \/ ~ Refers(In(x), type)
  <2> SUFFICES ASSUME Count(nodeCount, x[1]) # 0, Refers(In(x), type)
               PROVE  x \in R
    BY <1>9
  <2> DEFINE y == x[1]
  <2>1. y \in Places(program, contexts) /\ x = <<y, x[2]>> /\ x[2] \in DOMAIN Instructions(y[1], y[2])
    BY <1>3, <1>4
  <2>2. Count(nodeCount, y) \in Nat
    BY DEF Accounted, Numbers
  <2>3. Count(nodeCount, y) > 0
    <3> HIDE DEF y
    <3>1. Count(nodeCount, y) # 0
      BY DEF y
    <3>2. QED
      BY <2>2, <3>1
  <2>4. y \in ContextualNodes /\ n_(y[1], y[2]) > 0
    BY <1>2, <1>5, <2>1, <2>3
  <2>5. Loading(x)
    BY <1>7 DEF Refers
  <2> HIDE DEF y
  <2>6. x \in Of(y)
    BY <2>1
  <2> HIDE DEF R, Of, Loading
  <2>7. QED
    BY <1>6, <2>4, <2>5, <2>6
<1>10. IsFiniteSet(R)
  <2>1. R \in SUBSET S
    BY <1>8
  <2> HIDE DEF R, S
  <2>2. QED
    BY <1>3, <2>1, FS_Subset
<1>11. QED
  BY <1>7, <1>8, <1>9, <1>10

LEMMA EndStatistics ==
  ASSUME IInv, Execution, phase # "calls", NEW w,
         Accounted(program, contexts, nodeCount, missed, uses, w), NEW type \in Types, NEW l \in 1 .. NbLevels
  PROVE  /\ uses[<<type, l>>].references <= PerformStatistics(type, l).references
         /\ uses[<<type, l>>].misses <= PerformStatistics(type, l).misses
<1> DEFINE S == Sites(program, contexts)
           R == Referring(type)
           f(j) == Passed(program, contexts, w, type, j)
           g == Occurrences(type, l)
           h == Missing(type, l)
           In(x) == Instr(program, contexts, x)
<1>1. ContextTree(program, contexts, explored)
  BY RootFacts DEF Execution, Tree_
<1>2. /\ IsFiniteSet(R) /\ R \in SUBSET S
      /\ \A x \in R :
           /\ Instructions(x[1][1], x[1][2])[x[2]] = In(x)
           /\ n_(x[1][1], x[1][2]) = Count(nodeCount, x[1])
           /\ Refers(In(x), type)
      /\ \A x \in S : x \notin R => Count(nodeCount, x[1]) = 0 \/ ~ Refers(In(x), type)
  BY ReferringSites
<1>3. IsFiniteSet(S)
  BY <1>1, SitesFacts
<1>4. l \in 0 .. NbLevels /\ l - 1 \in 0 .. NbLevels
  BY LatenciesAssumption
<1>5. \A x \in S, j \in 0 .. NbLevels : f(j)[x] = w[<<x, type, j>>] /\ f(j)[x] \in Nat
  BY DEF Passed, Accounted, Counts
<1>6. ASSUME NEW j \in 0 .. NbLevels
      PROVE  /\ \A x \in S : f(j)[x] \in Int
             /\ \A x \in S \ R : f(j)[x] = 0
  <2>1. ASSUME NEW x \in S \ R
        PROVE  f(j)[x] = 0
    <3>1. x \in S /\ (Count(nodeCount, x[1]) = 0 \/ ~ Refers(In(x), type))
      BY <1>2
    <3>2. w[<<x, type, j>>] = 0
      BY <1>1, <3>1, PassedNarrow
    <3> HIDE DEF f
    <3>3. QED
      BY <1>5, <3>1, <3>2
  <2>2. \A x \in S : f(j)[x] \in Int
    <3>1. ASSUME NEW x \in S
          PROVE  f(j)[x] \in Int
      <4> DEFINE v == f(j)[x]
      <4>1. v \in Nat
        BY <1>5
      <4> HIDE DEF v
      <4>2. v \in Int
        BY <4>1
      <4>3. QED
        BY <4>2 DEF v
    <3>2. QED
      BY <3>1
  <2> HIDE DEF f
  <2>3. QED
    BY <2>1, <2>2
<1>7. ASSUME NEW x \in R
      PROVE  /\ f(l - 1)[x] <= g[x] /\ g[x] \in Nat
             /\ f(l)[x] <= h[x] /\ h[x] \in Nat
  <2> DEFINE n == Count(nodeCount, x[1])
             v == PassedAt(w, x, type)
  <2>1. x \in S /\ Refers(In(x), type)
    BY <1>2
  <2>2. n \in Nat /\ Leveled(In(x), type) /\ Narrows(v, In(x), type, n)
    BY <1>1, <2>1, PassedNarrow
  <2>3. g[x] = getOccurrencesCount(n, In(x), type, l) /\ h[x] = MissesCount(n, In(x), type, l)
    BY <1>2 DEF Occurrences, Missing
  <2>4. f(l - 1)[x] = v[l - 1] /\ f(l)[x] = v[l]
    BY <1>4, <1>5, <2>1 DEF PassedAt
  <2> HIDE DEF f, g, h, n, v, In
  <2>5. /\ getOccurrencesCount(n, In(x), type, l) \in Nat
        /\ MissesCount(n, In(x), type, l) \in Nat
        /\ v[l - 1] <= getOccurrencesCount(n, In(x), type, l)
        /\ v[l] <= MissesCount(n, In(x), type, l)
    BY <2>2, CountsBound
  <2>6. QED
    BY <2>3, <2>4, <2>5
<1>8. /\ uses[<<type, l>>].references = Total(S, f(l - 1))
      /\ uses[<<type, l>>].misses = Total(S, f(l))
  BY DEF Accounted
<1>9. /\ PerformStatistics(type, l).references = Total(R, g)
      /\ PerformStatistics(type, l).misses = Total(R, h)
  BY <1>2, StatisticsTotal
<1> HIDE DEF S, R, g, h
<1>10. ASSUME NEW j \in 0 .. NbLevels
       PROVE  Total(S, f(j)) = Total(R, f(j))
  <2> DEFINE F == f(j)
  <2>1. (\A x \in S : F[x] \in Int) /\ \A x \in S \ R : F[x] = 0
    BY <1>6
  <2> HIDE DEF F, f
  <2>2. Total(S, F) = Total(R, F)
    BY <1>2, <1>3, <2>1, TotalSupport
  <2>3. QED
    BY <2>2 DEF F
<1>11. ASSUME NEW j \in 0 .. NbLevels, NEW e, \A x \in R : f(j)[x] <= e[x] /\ e[x] \in Nat
       PROVE  Total(R, f(j)) <= Total(R, e)
  <2> DEFINE F == f(j)
  <2>1. \A x \in R : F[x] \in Int /\ e[x] \in Int /\ F[x] <= e[x]
    BY <1>2, <1>6, <1>11
  <2> HIDE DEF F, f
  <2>2. Total(R, F) <= Total(R, e)
    BY <1>2, <2>1, TotalTerms
  <2>3. QED
    BY <2>2 DEF F
<1> HIDE DEF f
<1>12. Total(R, f(l - 1)) <= Total(R, g) /\ Total(R, f(l)) <= Total(R, h)
  BY <1>4, <1>7, <1>11
<1>13. QED
  BY <1>4, <1>8, <1>9, <1>10, <1>12

(* The references to each cache and its misses, in any execution, are at   *)
(* most what the statistics count for the frequencies of that execution,   *)
(* whatever its graphs, its calls and its annotations, the levels of the   *)
(* caches and their latencies, and whatever the caches answer within their *)
(* classifications.                                                        *)
THEOREM StatisticsAreBounds == Spec => []StatisticsBound
<1>1. IPETInit => Execution /\ Account
  BY AccountStarts, ExecutionStarts
<1>2. Execution /\ Account /\ [IPETNext]_vars => (Execution /\ Account)'
  BY ExecutionKept, AccountKept
<1>3. IInv /\ Execution /\ Account => StatisticsBound
  <2>1. SUFFICES ASSUME IInv, Execution, Account, phase = "done", NEW type \in Types, NEW l \in 1 .. NbLevels
                 PROVE  /\ uses[<<type, l>>].references <= PerformStatistics(type, l).references
                        /\ uses[<<type, l>>].misses <= PerformStatistics(type, l).misses
    BY DEF StatisticsBound, Types
  <2>2. PICK w : Accounted(program, contexts, nodeCount, missed, uses, w)
    BY <2>1 DEF Account, Accounts
  <2>3. QED
    BY <2>1, <2>2, EndStatistics
<1>4. QED
  BY <1>1, <1>2, <1>3, Invariance, PTL DEF Spec

-----------------------------------------------------------------------------
(* What n executions take, the first one and the next ones.                *)
Cost(n, first, next) == Lesser(n, 1) * first + (n - Lesser(n, 1)) * next

LEMMA CostTerms ==
  ASSUME NEW n \in Nat, NEW a \in Nat, NEW b \in Nat
  PROVE  /\ Cost(n, a, b) \in Nat
         /\ Cost(n, a, a) = n * a /\ n * a \in Nat
         /\ n = 0 => Cost(n, a, b) = 0
         /\ n # 0 => Cost(n, a, 0) = a
<1>1. CASE n = 0
  <2>1. Lesser(n, 1) = 0 /\ n - Lesser(n, 1) = 0
    BY <1>1 DEF Lesser
  <2>2. \A i, j : Cost(n, i, j) = 0 * i + 0 * j
    BY <2>1 DEF Cost
  <2>3. \A i, j \in Nat : Cost(n, i, j) = 0
    BY <2>2
  <2>4. QED
    BY <1>1, <2>3
<1>2. CASE n # 0
  <2> DEFINE m == n - 1
  <2>1. Lesser(n, 1) = 1 /\ n - Lesser(n, 1) = m /\ m \in Nat /\ n = m + 1
    BY <1>2 DEF Lesser
  <2> HIDE DEF m
  <2>2. \A i, j : Cost(n, i, j) = 1 * i + m * j
    BY <2>1 DEF Cost
  <2>3. m * b \in Nat /\ m * 0 = 0 /\ n * a = m * a + a /\ m * a \in Nat
    BY <2>1
  <2>4. Cost(n, a, b) = a + m * b /\ Cost(n, a, a) = a + m * a /\ Cost(n, a, 0) = a + m * 0
    BY <2>2
  <2>5. QED
    BY <1>2, <2>3, <2>4
<1>3. QED
  BY <1>1, <1>2

LEMMA CostAdds ==
  ASSUME NEW n \in Nat, NEW a \in Nat, NEW b \in Nat, NEW c \in Nat, NEW d \in Nat
  PROVE  Cost(n, a + c, b + d) = Cost(n, a, b) + Cost(n, c, d)
<1> DEFINE i == Lesser(n, 1)
           j == n - i
<1>1. i \in Nat /\ j \in Nat
  BY DEF Lesser
<1>2. \A k, m : Cost(n, k, m) = i * k + j * m
  BY DEF Cost
<1> HIDE DEF i, j
<1>3. i * (a + c) = i * a + i * c /\ j * (b + d) = j * b + j * d
  BY <1>1
<1>4. i * a \in Nat /\ i * c \in Nat /\ j * b \in Nat /\ j * d \in Nat
  BY <1>1
<1>5. QED
  BY <1>2, <1>3, <1>4

(* A latency that is paid a times at first and b times at each next one.   *)
LEMMA CostLatency ==
  ASSUME NEW n \in Nat, NEW a \in Nat, NEW b \in {0, 1}, NEW c \in Nat, NEW v \in Nat, v <= Cost(n, a, b)
  PROVE  /\ c * a \in Nat /\ c * b \in Nat /\ c * v \in Nat
         /\ c * v <= Cost(n, c * a, c * b)
<1>1. c * a \in Nat /\ c * b \in Nat /\ c * v \in Nat /\ b \in Nat
  OBVIOUS
<1>2. CASE n = 0
  <2>1. Cost(n, a, b) = 0 /\ Cost(n, c * a, c * b) = 0
    <3>1. \A i, j \in Nat : Cost(n, i, j) = 0
      BY <1>2, CostTerms
    <3>2. QED
      BY <1>1, <3>1, Zenon
  <2>2. v = 0
    BY <2>1
  <2>3. c * v = 0
    BY <2>2
  <2>4. QED
    BY <1>1, <2>1, <2>3
<1>3. CASE n # 0
  <2> DEFINE m == n - 1
             K == a + m * b
  <2>1. Lesser(n, 1) = 1 /\ n - Lesser(n, 1) = m /\ m \in Nat
    BY <1>3 DEF Lesser
  <2> HIDE DEF m
  <2>2. Cost(n, a, b) = 1 * a + m * b /\ Cost(n, c * a, c * b) = 1 * (c * a) + m * (c * b)
    BY <2>1 DEF Cost
  <2>3. m * b \in Nat /\ m * (c * b) = c * (m * b)
    <3>1. CASE b = 0
      BY <2>1, <3>1
    <3>2. CASE b = 1
      BY <2>1, <3>2
    <3>3. QED
      BY <3>1, <3>2
  <2>4. K \in Nat /\ v <= K /\ c * K = c * a + c * (m * b)
    BY <2>2, <2>3
  <2> HIDE DEF K
  <2>5. c * v <= c * K
    BY <2>4
  <2>6. Cost(n, c * a, c * b) = c * K
    BY <1>1, <2>2, <2>3, <2>4
  <2>7. QED
    BY <1>1, <2>5, <2>6
<1>4. QED
  BY <1>2, <1>3

-----------------------------------------------------------------------------
(* The times of the levels, first[l] and next[l] those of the first l ones:*)
(* an execution pays the latency of the next one a[l] times if it is the   *)
(* first and b[l] times if it is not, and the memory A and B times.        *)
PaysFor(n, latency, f, first, next, a, b, A, B) ==
  /\ first \in [0 .. NbLevels -> Nat] /\ next \in [0 .. NbLevels -> Nat]
  /\ a \in [0 .. NbLevels -> Nat] /\ b \in [0 .. NbLevels -> {0, 1}] /\ A \in Nat /\ B \in {0, 1}
  /\ f \in [0 .. NbLevels -> Nat]
  /\ first[0] = 0 /\ next[0] = 0
  /\ \A l \in 1 .. NbLevels :
       /\ first[l] = first[l - 1] + latency[l] * a[l - 1]
                     + (IF l = NbLevels THEN MemoryLoadLatency * A ELSE 0)
       /\ next[l] = next[l - 1] + latency[l] * b[l - 1]
                    + (IF l = NbLevels THEN MemoryLoadLatency * B ELSE 0)
       /\ f[l - 1] <= Cost(n, a[l - 1], b[l - 1])
  /\ f[NbLevels] <= Cost(n, A, B)

LEMMA PaysEnough ==
  ASSUME NEW n \in Nat, NEW latency \in Latencies, NEW f, NEW first, NEW next, NEW a, NEW b, NEW A, NEW B,
         PaysFor(n, latency, f, first, next, a, b, A, B)
  PROVE  Total(1 .. NbLevels, [l \in 1 .. NbLevels |-> latency[l] * f[l - 1]]) + MemoryLoadLatency * f[NbLevels]
           <= Cost(n, first[NbLevels], next[NbLevels])
<1> DEFINE M == MemoryLoadLatency
           h == [l \in 1 .. NbLevels |-> latency[l] * f[l - 1]]
           Q == {l \in Nat : l < NbLevels => Total(1 .. l, h) <= Cost(n, first[l], next[l])}
<1>1. NbLevels \in Nat \ {0} /\ M \in Nat
  BY LatenciesAssumption
<1>2. /\ first \in [0 .. NbLevels -> Nat] /\ next \in [0 .. NbLevels -> Nat]
      /\ a \in [0 .. NbLevels -> Nat] /\ b \in [0 .. NbLevels -> {0, 1}] /\ A \in Nat /\ B \in {0, 1}
      /\ f \in [0 .. NbLevels -> Nat] /\ first[0] = 0 /\ next[0] = 0 /\ f[NbLevels] <= Cost(n, A, B)
  BY DEF PaysFor
<1>3. ASSUME NEW l \in 1 .. NbLevels
      PROVE  LET c == latency[l]
                 i == a[l - 1]
                 j == b[l - 1]
             IN  /\ c * i \in Nat /\ c * j \in Nat /\ h[l] \in Nat
                 /\ h[l] <= Cost(n, c * i, c * j)
                 /\ first[l - 1] \in Nat /\ next[l - 1] \in Nat
                 /\ first[l] = first[l - 1] + c * i + (IF l = NbLevels THEN M * A ELSE 0)
                 /\ next[l] = next[l - 1] + c * j + (IF l = NbLevels THEN M * B ELSE 0)
  <2> DEFINE c == latency[l]
             i == a[l - 1]
             j == b[l - 1]
             v == f[l - 1]
  <2>1. l - 1 \in 0 .. NbLevels
    BY <1>1
  <2>2. c \in Nat /\ i \in Nat /\ j \in {0, 1} /\ v \in Nat /\ first[l - 1] \in Nat /\ next[l - 1] \in Nat
    BY <1>2, <2>1 DEF Latencies
  <2>3. v <= Cost(n, i, j)
    BY DEF PaysFor
  <2>4. h[l] = c * v
    OBVIOUS
  <2>5. /\ first[l] = first[l - 1] + c * i + (IF l = NbLevels THEN M * A ELSE 0)
        /\ next[l] = next[l - 1] + c * j + (IF l = NbLevels THEN M * B ELSE 0)
    BY DEF PaysFor
  <2> HIDE DEF c, i, j, v, h, M
  <2>6. c * i \in Nat /\ c * j \in Nat /\ c * v \in Nat /\ c * v <= Cost(n, c * i, c * j)
    BY <2>2, <2>3, CostLatency
  <2>7. QED
    BY <2>2, <2>4, <2>5, <2>6 DEF c, i, j
<1>4. ASSUME NEW k \in Nat, k + 1 <= NbLevels, Total(1 .. k, h) <= Cost(n, first[k], next[k])
      PROVE  LET c == latency[k + 1]
             IN  /\ first[k] \in Nat /\ next[k] \in Nat /\ c * a[k] \in Nat /\ c * b[k] \in Nat
                 /\ first[k + 1] = first[k] + c * a[k] + (IF k + 1 = NbLevels THEN M * A ELSE 0)
                 /\ next[k + 1] = next[k] + c * b[k] + (IF k + 1 = NbLevels THEN M * B ELSE 0)
                 /\ Total(1 .. k + 1, h) <= Cost(n, first[k] + c * a[k], next[k] + c * b[k])
                 /\ Total(1 .. k + 1, h) \in Nat
  <2> DEFINE l == k + 1
             c == latency[l]
             i == a[k]
             j == b[k]
             F == first[k]
             N == next[k]
             T == Total(1 .. k, h)
  <2>1. l \in 1 .. NbLevels /\ l - 1 = k
    BY <1>1, <1>4
  <2>2. /\ c * i \in Nat /\ c * j \in Nat /\ h[l] \in Nat
        /\ h[l] <= Cost(n, c * i, c * j)
        /\ F \in Nat /\ N \in Nat
        /\ first[l] = F + c * i + (IF l = NbLevels THEN M * A ELSE 0)
        /\ next[l] = N + c * j + (IF l = NbLevels THEN M * B ELSE 0)
    <3> HIDE DEF h, M
    <3>1. QED
      BY <1>3, <2>1
  <2>3. \A y \in 1 .. k + 1 : h[y] \in Nat /\ h[y] \in Int
    <3>1. \A y \in 1 .. k + 1 : y \in 1 .. NbLevels
      BY <1>1, <1>4
    <3>2. \A y \in 1 .. k + 1 : h[y] \in Nat
      <4> HIDE DEF h
      <4>1. QED
        BY <1>3, <3>1
    <3> HIDE DEF h
    <3>3. QED
      BY <3>2
  <2>4. Total(1 .. k + 1, h) = T + h[k + 1]
    <3> HIDE DEF h
    <3>1. QED
      BY <2>3, TotalUpto
  <2>5. T \in Nat
    <3> DEFINE S == 1 .. k
    <3>1. IsFiniteSet(S)
      BY FS_Interval
    <3>2. \A y \in S : h[y] \in Nat
      BY <2>3
    <3> HIDE DEF S, h
    <3>3. Total(S, h) \in Nat
      BY <3>1, <3>2, TotalType
    <3>4. QED
      BY <3>3 DEF S
  <2>6. /\ Cost(n, F + c * i, N + c * j) = Cost(n, F, N) + Cost(n, c * i, c * j)
        /\ Cost(n, F, N) \in Nat /\ Cost(n, c * i, c * j) \in Nat
    <3> DEFINE ci == c * i
               cj == c * j
    <3>1. ci \in Nat /\ cj \in Nat /\ F \in Nat /\ N \in Nat
      BY <2>2
    <3> HIDE DEF ci, cj, F, N
    <3>2. Cost(n, F + ci, N + cj) = Cost(n, F, N) + Cost(n, ci, cj)
      BY <3>1, CostAdds
    <3>3. Cost(n, F, N) \in Nat /\ Cost(n, ci, cj) \in Nat
      BY <3>1, CostTerms
    <3>4. QED
      BY <3>2, <3>3 DEF ci, cj
  <2>7. T <= Cost(n, F, N)
    BY <1>4
  <2> HIDE DEF c, i, j, F, N, T, h, M
  <2>8. Total(1 .. k + 1, h) <= Cost(n, F + c * i, N + c * j) /\ Total(1 .. k + 1, h) \in Nat
    BY <2>2, <2>4, <2>5, <2>6, <2>7
  <2>9. QED
    BY <2>2, <2>8 DEF c, i, j, F, N
<1>5. Total(1 .. 0, h) <= Cost(n, first[0], next[0])
  <2>1. Total(1 .. 0, h) = 0
    <3>1. 1 .. 0 = {} /\ IsFiniteSet({})
      BY FS_EmptySet
    <3> HIDE DEF h
    <3>2. Total({}, h) = 0
      BY <3>1, TotalUnfold
    <3>3. QED
      BY <3>1, <3>2
  <2>2. Cost(n, 0, 0) \in Nat
    BY CostTerms
  <2> HIDE DEF h
  <2>3. QED
    BY <1>2, <2>1, <2>2
<1>6. 0 \in Q
  BY <1>5
<1>7. ASSUME NEW k \in Nat, k \in Q
      PROVE  k + 1 \in Q
  <2> SUFFICES ASSUME k + 1 < NbLevels
               PROVE  Total(1 .. k + 1, h) <= Cost(n, first[k + 1], next[k + 1])
    OBVIOUS
  <2> DEFINE x == latency[k + 1] * a[k]
             y == latency[k + 1] * b[k]
  <2> HIDE DEF h, M
  <2>1. k < NbLevels /\ k + 1 <= NbLevels /\ k + 1 # NbLevels
    BY <1>1
  <2>2. Total(1 .. k, h) <= Cost(n, first[k], next[k])
    BY <1>7, <2>1
  <2>3. /\ first[k] \in Nat /\ next[k] \in Nat /\ x \in Nat /\ y \in Nat
        /\ first[k + 1] = first[k] + x + (IF k + 1 = NbLevels THEN M * A ELSE 0)
        /\ next[k + 1] = next[k] + y + (IF k + 1 = NbLevels THEN M * B ELSE 0)
        /\ Total(1 .. k + 1, h) <= Cost(n, first[k] + x, next[k] + y)
    BY <1>4, <2>1, <2>2
  <2> HIDE DEF x, y
  <2>4. first[k + 1] = first[k] + x /\ next[k + 1] = next[k] + y
    BY <2>1, <2>3
  <2>5. QED
    BY <2>3, <2>4
<1>8. Nat \subseteq Q
  <2> HIDE DEF Q
  <2>1. QED
    BY <1>6, <1>7, Induction
<1>9. Total(1 .. NbLevels, h) + M * f[NbLevels] <= Cost(n, first[NbLevels], next[NbLevels])
  <2> DEFINE k == NbLevels - 1
             F == first[k] + latency[k + 1] * a[k]
             N == next[k] + latency[k + 1] * b[k]
             g == f[NbLevels]
  <2>1. k \in Nat /\ k < NbLevels /\ k + 1 = NbLevels
    BY <1>1
  <2>2. Total(1 .. k, h) <= Cost(n, first[k], next[k])
    BY <1>8, <2>1
  <2> HIDE DEF k, h, M
  <2>3. /\ first[k] \in Nat /\ next[k] \in Nat /\ latency[k + 1] * a[k] \in Nat /\ latency[k + 1] * b[k] \in Nat
        /\ first[k + 1] = F + (IF k + 1 = NbLevels THEN M * A ELSE 0)
        /\ next[k + 1] = N + (IF k + 1 = NbLevels THEN M * B ELSE 0)
        /\ Total(1 .. k + 1, h) <= Cost(n, F, N)
        /\ Total(1 .. k + 1, h) \in Nat
    BY <1>1, <1>4, <2>1, <2>2
  <2>4. F \in Nat /\ N \in Nat
    BY <2>3
  <2>5. g \in Nat /\ g <= Cost(n, A, B)
    BY <1>1, <1>2
  <2>6. first[NbLevels] = F + M * A /\ next[NbLevels] = N + M * B /\ Total(1 .. NbLevels, h) <= Cost(n, F, N)
        /\ Total(1 .. NbLevels, h) \in Nat
    BY <2>1, <2>3
  <2> HIDE DEF F, N, g
  <2>7. /\ M * A \in Nat /\ M * B \in Nat /\ M * g \in Nat
        /\ M * g <= Cost(n, M * A, M * B)
    BY <1>1, <1>2, <2>5, CostLatency
  <2> DEFINE MA == M * A
             MB == M * B
             Mg == M * g
  <2>8. MA \in Nat /\ MB \in Nat /\ Mg \in Nat /\ Mg <= Cost(n, MA, MB)
        /\ first[NbLevels] = F + MA /\ next[NbLevels] = N + MB
    BY <2>6, <2>7
  <2> HIDE DEF MA, MB, Mg
  <2>9. Cost(n, F + MA, N + MB) = Cost(n, F, N) + Cost(n, MA, MB)
    BY <2>4, <2>8, CostAdds
  <2>10. Cost(n, F, N) \in Nat /\ Cost(n, MA, MB) \in Nat
    BY <2>4, <2>8, CostTerms
  <2>11. Total(1 .. NbLevels, h) + Mg <= Cost(n, F + MA, N + MB)
    BY <2>6, <2>8, <2>10, <2>9
  <2>12. QED
    BY <2>8, <2>11 DEF Mg, g
<1>10. QED
  BY <1>9

-----------------------------------------------------------------------------
(* The time of the fetch of an instruction.                                *)
FetchStates == [first : Nat, next : Nat, countFirst : BOOLEAN, countNext : BOOLEAN]
FetchStart == [first |-> 0, next |-> 0, countFirst |-> TRUE, countNext |-> TRUE]
FetchLevels(code) ==
  [z \in (1 .. NbLevels) \X FetchStates |-> InstructionCacheLevel(code, z[2], z[1])]

LEMMA OneTimes ==
  ASSUME NEW c \in Nat, NEW b \in BOOLEAN
  PROVE  c * One(b) = (IF b THEN c ELSE 0) /\ c * One(b) \in Nat /\ One(b) \in {0, 1}
<1>1. CASE b = TRUE
  BY <1>1 DEF One
<1>2. CASE b = FALSE
  BY <1>2 DEF One
<1>3. QED
  BY <1>1, <1>2

LEMMA FetchLevel ==
  ASSUME NEW code, NEW t \in FetchStates, NEW l \in 1 .. NbLevels
  PROVE  LET u == InstructionCacheLevel(code, t, l)
             c == levelAccessCostInstr[l]
             missing == code[l] \in {"AM", "NC"}
         IN  /\ u \in FetchStates
             /\ u.first = t.first + c * One(t.countFirst)
                          + (IF l = NbLevels
                             THEN MemoryLoadLatency * One(t.countFirst /\ (missing \/ code[l] = "FM")) ELSE 0)
             /\ u.next = t.next + c * One(t.countNext)
                         + (IF l = NbLevels THEN MemoryLoadLatency * One(t.countNext /\ missing) ELSE 0)
             /\ u.countFirst = (t.countFirst /\ code[l] # "AH")
             /\ u.countNext = (t.countNext /\ code[l] \notin {"AH", "FM"})
<1> DEFINE u == InstructionCacheLevel(code, t, l)
           c == levelAccessCostInstr[l]
           M == MemoryLoadLatency
           missing == code[l] \in {"AM", "NC"}
           cF == t.countFirst
           cN == t.countNext
           mF == l = NbLevels /\ (missing \/ code[l] = "FM")
           mN == l = NbLevels /\ missing
           addF == IF cF THEN c + (IF mF THEN M ELSE 0) ELSE 0
           addN == IF cN THEN c + (IF mN THEN M ELSE 0) ELSE 0
           kF == cF /\ code[l] # "AH"
           kN == cN /\ code[l] \notin {"AH", "FM"}
<1>1. c \in Nat /\ M \in Nat
  BY LatenciesAssumption
<1>2. /\ t = [first |-> t.first, next |-> t.next, countFirst |-> cF, countNext |-> cN]
      /\ t.first \in Nat /\ t.next \in Nat /\ cF \in BOOLEAN /\ cN \in BOOLEAN
  BY DEF FetchStates
<1>3. u = [first |-> t.first + addF, next |-> t.next + addN, countFirst |-> kF, countNext |-> kN]
  <2>1. u = [t EXCEPT !.first = @ + addF, !.next = @ + addN, !.countFirst = kF, !.countNext = kN]
    BY DEF InstructionCacheLevel
  <2> HIDE DEF u, addF, addN, kF, kN, cF, cN
  <2>2. QED
    BY <1>2, <2>1
<1>4. /\ addF = c * One(cF) + (IF l = NbLevels THEN M * One(cF /\ (missing \/ code[l] = "FM")) ELSE 0)
      /\ addN = c * One(cN) + (IF l = NbLevels THEN M * One(cN /\ missing) ELSE 0)
      /\ addF \in Nat /\ addN \in Nat
  <2> DEFINE bF == cF /\ (missing \/ code[l] = "FM")
             bN == cN /\ missing
  <2>1. bF \in BOOLEAN /\ bN \in BOOLEAN
    BY <1>2
  <2>2. /\ addF = (IF cF THEN c ELSE 0) + (IF l = NbLevels THEN IF bF THEN M ELSE 0 ELSE 0)
        /\ addN = (IF cN THEN c ELSE 0) + (IF l = NbLevels THEN IF bN THEN M ELSE 0 ELSE 0)
        /\ addF \in Nat /\ addN \in Nat
    BY <1>1
  <2> HIDE DEF addF, addN, bF, bN, cF, cN, c, M
  <2>3. /\ c * One(cF) = (IF cF THEN c ELSE 0) /\ c * One(cN) = (IF cN THEN c ELSE 0)
        /\ M * One(bF) = (IF bF THEN M ELSE 0) /\ M * One(bN) = (IF bN THEN M ELSE 0)
    BY <1>1, <1>2, <2>1, OneTimes
  <2>4. /\ addF = c * One(cF) + (IF l = NbLevels THEN M * One(bF) ELSE 0)
        /\ addN = c * One(cN) + (IF l = NbLevels THEN M * One(bN) ELSE 0)
    BY <2>2, <2>3
  <2>5. QED
    BY <2>2, <2>4 DEF bF, bN
<1>5. kF \in BOOLEAN /\ kN \in BOOLEAN
  BY <1>2
<1> HIDE DEF u, addF, addN, kF, kN
<1>6. /\ u.first = t.first + addF /\ u.next = t.next + addN /\ u.countFirst = kF /\ u.countNext = kN
      /\ u \in FetchStates
  BY <1>2, <1>3, <1>4, <1>5 DEF FetchStates
<1> DEFINE aF == c * One(cF)
           aN == c * One(cN)
           eF == IF l = NbLevels THEN M * One(cF /\ (missing \/ code[l] = "FM")) ELSE 0
           eN == IF l = NbLevels THEN M * One(cN /\ missing) ELSE 0
<1>7. aF \in Nat /\ aN \in Nat /\ eF \in Nat /\ eN \in Nat /\ addF = aF + eF /\ addN = aN + eN
  <2> DEFINE bF == cF /\ (missing \/ code[l] = "FM")
             bN == cN /\ missing
  <2>1. bF \in BOOLEAN /\ bN \in BOOLEAN
    BY <1>2
  <2>2. eF = (IF l = NbLevels THEN M * One(bF) ELSE 0) /\ eN = (IF l = NbLevels THEN M * One(bN) ELSE 0)
    OBVIOUS
  <2>3. addF = aF + eF /\ addN = aN + eN
    BY <1>4
  <2> HIDE DEF bF, bN, cF, cN, c, M, eF, eN
  <2>4. c * One(cF) \in Nat /\ c * One(cN) \in Nat /\ M * One(bF) \in Nat /\ M * One(bN) \in Nat
    BY <1>1, <1>2, <2>1, OneTimes
  <2>5. QED
    BY <2>2, <2>3, <2>4
<1> HIDE DEF aF, aN, eF, eN
<1>8. u.first = t.first + aF + eF /\ u.next = t.next + aN + eN
  BY <1>2, <1>6, <1>7
<1>9. QED
  BY <1>6, <1>8 DEF aF, aN, eF, eN, u, kF, kN

LEMMA FetchUnfold ==
  ASSUME NEW ins
  PROVE  \E v : Stages(v, NbLevels, FetchStates, FetchStart, FetchLevels(ins.code)) /\ FetchTime(ins) = v[NbLevels]
<1> DEFINE V == FetchStates
           b == FetchStart
           g == FetchLevels(ins.code)
           D == DOMAIN Levels
           Iter(w) == w = [s \in SUBSET D |->
                             IF s = {} THEN b ELSE InstructionCacheLevel(ins.code, w[s \ {Max(s)}], Levels[Max(s)])]
           iter == CHOOSE w : Iter(w)
<1>1. NbLevels \in Nat /\ D = 1 .. NbLevels /\ \A l \in 1 .. NbLevels : Levels[l] = l
  BY LatenciesAssumption DEF Levels
<1>2. FetchTime(ins) = iter[D]
  BY DEF FetchTime, FoldLeft, MapThenFoldSet, FetchStart
<1>3. b \in V
  BY DEF FetchStart, FetchStates
<1>4. \A l \in 1 .. NbLevels : \A t \in V : g[<<l, t>>] = InstructionCacheLevel(ins.code, t, l)
  BY DEF FetchLevels
<1> HIDE DEF V, b, g
<1>5. Stepwise(NbLevels, V, g)
  <2>1. \A l \in 1 .. NbLevels : \A t \in V : InstructionCacheLevel(ins.code, t, l) \in V
    BY FetchLevel DEF V
  <2>2. QED
    BY <1>4, <2>1 DEF Stepwise
<1>6. PICK w \in [SUBSET (1 .. NbLevels) -> V] : IsFold(w, 1 .. NbLevels, Largest(NbLevels), b, g)
  BY <1>1, <1>3, <1>5, UptoFoldExists
<1>7. Iter(w)
  <2>1. ASSUME NEW s \in SUBSET (1 .. NbLevels)
        PROVE  w[s] = IF s = {} THEN b ELSE InstructionCacheLevel(ins.code, w[s \ {Max(s)}], Levels[Max(s)])
    <3>1. w[s] = IF s = {} THEN b ELSE g[<<Largest(NbLevels)[s], w[s \ {Largest(NbLevels)[s]}]>>]
      BY <1>6 DEF IsFold
    <3>2. Largest(NbLevels)[s] = Max(s) /\ w[s \ {Max(s)}] \in V
      BY <1>6 DEF Largest
    <3>3. s # {} => Max(s) \in 1 .. NbLevels
      BY <1>1, LargestOf
    <3>4. s # {} => g[<<Max(s), w[s \ {Max(s)}]>>] = InstructionCacheLevel(ins.code, w[s \ {Max(s)}], Levels[Max(s)])
      BY <1>1, <1>4, <3>2, <3>3
    <3>5. QED
      BY <3>1, <3>2, <3>4
  <2>2. w = [s \in SUBSET (1 .. NbLevels) |-> w[s]]
    BY <1>6
  <2>3. QED
    BY <1>1, <2>1, <2>2
<1>8. Iter(iter)
  <2> HIDE DEF Iter
  <2>1. QED
    BY <1>7, Zenon
<1> HIDE DEF iter
<1>9. Follows(iter, NbLevels, V, b, g)
  <2> SUFFICES ASSUME NEW s \in SUBSET (1 .. NbLevels)
               PROVE  /\ s = {} => iter[s] = b
                      /\ s # {} /\ iter[s \ {Max(s)}] \in V => iter[s] = g[<<Max(s), iter[s \ {Max(s)}]>>]
    BY DEF Follows
  <2>1. iter[s] = IF s = {} THEN b ELSE InstructionCacheLevel(ins.code, iter[s \ {Max(s)}], Levels[Max(s)])
    BY <1>1, <1>8
  <2>2. s # {} => Max(s) \in 1 .. NbLevels
    BY <1>1, LargestOf
  <2>3. QED
    BY <1>1, <1>4, <2>1, <2>2
<1> HIDE DEF Iter, D
<1>10. \E v : Stages(v, NbLevels, V, b, g) /\ iter[1 .. NbLevels] = v[NbLevels]
  BY <1>1, <1>3, <1>5, <1>9, FoldStages
<1>11. QED
  BY <1>1, <1>2, <1>10 DEF V, b, g

LEMMA CodePasses ==
  ASSUME NEW n \in Nat, NEW a \in {0, 1}, NEW b \in {0, 1}, b <= a, NEW v \in Nat, v <= Cost(n, a, b),
         NEW k \in Nat, k <= v
  PROVE  k <= 1 => k <= Cost(n, a, 0)
<1>1. a \in Nat /\ b \in Nat
  OBVIOUS
<1>2. CASE n = 0
  <2>1. \A i, j \in Nat : Cost(n, i, j) = 0
    BY <1>2, CostTerms
  <2>2. Cost(n, a, b) = 0 /\ Cost(n, a, 0) = 0
    BY <1>1, <2>1
  <2>3. QED
    BY <2>2
<1>3. CASE n # 0
  <2>1. \A i \in Nat : Cost(n, i, 0) = i
    BY <1>3, CostTerms
  <2>2. Cost(n, a, 0) = a
    BY <1>1, <2>1
  <2>3. CASE a = 0
    <3>1. b = 0
      BY <1>1, <2>3
    <3>2. Cost(n, a, b) = 0
      BY <2>2, <2>3, <3>1
    <3>3. QED
      BY <2>2, <2>3, <3>2
  <2>4. CASE a = 1
    BY <2>2, <2>4
  <2>5. QED
    BY <2>3, <2>4
<1>4. QED
  BY <1>2, <1>3

LEMMA FetchPays ==
  ASSUME NEW ins, Leveled(ins, "code"), NEW n \in Nat, NEW f, Narrows(f, ins, "code", n)
  PROVE  LET t == FetchTime(ins)
         IN  /\ t.first \in Nat /\ t.next \in Nat
             /\ Total(1 .. NbLevels, [l \in 1 .. NbLevels |-> levelAccessCostInstr[l] * f[l - 1]])
                  + MemoryLoadLatency * f[NbLevels] <= Cost(n, t.first, t.next)
<1> DEFINE N == NbLevels
           code == ins.code
<1>1. N \in Nat \ {0} /\ levelAccessCostInstr \in Latencies
  BY LatenciesAssumption DEF Latencies
<1>2. PICK v : Stages(v, N, FetchStates, FetchStart, FetchLevels(code)) /\ FetchTime(ins) = v[N]
  BY FetchUnfold
<1> DEFINE first == [l \in 0 .. N |-> v[l].first]
           next == [l \in 0 .. N |-> v[l].next]
           a == [l \in 0 .. N |-> One(v[l].countFirst)]
           b == [l \in 0 .. N |-> One(v[l].countNext)]
           missing(l) == code[l] \in {"AM", "NC"}
           A == One(v[N - 1].countFirst /\ (missing(N) \/ code[N] = "FM"))
           B == One(v[N - 1].countNext /\ missing(N))
<1>3. \A l \in 0 .. N : v[l] \in FetchStates
  BY <1>2 DEF Stages
<1>4. v[0] = FetchStart
  BY <1>2 DEF Stages
<1>5. \A l \in 0 .. N : /\ v[l].first \in Nat /\ v[l].next \in Nat
                        /\ v[l].countFirst \in BOOLEAN /\ v[l].countNext \in BOOLEAN
  BY <1>3 DEF FetchStates
<1>6. \A l \in 1 .. N : l \in 0 .. N /\ l - 1 \in 0 .. N
  BY <1>1
<1>7. ASSUME NEW l \in 1 .. N
      PROVE  LET u == v[l]
                 t == v[l - 1]
                 c == levelAccessCostInstr[l]
             IN  /\ u.first = t.first + c * One(t.countFirst)
                              + (IF l = N
                                 THEN MemoryLoadLatency * One(t.countFirst /\ (missing(l) \/ code[l] = "FM")) ELSE 0)
                 /\ u.next = t.next + c * One(t.countNext)
                             + (IF l = N THEN MemoryLoadLatency * One(t.countNext /\ missing(l)) ELSE 0)
                 /\ u.countFirst = (t.countFirst /\ code[l] # "AH")
                 /\ u.countNext = (t.countNext /\ code[l] \notin {"AH", "FM"})
  <2> DEFINE t == v[l - 1]
  <2>1. v[l] = FetchLevels(code)[<<l, t>>] /\ t \in FetchStates
    BY <1>2, <1>3, <1>6 DEF Stages
  <2> HIDE DEF t, code
  <2>2. v[l] = InstructionCacheLevel(code, t, l)
    BY <2>1 DEF FetchLevels
  <2> DEFINE u == v[l]
  <2>3. u = InstructionCacheLevel(code, t, l)
    BY <2>2
  <2> HIDE DEF u
  <2>4. LET c == levelAccessCostInstr[l]
        IN  /\ u.first = t.first + c * One(t.countFirst)
                         + (IF l = N
                            THEN MemoryLoadLatency * One(t.countFirst /\ (missing(l) \/ code[l] = "FM")) ELSE 0)
            /\ u.next = t.next + c * One(t.countNext)
                        + (IF l = N THEN MemoryLoadLatency * One(t.countNext /\ missing(l)) ELSE 0)
            /\ u.countFirst = (t.countFirst /\ code[l] # "AH")
            /\ u.countNext = (t.countNext /\ code[l] \notin {"AH", "FM"})
    BY <2>1, <2>3, FetchLevel
  <2>5. QED
    BY <2>4 DEF t, u
<1>8. /\ f \in [0 .. N -> Nat] /\ f[0] <= n
      /\ \A l \in 1 .. N : /\ code[l] \in {"AH", "AM", "FM", "NC", "AU"}
                           /\ f[l] <= f[l - 1]
                           /\ code[l] \in {"AH", "AU"} => f[l] = 0
                           /\ code[l] = "FM" => f[l] <= 1
  BY DEF Narrows, Leveled, getCHMC, countAccessedBlocks
<1> DEFINE Q == {l \in Nat : l <= N => (v[l].countNext => v[l].countFirst) /\ f[l] <= Cost(n, a[l], b[l])}
<1>9. 0 \in Q
  <2>1. v[0].countFirst = TRUE /\ v[0].countNext = TRUE /\ 0 \in 0 .. N
    BY <1>1, <1>4 DEF FetchStart
  <2>2. a[0] = 1 /\ b[0] = 1
    BY <2>1 DEF One
  <2>3. Cost(n, 1, 1) = n * 1 /\ n * 1 = n
    BY CostTerms
  <2> HIDE DEF a, b
  <2>4. f[0] <= Cost(n, a[0], b[0])
    BY <1>8, <2>2, <2>3
  <2>5. QED
    BY <2>1, <2>4
<1>10. ASSUME NEW l \in 1 .. N, v[l - 1].countNext => v[l - 1].countFirst, f[l - 1] <= Cost(n, a[l - 1], b[l - 1])
       PROVE  /\ v[l].countNext => v[l].countFirst
              /\ f[l] <= Cost(n, a[l], b[l])
              /\ l = N => f[l] <= Cost(n, A, B)
  <2> DEFINE cF == v[l - 1].countFirst
             cN == v[l - 1].countNext
             x == One(cF)
             y == One(cN)
             xx == One(cF /\ code[l] # "AH")
             yy == One(cN /\ code[l] \notin {"AH", "FM"})
             AA == One(cF /\ (missing(l) \/ code[l] = "FM"))
             BB == One(cN /\ missing(l))
  <2>1. /\ cF \in BOOLEAN /\ cN \in BOOLEAN /\ (cN => cF)
        /\ v[l].countFirst = (cF /\ code[l] # "AH")
        /\ v[l].countNext = (cN /\ code[l] \notin {"AH", "FM"})
    BY <1>5, <1>6, <1>7, <1>10
  <2>2. a[l - 1] = x /\ b[l - 1] = y /\ a[l] = xx /\ b[l] = yy
    BY <1>6, <2>1
  <2>3. l = N => A = AA /\ B = BB
    OBVIOUS
  <2>4. /\ x \in {0, 1} /\ y \in {0, 1} /\ y <= x /\ xx \in {0, 1} /\ yy \in {0, 1}
        /\ AA \in {0, 1} /\ BB \in {0, 1}
    BY <2>1 DEF One
  <2>5. /\ missing(l) => xx = x /\ yy = y /\ AA = x /\ BB = y
        /\ code[l] = "FM" => xx = x /\ yy = 0 /\ AA = x /\ BB = 0
    BY DEF One
  <2>6. f[l - 1] \in Nat /\ f[l] \in Nat /\ f[l] <= f[l - 1] /\ f[l - 1] <= Cost(n, x, y)
    BY <1>6, <1>8, <1>10, <2>2
  <2>7. code[l] \in {"AH", "AM", "FM", "NC", "AU"} /\ (code[l] \in {"AH", "AU"} => f[l] = 0)
        /\ (code[l] = "FM" => f[l] <= 1)
    BY <1>8
  <2>8. v[l].countNext => v[l].countFirst
    BY <2>1
  <2> HIDE DEF cF, cN, x, y, xx, yy, AA, BB, a, b, A, B, code
  <2>9. CASE code[l] \in {"AH", "AU"}
    <3>1. Cost(n, xx, yy) \in Nat /\ Cost(n, AA, BB) \in Nat
      <4>1. xx \in Nat /\ yy \in Nat /\ AA \in Nat /\ BB \in Nat
        BY <2>4
      <4>2. QED
        BY <4>1, CostTerms
    <3>2. f[l] <= Cost(n, xx, yy) /\ f[l] <= Cost(n, AA, BB)
      BY <2>7, <2>9, <3>1
    <3>3. QED
      BY <2>2, <2>3, <2>8, <3>2
  <2>10. CASE missing(l)
    <3>1. Cost(n, x, y) \in Nat
      <4>1. x \in Nat /\ y \in Nat
        BY <2>4
      <4>2. QED
        BY <4>1, CostTerms
    <3>2. f[l] <= Cost(n, x, y)
      BY <2>6, <3>1
    <3>3. QED
      BY <2>2, <2>3, <2>5, <2>8, <2>10, <3>2
  <2>11. CASE code[l] = "FM"
    <3>1. f[l] <= Cost(n, x, 0)
      BY <2>4, <2>6, <2>7, <2>11, CodePasses
    <3>2. QED
      BY <2>2, <2>3, <2>5, <2>8, <2>11, <3>1
  <2>12. QED
    BY <2>7, <2>9, <2>10, <2>11
<1>11. ASSUME NEW l \in Nat, l \in Q
       PROVE  l + 1 \in Q
  <2> DEFINE k == l + 1
  <2> HIDE DEF a, b
  <2> SUFFICES ASSUME k <= N
               PROVE  (v[k].countNext => v[k].countFirst) /\ f[k] <= Cost(n, a[k], b[k])
    OBVIOUS
  <2>1. k \in 1 .. N /\ k - 1 = l /\ l <= N
    BY <1>1
  <2>2. (v[k - 1].countNext => v[k - 1].countFirst) /\ f[k - 1] <= Cost(n, a[k - 1], b[k - 1])
    BY <1>11, <2>1
  <2> HIDE DEF k, A, B
  <2>3. QED
    BY <1>10, <2>1, <2>2
<1>12. Nat \subseteq Q
  <2> HIDE DEF Q
  <2>1. QED
    BY <1>9, <1>11, Induction
<1>13. ASSUME NEW l \in 0 .. N
       PROVE  (v[l].countNext => v[l].countFirst) /\ f[l] <= Cost(n, a[l], b[l])
  <2> HIDE DEF a, b
  <2>1. l \in Nat /\ l <= N
    BY <1>1
  <2>2. QED
    BY <1>12, <2>1
<1>14. f[N] <= Cost(n, A, B)
  <2>1. N \in 1 .. N /\ N - 1 \in 0 .. N
    BY <1>1
  <2> HIDE DEF a, b, A, B
  <2>2. QED
    BY <1>10, <1>13, <2>1
<1>15. PaysFor(n, levelAccessCostInstr, f, first, next, a, b, A, B)
  <2>1. first \in [0 .. N -> Nat] /\ next \in [0 .. N -> Nat]
    BY <1>5
  <2>2. /\ a \in [0 .. N -> Nat] /\ b \in [0 .. N -> {0, 1}] /\ A \in Nat /\ B \in {0, 1}
    BY DEF One
  <2>3. first[0] = 0 /\ next[0] = 0
    BY <1>1, <1>4 DEF FetchStart
  <2>4. ASSUME NEW l \in 1 .. N
        PROVE  /\ first[l] = first[l - 1] + levelAccessCostInstr[l] * a[l - 1]
                             + (IF l = N THEN MemoryLoadLatency * A ELSE 0)
               /\ next[l] = next[l - 1] + levelAccessCostInstr[l] * b[l - 1]
                            + (IF l = N THEN MemoryLoadLatency * B ELSE 0)
               /\ f[l - 1] <= Cost(n, a[l - 1], b[l - 1])
    <3> DEFINE t == v[l - 1]
    <3>1. /\ first[l] = v[l].first /\ next[l] = v[l].next /\ first[l - 1] = t.first /\ next[l - 1] = t.next
          /\ a[l - 1] = One(t.countFirst) /\ b[l - 1] = One(t.countNext)
      BY <1>6
    <3>2. l = N => A = One(t.countFirst /\ (missing(l) \/ code[l] = "FM")) /\ B = One(t.countNext /\ missing(l))
      OBVIOUS
    <3>3. f[l - 1] <= Cost(n, a[l - 1], b[l - 1])
      <4> HIDE DEF a, b
      <4>1. QED
        BY <1>6, <1>13
    <3>4. /\ v[l].first = t.first + levelAccessCostInstr[l] * One(t.countFirst)
                          + (IF l = N
                             THEN MemoryLoadLatency * One(t.countFirst /\ (missing(l) \/ code[l] = "FM")) ELSE 0)
          /\ v[l].next = t.next + levelAccessCostInstr[l] * One(t.countNext)
                         + (IF l = N THEN MemoryLoadLatency * One(t.countNext /\ missing(l)) ELSE 0)
      BY <1>7
    <3> HIDE DEF first, next, a, b, A, B, t, missing
    <3>5. CASE l = N
      BY <3>1, <3>2, <3>3, <3>4, <3>5
    <3>6. CASE l # N
      BY <3>1, <3>3, <3>4, <3>6
    <3>7. QED
      BY <3>5, <3>6
  <2> HIDE DEF first, next, a, b, A, B
  <2>5. QED
    BY <1>8, <1>14, <2>1, <2>2, <2>3, <2>4 DEF PaysFor
<1>16. first[N] = v[N].first /\ next[N] = v[N].next /\ v[N].first \in Nat /\ v[N].next \in Nat
  BY <1>1, <1>5
<1> HIDE DEF first, next, a, b, A, B
<1>17. Total(1 .. N, [l \in 1 .. N |-> levelAccessCostInstr[l] * f[l - 1]]) + MemoryLoadLatency * f[N]
         <= Cost(n, first[N], next[N])
  BY <1>1, <1>15, PaysEnough
<1>18. QED
  BY <1>2, <1>16, <1>17

-----------------------------------------------------------------------------
(* The loads.  A level is used always, never, or a number of times.        *)
LoadStates == [first : Nat, next : Nat, always : BOOLEAN, never : BOOLEAN, occurrences : Nat]
LoadStart == [first |-> 0, next |-> 0, always |-> TRUE, never |-> FALSE, occurrences |-> 1]
Uses(t) == IF t.always THEN 1 ELSE IF t.never THEN 0 ELSE t.occurrences
LoadLevels(ins, frequency) ==
  [z \in (1 .. NbLevels) \X LoadStates |-> DataCacheLevel(ins, z[2], z[1], frequency)]

LEMMA LatencyLevel ==
  ASSUME NEW t \in LoadStates, NEW cost \in Nat, NEW also \in BOOLEAN
  PROVE  LET u == DataCacheLevel_latency(t, cost, also)
         IN  /\ u \in LoadStates
             /\ u.first = t.first + cost * Uses(t)
             /\ u.next = t.next + cost * One(t.always /\ also)
             /\ u.always = t.always /\ u.never = t.never /\ u.occurrences = t.occurrences
<1> DEFINE u == DataCacheLevel_latency(t, cost, also)
<1>1. /\ t.first \in Nat /\ t.next \in Nat /\ t.always \in BOOLEAN /\ t.never \in BOOLEAN /\ t.occurrences \in Nat
      /\ t = [first |-> t.first, next |-> t.next, always |-> t.always, never |-> t.never,
              occurrences |-> t.occurrences]
  BY DEF LoadStates
<1>2. cost * 1 = cost /\ cost * 0 = 0 /\ cost * t.occurrences \in Nat /\ t.first + 0 = t.first /\ t.next + 0 = t.next
  BY <1>1
<1>3. CASE t.always
  <2>1. Uses(t) = 1 /\ One(t.always /\ also) = (IF also THEN 1 ELSE 0)
    BY <1>3 DEF Uses, One
  <2>2. u = [t EXCEPT !.first = @ + cost, !.next = @ + (IF also THEN cost ELSE 0)]
    BY <1>3 DEF DataCacheLevel_latency
  <2> HIDE DEF u
  <2>3. /\ u.first = t.first + cost /\ u.next = t.next + (IF also THEN cost ELSE 0)
        /\ u.always = t.always /\ u.never = t.never /\ u.occurrences = t.occurrences
        /\ u \in LoadStates
    <3>1. t.first + cost \in Nat /\ t.next + (IF also THEN cost ELSE 0) \in Nat
      BY <1>1
    <3>2. u = [first |-> t.first + cost, next |-> t.next + (IF also THEN cost ELSE 0),
               always |-> t.always, never |-> t.never, occurrences |-> t.occurrences]
      BY <1>1, <2>2
    <3>3. QED
      BY <1>1, <3>1, <3>2 DEF LoadStates
  <2>4. CASE also
    BY <1>2, <2>1, <2>3, <2>4 DEF u
  <2>5. CASE ~ also
    BY <1>2, <2>1, <2>3, <2>5 DEF u
  <2>6. QED
    BY <2>4, <2>5
<1>4. CASE ~ t.always /\ t.never
  <2>1. Uses(t) = 0 /\ One(t.always /\ also) = 0 /\ u = t
    BY <1>4 DEF Uses, One, DataCacheLevel_latency
  <2>2. QED
    BY <1>2, <2>1
<1>5. CASE ~ t.always /\ ~ t.never
  <2>1. Uses(t) = t.occurrences /\ One(t.always /\ also) = 0
    BY <1>5 DEF Uses, One
  <2>2. u = [t EXCEPT !.first = @ + cost * t.occurrences]
    BY <1>5 DEF DataCacheLevel_latency
  <2> HIDE DEF u
  <2>3. /\ u.first = t.first + cost * t.occurrences /\ u.next = t.next
        /\ u.always = t.always /\ u.never = t.never /\ u.occurrences = t.occurrences
        /\ u \in LoadStates
    <3>1. t.first + cost * t.occurrences \in Nat
      BY <1>1, <1>2
    <3>2. u = [first |-> t.first + cost * t.occurrences, next |-> t.next,
               always |-> t.always, never |-> t.never, occurrences |-> t.occurrences]
      BY <1>1, <2>2
    <3>3. QED
      BY <1>1, <3>1, <3>2 DEF LoadStates
  <2>4. QED
    BY <1>2, <2>1, <2>3 DEF u
<1>6. QED
  BY <1>1, <1>3, <1>4, <1>5

(* Nothing that a level does not use is paid for.                          *)
Used_(ins, l, k) == IF ins.data[l] = "AU" THEN 0 ELSE k

LEMMA LoadLevel ==
  ASSUME NEW ins, Leveled(ins, "data"), NEW t \in LoadStates, NEW l \in 1 .. NbLevels, NEW frequency \in Nat
  PROVE  LET u == DataCacheLevel(ins, t, l, frequency)
             class == ins.data[l]
         IN  /\ u \in LoadStates
             /\ u.always = (t.always /\ class \in {"AM", "NC"})
             /\ u.never = (t.never \/ class \in {"AH", "AU"})
             /\ u.occurrences = IF class = "AU" THEN t.occurrences
                                ELSE IF u.never THEN 0
                                ELSE IF u.always THEN Lesser(ins.blocks[l], frequency)
                                ELSE IF class = "FM" THEN Lesser(ins.blocks[l], t.occurrences)
                                ELSE t.occurrences
             /\ u.first = t.first + levelAccessCostData[l] * Used_(ins, l, Uses(t))
                          + (IF l = NbLevels THEN MemoryLoadLatency * Used_(ins, l, Uses(u)) ELSE 0)
             /\ u.next = t.next + levelAccessCostData[l] * Used_(ins, l, One(t.always))
                         + (IF l = NbLevels THEN MemoryLoadLatency * One(u.always) ELSE 0)
<1> DEFINE u == DataCacheLevel(ins, t, l, frequency)
           class == ins.data[l]
           m == ins.blocks[l]
           c == levelAccessCostData[l]
           M == MemoryLoadLatency
           a == DataCacheLevel_latency(t, c, TRUE)
           b == DataCacheLevel_NextLevel(a, class, m, frequency)
           missing == class \in {"AM", "NC"}
<1>1. c \in Nat /\ M \in Nat
  BY LatenciesAssumption
<1>2. class \in {"AH", "AM", "FM", "NC", "AU"} /\ m \in Nat
  <2>1. getCHMC(ins, "data", l) = class /\ countAccessedBlocks(ins, "data", l) = m
    BY DEF getCHMC, countAccessedBlocks
  <2> HIDE DEF class, m
  <2>2. QED
    BY <2>1 DEF Leveled
<1>3. u = IF class = "AU" THEN [t EXCEPT !.always = FALSE, !.never = TRUE]
          ELSE IF l < NbLevels THEN b
          ELSE DataCacheLevel_latency(b, M, missing)
  BY DEF DataCacheLevel
<1>4. /\ a \in LoadStates
      /\ a.first = t.first + c * Uses(t)
      /\ a.next = t.next + c * One(t.always /\ TRUE)
      /\ a.always = t.always /\ a.never = t.never /\ a.occurrences = t.occurrences
  <2> HIDE DEF c
  <2>1. QED
    BY <1>1, LatencyLevel
<1>5. /\ t.first \in Nat /\ t.next \in Nat /\ t.always \in BOOLEAN /\ t.never \in BOOLEAN /\ t.occurrences \in Nat
      /\ a.first \in Nat /\ a.next \in Nat /\ a.always \in BOOLEAN /\ a.never \in BOOLEAN /\ a.occurrences \in Nat
      /\ (t.always /\ TRUE) = t.always
  BY <1>4 DEF LoadStates
<1> DEFINE never == t.never \/ class = "AH"
           always == t.always /\ missing
           occurrences == IF never THEN 0
                          ELSE IF always THEN Lesser(m, frequency)
                          ELSE IF class = "FM" THEN Lesser(m, t.occurrences)
                          ELSE t.occurrences
<1>6. /\ b.first = a.first /\ b.next = a.next /\ b.always = always /\ b.never = never
      /\ b.occurrences = occurrences /\ b \in LoadStates
  <2>1. occurrences \in Nat
    BY <1>2, <1>5 DEF Lesser
  <2>2. never \in BOOLEAN /\ always \in BOOLEAN
    BY <1>5
  <2>3. b = [a EXCEPT !.never = never, !.always = always, !.occurrences = occurrences]
    <3> HIDE DEF a, class, m
    <3>1. QED
      BY <1>4 DEF DataCacheLevel_NextLevel
  <2>4. a = [first |-> a.first, next |-> a.next, always |-> a.always, never |-> a.never,
             occurrences |-> a.occurrences]
    BY <1>4 DEF LoadStates
  <2> HIDE DEF a, b, occurrences, never, always
  <2>5. b = [first |-> a.first, next |-> a.next, always |-> always, never |-> never,
             occurrences |-> occurrences]
    BY <2>3, <2>4
  <2>6. QED
    BY <1>5, <2>1, <2>2, <2>5 DEF LoadStates
<1> HIDE DEF u, a, b
<1>7. CASE class = "AU"
  <2>1. u = [first |-> t.first, next |-> t.next, always |-> FALSE, never |-> TRUE,
             occurrences |-> t.occurrences]
    <3>1. t = [first |-> t.first, next |-> t.next, always |-> t.always, never |-> t.never,
               occurrences |-> t.occurrences]
      BY DEF LoadStates
    <3>2. QED
      BY <1>3, <1>7, <3>1
  <2>2. /\ u.first = t.first /\ u.next = t.next /\ u.always = FALSE /\ u.never = TRUE
        /\ u.occurrences = t.occurrences /\ u \in LoadStates
    BY <1>5, <2>1 DEF LoadStates
  <2>3. /\ Used_(ins, l, Uses(t)) = 0 /\ Used_(ins, l, Uses(u)) = 0 /\ Used_(ins, l, One(t.always)) = 0
        /\ One(u.always) = 0
    BY <1>7, <2>2 DEF Used_, One
  <2>4. c * 0 = 0 /\ M * 0 = 0 /\ t.first + 0 + 0 = t.first /\ t.next + 0 + 0 = t.next
    BY <1>1, <1>5
  <2>5. /\ u.first = t.first + c * Used_(ins, l, Uses(t)) + (IF l = NbLevels THEN M * Used_(ins, l, Uses(u)) ELSE 0)
        /\ u.next = t.next + c * Used_(ins, l, One(t.always)) + (IF l = NbLevels THEN M * One(u.always) ELSE 0)
    BY <2>2, <2>3, <2>4
  <2>6. QED
    BY <1>7, <2>2, <2>5 DEF u
<1>8. CASE class # "AU"
  <2>1. /\ Used_(ins, l, Uses(t)) = Uses(t) /\ Used_(ins, l, Uses(u)) = Uses(u)
        /\ Used_(ins, l, One(t.always)) = One(t.always)
    BY <1>8 DEF Used_
  <2>2. u = IF l < NbLevels THEN b ELSE DataCacheLevel_latency(b, M, missing)
    BY <1>3, <1>8
  <2>3. missing \in BOOLEAN /\ (always /\ missing) = always /\ always \in BOOLEAN
    BY <1>5
  <2>4. /\ DataCacheLevel_latency(b, M, missing) \in LoadStates
        /\ DataCacheLevel_latency(b, M, missing).first = b.first + M * Uses(b)
        /\ DataCacheLevel_latency(b, M, missing).next = b.next + M * One(b.always /\ missing)
        /\ DataCacheLevel_latency(b, M, missing).always = b.always
        /\ DataCacheLevel_latency(b, M, missing).never = b.never
        /\ DataCacheLevel_latency(b, M, missing).occurrences = b.occurrences
    <3> HIDE DEF missing, M
    <3>1. QED
      BY <1>1, <1>6, <2>3, LatencyLevel
  <2>5. /\ u \in LoadStates /\ u.always = always /\ u.never = never /\ u.occurrences = occurrences
    BY <1>6, <2>2, <2>4
  <2>6. Uses(u) = Uses(b) /\ b.always = always
    BY <1>6, <2>5 DEF Uses
  <2>7. l < NbLevels \/ l = NbLevels
    BY LatenciesAssumption
  <2> HIDE DEF always, missing
  <2>8. /\ u.first = a.first + (IF l = NbLevels THEN M * Uses(u) ELSE 0)
        /\ u.next = a.next + (IF l = NbLevels THEN M * One(u.always) ELSE 0)
    <3>1. CASE l = NbLevels
      <4>1. ~ (l < NbLevels)
        BY <3>1
      <4>2. u = DataCacheLevel_latency(b, M, missing)
        BY <2>2, <4>1
      <4>3. (b.always /\ missing) = u.always
        BY <2>3, <2>5, <2>6
      <4>4. QED
        BY <1>6, <2>4, <2>6, <3>1, <4>2, <4>3
    <3>2. CASE l < NbLevels
      <4>1. l # NbLevels
        BY <3>2, LatenciesAssumption
      <4>2. u = b
        BY <2>2, <3>2
      <4>3. b.first + 0 = b.first /\ b.next + 0 = b.next
        BY <1>5, <1>6
      <4>4. QED
        BY <1>6, <4>1, <4>2, <4>3
    <3>3. QED
      BY <2>7, <3>1, <3>2
  <2>9. /\ u.first = t.first + c * Used_(ins, l, Uses(t)) + (IF l = NbLevels THEN M * Used_(ins, l, Uses(u)) ELSE 0)
        /\ u.next = t.next + c * Used_(ins, l, One(t.always)) + (IF l = NbLevels THEN M * One(u.always) ELSE 0)
    BY <1>4, <1>5, <2>1, <2>8
  <2>10. u.never = (t.never \/ class \in {"AH", "AU"}) /\ u.always = (t.always /\ class \in {"AM", "NC"})
    BY <1>8, <2>5 DEF always, missing
  <2>11. QED
    BY <1>8, <2>5, <2>9, <2>10 DEF u
<1>9. QED
  BY <1>7, <1>8

LEMMA LoadUnfold ==
  ASSUME NEW ins, ins.kind = "load", Leveled(ins, "data"), NEW frequency \in Nat
  PROVE  \E v : /\ Stages(v, NbLevels, LoadStates, LoadStart, LoadLevels(ins, frequency))
              /\ LoadTime(ins, frequency) = v[NbLevels]
<1> DEFINE V == LoadStates
           b == LoadStart
           g == LoadLevels(ins, frequency)
           D == DOMAIN Levels
           Iter(w) == w = [s \in SUBSET D |->
                             IF s = {} THEN b ELSE DataCacheLevel(ins, w[s \ {Max(s)}], Levels[Max(s)], frequency)]
           iter == CHOOSE w : Iter(w)
<1>1. NbLevels \in Nat /\ D = 1 .. NbLevels /\ \A l \in 1 .. NbLevels : Levels[l] = l
  BY LatenciesAssumption DEF Levels
<1>2. LoadTime(ins, frequency) = iter[D]
  BY DEF LoadTime, FoldLeft, MapThenFoldSet, LoadStart
<1>3. b \in V
  BY DEF LoadStart, LoadStates
<1>4. \A l \in 1 .. NbLevels : \A t \in V : g[<<l, t>>] = DataCacheLevel(ins, t, l, frequency)
  BY DEF LoadLevels
<1> HIDE DEF V, b, g
<1>5. Stepwise(NbLevels, V, g)
  <2>1. \A l \in 1 .. NbLevels : \A t \in V : DataCacheLevel(ins, t, l, frequency) \in V
    BY LoadLevel DEF V
  <2>2. QED
    BY <1>4, <2>1 DEF Stepwise
<1>6. PICK w \in [SUBSET (1 .. NbLevels) -> V] : IsFold(w, 1 .. NbLevels, Largest(NbLevels), b, g)
  BY <1>1, <1>3, <1>5, UptoFoldExists
<1>7. Iter(w)
  <2>1. ASSUME NEW s \in SUBSET (1 .. NbLevels)
        PROVE  w[s] = IF s = {} THEN b ELSE DataCacheLevel(ins, w[s \ {Max(s)}], Levels[Max(s)], frequency)
    <3>1. w[s] = IF s = {} THEN b ELSE g[<<Largest(NbLevels)[s], w[s \ {Largest(NbLevels)[s]}]>>]
      BY <1>6 DEF IsFold
    <3>2. Largest(NbLevels)[s] = Max(s) /\ w[s \ {Max(s)}] \in V
      BY <1>6 DEF Largest
    <3>3. s # {} => Max(s) \in 1 .. NbLevels
      BY <1>1, LargestOf
    <3>4. s # {} => g[<<Max(s), w[s \ {Max(s)}]>>] = DataCacheLevel(ins, w[s \ {Max(s)}], Levels[Max(s)], frequency)
      BY <1>1, <1>4, <3>2, <3>3
    <3>5. QED
      BY <3>1, <3>2, <3>4
  <2>2. w = [s \in SUBSET (1 .. NbLevels) |-> w[s]]
    BY <1>6
  <2>3. QED
    BY <1>1, <2>1, <2>2
<1>8. Iter(iter)
  <2> HIDE DEF Iter
  <2>1. QED
    BY <1>7, Zenon
<1> HIDE DEF iter
<1>9. Follows(iter, NbLevels, V, b, g)
  <2> SUFFICES ASSUME NEW s \in SUBSET (1 .. NbLevels)
               PROVE  /\ s = {} => iter[s] = b
                      /\ s # {} /\ iter[s \ {Max(s)}] \in V => iter[s] = g[<<Max(s), iter[s \ {Max(s)}]>>]
    BY DEF Follows
  <2>1. iter[s] = IF s = {} THEN b ELSE DataCacheLevel(ins, iter[s \ {Max(s)}], Levels[Max(s)], frequency)
    BY <1>1, <1>8
  <2>2. s # {} => Max(s) \in 1 .. NbLevels
    BY <1>1, LargestOf
  <2>3. QED
    BY <1>1, <1>4, <2>1, <2>2
<1> HIDE DEF Iter, D
<1>10. \E v : Stages(v, NbLevels, V, b, g) /\ iter[1 .. NbLevels] = v[NbLevels]
  BY <1>1, <1>3, <1>5, <1>9, FoldStages
<1>11. QED
  BY <1>1, <1>2, <1>10 DEF V, b, g

(* Of the n accesses, how many pass the first l levels.                    *)
Using(ins, frequency, n, f, t, l) ==
  /\ f[l] \in Nat /\ f[l] <= n
  /\ t.always => ~ t.never /\ t.occurrences = IF l = 0 THEN 1 ELSE Lesser(ins.blocks[l], frequency)
  /\ t.never => f[l] = 0
  /\ ~ t.always /\ ~ t.never => f[l] <= t.occurrences

LEMMA UsingPays ==
  ASSUME NEW ins, NEW frequency, NEW n \in Nat, NEW f, NEW t \in LoadStates, NEW l, Using(ins, frequency, n, f, t, l)
  PROVE  /\ Uses(t) \in Nat /\ One(t.always) \in {0, 1}
         /\ f[l] <= Cost(n, Uses(t), One(t.always))
<1>1. t.always \in BOOLEAN /\ t.never \in BOOLEAN /\ t.occurrences \in Nat
  BY DEF LoadStates
<1>2. f[l] \in Nat /\ f[l] <= n
  BY DEF Using
<1>3. Uses(t) \in Nat /\ One(t.always) \in {0, 1} /\ Uses(t) \in Nat /\ One(t.always) \in Nat
  BY <1>1 DEF Uses, One
<1>4. CASE t.always
  <2>1. Uses(t) = 1 /\ One(t.always) = 1
    BY <1>4 DEF Uses, One
  <2>2. Cost(n, 1, 1) = n * 1 /\ n * 1 = n
    BY CostTerms
  <2>3. QED
    BY <1>2, <1>3, <2>1, <2>2
<1>5. CASE ~ t.always
  <2>1. One(t.always) = 0 /\ Uses(t) = IF t.never THEN 0 ELSE t.occurrences
    BY <1>5 DEF Uses, One
  <2>2. f[l] <= Uses(t)
    BY <1>1, <1>2, <1>5, <2>1 DEF Using
  <2>3. n # 0 => Cost(n, Uses(t), 0) = Uses(t)
    BY <1>3, CostTerms
  <2>4. n = 0 => Cost(n, Uses(t), 0) = 0
    BY <1>3, CostTerms
  <2>5. QED
    BY <1>2, <1>3, <2>1, <2>2, <2>3, <2>4
<1>6. QED
  BY <1>4, <1>5

LEMMA UsingNext ==
  ASSUME NEW ins, Leveled(ins, "data"), LoadNamed(ins), NEW frequency \in Nat, NEW n \in Nat, n <= frequency,
         NEW f, Narrows(f, ins, "data", n), NEW l \in 1 .. NbLevels, NEW t \in LoadStates,
         Using(ins, frequency, n, f, t, l - 1)
  PROVE  Using(ins, frequency, n, f, DataCacheLevel(ins, t, l, frequency), l)
<1> DEFINE u == DataCacheLevel(ins, t, l, frequency)
           class == ins.data[l]
           m == ins.blocks[l]
           x == f[l - 1]
           z == f[l]
<1>1. /\ class \in {"AH", "AM", "FM", "NC", "AU"} /\ m \in Nat
      /\ z <= x
      /\ class \in {"AH", "AU"} => z = 0
      /\ class = "FM" => z <= m
  <2>1. getCHMC(ins, "data", l) = class /\ countAccessedBlocks(ins, "data", l) = m
    BY DEF getCHMC, countAccessedBlocks
  <2>2. z <= x
    BY DEF Narrows
  <2> HIDE DEF class, m, x
  <2>3. QED
    BY <2>1, <2>2 DEF Leveled, Narrows
<1>2. l \in 0 .. NbLevels /\ l # 0 /\ l \in Int
  BY LatenciesAssumption
<1>3. z \in Nat
  BY <1>2 DEF Narrows
<1>4. /\ u.always = (t.always /\ class \in {"AM", "NC"})
      /\ u.never = (t.never \/ class \in {"AH", "AU"})
      /\ u.occurrences = IF class = "AU" THEN t.occurrences
                         ELSE IF u.never THEN 0
                         ELSE IF u.always THEN Lesser(m, frequency)
                         ELSE IF class = "FM" THEN Lesser(m, t.occurrences)
                         ELSE t.occurrences
  BY LoadLevel
<1>5. t.always \in BOOLEAN /\ t.never \in BOOLEAN /\ t.occurrences \in Nat
  BY DEF LoadStates
<1>6. /\ x \in Nat /\ x <= n
      /\ t.always => ~ t.never /\ t.occurrences = IF l - 1 = 0 THEN 1 ELSE Lesser(ins.blocks[l - 1], frequency)
      /\ t.never => x = 0
      /\ ~ t.always /\ ~ t.never => x <= t.occurrences
  BY DEF Using
<1>7. ASSUME t.always, class = "FM"
      PROVE  z <= t.occurrences /\ z <= m
  <2>1. z <= m /\ z <= n /\ z <= frequency
    BY <1>1, <1>3, <1>6, <1>7
  <2>2. CASE l = 1
    <3>1. m = 1 /\ t.occurrences = 1
      BY <1>6, <1>7, <2>2 DEF LoadNamed
    <3>2. QED
      BY <2>1, <3>1
  <2>3. CASE l # 1
    <3> DEFINE j == l - 1
               mm == ins.blocks[j]
    <3>1. l \in 2 .. NbLevels /\ j \in 1 .. NbLevels /\ j # 0
      BY <2>3, LatenciesAssumption
    <3>2. t.occurrences = Lesser(mm, frequency)
      BY <1>6, <1>7, <3>1
    <3>3. mm \in Nat
      <4>1. countAccessedBlocks(ins, "data", j) = mm
        BY DEF countAccessedBlocks
      <4> HIDE DEF j, mm
      <4>2. QED
        BY <3>1, <4>1 DEF Leveled
    <3>4. m <= mm
      BY <3>1 DEF LoadNamed
    <3> HIDE DEF j, mm, m, z, x, class
    <3>5. QED
      BY <1>1, <1>3, <2>1, <3>2, <3>3, <3>4 DEF Lesser
  <2>4. QED
    BY <2>2, <2>3
<1>8. z <= n
  BY <1>1, <1>3, <1>6
<1> HIDE DEF u, class, m, x, z
<1>9. u.always => ~ u.never /\ u.occurrences = Lesser(m, frequency)
  BY <1>4, <1>5, <1>6
<1>10. ASSUME u.never
       PROVE  z = 0
  <2>1. t.never \/ class \in {"AH", "AU"}
    BY <1>4, <1>10, Zenon
  <2>2. CASE t.never
    <3>1. x = 0
      BY <1>6, <2>2
    <3>2. QED
      BY <1>1, <1>3, <3>1
  <2>3. CASE class \in {"AH", "AU"}
    BY <1>1, <2>3
  <2>4. QED
    BY <2>1, <2>2, <2>3
<1>11. ASSUME ~ u.always, ~ u.never
       PROVE  z <= u.occurrences
  <2>1. ~ t.never /\ class \in {"AM", "NC", "FM"}
    BY <1>1, <1>4, <1>11
  <2>2. CASE class = "FM"
    <3>1. u.occurrences = Lesser(m, t.occurrences)
      BY <1>4, <1>11, <2>2
    <3>2. z <= m /\ z <= t.occurrences
      BY <1>1, <1>3, <1>5, <1>6, <1>7, <2>1, <2>2
    <3>3. QED
      BY <3>1, <3>2 DEF Lesser
  <2>3. CASE class # "FM"
    <3>1. u.occurrences = t.occurrences /\ ~ t.always
      BY <1>4, <1>5, <1>11, <2>1, <2>3
    <3>2. QED
      BY <1>1, <1>3, <1>5, <1>6, <2>1, <3>1
  <2>4. QED
    BY <2>1, <2>2, <2>3
<1>12. QED
  BY <1>2, <1>3, <1>8, <1>9, <1>10, <1>11 DEF Using, u, z, m

(* The accesses that pass f[0], ..., f[NbLevels] levels, with the latency  *)
(* of each level that they reach and of the memory.                        *)
PaidFor(latency, f) ==
  Total(1 .. NbLevels, [l \in 1 .. NbLevels |-> latency[l] * f[l - 1]]) + MemoryLoadLatency * f[NbLevels]

LEMMA LoadPays ==
  ASSUME NEW ins, ins.kind = "load", Leveled(ins, "data"), LoadNamed(ins), NEW frequency \in Nat, NEW n \in Nat,
         n <= frequency, NEW f, Narrows(f, ins, "data", n)
  PROVE  LET t == LoadTime(ins, frequency)
         IN  /\ t.first \in Nat /\ t.next \in Nat
             /\ PaidFor(levelAccessCostData, f) <= Cost(n, t.first, t.next)
<1> DEFINE N == NbLevels
           M == MemoryLoadLatency
<1>1. N \in Nat \ {0} /\ levelAccessCostData \in Latencies
  BY LatenciesAssumption DEF Latencies
<1>2. PICK v : Stages(v, N, LoadStates, LoadStart, LoadLevels(ins, frequency)) /\ LoadTime(ins, frequency) = v[N]
  BY LoadUnfold
<1>3. \A l \in 0 .. N : v[l] \in LoadStates
  BY <1>2 DEF Stages
<1>4. v[0] = LoadStart
  BY <1>2 DEF Stages
<1>5. \A l \in 1 .. N : l \in 0 .. N /\ l - 1 \in 0 .. N /\ l - 1 # N /\ l - 1 + 1 = l
  BY <1>1
<1>6. ASSUME NEW l \in 1 .. N
      PROVE  v[l] = DataCacheLevel(ins, v[l - 1], l, frequency)
  <2> DEFINE t == v[l - 1]
  <2>1. v[l] = LoadLevels(ins, frequency)[<<l, t>>] /\ t \in LoadStates
    BY <1>2, <1>3, <1>5 DEF Stages
  <2> HIDE DEF t
  <2>2. v[l] = DataCacheLevel(ins, t, l, frequency)
    BY <2>1 DEF LoadLevels
  <2>3. QED
    BY <2>2 DEF t
<1> DEFINE Q == {l \in Nat : l <= N => Using(ins, frequency, n, f, v[l], l)}
<1>7. 0 \in Q
  <2>1. f[0] \in Nat /\ f[0] <= n
    <3>1. 0 \in 0 .. N
      BY <1>1
    <3>2. QED
      BY <3>1 DEF Narrows
  <2>2. v[0].always = TRUE /\ v[0].never = FALSE /\ v[0].occurrences = 1
    BY <1>4 DEF LoadStart
  <2>3. Using(ins, frequency, n, f, v[0], 0)
    BY <2>1, <2>2 DEF Using
  <2>4. QED
    BY <2>3
<1>8. ASSUME NEW l \in Nat, l \in Q
      PROVE  l + 1 \in Q
  <2> DEFINE k == l + 1
  <2> SUFFICES ASSUME k <= N
               PROVE  Using(ins, frequency, n, f, v[k], k)
    OBVIOUS
  <2>1. k \in 1 .. N /\ k - 1 = l /\ l <= N /\ k - 1 \in 0 .. N
    BY <1>1
  <2>2. Using(ins, frequency, n, f, v[l], l)
    BY <1>8, <2>1
  <2> HIDE DEF k, Q
  <2>3. Using(ins, frequency, n, f, v[k - 1], k - 1) /\ v[k - 1] \in LoadStates
    BY <1>3, <2>1, <2>2
  <2> DEFINE t == v[k - 1]
  <2>4. v[k] = DataCacheLevel(ins, t, k, frequency)
    BY <1>6, <2>1
  <2>5. Using(ins, frequency, n, f, t, k - 1) /\ t \in LoadStates
    BY <2>3
  <2> HIDE DEF t
  <2>6. Using(ins, frequency, n, f, DataCacheLevel(ins, t, k, frequency), k)
    BY <2>1, <2>5, UsingNext
  <2>7. QED
    BY <2>4, <2>6
<1>9. Nat \subseteq Q
  <2> HIDE DEF Q
  <2>1. QED
    BY <1>7, <1>8, Induction
<1>10. ASSUME NEW l \in 0 .. N
       PROVE  /\ Uses(v[l]) \in Nat /\ One(v[l].always) \in {0, 1} /\ f[l] \in Nat
              /\ f[l] <= Cost(n, Uses(v[l]), One(v[l].always))
              /\ v[l].first \in Nat /\ v[l].next \in Nat
  <2>1. l \in Nat /\ l <= N
    BY <1>1
  <2>2. Using(ins, frequency, n, f, v[l], l) /\ v[l] \in LoadStates
    BY <1>3, <1>9, <2>1
  <2> HIDE DEF Q
  <2>3. /\ Uses(v[l]) \in Nat /\ One(v[l].always) \in {0, 1} /\ f[l] <= Cost(n, Uses(v[l]), One(v[l].always))
    BY <2>2, UsingPays
  <2>4. QED
    BY <2>2, <2>3 DEF Using, LoadStates
<1> HIDE DEF Q
<1> DEFINE first == [l \in 0 .. N |-> v[l].first]
           next == [l \in 0 .. N |-> v[l].next]
           a == [l \in 0 .. N |-> IF l = N THEN 0 ELSE Used_(ins, l + 1, Uses(v[l]))]
           b == [l \in 0 .. N |-> IF l = N THEN 0 ELSE Used_(ins, l + 1, One(v[l].always))]
           A == Used_(ins, N, Uses(v[N]))
           B == One(v[N].always)
<1>11. first \in [0 .. N -> Nat] /\ next \in [0 .. N -> Nat] /\ first[0] = 0 /\ next[0] = 0
  <2>1. first \in [0 .. N -> Nat] /\ next \in [0 .. N -> Nat]
    BY <1>10
  <2>2. QED
    BY <1>1, <1>4, <2>1 DEF LoadStart
<1>12. N \in 0 .. N /\ N \in 1 .. N
  BY <1>1
<1>13. /\ a \in [0 .. N -> Nat] /\ b \in [0 .. N -> {0, 1}] /\ A \in Nat /\ B \in {0, 1}
  BY <1>10, <1>12 DEF Used_
<1>14. Cost(n, 0, 0) = 0
  <2>1. Cost(n, 0, 0) = n * 0 /\ n * 0 = 0
    BY CostTerms
  <2>2. QED
    BY <2>1
<1>15. \A l \in 1 .. N : ins.data[l] = "AU" => f[l - 1] = 0 /\ f[l] = 0
  <2> SUFFICES ASSUME NEW l \in 1 .. N, ins.data[l] = "AU"
               PROVE  f[l - 1] = 0 /\ f[l] = 0
    OBVIOUS
  <2>1. getCHMC(ins, "data", l) = "AU"
    BY DEF getCHMC
  <2>2. QED
    BY <2>1 DEF Narrows
<1>16. f[N] <= Cost(n, A, B)
  <2>1. CASE ins.data[N] = "AU"
    <3>1. f[N] = 0 /\ Cost(n, A, B) \in Nat
      <4>1. A \in Nat /\ B \in Nat
        BY <1>13
      <4> HIDE DEF A, B
      <4>2. QED
        BY <1>12, <1>15, <2>1, <4>1, CostTerms
    <3>2. QED
      BY <3>1
  <2>2. CASE ins.data[N] # "AU"
    <3>1. A = Uses(v[N])
      BY <2>2 DEF Used_
    <3>2. QED
      BY <1>10, <1>12, <3>1
  <2>3. QED
    BY <2>1, <2>2
<1>17. ASSUME NEW l \in 1 .. N
       PROVE  /\ first[l] = first[l - 1] + levelAccessCostData[l] * a[l - 1] + (IF l = N THEN M * A ELSE 0)
              /\ next[l] = next[l - 1] + levelAccessCostData[l] * b[l - 1] + (IF l = N THEN M * B ELSE 0)
              /\ f[l - 1] <= Cost(n, a[l - 1], b[l - 1])
  <2> DEFINE t == v[l - 1]
             u == v[l]
  <2>1. /\ first[l] = u.first /\ next[l] = u.next /\ first[l - 1] = t.first /\ next[l - 1] = t.next
        /\ a[l - 1] = Used_(ins, l, Uses(t)) /\ b[l - 1] = Used_(ins, l, One(t.always))
    BY <1>5
  <2>2. l = N => A = Used_(ins, l, Uses(u)) /\ B = One(u.always)
    OBVIOUS
  <2>3. t \in LoadStates /\ u = DataCacheLevel(ins, t, l, frequency)
    BY <1>3, <1>5, <1>6
  <2>4. f[l - 1] <= Cost(n, Uses(t), One(t.always))
    BY <1>5, <1>10
  <2> HIDE DEF t, u, A, B, first, next, a, b
  <2>5. /\ u.first = t.first + levelAccessCostData[l] * Used_(ins, l, Uses(t))
                     + (IF l = N THEN M * Used_(ins, l, Uses(u)) ELSE 0)
        /\ u.next = t.next + levelAccessCostData[l] * Used_(ins, l, One(t.always))
                    + (IF l = N THEN M * One(u.always) ELSE 0)
    BY <2>3, LoadLevel
  <2>6. f[l - 1] <= Cost(n, a[l - 1], b[l - 1])
    <3>1. CASE ins.data[l] = "AU"
      <4>1. a[l - 1] = 0 /\ b[l - 1] = 0 /\ f[l - 1] = 0
        BY <1>15, <2>1, <3>1 DEF Used_
      <4>2. QED
        BY <1>14, <4>1
    <3>2. CASE ins.data[l] # "AU"
      BY <2>1, <2>4, <3>2 DEF Used_
    <3>3. QED
      BY <3>1, <3>2
  <2>7. first[l] = first[l - 1] + levelAccessCostData[l] * a[l - 1] + (IF l = N THEN M * A ELSE 0)
    BY <2>1, <2>2, <2>5
  <2>8. next[l] = next[l - 1] + levelAccessCostData[l] * b[l - 1] + (IF l = N THEN M * B ELSE 0)
    BY <2>1, <2>2, <2>5
  <2>9. QED
    BY <2>6, <2>7, <2>8
<1>18. f \in [0 .. N -> Nat]
  BY DEF Narrows
<1>19. first[N] = v[N].first /\ next[N] = v[N].next /\ v[N].first \in Nat /\ v[N].next \in Nat
  BY <1>10, <1>12
<1> HIDE DEF first, next, a, b, A, B
<1>20. PaysFor(n, levelAccessCostData, f, first, next, a, b, A, B)
  BY <1>11, <1>13, <1>16, <1>17, <1>18 DEF PaysFor
<1>21. PaidFor(levelAccessCostData, f) <= Cost(n, first[N], next[N])
  BY <1>1, <1>20, PaysEnough DEF PaidFor
<1>22. QED
  BY <1>2, <1>19, <1>21

-----------------------------------------------------------------------------
(* The time of an instruction: the first execution and the next ones.      *)
Pays(n, d, t) == t.first \in Nat /\ t.next \in Nat /\ d \in Nat /\ d <= Cost(n, t.first, t.next)

LEMMA AlwaysPays ==
  ASSUME NEW n \in Nat, NEW a \in Nat
  PROVE  Pays(n, n * a, Time(a, a))
<1>1. Cost(n, a, a) = n * a /\ n * a \in Nat
  BY CostTerms
<1>2. Time(a, a).first = a /\ Time(a, a).next = a
  BY DEF Time
<1> DEFINE d == n * a
           t == Time(a, a)
<1>3. d \in Nat /\ d = Cost(n, a, a) /\ t.first = a /\ t.next = a
  BY <1>1, <1>2
<1> HIDE DEF d, t
<1>4. d <= Cost(n, t.first, t.next)
  BY <1>3
<1>5. Pays(n, d, t)
  BY <1>3, <1>4 DEF Pays
<1>6. QED
  BY <1>5 DEF d, t

LEMMA BothPay ==
  ASSUME NEW n \in Nat, NEW d, NEW e, NEW s, NEW t, Pays(n, d, s), Pays(n, e, t)
  PROVE  Pays(n, d + e, Plus(s, t))
<1> DEFINE a == s.first
           b == s.next
           aa == t.first
           bb == t.next
           u == Plus(s, t)
<1>1. /\ a \in Nat /\ b \in Nat /\ aa \in Nat /\ bb \in Nat /\ d \in Nat /\ e \in Nat
      /\ d <= Cost(n, a, b) /\ e <= Cost(n, aa, bb)
  BY DEF Pays
<1>2. u.first = a + aa /\ u.next = b + bb
  BY DEF Plus, Time
<1> HIDE DEF a, b, aa, bb, u
<1>3. Cost(n, a + aa, b + bb) = Cost(n, a, b) + Cost(n, aa, bb)
  BY <1>1, CostAdds
<1>4. Cost(n, a, b) \in Nat /\ Cost(n, aa, bb) \in Nat
  BY <1>1, CostTerms
<1>5. d + e <= Cost(n, u.first, u.next) /\ d + e \in Nat /\ u.first \in Nat /\ u.next \in Nat
  BY <1>1, <1>2, <1>3, <1>4
<1>6. QED
  BY <1>5 DEF Pays, u

LEMMA PaidIs ==
  ASSUME NEW latency, NEW w, NEW x, NEW type
  PROVE  Paid(latency, w, x, type) = PaidFor(latency, PassedAt(w, x, type))
<1> DEFINE f == PassedAt(w, x, type)
           g == [l \in 1 .. NbLevels |-> latency[l] * f[l - 1]]
           h == [l \in 1 .. NbLevels |-> latency[l] * w[<<x, type, l - 1>>]]
<1>1. NbLevels \in Nat \ {0}
  BY LatenciesAssumption
<1>2. f[NbLevels] = w[<<x, type, NbLevels>>] /\ \A l \in 1 .. NbLevels : f[l - 1] = w[<<x, type, l - 1>>]
  <2>1. NbLevels \in 0 .. NbLevels /\ \A l \in 1 .. NbLevels : l - 1 \in 0 .. NbLevels
    BY <1>1
  <2>2. QED
    BY <2>1 DEF PassedAt
<1> HIDE DEF f
<1>3. g = h
  BY <1>2
<1>4. Paid(latency, w, x, type) = Total(1 .. NbLevels, h) + MemoryLoadLatency * w[<<x, type, NbLevels>>]
  BY DEF Paid
<1>5. PaidFor(latency, f) = Total(1 .. NbLevels, g) + MemoryLoadLatency * f[NbLevels]
  BY DEF PaidFor
<1> HIDE DEF g, h
<1>6. QED
  BY <1>2, <1>3, <1>4, <1>5 DEF f

(* The loads are executed as often as the bounds of the loops allow.       *)
WithinFrequency(ch, ins, n, frequency) ==
  ins.kind = "load" /\ ~ ch.perfectDcache => frequency \in Nat /\ n <= frequency /\ LoadNamed(ins)

Fetching(ins) == IF caches.perfectIcache THEN Time(PerfectICacheLatency, PerfectICacheLatency) ELSE FetchTime(ins)
Fetched(ins, n, w, x) ==
  IF caches.perfectIcache THEN n * PerfectICacheLatency ELSE Paid(levelAccessCostInstr, w, x, "code")
Accessing(ins, frequency) ==
  IF caches.perfectDcache THEN Time(PerfectDCacheLatency, PerfectDCacheLatency)
  ELSE Plus(StoreTime(ins), LoadTime(ins, frequency))
Accessed(ins, n, w, x) ==
  IF caches.perfectDcache THEN n * PerfectDCacheLatency
  ELSE IF ins.kind = "store" THEN n * MemoryStoreLatency
  ELSE IF ins.kind = "load" THEN Paid(levelAccessCostData, w, x, "data")
  ELSE 0

LEMMA FetchedPays ==
  ASSUME NEW p, NEW cs, NEW k, ContextTree(p, cs, k), NEW nc, NEW M, NEW U, NEW w,
         Accounted(p, cs, nc, M, U, w), NEW x \in Sites(p, cs)
  PROVE  Pays(Count(nc, x[1]), Fetched(Instr(p, cs, x), Count(nc, x[1]), w, x), Fetching(Instr(p, cs, x)))
<1> DEFINE n == Count(nc, x[1])
           ins == Instr(p, cs, x)
           f == PassedAt(w, x, "code")
           d == Paid(levelAccessCostInstr, w, x, "code")
<1>1. "code" \in Types /\ levelAccessCostInstr \in Latencies /\ PerfectICacheLatency \in Nat
  BY LatenciesAssumption DEF Types, Latencies
<1>2. n \in Nat
  BY <1>1, PassedNarrow
<1>3. Leveled(ins, "code") /\ Narrows(f, ins, "code", n)
  BY <1>1, PassedNarrow DEF Refers
<1>4. d \in Nat
  <2>1. w \in Counts(p, cs)
    BY DEF Accounted
  <2> HIDE DEF d
  <2>2. Paid(levelAccessCostInstr, w, x, "code") \in Nat
    BY <1>1, <2>1, PaidAfter
  <2>3. QED
    BY <2>2 DEF d
<1>5. d = PaidFor(levelAccessCostInstr, f)
  BY PaidIs
<1> HIDE DEF n, ins, f, d
<1>6. CASE caches.perfectIcache
  <2>1. Pays(n, n * PerfectICacheLatency, Time(PerfectICacheLatency, PerfectICacheLatency))
    BY <1>1, <1>2, AlwaysPays
  <2>2. QED
    BY <1>6, <2>1 DEF Fetched, Fetching, n, ins
<1>7. CASE ~ caches.perfectIcache
  <2> DEFINE t == FetchTime(ins)
  <2>1. t.first \in Nat /\ t.next \in Nat /\ PaidFor(levelAccessCostInstr, f) <= Cost(n, t.first, t.next)
    BY <1>2, <1>3, FetchPays DEF PaidFor
  <2> HIDE DEF t
  <2>2. Pays(n, d, t)
    BY <1>4, <1>5, <2>1 DEF Pays
  <2>3. Fetched(ins, n, w, x) = d /\ Fetching(ins) = t
    BY <1>7 DEF Fetched, Fetching, d, t
  <2>4. QED
    BY <2>2, <2>3 DEF n, ins
<1>8. QED
  BY <1>6, <1>7

LEMMA AccessedPays ==
  ASSUME NEW p, NEW cs, NEW k, ContextTree(p, cs, k), NEW nc, NEW M, NEW U, NEW w,
         Accounted(p, cs, nc, M, U, w), NEW x \in Sites(p, cs), NEW frequency,
         WithinFrequency(caches, Instr(p, cs, x), Count(nc, x[1]), frequency)
  PROVE  Pays(Count(nc, x[1]), Accessed(Instr(p, cs, x), Count(nc, x[1]), w, x),
              Accessing(Instr(p, cs, x), frequency))
<1> DEFINE n == Count(nc, x[1])
           ins == Instr(p, cs, x)
           f == PassedAt(w, x, "data")
           d == Paid(levelAccessCostData, w, x, "data")
           none == Time(0, 0)
<1>1. /\ "data" \in Types /\ levelAccessCostData \in Latencies
      /\ PerfectDCacheLatency \in Nat /\ MemoryStoreLatency \in Nat
  BY LatenciesAssumption DEF Types, Latencies
<1>2. n \in Nat
  BY <1>1, PassedNarrow
<1>3. ins.kind = "load" => Leveled(ins, "data") /\ Narrows(f, ins, "data", n)
  BY <1>1, PassedNarrow DEF Refers
<1>4. d \in Nat
  <2>1. w \in Counts(p, cs)
    BY DEF Accounted
  <2> HIDE DEF d
  <2>2. Paid(levelAccessCostData, w, x, "data") \in Nat
    BY <1>1, <2>1, PaidAfter
  <2>3. QED
    BY <2>2 DEF d
<1>5. d = PaidFor(levelAccessCostData, f)
  BY PaidIs
<1>6. Pays(n, 0, none)
  <2>1. \A i \in Nat : i * 0 = 0
    OBVIOUS
  <2>2. Cost(n, 0, 0) = n * 0 /\ n * 0 = 0
    <3> HIDE DEF n
    <3>1. Cost(n, 0, 0) = n * 0
      BY <1>2, CostTerms
    <3>2. QED
      BY <1>2, <2>1, <3>1
  <2>3. none.first = 0 /\ none.next = 0
    BY DEF Time
  <2> HIDE DEF none, n
  <2>4. QED
    BY <2>2, <2>3 DEF Pays
<1>7. WithinFrequency(caches, ins, n, frequency)
  OBVIOUS
<1> HIDE DEF n, ins, f, d, none
<1>8. CASE caches.perfectDcache
  <2>1. Pays(n, n * PerfectDCacheLatency, Time(PerfectDCacheLatency, PerfectDCacheLatency))
    BY <1>1, <1>2, AlwaysPays
  <2>2. QED
    BY <1>8, <2>1 DEF Accessed, Accessing, n, ins
<1>9. ASSUME ~ caches.perfectDcache, NEW a, NEW b, Pays(n, a, StoreTime(ins)), Pays(n, b, LoadTime(ins, frequency)),
             Accessed(ins, n, w, x) = a + b
      PROVE  Pays(n, Accessed(ins, n, w, x), Accessing(ins, frequency))
  <2>1. Pays(n, a + b, Plus(StoreTime(ins), LoadTime(ins, frequency)))
    BY <1>2, <1>9, BothPay
  <2>2. Accessing(ins, frequency) = Plus(StoreTime(ins), LoadTime(ins, frequency))
    BY <1>9 DEF Accessing
  <2>3. QED
    BY <1>9, <2>1, <2>2
<1>10. ASSUME ~ caches.perfectDcache
       PROVE  Pays(n, Accessed(ins, n, w, x), Accessing(ins, frequency))
  <2>1. CASE ins.kind = "store"
    <3> DEFINE s == n * MemoryStoreLatency
    <3>1. Pays(n, s, Time(MemoryStoreLatency, MemoryStoreLatency))
      BY <1>1, <1>2, AlwaysPays
    <3>2. StoreTime(ins) = Time(MemoryStoreLatency, MemoryStoreLatency) /\ LoadTime(ins, frequency) = none
      BY <2>1 DEF StoreTime, LoadTime, none
    <3>3. Accessed(ins, n, w, x) = s
      BY <1>10, <2>1 DEF Accessed
    <3> HIDE DEF s
    <3>4. s + 0 = s
      BY <3>1 DEF Pays
    <3>5. QED
      BY <1>6, <1>9, <1>10, <3>1, <3>2, <3>3, <3>4
  <2>2. CASE ins.kind = "load"
    <3> DEFINE t == LoadTime(ins, frequency)
    <3>1. frequency \in Nat /\ n <= frequency /\ LoadNamed(ins)
      BY <1>7, <1>10, <2>2 DEF WithinFrequency
    <3>2. t.first \in Nat /\ t.next \in Nat /\ PaidFor(levelAccessCostData, f) <= Cost(n, t.first, t.next)
      BY <1>2, <1>3, <2>2, <3>1, LoadPays
    <3> HIDE DEF t
    <3>3. Pays(n, d, t)
      BY <1>4, <1>5, <3>2 DEF Pays
    <3>4. StoreTime(ins) = none
      BY <2>2 DEF StoreTime, none
    <3>5. Accessed(ins, n, w, x) = d
      BY <1>10, <2>2 DEF Accessed, d
    <3>6. 0 + d = d
      BY <1>4
    <3>7. QED
      BY <1>6, <1>9, <1>10, <3>3, <3>4, <3>5, <3>6 DEF t
  <2>3. CASE ins.kind # "store" /\ ins.kind # "load"
    <3>1. StoreTime(ins) = none /\ LoadTime(ins, frequency) = none
      BY <2>3 DEF StoreTime, LoadTime, none
    <3>2. Accessed(ins, n, w, x) = 0
      BY <1>10, <2>3 DEF Accessed
    <3>3. 0 + 0 = 0
      OBVIOUS
    <3>4. QED
      BY <1>6, <1>9, <1>10, <3>1, <3>2, <3>3
  <2>4. QED
    BY <2>1, <2>2, <2>3
<1>11. QED
  BY <1>8, <1>10 DEF n, ins

LEMMA InstructionPays ==
  ASSUME NEW p, NEW cs, NEW k, ContextTree(p, cs, k), NEW nc, NEW M, NEW U, NEW w,
         Accounted(p, cs, nc, M, U, w), NEW x \in Sites(p, cs), NEW frequency,
         WithinFrequency(caches, Instr(p, cs, x), Count(nc, x[1]), frequency)
  PROVE  /\ Pays(Count(nc, x[1]), Duration(caches, Instr(p, cs, x), Count(nc, x[1]), w, x),
                 InstructionTime(Instr(p, cs, x), frequency))
         /\ caches.perfectIcache /\ caches.perfectDcache =>
              InstructionTime(Instr(p, cs, x), frequency).first = InstructionTime(Instr(p, cs, x), frequency).next
<1> DEFINE n == Count(nc, x[1])
           ins == Instr(p, cs, x)
<1>1. n \in Nat /\ PerfectICacheLatency \in Nat
  <2>1. "code" \in Types
    BY DEF Types
  <2>2. QED
    BY <2>1, PassedNarrow, LatenciesAssumption
<1> DEFINE F == Fetching(ins)
           A == Accessing(ins, frequency)
           f == Fetched(ins, n, w, x)
           a == Accessed(ins, n, w, x)
<1>2. Pays(n, f, F)
  BY FetchedPays
<1>3. Pays(n, a, A)
  BY AccessedPays
<1>4. CASE caches.perfectIcache /\ caches.perfectDcache
  <2>1. /\ InstructionTime(ins, frequency) = Time(PerfectICacheLatency, PerfectICacheLatency)
        /\ Duration(caches, ins, n, w, x) = n * PerfectICacheLatency
    BY <1>4 DEF InstructionTime, Duration
  <2>2. Time(PerfectICacheLatency, PerfectICacheLatency).first = Time(PerfectICacheLatency, PerfectICacheLatency).next
    BY DEF Time
  <2> HIDE DEF n, ins
  <2>3. QED
    BY <1>1, <2>1, <2>2, AlwaysPays DEF n, ins
<1>5. CASE ~ (caches.perfectIcache /\ caches.perfectDcache)
  <2>1. Duration(caches, ins, n, w, x) = f + a
    BY <1>5 DEF Duration, Fetched, Accessed
  <2>2. InstructionTime(ins, frequency) = Plus(A, F) \/ InstructionTime(ins, frequency) = Plus(F, A)
    BY <1>5 DEF InstructionTime, Fetching, Accessing
  <2> HIDE DEF f, a, F, A, n, ins
  <2>3. f + a = a + f
    BY <1>2, <1>3 DEF Pays
  <2>4. Pays(n, f + a, Plus(F, A)) /\ Pays(n, a + f, Plus(A, F))
    BY <1>1, <1>2, <1>3, BothPay
  <2>5. QED
    BY <1>5, <2>1, <2>2, <2>3, <2>4 DEF n, ins
<1>6. QED
  BY <1>4, <1>5

-----------------------------------------------------------------------------
(* The time of a node: those of its instructions.                          *)
Sums == [first : Nat, next : Nat]
PartTime(c, n, i) == InstructionTime(Instructions(c, n)[i], ComputeNodeFrequencyBound(c, n))
Adding(c, n, m) == [z \in (1 .. m) \X Sums |-> Plus(z[2], PartTime(c, n, z[1]))]

LEMMA NodeUnfold ==
  ASSUME NEW c, NEW n, NEW m \in Nat, DOMAIN Instructions(c, n) = 1 .. m,
         \A i \in 1 .. m : PartTime(c, n, i).first \in Nat /\ PartTime(c, n, i).next \in Nat
  PROVE  \E v : Stages(v, m, Sums, Time(0, 0), Adding(c, n, m)) /\ NodeExecutionTime(c, n) = v[m]
<1> DEFINE V == Sums
           b == Time(0, 0)
           g == Adding(c, n, m)
           is == Instructions(c, n)
           D == DOMAIN is
           Iter(w) == w = [s \in SUBSET D |->
                             IF s = {} THEN b
                             ELSE Plus(w[s \ {Max(s)}], InstructionTime(is[Max(s)], ComputeNodeFrequencyBound(c, n)))]
           iter == CHOOSE w : Iter(w)
<1>1. D = 1 .. m
  OBVIOUS
<1>2. NodeExecutionTime(c, n) = iter[D]
  BY DEF NodeExecutionTime, FoldLeft, MapThenFoldSet
<1>3. b \in V
  BY DEF Time, Sums
<1>4. \A l \in 1 .. m : \A t \in V : g[<<l, t>>] = Plus(t, PartTime(c, n, l))
  BY DEF Adding
<1>5. \A l : InstructionTime(is[l], ComputeNodeFrequencyBound(c, n)) = PartTime(c, n, l)
  BY DEF PartTime
<1> HIDE DEF b, g, is
<1>6. Stepwise(m, V, g)
  <2>1. ASSUME NEW l \in 1 .. m, NEW t \in V
        PROVE  Plus(t, PartTime(c, n, l)) \in V
    <3> DEFINE a == PartTime(c, n, l)
    <3>1. a.first \in Nat /\ a.next \in Nat /\ t.first \in Nat /\ t.next \in Nat
      BY DEF Sums
    <3> HIDE DEF a
    <3>2. t.first + a.first \in Nat /\ t.next + a.next \in Nat
      BY <3>1
    <3>3. Plus(t, a) = [first |-> t.first + a.first, next |-> t.next + a.next]
      BY DEF Plus, Time
    <3>4. Plus(t, a) \in V
      BY <3>2, <3>3 DEF Sums
    <3>5. QED
      BY <3>4 DEF a
  <2> HIDE DEF V
  <2>2. QED
    BY <1>4, <2>1 DEF Stepwise
<1> HIDE DEF V
<1>7. PICK w \in [SUBSET (1 .. m) -> V] : IsFold(w, 1 .. m, Largest(m), b, g)
  BY <1>3, <1>6, UptoFoldExists
<1>8. Iter(w)
  <2>1. ASSUME NEW s \in SUBSET (1 .. m)
        PROVE  w[s] = IF s = {} THEN b
                      ELSE Plus(w[s \ {Max(s)}], InstructionTime(is[Max(s)], ComputeNodeFrequencyBound(c, n)))
    <3>1. w[s] = IF s = {} THEN b ELSE g[<<Largest(m)[s], w[s \ {Largest(m)[s]}]>>]
      BY <1>7 DEF IsFold
    <3>2. Largest(m)[s] = Max(s) /\ w[s \ {Max(s)}] \in V
      BY <1>7 DEF Largest
    <3>3. s # {} => Max(s) \in 1 .. m
      BY LargestOf
    <3>4. s # {} => g[<<Max(s), w[s \ {Max(s)}]>>] = Plus(w[s \ {Max(s)}], PartTime(c, n, Max(s)))
      BY <1>4, <3>2, <3>3
    <3>5. QED
      BY <1>5, <3>1, <3>2, <3>4
  <2>2. w = [s \in SUBSET (1 .. m) |-> w[s]]
    BY <1>7
  <2>3. QED
    BY <1>1, <2>1, <2>2
<1>9. Iter(iter)
  <2> HIDE DEF Iter
  <2>1. QED
    BY <1>8, Zenon
<1> HIDE DEF iter
<1>10. Follows(iter, m, V, b, g)
  <2> SUFFICES ASSUME NEW s \in SUBSET (1 .. m)
               PROVE  /\ s = {} => iter[s] = b
                      /\ s # {} /\ iter[s \ {Max(s)}] \in V => iter[s] = g[<<Max(s), iter[s \ {Max(s)}]>>]
    BY DEF Follows
  <2>1. iter[s] = IF s = {} THEN b
                  ELSE Plus(iter[s \ {Max(s)}], InstructionTime(is[Max(s)], ComputeNodeFrequencyBound(c, n)))
    BY <1>1, <1>9
  <2>2. s # {} => Max(s) \in 1 .. m
    BY LargestOf
  <2>3. QED
    BY <1>4, <1>5, <2>1, <2>2
<1> HIDE DEF Iter, D
<1>11. \E v : Stages(v, m, V, b, g) /\ iter[1 .. m] = v[m]
  BY <1>3, <1>6, <1>10, FoldStages
<1>12. QED
  BY <1>1, <1>2, <1>11 DEF V, b, g

(* The instructions of the node y, of any load within the bounds.          *)
At(y) == {x \in Sites(program, contexts) : x[1] = y}
LoadsBounded(y) ==
  \A x \in At(y) : WithinFrequency(caches, Instr(program, contexts, x), Count(nodeCount, y),
                           ComputeNodeFrequencyBound(y[1], y[2]))

LEMMA NodePays ==
  ASSUME ContextTree(program, contexts, explored), NEW w,
         Accounted(program, contexts, nodeCount, missed, uses, w), NEW y \in Places(program, contexts), LoadsBounded(y)
  PROVE  /\ Pays(Count(nodeCount, y), Total(At(y), Spent(program, contexts, caches, nodeCount, w)),
                 NodeExecutionTime(y[1], y[2]))
         /\ caches.perfectIcache /\ caches.perfectDcache =>
              NodeExecutionTime(y[1], y[2]).first = NodeExecutionTime(y[1], y[2]).next
<1> DEFINE S == Sites(program, contexts)
           f == Spent(program, contexts, caches, nodeCount, w)
           N == Count(nodeCount, y)
           c == y[1]
           n == y[2]
           is == Instructions(c, n)
           m == Len(is)
           perfect == caches.perfectIcache /\ caches.perfectDcache
           T(l) == {<<y, i>> : i \in 1 .. l}
<1>1. /\ is = InstructionsIn(program, contexts, c, n) /\ DOMAIN is = 1 .. m /\ m \in Nat
      /\ \A i : <<y, i>> \in S <=> i \in 1 .. m
  <2>1. is = InstructionsIn(program, contexts, c, n)
    BY DEF Instructions, InstructionsIn, Cfg, getCurrentFunction
  <2>2. DOMAIN is = 1 .. m /\ m \in Nat
    BY <2>1, SitesFacts
  <2>3. \A i : <<y, i>> \in S <=> i \in DOMAIN InstructionsIn(program, contexts, c, n)
    BY SitesFacts
  <2> HIDE DEF m, is
  <2>4. QED
    BY <2>1, <2>2, <2>3
<1>2. IsFiniteSet(S) /\ \A x \in S : x = <<x[1], x[2]>>
  BY SitesFacts
<1>3. N \in Nat /\ nodeCount = nodeCount
  BY DEF Accounted, Numbers
<1>4. \A x \in S : f[x] \in Nat
  <2>1. Numbers(nodeCount) /\ w \in Counts(program, contexts)
    BY DEF Accounted
  <2>2. QED
    BY <2>1, SpentType
<1>5. ASSUME NEW i \in 1 .. m
      PROVE  /\ Pays(N, f[<<y, i>>], PartTime(c, n, i))
             /\ perfect => PartTime(c, n, i).first = PartTime(c, n, i).next
  <2> DEFINE x == <<y, i>>
             ins == Instr(program, contexts, x)
             frequency == ComputeNodeFrequencyBound(c, n)
  <2>1. x \in S /\ x \in At(y) /\ x[1] = y
    BY <1>1 DEF At
  <2>2. WithinFrequency(caches, ins, N, frequency)
    BY <2>1 DEF LoadsBounded
  <2>3. PartTime(c, n, i) = InstructionTime(ins, frequency)
    BY <1>1 DEF PartTime, Instr
  <2>4. f[x] = Duration(caches, ins, N, w, x)
    BY <2>1 DEF Spent
  <2> HIDE DEF x, f
  <2>5. /\ Pays(Count(nodeCount, x[1]), Duration(caches, Instr(program, contexts, x), Count(nodeCount, x[1]), w, x),
                InstructionTime(Instr(program, contexts, x), frequency))
        /\ perfect => InstructionTime(Instr(program, contexts, x), frequency).first
                        = InstructionTime(Instr(program, contexts, x), frequency).next
    <3> HIDE DEF frequency
    <3>1. WithinFrequency(caches, Instr(program, contexts, x), Count(nodeCount, x[1]), frequency)
      BY <2>1, <2>2
    <3>2. QED
      BY <2>1, <3>1, InstructionPays
  <2>6. QED
    BY <2>1, <2>3, <2>4, <2>5 DEF x
<1>6. \A i \in 1 .. m : PartTime(c, n, i).first \in Nat /\ PartTime(c, n, i).next \in Nat
  BY <1>5 DEF Pays
<1>7. PICK v : Stages(v, m, Sums, Time(0, 0), Adding(c, n, m)) /\ NodeExecutionTime(c, n) = v[m]
  <2>1. m \in Nat /\ DOMAIN Instructions(c, n) = 1 .. m
    BY <1>1
  <2> HIDE DEF m, c, n, is
  <2>2. QED
    BY <1>6, <2>1, NodeUnfold
<1>8. v[0] = Time(0, 0) /\ \A l \in 1 .. m : v[l] = Plus(v[l - 1], PartTime(c, n, l))
  <2>1. v[0] = Time(0, 0)
    BY <1>7 DEF Stages
  <2>2. ASSUME NEW l \in 1 .. m
        PROVE  v[l] = Plus(v[l - 1], PartTime(c, n, l))
    <3> DEFINE t == v[l - 1]
    <3>1. v[l] = Adding(c, n, m)[<<l, t>>] /\ t \in Sums
      <4>1. l - 1 \in 0 .. m
        BY <1>1
      <4>2. QED
        BY <1>7, <4>1 DEF Stages
    <3> HIDE DEF t, m, c, n
    <3>2. v[l] = Plus(t, PartTime(c, n, l))
      BY <3>1 DEF Adding
    <3>3. QED
      BY <3>2 DEF t
  <2>3. QED
    BY <2>1, <2>2
<1> HIDE DEF S, f, N, c, n, is, m, perfect, T
<1> DEFINE Q == {l \in Nat : l <= m => Pays(N, Total(T(l), f), v[l]) /\ (perfect => v[l].first = v[l].next)}
<1>9. 0 \in Q
  <2>1. T(0) = {}
    BY DEF T
  <2>2. Total({}, f) = 0
    BY <1>2, TotalUnfold
  <2>3. v[0].first = 0 /\ v[0].next = 0
    BY <1>8 DEF Time
  <2>4. Cost(N, 0, 0) \in Nat
    BY <1>3, CostTerms
  <2>5. Pays(N, 0, v[0])
    BY <2>3, <2>4 DEF Pays
  <2>6. QED
    BY <2>1, <2>2, <2>3, <2>5
<1>10. ASSUME NEW l \in Nat, l \in Q
       PROVE  l + 1 \in Q
  <2> DEFINE k == l + 1
             x == <<y, k>>
  <2> SUFFICES ASSUME k <= m
               PROVE  Pays(N, Total(T(k), f), v[k]) /\ (perfect => v[k].first = v[k].next)
    OBVIOUS
  <2>1. k \in 1 .. m /\ k - 1 = l /\ l <= m
    BY <1>1
  <2>2. Pays(N, Total(T(l), f), v[l]) /\ (perfect => v[l].first = v[l].next)
    BY <1>10, <2>1
  <2>3. Total(T(k), f) = Total(T(l), f) + f[x]
    <3>1. T(k) \in SUBSET S /\ x \in T(k) /\ T(k) \ {x} = T(l)
      <4>1. \A i : i \in 1 .. k => i \in 1 .. m
        BY <1>1, <2>1
      <4>2. 1 .. l = (1 .. k) \ {k} /\ k \in 1 .. k
        OBVIOUS
      <4> HIDE DEF k
      <4>3. QED
        BY <1>1, <4>1, <4>2 DEF T
    <3>2. IsFiniteSet(T(k)) /\ \A z \in T(k) : f[z] \in Int
      <4> HIDE DEF k
      <4>1. QED
        BY <1>2, <1>4, <3>1, FS_Subset
    <3> HIDE DEF k, x
    <3>3. Total(T(k), f) = Total(T(k) \ {x}, f) + f[x]
      BY <3>1, <3>2, TotalRemove
    <3>4. QED
      BY <3>1, <3>3
  <2> DEFINE a == v[l]
             b == PartTime(c, n, k)
  <2>4. Pays(N, f[x], b) /\ (perfect => b.first = b.next)
    BY <1>5, <2>1
  <2>5. v[k] = Plus(a, b)
    BY <1>8, <2>1
  <2>6. Pays(N, Total(T(l), f), a) /\ (perfect => a.first = a.next)
    BY <2>2
  <2> HIDE DEF k, x, a, b, Q
  <2>7. Pays(N, Total(T(l), f) + f[x], Plus(a, b))
    BY <1>3, <2>4, <2>6, BothPay
  <2>8. perfect => Plus(a, b).first = Plus(a, b).next
    BY <2>4, <2>6 DEF Plus, Time
  <2>9. QED
    BY <2>3, <2>5, <2>7, <2>8
<1>11. Nat \subseteq Q
  <2> HIDE DEF Q
  <2>1. QED
    BY <1>9, <1>10, Induction
<1>12. Pays(N, Total(T(m), f), v[m]) /\ (perfect => v[m].first = v[m].next)
  <2>1. m <= m
    BY <1>1
  <2>2. QED
    BY <1>1, <1>11, <2>1
<1>13. T(m) = At(y)
  BY <1>1, <1>2 DEF T, At, S
<1>14. QED
  BY <1>7, <1>12, <1>13 DEF N, f, c, n, perfect

-----------------------------------------------------------------------------
(* The objective as sums over the contextual nodes and over the contexts   *)
(* of annotated functions.                                                 *)
NodeCosts == [y \in ContextualNodes |-> NodeCost(y[1], y[2])]
ExternalFunctions == {f \in Used : HasExternalWCET(f)}
ExternalCosts == [f \in ExternalFunctions |-> ExternalCost(f)]
Charging(f) ==
  {c \in ContextList(f) : /\ contexts[c].caller # None
                          /\ ~ HasExternalWCET(getCurrentFunction(contexts[c].caller))}
Charges(f) == [c \in Charging(f) |-> ex_(c) * program.wcet[f]]

LEMMA ObjectiveTotal ==
  ASSUME IsFiniteSet(ContextualNodes), IsFiniteSet(ExternalFunctions)
  PROVE  Objective = Total(ContextualNodes, NodeCosts)
                     + (IF Pipelined THEN MapThenSumSet(EdgeCost, UNION {ContextList(f) : f \in Counted}) ELSE 0)
                     + Total(ExternalFunctions, ExternalCosts)
<1>1. MapThenSumSet(LAMBDA cn : NodeCost(cn[1], cn[2]), ContextualNodes) = Total(ContextualNodes, NodeCosts)
  <2> DEFINE S == ContextualNodes
             f == NodeCosts
             A(cn) == NodeCost(cn[1], cn[2])
  <2>1. MapThenSumSet(A, S) = Total(S, f)
    <3> DEFINE Iter(w) == w = [r \in SUBSET S |->
                                 IF r = {} THEN 0
                                 ELSE A(CHOOSE x \in r : TRUE) + w[r \ {CHOOSE x \in r : TRUE}]]
               total == CHOOSE w : Iter(w)
    <3>1. f = [x \in S |-> A(x)]
      BY DEF NodeCosts
    <3>2. MapThenSumSet(A, S) = total[S]
      BY DEF MapThenSumSet, MapThenFoldSet
    <3> HIDE DEF S, A, f
    <3>3. \A x : IsSum(x, S, f) <=> Iter(x)
      BY <3>1 DEF IsSum, Some
    <3>4. Iter(total)
      <4>1. PICK x : IsSum(x, S, f)
        BY SumExists DEF S
      <4>2. Iter(x)
        <5> HIDE DEF Iter
        <5>1. QED
          BY <3>3, <4>1
      <4> HIDE DEF Iter
      <4>3. QED
        BY <4>2, Zenon
    <3>5. IsSum(total, S, f)
      BY <3>3, <3>4
    <3> HIDE DEF total, Iter
    <3>6. total[S] = Total(S, f)
      BY <3>5, TotalOfPart DEF S
    <3>7. QED
      BY <3>2, <3>6
  <2>2. QED
    BY <2>1
<1>2. MapThenSumSet(ExternalCost, ExternalFunctions) = Total(ExternalFunctions, ExternalCosts)
  <2> DEFINE S == ExternalFunctions
             f == ExternalCosts
  <2>1. MapThenSumSet(ExternalCost, S) = Total(S, f)
    <3> DEFINE Iter(w) == w = [r \in SUBSET S |->
                                 IF r = {} THEN 0
                                 ELSE ExternalCost(CHOOSE x \in r : TRUE) + w[r \ {CHOOSE x \in r : TRUE}]]
               total == CHOOSE w : Iter(w)
    <3>1. f = [x \in S |-> ExternalCost(x)]
      BY DEF ExternalCosts
    <3>2. MapThenSumSet(ExternalCost, S) = total[S]
      BY DEF MapThenSumSet, MapThenFoldSet
    <3> HIDE DEF S, f
    <3>3. \A x : IsSum(x, S, f) <=> Iter(x)
      BY <3>1 DEF IsSum, Some
    <3>4. Iter(total)
      <4>1. PICK x : IsSum(x, S, f)
        BY SumExists DEF S
      <4>2. Iter(x)
        <5> HIDE DEF Iter
        <5>1. QED
          BY <3>3, <4>1
      <4> HIDE DEF Iter
      <4>3. QED
        BY <4>2, Zenon
    <3>5. IsSum(total, S, f)
      BY <3>3, <3>4
    <3> HIDE DEF total, Iter
    <3>6. total[S] = Total(S, f)
      BY <3>5, TotalOfPart DEF S
    <3>7. QED
      BY <3>2, <3>6
  <2>2. QED
    BY <2>1
<1> DEFINE a == MapThenSumSet(LAMBDA cn : NodeCost(cn[1], cn[2]), ContextualNodes)
           b == MapThenSumSet(ExternalCost, {f \in Used : HasExternalWCET(f)})
           e == IF Pipelined THEN MapThenSumSet(EdgeCost, UNION {ContextList(f) : f \in Counted}) ELSE 0
<1>3. Objective = a + e + b
  BY DEF Objective
<1>4. b = MapThenSumSet(ExternalCost, ExternalFunctions)
  BY DEF ExternalFunctions
<1>5. a = Total(ContextualNodes, NodeCosts) /\ b = Total(ExternalFunctions, ExternalCosts)
  BY <1>1, <1>2, <1>4
<1> HIDE DEF a, b
<1>6. QED
  BY <1>3, <1>5

LEMMA ExternalTotal ==
  ASSUME NEW g, IsFiniteSet(Charging(g))
  PROVE  ExternalCost(g) = Total(Charging(g), Charges(g))
<1> DEFINE S == Charging(g)
           f == Charges(g)
           A(c) == ex_(c) * program.wcet[g]
<1>1. ExternalCost(g) = MapThenSumSet(A, S)
  BY DEF ExternalCost, Charging
<1>2. MapThenSumSet(A, S) = Total(S, f)
  <2> DEFINE Iter(w) == w = [r \in SUBSET S |->
                               IF r = {} THEN 0
                               ELSE A(CHOOSE x \in r : TRUE) + w[r \ {CHOOSE x \in r : TRUE}]]
             total == CHOOSE w : Iter(w)
  <2>1. f = [x \in S |-> A(x)]
    BY DEF Charges
  <2>2. MapThenSumSet(A, S) = total[S]
    BY DEF MapThenSumSet, MapThenFoldSet
  <2> HIDE DEF S, A, f
  <2>3. \A x : IsSum(x, S, f) <=> Iter(x)
    BY <2>1 DEF IsSum, Some
  <2>4. Iter(total)
    <3>1. PICK x : IsSum(x, S, f)
      BY SumExists DEF S
    <3>2. Iter(x)
      <4> HIDE DEF Iter
      <4>1. QED
        BY <2>3, <3>1
    <3> HIDE DEF Iter
    <3>3. QED
      BY <3>2, Zenon
  <2>5. IsSum(total, S, f)
    BY <2>3, <2>4
  <2> HIDE DEF total, Iter
  <2>6. total[S] = Total(S, f)
    BY <2>5, TotalOfPart DEF S
  <2>7. QED
    BY <2>2, <2>6
<1>3. QED
  BY <1>1, <1>2

-----------------------------------------------------------------------------
LEMMA LoadsBound ==
  ASSUME Tree_, LoadsNamed(program), NEW x \in Sites(program, contexts), NEW frequency,
         LET ins == Instr(program, contexts, x)
         IN  ins.kind = "load" /\ ~ caches.perfectDcache =>
               frequency \in Nat /\ Count(nodeCount, x[1]) <= frequency
  PROVE  WithinFrequency(caches, Instr(program, contexts, x), Count(nodeCount, x[1]), frequency)
<1> DEFINE ins == Instr(program, contexts, x)
           c == x[1][1]
           n == x[1][2]
           f == contexts[c].function
           is == InstructionsIn(program, contexts, c, n)
<1>1. /\ x[1] \in Places(program, contexts) /\ x[1] = <<c, n>>
      /\ x[2] \in DOMAIN is /\ ins = is[x[2]] /\ c \in 1 .. Len(contexts)
      /\ n \in NodesIn(program, contexts, c)
  <2>1. ContextTree(program, contexts, explored)
    BY DEF Tree_
  <2>2. x[1] \in Places(program, contexts) /\ x[2] \in DOMAIN is /\ x[1] = <<c, n>>
    BY <2>1, SitesFacts
  <2>3. c \in 1 .. Len(contexts) /\ n \in NodesIn(program, contexts, c)
    BY <2>1, <2>2, SitesFacts
  <2>4. QED
    BY <2>2, <2>3 DEF Instr
<1>2. f \in DOMAIN program.cfg /\ n \in ToSet(program.cfg[f].nodes) /\ is = program.cfg[f].instructions[n]
  <2>1. f \in DOMAIN program.cfg
    BY <1>1, ContextTypes DEF Tree_
  <2>2. QED
    BY <1>1, <2>1 DEF NodesIn, NodesOf, InstructionsIn
<1>3. is[x[2]].kind = "load" => LoadNamed(is[x[2]])
  <2> HIDE DEF is, n, f
  <2>1. QED
    BY <1>1, <1>2 DEF LoadsNamed
<1>4. QED
  BY <1>1, <1>3 DEF WithinFrequency

LEMMA NodeCostIs ==
  ASSUME ~ Pipelined, NEW y, NEW d, n_(y[1], y[2]) = Count(nodeCount, y), Count(nodeCount, y) \in Nat,
         Pays(Count(nodeCount, y), d, NodeExecutionTime(y[1], y[2])),
         caches.perfectIcache /\ caches.perfectDcache =>
           NodeExecutionTime(y[1], y[2]).first = NodeExecutionTime(y[1], y[2]).next
  PROVE  NodeCost(y[1], y[2]) \in Nat /\ d \in Nat /\ d <= NodeCost(y[1], y[2])
<1> DEFINE c == y[1]
           n == y[2]
           N == Count(nodeCount, y)
           t == NodeExecutionTime(c, n)
           v == NodeCost(c, n)
           perfect == caches.perfectIcache /\ caches.perfectDcache
<1>1. t.first \in Nat /\ t.next \in Nat /\ d \in Nat /\ d <= Cost(N, t.first, t.next) /\ N \in Nat
  BY DEF Pays
<1>2. v = IF perfect THEN N * t.first
          ELSE Lesser(N, 1) * t.first + (N - Lesser(N, 1)) * t.next
  BY DEF NodeCost, nf_
<1> DEFINE a == t.first
           b == t.next
<1>3. perfect => a = b
  OBVIOUS
<1>4. a \in Nat /\ b \in Nat /\ d <= Cost(N, a, b) /\ v = IF perfect THEN N * a ELSE Cost(N, a, b)
  BY <1>1, <1>2 DEF Cost
<1> HIDE DEF a, b, N, v, t, perfect, c, n
<1>5. Cost(N, a, b) \in Nat /\ Cost(N, a, a) = N * a /\ N * a \in Nat
  BY <1>1, <1>4, CostTerms
<1>6. v = Cost(N, a, b)
  BY <1>3, <1>4, <1>5
<1>7. v \in Nat /\ d <= v
  BY <1>4, <1>5, <1>6
<1>8. QED
  BY <1>1, <1>7 DEF v, c, n

(* What the accesses of an execution take is in the costs of its nodes.    *)
LEMMA NodesPaid ==
  ASSUME IInv, Execution, phase # "calls", ~ Pipelined, NEW w,
         Accounted(program, contexts, nodeCount, missed, uses, w),
         LoadsNamed(program), LoadsWithinBounds
  PROVE  /\ IsFiniteSet(ContextualNodes) /\ Total(ContextualNodes, NodeCosts) \in Nat
         /\ Total(Sites(program, contexts), Spent(program, contexts, caches, nodeCount, w)) \in Nat
         /\ Total(Sites(program, contexts), Spent(program, contexts, caches, nodeCount, w))
              <= Total(ContextualNodes, NodeCosts)
<1> DEFINE S == Sites(program, contexts)
           P == Places(program, contexts)
           f == Spent(program, contexts, caches, nodeCount, w)
           C == ContextualNodes
           g == NodeCosts
           m == [x \in S |-> x[1]]
           h == [y \in C |-> Total(At(y), f)]
<1>1. ContextTree(program, contexts, explored) /\ Tree_
  BY DEF Execution, Tree_
<1>2. /\ C \subseteq P
      /\ \A y \in P : Count(nodeCount, y) > 0 => y \in C
  BY ContextualCounts
<1>3. /\ IsFiniteSet(P) /\ IsFiniteSet(S)
      /\ \A y \in P : y = <<y[1], y[2]>>
      /\ \A x \in S : x[1] \in P /\ x = <<x[1], x[2]>>
      /\ \A y, i : <<y, i>> \in S <=> y \in P /\ i \in DOMAIN InstructionsIn(program, contexts, y[1], y[2])
  BY <1>1, SitesFacts
<1>4. IsFiniteSet(C)
  <2>1. C \in SUBSET P
    BY <1>2
  <2> HIDE DEF C, P
  <2>2. QED
    BY <1>3, <2>1, FS_Subset
<1>5. (\A x \in S : f[x] \in Nat) /\ Total(S, f) \in Nat
  <2>1. Numbers(nodeCount) /\ w \in Counts(program, contexts)
    BY DEF Accounted
  <2>2. QED
    BY <1>1, <2>1, SpentType
<1>6. \A y \in P : Count(nodeCount, y) \in Nat /\ n_(y[1], y[2]) = Count(nodeCount, y)
  BY <1>3 DEF Accounted, Numbers, n_
<1>7. ASSUME NEW y \in C
      PROVE  LoadsBounded(y)
  <2> SUFFICES ASSUME NEW x \in At(y)
               PROVE  WithinFrequency(caches, Instr(program, contexts, x), Count(nodeCount, y), ComputeNodeFrequencyBound(y[1], y[2]))
    BY DEF LoadsBounded
  <2>1. x \in S /\ x[1] = y
    BY DEF At
  <2>2. /\ Instr(program, contexts, x) = Instructions(y[1], y[2])[x[2]]
        /\ x[2] \in DOMAIN Instructions(y[1], y[2])
    <3>1. Instructions(y[1], y[2]) = InstructionsIn(program, contexts, y[1], y[2])
      BY DEF Instructions, InstructionsIn, Cfg, getCurrentFunction
    <3>2. <<y, x[2]>> \in S
      BY <1>3, <2>1
    <3>3. x[2] \in DOMAIN InstructionsIn(program, contexts, y[1], y[2])
      BY <1>3, <3>2
    <3>4. QED
      BY <2>1, <3>1, <3>3 DEF Instr
  <2>3. Instr(program, contexts, x).kind = "load" /\ ~ caches.perfectDcache =>
          /\ ComputeNodeFrequencyBound(y[1], y[2]) \in Nat
          /\ Count(nodeCount, x[1]) <= ComputeNodeFrequencyBound(y[1], y[2])
    <3> SUFFICES ASSUME Instr(program, contexts, x).kind = "load", ~ caches.perfectDcache
                 PROVE  /\ ComputeNodeFrequencyBound(y[1], y[2]) \in Nat
                        /\ Count(nodeCount, x[1]) <= ComputeNodeFrequencyBound(y[1], y[2])
      OBVIOUS
    <3>1. \E i \in DOMAIN Instructions(y[1], y[2]) : Instructions(y[1], y[2])[i].kind = "load"
      BY <2>2
    <3>2. /\ ComputeNodeFrequencyBound(y[1], y[2]) \in Nat
          /\ n_(y[1], y[2]) <= ComputeNodeFrequencyBound(y[1], y[2])
      BY <3>1 DEF LoadsWithinBounds
    <3>3. n_(y[1], y[2]) = Count(nodeCount, x[1])
      BY <1>2, <1>6, <2>1
    <3>4. QED
      BY <3>2, <3>3
  <2> DEFINE frequency == ComputeNodeFrequencyBound(y[1], y[2])
  <2> HIDE DEF frequency, S
  <2>4. WithinFrequency(caches, Instr(program, contexts, x), Count(nodeCount, x[1]), frequency)
    BY <1>1, <2>1, <2>3, LoadsBound DEF frequency, S
  <2>5. QED
    BY <2>1, <2>4 DEF frequency
<1>8. ASSUME NEW y \in C
      PROVE  g[y] \in Nat /\ h[y] \in Nat /\ h[y] <= g[y]
  <2> DEFINE d == Total(At(y), f)
  <2>1. y \in P
    BY <1>2
  <2>2. /\ Pays(Count(nodeCount, y), d, NodeExecutionTime(y[1], y[2]))
        /\ caches.perfectIcache /\ caches.perfectDcache =>
             NodeExecutionTime(y[1], y[2]).first = NodeExecutionTime(y[1], y[2]).next
    BY <1>1, <1>7, <2>1, NodePays
  <2>3. g[y] = NodeCost(y[1], y[2]) /\ h[y] = d
    BY DEF NodeCosts
  <2> HIDE DEF d, f, C, P
  <2>4. n_(y[1], y[2]) = Count(nodeCount, y) /\ Count(nodeCount, y) \in Nat
    BY <1>6, <2>1
  <2>5. NodeCost(y[1], y[2]) \in Nat /\ d \in Nat /\ d <= NodeCost(y[1], y[2])
    BY <2>2, <2>4, NodeCostIs
  <2>6. QED
    BY <2>3, <2>5
<1>9. ASSUME NEW x \in S, x[1] \notin C
      PROVE  f[x] = 0
  <2>1. Count(nodeCount, x[1]) = 0
    <3>1. x[1] \in P
      BY <1>3
    <3>2. Count(nodeCount, x[1]) \in Nat /\ ~ (Count(nodeCount, x[1]) > 0)
      BY <1>2, <1>6, <1>9, <3>1
    <3>3. QED
      BY <3>2
  <2> DEFINE d == Duration(caches, Instr(program, contexts, x), Count(nodeCount, x[1]), w, x)
             t == InstructionTime(Instr(program, contexts, x), 0)
  <2>2. WithinFrequency(caches, Instr(program, contexts, x), Count(nodeCount, x[1]), 0)
    BY <1>1, <2>1, LoadsBound
  <2>3. Pays(Count(nodeCount, x[1]), d, t)
    BY <1>1, <2>2, InstructionPays
  <2>4. f[x] = d
    BY DEF Spent
  <2> HIDE DEF d, t, f
  <2>5. d \in Nat /\ d <= Cost(0, t.first, t.next) /\ t.first \in Nat /\ t.next \in Nat
    BY <2>1, <2>3 DEF Pays
  <2>6. Cost(0, t.first, t.next) = 0
    <3> DEFINE a == t.first
               b == t.next
    <3>1. 0 \in Nat /\ a \in Nat /\ b \in Nat
      BY <2>5
    <3> HIDE DEF a, b
    <3>2. Cost(0, a, b) = 0
      BY <3>1, CostTerms
    <3>3. QED
      BY <3>2 DEF a, b
  <2>7. QED
    BY <2>4, <2>5, <2>6
<1>10. PartIn(S, m, C) \in SUBSET S /\ IsFiniteSet(PartIn(S, m, C)) /\ \A y \in C : PartIn(S, m, {y}) = At(y)
  <2>1. PartIn(S, m, C) \in SUBSET S /\ \A y \in C : PartIn(S, m, {y}) = At(y)
    BY DEF PartIn, At
  <2> HIDE DEF S, m
  <2>2. QED
    BY <1>3, <2>1, FS_Subset
<1>11. \A x \in S \ PartIn(S, m, C) : f[x] = 0
  BY <1>9 DEF PartIn
<1>12. SumsOfParts(S, f, C, m, h)
  BY <1>10 DEF SumsOfParts
<1>13. \A x \in S : f[x] \in Int
  <2> HIDE DEF f, S
  <2>1. QED
    BY <1>5
<1> HIDE DEF S, P, f, C, g, m, h
<1>14. Total(S, f) = Total(PartIn(S, m, C), f)
  BY <1>3, <1>10, <1>11, <1>13, TotalSupport
<1>15. Total(C, h) = Total(PartIn(S, m, C), f)
  BY <1>3, <1>4, <1>12, <1>13, TotalParts
<1>16. Total(C, h) <= Total(C, g)
  <2>1. \A y \in C : h[y] \in Int /\ g[y] \in Int /\ h[y] <= g[y]
    BY <1>8
  <2>2. QED
    BY <1>4, <2>1, TotalTerms
<1>17. Total(C, g) \in Nat
  BY <1>4, <1>8, TotalType
<1>18. QED
  BY <1>4, <1>5, <1>14, <1>15, <1>16, <1>17 DEF S, f, C, g

(* The annotated times of the functions that were called are those of the  *)
(* objective.                                                              *)
LEMMA CallsCharged ==
  ASSUME IInv, Execution, phase # "calls", NEW w, NEW el,
         Timed(program, contexts, caches, nodeCount, externalCount, w, el)
  PROVE  /\ IsFiniteSet(ExternalFunctions)
         /\ Total(1 .. Len(contexts), Charged(program, contexts, externalCount)) \in Nat
         /\ Total(1 .. Len(contexts), Charged(program, contexts, externalCount)) = Total(ExternalFunctions, ExternalCosts)
<1> DEFINE D == 1 .. Len(contexts)
           f == Charged(program, contexts, externalCount)
           m == [c \in D |-> getCurrentFunction(c)]
           T == {c \in D : c \in Charging(m[c]) /\ m[c] \in ExternalFunctions}
<1>1. /\ Tree_ /\ ContextTree(program, contexts, explored) /\ program \in Programs
      /\ DOMAIN contexts = D /\ Len(contexts) \in Nat
      /\ getCurrentFunction(1) = program.entry
      /\ \A c \in D : (c = 1 <=> contexts[c].caller = None) /\ (c = 1 \/ c \in 2 .. Len(contexts))
  BY RootFacts DEF Execution, Tree_
<1>2. IsFiniteSet(ExternalFunctions)
  <2>1. IsFiniteSet(Functions)
    BY <1>1, ProgramsAssumption DEF Functions
  <2>2. ExternalFunctions \in SUBSET Functions
    BY DEF ExternalFunctions, Used
  <2>3. QED
    BY <2>1, <2>2, FS_Subset
<1>3. /\ IsFiniteSet(D) /\ Total(D, f) \in Nat
      /\ \A c \in D : f[c] \in Nat
  BY <1>1, ChargedType DEF Timed
<1>4. ASSUME NEW c \in D, f[c] # 0
      PROVE  c \in T
  <2> DEFINE q == contexts[c].caller
             t == program.wcet[contexts[c].function]
             n == Count(externalCount, c)
  <2>1. f[c] = IF contexts[c].function \in DOMAIN program.wcet THEN n * t ELSE 0
    BY DEF Charged
  <2>2. contexts[c].function \in DOMAIN program.wcet /\ n * t # 0
    <3> HIDE DEF n, t, f
    <3>1. QED
      BY <1>4, <2>1
  <2>3. n \in Nat /\ t \in Nat
    BY <1>1, <2>2, TimesAssumption DEF Timed, Numbers
  <2>4. n # 0
    <3>1. ASSUME n = 0
          PROVE  FALSE
      <4> HIDE DEF n, t
      <4>1. 0 * t = 0
        BY <2>3
      <4>2. QED
        BY <2>2, <3>1, <4>1
    <3> HIDE DEF n, t
    <3>2. QED
      BY <3>1
  <2>5. n > 0
    <3> HIDE DEF n, t
    <3>1. QED
      BY <2>3, <2>4
  <2>6. c \in 2 .. Len(contexts) /\ Seen(program, contexts, q)
    BY <2>5 DEF Timed
  <2>7. c # 1 /\ c \in D
    BY <2>6
  <2>8. q # None /\ q \in D
    BY <1>1, <2>6, <2>7, CallerFacts
  <2>9. ~ HasExternalWCET(getCurrentFunction(q))
    <3>1. CASE q = 1
      BY <1>1, <2>6, <3>1, SeenFacts DEF HasExternalWCET
    <3>2. CASE q # 1
      <4>1. q \in 2 .. Len(contexts)
        BY <1>1, <2>8, <3>2
      <4>2. QED
        BY <1>1, <2>6, <4>1, SeenFacts DEF HasExternalWCET, getCurrentFunction
    <3>3. QED
      BY <3>1, <3>2
  <2>10. getCurrentFunction(c) \in Used
    BY <1>1, <2>6, EnteredUsed DEF Entered
  <2>11. m[c] \in ExternalFunctions
    BY <2>2, <2>10 DEF ExternalFunctions, HasExternalWCET, getCurrentFunction
  <2>12. c \in Charging(m[c])
    BY <1>1, <2>8, <2>9 DEF Charging, ContextList
  <2>13. QED
    BY <2>11, <2>12
<1>5. ASSUME NEW g \in ExternalFunctions
      PROVE  PartIn(T, m, {g}) = Charging(g)
  <2>1. \A c \in Charging(g) : c \in D /\ m[c] = g
    BY <1>1 DEF Charging, ContextList
  <2>2. Charging(g) \subseteq PartIn(T, m, {g})
    BY <2>1 DEF PartIn
  <2>3. PartIn(T, m, {g}) \subseteq Charging(g)
    BY DEF PartIn
  <2>4. QED
    BY <2>2, <2>3
<1>6. PartIn(T, m, ExternalFunctions) = T
  BY DEF PartIn
<1>7. T \in SUBSET D /\ IsFiniteSet(T)
  <2>1. T \in SUBSET D
    OBVIOUS
  <2> HIDE DEF T, D
  <2>2. QED
    BY <1>3, <2>1, FS_Subset
<1>8. ASSUME NEW g \in ExternalFunctions
      PROVE  ExternalCosts[g] = Total(Charging(g), f)
  <2>1. Charging(g) \in SUBSET D
    BY <1>1 DEF Charging, ContextList
  <2>2. IsFiniteSet(Charging(g))
    <3> HIDE DEF D
    <3>1. QED
      BY <1>3, <2>1, FS_Subset
  <2>3. ExternalCosts[g] = Total(Charging(g), Charges(g))
    BY <2>2, ExternalTotal DEF ExternalCosts
  <2>4. \A c \in Charging(g) : f[c] \in Int /\ Charges(g)[c] \in Int /\ Charges(g)[c] = f[c]
    <3>1. ASSUME NEW c \in Charging(g)
          PROVE  f[c] \in Int /\ Charges(g)[c] = f[c]
      <4>1. c \in D /\ contexts[c].function = g
        BY <2>1 DEF Charging, ContextList, getCurrentFunction
      <4>2. g \in DOMAIN program.wcet
        BY DEF ExternalFunctions, HasExternalWCET
      <4>3. f[c] = Count(externalCount, c) * program.wcet[g]
        BY <4>1, <4>2 DEF Charged
      <4>4. Charges(g)[c] = Count(externalCount, c) * program.wcet[g]
        BY DEF Charges, ex_
      <4>5. f[c] \in Nat
        BY <1>3, <4>1
      <4> HIDE DEF f
      <4>6. QED
        BY <4>3, <4>4, <4>5
    <3> HIDE DEF f
    <3>2. QED
      BY <3>1
  <2> HIDE DEF f
  <2> DEFINE e == Charges(g)
             K == Charging(g)
  <2>5. Total(K, e) = Total(K, f)
    <3> HIDE DEF e, K
    <3>1. IsFiniteSet(K) /\ \A c \in K : e[c] \in Int /\ f[c] \in Int /\ e[c] = f[c]
      BY <2>2, <2>4 DEF e, K
    <3>2. QED
      BY <3>1, TotalTerms
  <2>6. QED
    BY <2>3, <2>5
<1>9. SumsOfParts(T, f, ExternalFunctions, m, ExternalCosts)
  <2> HIDE DEF T, f, m
  <2>1. QED
    BY <1>5, <1>8 DEF SumsOfParts
<1>10. \A c \in D : f[c] \in Int
  <2> HIDE DEF f, D
  <2>1. QED
    BY <1>3
<1>11. \A c \in D \ T : f[c] = 0
  <2> HIDE DEF f, D, T
  <2>1. QED
    BY <1>4
<1> HIDE DEF D, f, m, T
<1>12. Total(D, f) = Total(T, f)
  BY <1>3, <1>7, <1>10, <1>11, TotalSupport
<1>13. Total(ExternalFunctions, ExternalCosts) = Total(PartIn(T, m, ExternalFunctions), f)
  <2>1. \A c \in T : f[c] \in Int
    BY <1>7, <1>10
  <2>2. QED
    BY <1>2, <1>7, <1>9, <2>1, TotalParts
<1>14. QED
  BY <1>2, <1>3, <1>6, <1>12, <1>13 DEF D, f

(* Without a pipeline, the time of an execution is at most the objective   *)
(* at what it counts, whatever the caches answer within their              *)
(* classifications.  A load must be named by its classifications           *)
(* (IPETAnalysis.cc starts from one access at level 1) and be executed no  *)
(* more often than ComputeNodeFrequencyBound says: the code assumes both.  *)
THEOREM TimeIsBounded ==
  Spec => [](~ Pipelined /\ LoadsNamed(program) /\ LoadsWithinBounds => TimeBounded)
<1>1. IPETInit => Execution /\ Account
  BY AccountStarts, ExecutionStarts
<1>2. Execution /\ Account /\ [IPETNext]_vars => (Execution /\ Account)'
  BY ExecutionKept, AccountKept
<1>3. IInv /\ Execution /\ Account
        => (~ Pipelined /\ LoadsNamed(program) /\ LoadsWithinBounds => TimeBounded)
  <2> SUFFICES ASSUME IInv, Execution, Account, ~ Pipelined, LoadsNamed(program), LoadsWithinBounds, phase = "done"
               PROVE  elapsed <= Objective
    BY DEF TimeBounded
  <2>1. node # None
    BY DEF Account
  <2>2. PICK w : Accounts(program, contexts, caches, nodeCount, externalCount, missed, uses, elapsed, w)
    BY <2>1 DEF Account
  <2>3. /\ Accounted(program, contexts, nodeCount, missed, uses, w)
        /\ Timed(program, contexts, caches, nodeCount, externalCount, w, elapsed)
    BY <2>2 DEF Accounts
  <2> DEFINE a == Total(Sites(program, contexts), Spent(program, contexts, caches, nodeCount, w))
             b == Total(1 .. Len(contexts), Charged(program, contexts, externalCount))
             c == Total(ContextualNodes, NodeCosts)
             d == Total(ExternalFunctions, ExternalCosts)
  <2>4. elapsed = a + b
    BY <2>3 DEF Timed, Pipelined
  <2>5. IsFiniteSet(ContextualNodes) /\ a \in Nat /\ c \in Nat /\ a <= c
    BY <2>3, NodesPaid
  <2>6. IsFiniteSet(ExternalFunctions) /\ b \in Nat /\ b = d
    BY <2>3, CallsCharged
  <2>7. Objective = c + 0 + d
    BY <2>5, <2>6, ObjectiveTotal
  <2> HIDE DEF a, b, c, d
  <2>8. QED
    BY <2>4, <2>5, <2>6, <2>7
<1>4. QED
  BY <1>1, <1>2, <1>3, Invariance, PTL DEF Spec
=============================================================================
