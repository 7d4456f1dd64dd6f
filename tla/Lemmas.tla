------------------------------- MODULE Lemmas -------------------------------
(***************************************************************************)
(* Lemmas that the proofs about several components cite: induction, sums   *)
(* over finite sets and recursion, which the library states with operator  *)
(* parameters and which are proved here for sets, from the least element   *)
(* of a set of naturals; and the graphs of ControlFlow: what is reachable  *)
(* within some number of edges, and that Reachable is the least set closed *)
(* under the edges; natural loops: which nodes one has, that two loops of  *)
(* a reducible graph are nested or apart, and that a cycle has a loop.     *)
(***************************************************************************)
EXTENDS ControlFlow, FiniteSetTheorems, TLAPS

LEMMA LeastElement ==
  ASSUME NEW S \in SUBSET Nat, S # {}
  PROVE  \E n \in S : \A m \in S : n <= m
<1> DEFINE R == {ss \in Nat \X Nat : ss[1] < ss[2]}
<1>1. R = OpToRel(<, Nat)
  BY Zenon DEF OpToRel
<1>2. IsWellFoundedOn(R, Nat)
  BY <1>1, NatLessThanWellFounded, Zenon
<1>3. \E n \in S : \A m \in S : ~ (<<m, n>> \in R)
  BY <1>2, WFMin, Zenon
<1>4. \A m, n \in S : m < n => <<m, n>> \in R
  OBVIOUS
<1>5. PICK n \in S : \A m \in S : ~ (m < n)
  BY <1>3, <1>4, Zenon
<1>6. \A m \in S : n <= m
  BY <1>5
<1>7. QED
  BY <1>6

(* Induction on the naturals. *)
LEMMA Induction ==
  ASSUME NEW S, 0 \in S, \A n \in Nat : n \in S => n + 1 \in S
  PROVE  Nat \subseteq S
<1> DEFINE T == Nat \ S
<1>1. SUFFICES ASSUME T # {} PROVE FALSE
  OBVIOUS
<1>2. PICK n \in T : \A m \in T : n <= m
  BY <1>1, LeastElement, Zenon
<1>3. n # 0 /\ n - 1 \in Nat /\ n - 1 \notin T
  BY <1>2
<1>4. n - 1 + 1 \in S
  BY <1>3
<1>5. QED
  BY <1>2, <1>4

(* f is the iteration of g from s. *)
Iterates(f, s, g) == f = [k \in Nat |-> IF k = 0 THEN s ELSE g[f[k - 1]]]

LEMMA Recursion ==
  ASSUME NEW V, NEW s \in V, NEW g \in [V -> V]
  PROVE  \E f \in [Nat -> V] : Iterates(f, s, g)
<1> DEFINE Upto(n) == {p \in [0 .. n -> V] : p[0] = s /\ \A k \in 1 .. n : p[k] = g[p[k - 1]]}
<1> DEFINE S == {n \in Nat : Upto(n) # {}}
<1>1. Nat \subseteq S
  <2>1. 0 \in S
    <3>1. [k \in 0 .. 0 |-> s] \in Upto(0)
      OBVIOUS
    <3>2. QED
      BY <3>1
  <2>2. ASSUME NEW n \in Nat, n \in S
        PROVE  n + 1 \in S
    <3>1. PICK p \in Upto(n) : TRUE
      BY <2>2
    <3> DEFINE q == [k \in 0 .. n + 1 |-> IF k <= n THEN p[k] ELSE g[p[n]]]
    <3>2. q \in [0 .. n + 1 -> V]
      OBVIOUS
    <3>3. q[0] = s
      OBVIOUS
    <3>4. ASSUME NEW k \in 1 .. n + 1
          PROVE  q[k] = g[q[k - 1]]
      <4>1. CASE k <= n
        <5>1. k \in 1 .. n /\ k - 1 \in 0 .. n
          BY <4>1
        <5>2. p[k] = g[p[k - 1]]
          BY <5>1
        <5>3. q[k] = p[k] /\ q[k - 1] = p[k - 1]
          BY <5>1
        <5>4. QED
          BY <5>2, <5>3
      <4>2. CASE k = n + 1
        BY <4>2
      <4>3. QED
        BY <4>1, <4>2
    <3>5. q \in Upto(n + 1)
      BY <3>2, <3>3, <3>4
    <3>6. QED
      BY <3>5
  <2> HIDE DEF S
  <2>3. QED
    BY <2>1, <2>2, Induction
<1> DEFINE U == {k \in Nat : \A n, m \in Nat : \A p \in Upto(n), q \in Upto(m) :
                    k <= n /\ k <= m => p[k] = q[k]}
<1>2. Nat \subseteq U
  <2>1. 0 \in U
    OBVIOUS
  <2>2. ASSUME NEW k \in Nat, k \in U
        PROVE  k + 1 \in U
    <3>1. SUFFICES ASSUME NEW n \in Nat, NEW m \in Nat, NEW p \in Upto(n), NEW q \in Upto(m),
                          k + 1 <= n, k + 1 <= m
                   PROVE  p[k + 1] = q[k + 1]
      OBVIOUS
    <3>2. p[k] = q[k]
      <4>1. k <= n /\ k <= m
        BY <3>1
      <4>2. QED
        BY <2>2, <4>1
    <3>3. k + 1 \in 1 .. n /\ k + 1 \in 1 .. m /\ k + 1 - 1 = k
      BY <3>1
    <3>4. p[k + 1] = g[p[k]] /\ q[k + 1] = g[q[k]]
      BY <3>3
    <3>5. QED
      BY <3>2, <3>4
  <2> HIDE DEF U
  <2>3. QED
    BY <2>1, <2>2, Induction
<1> DEFINE P(n) == CHOOSE p \in Upto(n) : TRUE
<1>3. \A n \in Nat : P(n) \in Upto(n)
  BY <1>1
<1> DEFINE f == [n \in Nat |-> P(n)[n]]
<1> HIDE DEF P
<1>4. f \in [Nat -> V]
  BY <1>3
<1>5. f[0] = s
  BY <1>3
<1>6. ASSUME NEW k \in Nat, k # 0
      PROVE  f[k] = g[f[k - 1]]
  <2>1. k - 1 \in Nat /\ k \in 1 .. k /\ P(k) \in Upto(k) /\ P(k - 1) \in Upto(k - 1)
    BY <1>3, <1>6
  <2>2. P(k)[k] = g[P(k)[k - 1]]
    BY <2>1
  <2>3. k - 1 \in U
    BY <2>1, <1>2
  <2>4. P(k)[k - 1] = P(k - 1)[k - 1]
    BY <2>1, <2>3
  <2>5. QED
    BY <2>1, <2>2, <2>4
<1>7. Iterates(f, s, g)
  BY <1>4, <1>5, <1>6 DEF Iterates
<1>8. QED
  BY <1>4, <1>7
-----------------------------------------------------------------------------
(* Sums over a finite set, element after element. *)
Some(s) == CHOOSE x \in s : TRUE

LEMMA Smaller ==
  ASSUME NEW S, IsFiniteSet(S), NEW s \in SUBSET S
  PROVE  /\ Cardinality(s) \in Nat
         /\ s = {} <=> Cardinality(s) = 0
         /\ s # {} => /\ Some(s) \in s /\ s \ {Some(s)} \in SUBSET S
                      /\ Cardinality(s \ {Some(s)}) = Cardinality(s) - 1
<1>1. IsFiniteSet(s) /\ Cardinality(s) \in Nat
  BY FS_Subset, FS_CardinalityType
<1>2. s = {} <=> Cardinality(s) = 0
  BY <1>1, FS_EmptySet
<1>3. ASSUME s # {}
      PROVE  Some(s) \in s
  BY <1>3 DEF Some
<1>4. ASSUME s # {}
      PROVE  Cardinality(s \ {Some(s)}) = Cardinality(s) - 1
  BY <1>1, <1>3, <1>4, FS_RemoveElement
<1>5. QED
  BY <1>1, <1>2, <1>3, <1>4

LEMMA SubsetInduction ==
  ASSUME NEW S, IsFiniteSet(S), NEW Q, {} \in Q,
         \A s \in SUBSET S : s # {} /\ s \ {Some(s)} \in Q => s \in Q
  PROVE  SUBSET S \subseteq Q
<1> DEFINE R == {n \in Nat : \A s \in SUBSET S : Cardinality(s) <= n => s \in Q}
<1>1. 0 \in R
  <2>1. ASSUME NEW s \in SUBSET S, Cardinality(s) <= 0
        PROVE  s = {}
    <3>1. Cardinality(s) \in Nat /\ (s = {} <=> Cardinality(s) = 0)
      BY Smaller, Zenon
    <3>2. QED
      BY <2>1, <3>1
  <2>2. QED
    BY <2>1
<1>2. ASSUME NEW n \in Nat, n \in R
      PROVE  n + 1 \in R
  <2>1. SUFFICES ASSUME NEW s \in SUBSET S, Cardinality(s) <= n + 1
                 PROVE  s \in Q
    OBVIOUS
  <2>2. CASE s # {}
    <3>1. s \ {Some(s)} \in SUBSET S /\ Cardinality(s \ {Some(s)}) <= n
      BY <2>1, <2>2, Smaller
    <3>2. QED
      BY <1>2, <2>2, <3>1
  <2>3. QED
    BY <2>2
<1>3. Nat \subseteq R
  <2> HIDE DEF R
  <2>1. QED
    BY <1>1, <1>2, Induction
<1>4. ASSUME NEW s \in SUBSET S
      PROVE  s \in Q
  <2>1. Cardinality(s) \in Nat
    BY Smaller, Zenon
  <2>2. Cardinality(s) \in R
    BY <1>3, <2>1
  <2>3. QED
    BY <2>1, <2>2
<1>5. QED
  BY <1>4

IsSum(w, S, f) ==
  w = [s \in SUBSET S |-> IF s = {} THEN 0 ELSE f[Some(s)] + w[s \ {Some(s)}]]

LEMMA SumExists ==
  ASSUME NEW S, IsFiniteSet(S), NEW f
  PROVE  \E w : IsSum(w, S, f)
<1> DEFINE Small(n) == {s \in SUBSET S : Cardinality(s) <= n}
           Next_(w, s) == IF s = {} THEN 0 ELSE f[Some(s)] + w[s \ {Some(s)}]
           Q == {n \in Nat : \E w : w = [s \in Small(n) |-> Next_(w, s)]}
<1>1. 0 \in Q
  <2> DEFINE w == [s \in Small(0) |-> 0]
  <2>1. ASSUME NEW s \in Small(0)
        PROVE  s = {}
    <3>1. s \in SUBSET S /\ Cardinality(s) <= 0
      OBVIOUS
    <3>2. Cardinality(s) \in Nat /\ (s = {} <=> Cardinality(s) = 0)
      BY <3>1, Smaller, Zenon
    <3>3. QED
      BY <3>1, <3>2
  <2>2. w = [s \in Small(0) |-> Next_(w, s)]
    BY <2>1
  <2>3. QED
    BY <2>2
<1>2. ASSUME NEW n \in Nat, n \in Q
      PROVE  n + 1 \in Q
  <2>1. PICK w : w = [s \in Small(n) |-> Next_(w, s)]
    BY <1>2
  <2> DEFINE u == [s \in Small(n + 1) |-> Next_(w, s)]
  <2>2. ASSUME NEW s \in Small(n + 1), s # {}
        PROVE  w[s \ {Some(s)}] = u[s \ {Some(s)}]
    <3>1. s \ {Some(s)} \in Small(n) /\ s \ {Some(s)} \in Small(n + 1)
      BY <2>2, Smaller
    <3>2. QED
      BY <2>1, <3>1
  <2>3. u = [s \in Small(n + 1) |-> Next_(u, s)]
    BY <2>2
  <2>4. n + 1 \in Nat
    OBVIOUS
  <2>5. \E x : x = [s \in Small(n + 1) |-> Next_(x, s)]
    <3> HIDE DEF u, Small, Next_
    <3>1. QED
      BY <2>3, Zenon
  <2> HIDE DEF u, Small, Next_
  <2>6. QED
    BY <2>4, <2>5, Zenon
<1>3. Cardinality(S) \in Q
  <2>1. Nat \subseteq Q
    <3> HIDE DEF Q
    <3>1. QED
      BY <1>1, <1>2, Induction
  <2>2. QED
    BY <2>1, FS_CardinalityType
<1>4. Small(Cardinality(S)) = SUBSET S
  BY FS_Subset
<1>5. PICK w : w = [s \in SUBSET S |-> Next_(w, s)]
  BY <1>3, <1>4
<1>6. QED
  BY <1>5 DEF IsSum

(* A sum changes by what one element changes. *)
LEMMA SumMoves ==
  ASSUME NEW S, IsFiniteSet(S), NEW f, NEW g, NEW a, NEW k \in Int,
         \A x \in S : f[x] \in Int /\ g[x] = f[x] + (IF x = a THEN k ELSE 0),
         NEW w, NEW u, IsSum(w, S, f), IsSum(u, S, g)
  PROVE  w[S] \in Int /\ u[S] = w[S] + (IF a \in S THEN k ELSE 0)
<1> DEFINE Q == {s \in SUBSET S : w[s] \in Int /\ u[s] = w[s] + (IF a \in s THEN k ELSE 0)}
<1>1. \A s \in SUBSET S : /\ w[s] = IF s = {} THEN 0 ELSE f[Some(s)] + w[s \ {Some(s)}]
                         /\ u[s] = IF s = {} THEN 0 ELSE g[Some(s)] + u[s \ {Some(s)}]
  BY DEF IsSum
<1>2. {} \in Q
  <2>1. {} \in SUBSET S /\ a \notin {}
    OBVIOUS
  <2>2. w[{}] = 0 /\ u[{}] = 0
    BY <1>1, <2>1, Zenon
  <2>3. QED
    BY <2>1, <2>2
<1>3. ASSUME NEW s \in SUBSET S, s # {}, s \ {Some(s)} \in Q
      PROVE  s \in Q
  <2> DEFINE x == Some(s)
             r == s \ {x}
  <2>1. x \in s /\ x \in S /\ r \in SUBSET S
    BY <1>3, Smaller
  <2>2. w[s] = f[x] + w[r] /\ u[s] = g[x] + u[r]
    BY <1>1, <1>3
  <2>3. w[r] \in Int /\ u[r] = w[r] + (IF a \in r THEN k ELSE 0)
    BY <1>3
  <2>4. f[x] \in Int /\ g[x] = f[x] + (IF x = a THEN k ELSE 0)
    BY <2>1
  <2>5. a \in s <=> a \in r \/ x = a
    BY <2>1
  <2>6. a \in r => x # a
    OBVIOUS
  <2> HIDE DEF x, r
  <2>7. w[s] \in Int /\ u[s] = w[s] + (IF a \in s THEN k ELSE 0)
    BY <2>2, <2>3, <2>4, <2>5, <2>6
  <2>8. QED
    BY <2>7
<1>4. SUBSET S \subseteq Q
  <2> HIDE DEF Q
  <2>1. QED
    BY <1>2, <1>3, SubsetInduction
<1>5. QED
  BY <1>4
LEMMA SumChange ==
  ASSUME NEW S, IsFiniteSet(S), NEW f, NEW g, NEW a \in S, NEW k \in Int,
         \A x \in S : f[x] \in Int /\ g[x] = f[x] + (IF x = a THEN k ELSE 0),
         NEW w, NEW u, IsSum(w, S, f), IsSum(u, S, g)
  PROVE  w[S] \in Int /\ u[S] = w[S] + k
BY SumMoves

(* A sum of natural numbers is at least each of them.                      *)
LEMMA SumTerms ==
  ASSUME NEW S, IsFiniteSet(S), NEW f, \A x \in S : f[x] \in Nat, NEW w, IsSum(w, S, f)
  PROVE  /\ w[S] \in Nat /\ \A x \in S : f[x] <= w[S]
         /\ (\A x \in S : f[x] = 0) => w[S] = 0
<1> DEFINE Q == {s \in SUBSET S : /\ w[s] \in Nat /\ \A x \in s : f[x] <= w[s]
                                  /\ (\A x \in S : f[x] = 0) => w[s] = 0}
<1>1. \A s \in SUBSET S : w[s] = IF s = {} THEN 0 ELSE f[Some(s)] + w[s \ {Some(s)}]
  BY DEF IsSum
<1>2. {} \in Q
  <2>1. {} \in SUBSET S
    OBVIOUS
  <2>2. w[{}] = 0
    BY <1>1, <2>1, Zenon
  <2>3. QED
    BY <2>1, <2>2
<1>3. ASSUME NEW s \in SUBSET S, s # {}, s \ {Some(s)} \in Q
      PROVE  s \in Q
  <2> DEFINE x == Some(s)
             r == s \ {x}
  <2>1. x \in s /\ x \in S /\ f[x] \in Nat
    BY <1>3, Smaller
  <2>2. w[s] = f[x] + w[r]
    BY <1>1, <1>3
  <2>3. w[r] \in Nat /\ (\A y \in r : f[y] <= w[r]) /\ ((\A y \in S : f[y] = 0) => w[r] = 0)
    BY <1>3
  <2>4. \A y \in s : y = x \/ y \in r
    OBVIOUS
  <2>5. \A y \in s : f[y] \in Nat
    OBVIOUS
  <2> HIDE DEF x, r
  <2>6. w[s] \in Nat /\ \A y \in s : f[y] <= w[s]
    BY <2>1, <2>2, <2>3, <2>4, <2>5
  <2>7. (\A y \in S : f[y] = 0) => w[s] = 0
    BY <2>1, <2>2, <2>3
  <2>8. QED
    BY <2>6, <2>7
<1>4. SUBSET S \subseteq Q
  <2> HIDE DEF Q
  <2>1. QED
    BY <1>2, <1>3, SubsetInduction
<1>5. QED
  BY <1>4
-----------------------------------------------------------------------------
(* w[k] is the set of the nodes within k edges of start. *)
IsWithin(edges, start, w) ==
  w = [k \in Nat |-> IF k = 0 THEN start
                     ELSE w[k - 1] \cup {e[2] : e \in {x \in edges : x[1] \in w[k - 1]}}]

LEMMA WithinExists ==
  ASSUME NEW edges, NEW start
  PROVE  \E w : IsWithin(edges, start, w)
<1> DEFINE V == SUBSET (start \cup {e[2] : e \in edges})
<1> DEFINE g == [W \in V |-> W \cup {e[2] : e \in {x \in edges : x[1] \in W}}]
<1>1. start \in V
  OBVIOUS
<1>2. g \in [V -> V]
  OBVIOUS
<1> HIDE DEF V, g
<1>3. \E f \in [Nat -> V] : Iterates(f, start, g)
  BY <1>1, <1>2, Recursion, Zenon
<1>8. PICK f \in [Nat -> V] : Iterates(f, start, g)
  BY <1>3
<1>4. \A k \in Nat \ {0} : f[k - 1] \in V
  BY <1>8
<1>5. \A k \in Nat \ {0} :
        g[f[k - 1]] = f[k - 1] \cup {e[2] : e \in {x \in edges : x[1] \in f[k - 1]}}
  BY <1>4 DEF g
<1>6. IsWithin(edges, start, f)
  BY <1>8, <1>5 DEF IsWithin, Iterates
<1>7. QED
  BY <1>6

LEMMA ReachableWithin ==
  ASSUME NEW edges, NEW start, Cardinality(edges) \in Nat
  PROVE  \E w : IsWithin(edges, start, w) /\ Reachable(edges, start) = w[Cardinality(edges)]
<1> DEFINE w == CHOOSE w : IsWithin(edges, start, w)
<1>1. IsWithin(edges, start, w)
  BY WithinExists
<1>2. Reachable(edges, start) = w[Cardinality(edges)]
  BY DEF Reachable, IsWithin
<1>3. QED
  BY <1>1, <1>2
LEMMA WithinStep ==
  ASSUME NEW edges, NEW start, NEW w, IsWithin(edges, start, w)
  PROVE  /\ w[0] = start
         /\ \A k \in Nat : /\ start \subseteq w[k]
                           /\ w[k + 1] = w[k] \cup {e[2] : e \in {x \in edges : x[1] \in w[k]}}
<1>1. w[0] = start
  BY DEF IsWithin
<1>2. ASSUME NEW k \in Nat
      PROVE  w[k + 1] = w[k] \cup {e[2] : e \in {x \in edges : x[1] \in w[k]}}
  <2>1. \A n \in Nat \ {0} :
          w[n] = w[n - 1] \cup {e[2] : e \in {x \in edges : x[1] \in w[n - 1]}}
    BY DEF IsWithin
  <2>2. k + 1 \in Nat \ {0} /\ k + 1 - 1 = k
    OBVIOUS
  <2>3. QED
    BY <2>1, <2>2
<1> DEFINE S == {k \in Nat : start \subseteq w[k]}
<1>3. 0 \in S
  BY <1>1
<1>4. \A k \in Nat : k \in S => k + 1 \in S
  BY <1>2
<1>5. Nat \subseteq S
  <2> HIDE DEF S
  <2>1. QED
    BY <1>3, <1>4, Induction
<1>6. QED
  BY <1>1, <1>2, <1>5

(* What is reachable contains the start, ... *)
LEMMA ReachableStart ==
  ASSUME NEW edges, NEW start, IsFiniteSet(edges)
  PROVE  start \subseteq Reachable(edges, start)
<1>1. Cardinality(edges) \in Nat
  BY FS_CardinalityType
<1>2. PICK w : IsWithin(edges, start, w) /\ Reachable(edges, start) = w[Cardinality(edges)]
  BY <1>1, ReachableWithin
<1>3. QED
  BY <1>1, <1>2, WithinStep

(* ... is contained in every set that does and that no edge leaves, ... *)
LEMMA ReachableLeast ==
  ASSUME NEW edges, NEW start, IsFiniteSet(edges),
         NEW T, start \subseteq T, \A e \in edges : e[1] \in T => e[2] \in T
  PROVE  Reachable(edges, start) \subseteq T
<1>1. Cardinality(edges) \in Nat
  BY FS_CardinalityType
<1>2. PICK w : IsWithin(edges, start, w) /\ Reachable(edges, start) = w[Cardinality(edges)]
  BY <1>1, ReachableWithin
<1> DEFINE S == {k \in Nat : w[k] \subseteq T}
<1>3. 0 \in S
  BY <1>2, WithinStep
<1>4. ASSUME NEW k \in Nat, k \in S
      PROVE  k + 1 \in S
  <2>1. w[k + 1] = w[k] \cup {e[2] : e \in {x \in edges : x[1] \in w[k]}}
    BY <1>2, WithinStep
  <2>2. QED
    BY <1>4, <2>1
<1>5. Nat \subseteq S
  <2> HIDE DEF S
  <2>1. QED
    BY <1>3, <1>4, Induction
<1>6. QED
  BY <1>1, <1>2, <1>5

(* ... and is one of these sets. *)
LEMMA ReachableClosed ==
  ASSUME NEW edges, NEW start, IsFiniteSet(edges),
         NEW e \in edges, e[1] \in Reachable(edges, start)
  PROVE  e[2] \in Reachable(edges, start)
<1> DEFINE c == Cardinality(edges)
<1>1. c \in Nat
  BY FS_CardinalityType
<1>2. PICK w : IsWithin(edges, start, w) /\ Reachable(edges, start) = w[c]
  BY <1>1, ReachableWithin
<1> DEFINE Closed(k) == \A x \in edges : x[1] \in w[k] => x[2] \in w[k]
           Entered(k) == {x \in edges : x[2] \in w[k] /\ x[2] \notin start}
           S == {k \in Nat : Closed(k) \/ k <= Cardinality(Entered(k))}
<1>3. \A k \in Nat : IsFiniteSet(Entered(k)) /\ Cardinality(Entered(k)) \in Nat
                    /\ Cardinality(Entered(k)) <= c
  BY FS_Subset, FS_CardinalityType
<1>4. 0 \in S
  <2> HIDE DEF Closed, Entered
  <2>1. QED
    BY <1>3
<1>5. ASSUME NEW k \in Nat, k \in S
      PROVE  k + 1 \in S
  <2>1. w[k + 1] = w[k] \cup {x[2] : x \in {y \in edges : y[1] \in w[k]}} /\ start \subseteq w[k]
    BY <1>2, WithinStep
  <2>2. CASE Closed(k)
    <3>1. w[k + 1] = w[k]
      BY <2>1, <2>2
    <3>2. QED
      BY <2>2, <3>1
  <2>3. CASE ~ Closed(k)
    <3>1. PICK x \in edges : x[1] \in w[k] /\ x[2] \notin w[k]
      BY <2>3
    <3>2. x \in Entered(k + 1) /\ x \notin Entered(k)
      BY <2>1, <3>1
    <3>3. Entered(k) \subseteq Entered(k + 1)
      BY <2>1
    <3>4. k <= Cardinality(Entered(k))
      BY <1>5, <2>3
    <3> HIDE DEF Entered, Closed
    <3>5. IsFiniteSet(Entered(k)) /\ IsFiniteSet(Entered(k + 1))
      BY <1>3
    <3>6. Cardinality(Entered(k)) < Cardinality(Entered(k + 1))
      <4>1. Entered(k) # Entered(k + 1)
        BY <3>2
      <4>2. Cardinality(Entered(k)) <= Cardinality(Entered(k + 1))
        BY <3>3, <3>5, FS_Subset
      <4>3. Cardinality(Entered(k)) # Cardinality(Entered(k + 1))
        BY <4>1, <3>3, <3>5, FS_Subset
      <4>4. QED
        BY <4>2, <4>3, <1>3
    <3>7. k + 1 <= Cardinality(Entered(k + 1))
      BY <3>4, <3>6, <1>3
    <3>8. QED
      BY <3>7
  <2>4. QED
    BY <2>2, <2>3
<1>6. Nat \subseteq S
  <2> HIDE DEF S
  <2>1. QED
    BY <1>4, <1>5, Induction
<1>7. Closed(c) \/ c <= Cardinality(Entered(c))
  BY <1>1, <1>6
<1>8. CASE c <= Cardinality(Entered(c))
  <2>1. Entered(c) \subseteq edges
    OBVIOUS
  <2>2. Entered(c) = edges
    <3> HIDE DEF Entered
    <3>1. Cardinality(Entered(c)) = Cardinality(edges)
      BY <1>1, <1>3, <1>8
    <3>2. QED
      BY <2>1, <3>1, FS_Subset
  <2>3. e \in Entered(c)
    BY <2>2
  <2>4. QED
    BY <2>3, <1>2
<1>9. QED
  BY <1>2, <1>7, <1>8

-----------------------------------------------------------------------------
LEMMA WithoutFinite ==
  ASSUME NEW edges, IsFiniteSet(edges), NEW n
  PROVE  IsFiniteSet(Without(edges, n))
BY FS_Subset DEF Without

LEMMA ReversedFinite ==
  ASSUME NEW edges, IsFiniteSet(edges)
  PROVE  IsFiniteSet(Reversed(edges))
<1> DEFINE f == [e \in edges |-> <<e[2], e[1]>>]
<1>1. f \in Surjection(edges, Reversed(edges))
  BY DEF Surjection, Reversed
<1>2. QED
  BY <1>1, FS_Surjection

(* Paths that begin on a path. *)
LEMMA ReachableTransitive ==
  ASSUME NEW edges, NEW start, IsFiniteSet(edges), NEW a \in Reachable(edges, start)
  PROVE  Reachable(edges, {a}) \subseteq Reachable(edges, start)
<1> DEFINE T == Reachable(edges, start)
<1>1. {a} \subseteq T
  OBVIOUS
<1>2. \A e \in edges : e[1] \in T => e[2] \in T
  BY ReachableClosed
<1>3. QED
  <2> HIDE DEF T
  <2>1. Reachable(edges, {a}) \subseteq T
    BY <1>1, <1>2, ReachableLeast
  <2>2. QED
    BY <2>1 DEF T

(* A path of one edge at least ends with an edge. *)
LEMMA LastEdge ==
  ASSUME NEW edges, NEW a, IsFiniteSet(edges), NEW z \in Reachable(edges, Successors(edges, a))
  PROVE  \E e \in edges : e[1] \in Reachable(edges, {a}) /\ e[2] = z
<1> DEFINE R == Reachable(edges, {a})
           T == {x \in UNION {{e[2]} : e \in edges} : \E e \in edges : e[1] \in R /\ e[2] = x}
<1>1. a \in R /\ \A e \in edges : e[1] \in R => e[2] \in R
  BY ReachableStart, ReachableClosed
<1>2. Successors(edges, a) \subseteq T
  BY <1>1 DEF Successors
<1>3. \A e \in edges : e[1] \in T => e[2] \in T
  BY <1>1
<1>4. z \in T
  <2> HIDE DEF T
  <2>1. QED
    BY <1>2, <1>3, ReachableLeast
<1>5. QED
  BY <1>4
-----------------------------------------------------------------------------
(* Natural loops.  The edges to h from the nodes it dominates, and the     *)
(* nodes of its loop.                                                      *)
Pairs(edges) == IsFiniteSet(edges) /\ \A e \in edges : e = <<e[1], e[2]>>

LEMMA LoopBackward ==
  ASSUME NEW edges, Pairs(edges), NEW s, NEW h, NEW e \in edges,
         e[2] \in LoopOf(edges, s, h), e[2] # h
  PROVE  e[1] \in LoopOf(edges, s, h)
<1> DEFINE R == Reversed(Without(edges, h))
           S == {x[1] : x \in {y \in BackEdges(edges, s) : y[2] = h}} \ {h}
           back == <<e[2], e[1]>>
<1>1. IsFiniteSet(R)
  BY WithoutFinite, ReversedFinite DEF Pairs
<1>2. CASE e[1] = h
  BY <1>2 DEF LoopOf
<1>3. CASE e[1] # h
  <2>1. back \in R /\ back[1] = e[2] /\ back[2] = e[1]
    BY <1>3 DEF Reversed, Without
  <2>2. e[2] \in Reachable(R, S)
    BY DEF LoopOf
  <2> HIDE DEF R, S, back
  <2>3. back[2] \in Reachable(R, S)
    BY <1>1, <2>1, <2>2, ReachableClosed
  <2>4. QED
    BY <2>1, <2>3 DEF LoopOf, R, S
<1>4. QED
  BY <1>2, <1>3

LEMMA LoopSources ==
  ASSUME NEW edges, Pairs(edges), NEW s, NEW h, NEW e \in BackEdges(edges, s), e[2] = h
  PROVE  e[1] \in LoopOf(edges, s, h)
<1> DEFINE R == Reversed(Without(edges, h))
           S == {x[1] : x \in {y \in BackEdges(edges, s) : y[2] = h}} \ {h}
<1>1. IsFiniteSet(R)
  BY WithoutFinite, ReversedFinite DEF Pairs
<1>2. S \subseteq Reachable(R, S)
  BY <1>1, ReachableStart
<1>3. e[1] = h \/ e[1] \in S
  OBVIOUS
<1>4. QED
  BY <1>2, <1>3 DEF LoopOf

LEMMA LoopLeast ==
  ASSUME NEW edges, Pairs(edges), NEW s, NEW h, NEW T, h \in T,
         \A e \in BackEdges(edges, s) : e[2] = h => e[1] \in T,
         \A e \in edges : e[1] # h /\ e[2] # h /\ e[2] \in T /\ e[2] \in LoopOf(edges, s, h) => e[1] \in T
  PROVE  LoopOf(edges, s, h) \subseteq T
<1> DEFINE R == Reversed(Without(edges, h))
           S == {x[1] : x \in {y \in BackEdges(edges, s) : y[2] = h}} \ {h}
           U == T \cap Reachable(R, S)
<1>1. IsFiniteSet(R)
  BY WithoutFinite, ReversedFinite DEF Pairs
<1>2. S \subseteq U
  BY <1>1, ReachableStart
<1>3. ASSUME NEW r \in R, r[1] \in U
      PROVE  r[2] \in U
  <2>1. PICK e \in edges : e[1] # h /\ e[2] # h /\ r[1] = e[2] /\ r[2] = e[1]
    BY DEF Reversed, Without
  <2>2. r[2] \in Reachable(R, S)
    <3> HIDE DEF R, S
    <3>1. QED
      BY <1>1, <1>3, ReachableClosed
  <2>3. e[2] \in LoopOf(edges, s, h)
    BY <1>3, <2>1 DEF LoopOf
  <2>4. QED
    BY <1>3, <2>1, <2>2, <2>3
<1>4. Reachable(R, S) \subseteq U
  <2> HIDE DEF R, S, U
  <2>1. QED
    BY <1>1, <1>2, <1>3, ReachableLeast
<1>5. QED
  BY <1>4 DEF LoopOf

(* The nodes of a loop are at its edges; all but the head are reached      *)
(* through the head alone.                                                 *)
LEMMA LoopNodes ==
  ASSUME NEW edges, Pairs(edges), NEW s, NEW h \in LoopHeads(edges, s), NEW n \in LoopOf(edges, s, h)
  PROVE  \E e \in edges : n = e[1] \/ n = e[2]
<1> DEFINE T == {e[1] : e \in edges} \cup {e[2] : e \in edges}
<1>1. h \in T /\ \A e \in BackEdges(edges, s) : e[1] \in T
  BY DEF LoopHeads, BackEdges
<1>2. LoopOf(edges, s, h) \subseteq T
  <2>1. \A e \in edges : e[1] \in T
    OBVIOUS
  <2> HIDE DEF T
  <2>2. QED
    BY <1>1, <2>1, LoopLeast
<1>3. QED
  BY <1>2

LEMMA LoopDominated ==
  ASSUME NEW edges, Pairs(edges), NEW s, NEW h, h # s, NEW n \in LoopOf(edges, s, h), n # h
  PROVE  n \notin Reachable(Without(edges, h), {s})
<1> DEFINE W == Without(edges, h)
           R == Reachable(W, {s})
           T == {m \in LoopOf(edges, s, h) : m = h \/ m \notin R}
<1>1. IsFiniteSet(W)
  BY WithoutFinite DEF Pairs
<1>2. h \in T
  BY DEF LoopOf
<1>3. ASSUME NEW e \in BackEdges(edges, s), e[2] = h
      PROVE  e[1] \in T
  <2>1. e[1] \in LoopOf(edges, s, h)
    BY <1>3, LoopSources
  <2>2. e[1] = h \/ e[1] \notin R
    BY <1>3 DEF BackEdges, Dominates
  <2>3. QED
    BY <2>1, <2>2
<1>4. ASSUME NEW e \in edges, e[1] # h, e[2] # h, e[2] \in T
      PROVE  e[1] \in T
  <2>1. e[1] \in LoopOf(edges, s, h)
    BY <1>4, LoopBackward
  <2>2. e \in W
    BY <1>4 DEF Without
  <2>3. e[1] \in R => e[2] \in R
    <3> HIDE DEF W
    <3>1. QED
      BY <1>1, <2>2, ReachableClosed
  <2>4. QED
    BY <1>4, <2>1, <2>3
<1>5. LoopOf(edges, s, h) \subseteq T
  <2> HIDE DEF T
  <2>1. QED
    BY <1>2, <1>3, <1>4, LoopLeast
<1>6. QED
  BY <1>5

(* Of two nodes that can be reached, one is reached without the other.     *)
LEMMA OneComesFirst ==
  ASSUME NEW edges, Pairs(edges), NEW s, NEW a, NEW b, a # b, a # s, b # s, a \in Reachable(edges, {s})
  PROVE  a \in Reachable(Without(edges, b), {s}) \/ b \in Reachable(Without(edges, a), {s})
<1> DEFINE A == Reachable(Without(edges, b), {s})
           B == Reachable(Without(edges, a), {s})
           T == A \cap B
<1>1. SUFFICES ASSUME a \notin A, b \notin B
               PROVE  FALSE
  OBVIOUS
<1>2. IsFiniteSet(Without(edges, a)) /\ IsFiniteSet(Without(edges, b)) /\ IsFiniteSet(edges)
  BY WithoutFinite DEF Pairs
<1>3. {s} \subseteq T
  BY <1>2, ReachableStart
<1>4. ASSUME NEW e \in edges, e[1] \in T
      PROVE  e[2] \in T
  <2>1. e[1] # a /\ e[1] # b
    BY <1>1, <1>4
  <2>2. e \in Without(edges, b) => e[2] \in A
    BY <1>2, <1>4, ReachableClosed
  <2>3. e \in Without(edges, a) => e[2] \in B
    BY <1>2, <1>4, ReachableClosed
  <2> HIDE DEF A, B
  <2>4. e[2] # a /\ e[2] # b
    BY <1>1, <2>1, <2>2, <2>3 DEF Without
  <2>5. QED
    BY <2>1, <2>2, <2>3, <2>4 DEF Without
<1>5. Reachable(edges, {s}) \subseteq T
  <2> HIDE DEF T
  <2>1. QED
    BY <1>2, <1>3, <1>4, ReachableLeast
<1>6. QED
  BY <1>1, <1>5
(* The node at which a cycle is entered.  Without its back edges the graph *)
(* has no cycle, so some node of a finite set is not the target of an edge *)
(* from within the set, back edges aside.                                  *)
LEMMA FirstOfSet ==
  ASSUME NEW edges, Pairs(edges), NEW s, Reducible(edges, s), NEW K, IsFiniteSet(K), K # {}
  PROVE  \E y \in K : \A e \in edges : e[1] \in K /\ e[2] = y => e \in BackEdges(edges, s)
<1> DEFINE F == edges \ BackEdges(edges, s)
           Before(y) == {z \in K : y \in Reachable(F, {z})}
           C == {Cardinality(Before(y)) : y \in K}
<1>1. IsFiniteSet(F)
  BY FS_Subset DEF Pairs
<1>2. \A y \in K : IsFiniteSet(Before(y)) /\ Cardinality(Before(y)) \in Nat
  BY FS_Subset, FS_CardinalityType
<1>3. PICK y \in K : \A z \in K : Cardinality(Before(y)) <= Cardinality(Before(z))
  <2>1. C \in SUBSET Nat /\ C # {}
    BY <1>2
  <2>2. PICK n \in C : \A m \in C : n <= m
    <3> HIDE DEF C
    <3>1. QED
      BY <2>1, LeastElement
  <2>3. QED
    BY <2>2
<1>4. ASSUME NEW e \in edges, e[1] \in K, e[2] = y, e \notin BackEdges(edges, s)
      PROVE  FALSE
  <2> DEFINE z == e[1]
  <2>1. e \in F /\ z \in K
    BY <1>4
  <2>2. y \notin Before(z) => FALSE
    <3>1. ASSUME y \notin Before(z)
          PROVE  FALSE
      <4>1. y \in Before(y)
        BY <1>1, ReachableStart
      <4>2. Before(z) \subseteq Before(y)
        <5>1. SUFFICES ASSUME NEW w \in Before(z)
                       PROVE  y \in Reachable(F, {w})
          OBVIOUS
        <5>2. e[1] \in Reachable(F, {w})
          OBVIOUS
        <5> HIDE DEF F
        <5>3. e[2] \in Reachable(F, {w})
          BY <1>1, <2>1, <5>2, ReachableClosed
        <5>4. QED
          BY <1>4, <5>3
      <4> HIDE DEF Before
      <4>3. Cardinality(Before(z)) < Cardinality(Before(y))
        <5>1. Before(z) # Before(y)
          BY <3>1, <4>1
        <5>2. IsFiniteSet(Before(y))
          BY <1>2
        <5>3. QED
          BY <4>2, <5>1, <5>2, FS_Subset, <1>2, <2>1
      <4>4. QED
        BY <1>2, <1>3, <2>1, <4>3
    <3>2. QED
      BY <3>1
  <2>3. y \notin Before(z)
    <3>1. e[1] \notin Reachable(F, {e[2]})
      BY <2>1 DEF Reducible
    <3>2. QED
      BY <1>4, <3>1
  <2>4. QED
    BY <2>2, <2>3
<1>5. QED
  BY <1>3, <1>4

(* The edges among the nodes of a set.                                     *)
Among(edges, N) == {e \in edges : e[1] \in N /\ e[2] \in N}

(* A loop whose head is in a loop of another head is nested in it.         *)
LEMMA LoopsNest ==
  ASSUME NEW edges, Pairs(edges), NEW s, \A e \in edges : e[2] # s,
         NEW h \in LoopHeads(edges, s), NEW y \in LoopHeads(edges, s), y # h,
         y \in LoopOf(edges, s, h), y \in Reachable(edges, {s})
  PROVE  LoopOf(edges, s, y) \subseteq LoopOf(edges, s, h)
<1> DEFINE L == LoopOf(edges, s, h)
<1>1. h # s /\ y # s
  BY DEF LoopHeads, BackEdges
<1>2. h \notin LoopOf(edges, s, y)
  <2>1. y \notin Reachable(Without(edges, h), {s})
    BY <1>1, LoopDominated
  <2>2. h \in Reachable(Without(edges, y), {s})
    BY <1>1, <2>1, OneComesFirst
  <2>3. QED
    BY <1>1, <2>2, LoopDominated
<1>3. \A e \in edges : e[2] \in L /\ e[2] # h => e[1] \in L
  BY LoopBackward
<1>4. \A e \in BackEdges(edges, s) : e[2] = y => e[1] \in L
  BY <1>3 DEF BackEdges
<1>5. \A e \in edges : e[1] # y /\ e[2] # y /\ e[2] \in L /\ e[2] \in LoopOf(edges, s, y) => e[1] \in L
  BY <1>2, <1>3
<1>6. QED
  <2> HIDE DEF L
  <2>1. LoopOf(edges, s, y) \subseteq L
    <3>1. y \in L
      BY DEF L
    <3>2. QED
      BY <1>4, <1>5, <3>1, LoopLeast
  <2>2. QED
    BY <2>1 DEF L

(* A cycle within a loop that does not go through the head is part of a    *)
(* loop nested in it.                                                      *)
LEMMA CyclesHaveLoops ==
  ASSUME NEW edges, Pairs(edges), NEW s, \A e \in edges : e[2] # s, Reducible(edges, s),
         NEW h \in LoopHeads(edges, s), NEW n \in Reachable(edges, {s}),
         NEW G, G = Among(edges, LoopOf(edges, s, h) \ {h}), n \in Reachable(G, Successors(G, n))
  PROVE  \E y \in LoopHeads(edges, s) :
            /\ y # h /\ n \in LoopOf(edges, s, y)
            /\ LoopOf(edges, s, y) \subseteq LoopOf(edges, s, h)
<1> DEFINE L == LoopOf(edges, s, h)
           R == Reachable(G, {n})
           after == Reachable(G, Successors(G, n))
           K == {z \in after : n \in Reachable(G, {z})}
<1>1. /\ G \subseteq edges /\ IsFiniteSet(G) /\ IsFiniteSet(edges)
      /\ \A e \in G : e[1] \in L \ {h} /\ e[2] \in L \ {h}
  BY FS_Subset DEF Among, Pairs
<1>2. n \in R /\ (\A z : z \in Reachable(G, {z})) /\ \A e \in G : e[1] \in R => e[2] \in R
  BY <1>1, ReachableStart, ReachableClosed
<1>3. R \subseteq after
  <2>1. {n} \subseteq after /\ \A e \in G : e[1] \in after => e[2] \in after
    BY <1>1, ReachableClosed
  <2> HIDE DEF after
  <2>2. QED
    BY <1>1, <2>1, ReachableLeast
<1>4. after \subseteq L \ {h}
  <2> DEFINE I == L \ {h}
  <2>1. Successors(G, n) \subseteq I
    BY <1>1 DEF Successors
  <2>2. \A e \in G : e[1] \in I => e[2] \in I
    BY <1>1
  <2> HIDE DEF I
  <2>3. IsFiniteSet(G)
    BY <1>1
  <2>4. after \subseteq I
    BY <2>1, <2>2, <2>3, ReachableLeast
  <2>5. QED
    BY <2>4 DEF I
<1>5. R \subseteq Reachable(edges, {s})
  <2> DEFINE T == Reachable(edges, {s})
  <2>1. {n} \subseteq T /\ \A e \in G : e[1] \in T => e[2] \in T
    BY <1>1, ReachableClosed
  <2> HIDE DEF T
  <2>2. R \subseteq T
    BY <1>1, <2>1, ReachableLeast
  <2>3. QED
    BY <2>2 DEF T
<1>6. \A z \in K : \E e \in G : e[1] \in R /\ e[2] = z
  BY <1>1, LastEdge
<1>7. K \subseteq R
  <2> HIDE DEF K, R
  <2>1. QED
    BY <1>2, <1>6
<1>8. \A e \in G : e[1] \in R /\ e[2] \in K => e[1] \in K
  <2>1. SUFFICES ASSUME NEW e \in G, e[1] \in R, e[2] \in K
                 PROVE  n \in Reachable(G, {e[1]})
    BY <1>3
  <2>2. e[2] \in Reachable(G, {e[1]})
    BY <1>1, <1>2, ReachableClosed
  <2>3. Reachable(G, {e[2]}) \subseteq Reachable(G, {e[1]})
    BY <1>1, <2>2, ReachableTransitive
  <2>4. QED
    BY <2>1, <2>3
<1>9. IsFiniteSet(K) /\ n \in K
  <2>1. n \in K
    BY <1>2
  <2>2. [e \in G |-> e[2]] \in Surjection(G, {e[2] : e \in G})
    BY DEF Surjection
  <2>3. IsFiniteSet({e[2] : e \in G})
    BY <1>1, <2>2, FS_Surjection
  <2>4. K \subseteq {e[2] : e \in G}
    BY <1>6
  <2>5. QED
    BY <2>1, <2>3, <2>4, FS_Subset
<1>10. PICK y \in K : \A e \in edges : e[1] \in K /\ e[2] = y => e \in BackEdges(edges, s)
  <2> HIDE DEF K
  <2>1. QED
    BY <1>9, FirstOfSet
<1>11. y \in L /\ y # h /\ y \in R /\ n \in Reachable(G, {y}) /\ y \in Reachable(edges, {s})
  BY <1>4, <1>5, <1>7, <1>10
<1>12. \A e \in G : e[1] \in R /\ e[2] = y => e \in BackEdges(edges, s)
  BY <1>1, <1>8, <1>10
<1>13. y \in LoopHeads(edges, s)
  BY <1>6, <1>10, <1>12 DEF LoopHeads
<1>14. n \in LoopOf(edges, s, y)
  <2> DEFINE X == LoopOf(edges, s, y)
             A == R \ X
  <2>1. ASSUME n \notin X
        PROVE  FALSE
    <3>1. ASSUME NEW e \in G, e[1] \in A
          PROVE  e[2] \in A
      <4>1. e[2] \in R /\ e \in edges
        BY <1>1, <1>2, <3>1
      <4>2. e[2] # y
        BY <1>12, <3>1, LoopSources
      <4>3. e[2] \notin X
        BY <3>1, <4>1, <4>2, LoopBackward
      <4>4. QED
        BY <4>1, <4>3
    <3>2. R \subseteq A
      <4>1. {n} \subseteq A
        BY <1>2, <2>1
      <4> HIDE DEF A
      <4>2. QED
        BY <1>1, <3>1, <4>1, ReachableLeast
    <3>3. y \in X
      BY DEF LoopOf
    <3>4. QED
      BY <1>11, <3>2, <3>3
  <2>2. QED
    BY <2>1
<1>15. LoopOf(edges, s, y) \subseteq L
  BY <1>11, <1>13, LoopsNest
<1>16. QED
  BY <1>11, <1>13, <1>14, <1>15
=============================================================================
