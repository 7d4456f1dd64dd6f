----------------------------- MODULE IPETProofs -----------------------------
(***************************************************************************)
(* What holds of the executions of every program.  First, the call graph   *)
(* says exactly which functions are executed, and detects exactly the      *)
(* recursions that do not go through the entry point.  Then, every         *)
(* execution goes from contextual node to contextual node, and what it     *)
(* counts is a solution of the linear program: its flow and call           *)
(* constraints, and those of the loops.                                    *)
(***************************************************************************)
EXTENDS IPET, Lemmas

(* The functions that f calls, and which function calls which.             *)
Callees(p, f) == {p.cfg[f].callee[n] : n \in DOMAIN p.cfg[f].callee}
Graph(p) == UNION {{<<f, p.cfg[f].callee[n]>> : n \in DOMAIN p.cfg[f].callee} : f \in DOMAIN p.cfg}

(* The elements of a heap: which is a callee of which, and those below e.  *)
Tree(h) == {x \in (DOMAIN h) \X (DOMAIN h) : x[2] \in h[x[1]].callees}
Under(h, e) == Reachable(Tree(h), {e})
HasCallee(h, e, g) == \E d \in h[e].callees : h[d].cfg = g

Elements(p) == [cfg : DOMAIN p.cfg, callees : SUBSET Nat, visited : BOOLEAN]

(* The elements E of the graph and the others, in the order of allocation: *)
(* a tree of calls, in which every function has one element of the graph   *)
(* and no other element has callees.                                       *)
TreeOfCalls(p, h, E) ==
  /\ p \in Programs
  /\ h \in Seq(Elements(p)) /\ h # <<>>
  /\ E \subseteq DOMAIN h /\ 1 \in E /\ h[1].cfg = p.entry
  /\ \A d \in DOMAIN h : \A c \in h[d].callees : /\ c \in DOMAIN h /\ d < c
                                              /\ <<h[d].cfg, h[c].cfg>> \in Graph(p)
  /\ \A d \in E, e \in E : h[d].cfg = h[e].cfg => d = e
  /\ \A d \in DOMAIN h : \E e \in E : h[e].cfg = h[d].cfg
  /\ \A d \in (DOMAIN h) \ E : h[d].callees = {}

(* The elements below one of the graph were allocated one after the other, *)
(* and all are below the first.                                            *)
DepthFirst(h, E) ==
  /\ Under(h, 1) = DOMAIN h
  /\ \A e \in E : \E l \in e .. Len(h) : Under(h, e) = e .. l

(* What is known of an element when its calls are scanned: its callees,    *)
(* which are below it if they are not older.                               *)
Finished(p, h, E, e) ==
  \A g \in Callees(p, h[e].cfg) :
     /\ HasCallee(h, e, g)
     /\ \A y \in E : h[y].cfg = g => y < e \/ y \in Under(h, e)

(* An element some of whose calls were scanned: all that is allocated      *)
(* since is below it.                                                      *)
InProgress(p, h, e, calls) ==
  LET callee == p.cfg[h[e].cfg].callee
  IN  /\ Under(h, e) = e .. Len(h)
      /\ calls \subseteq DOMAIN callee
      /\ \A n \in (DOMAIN callee) \ calls : HasCallee(h, e, callee[n])

(* An element is not above those of T, which are under construction. *)
Completed(p, h, E, T, e) == Finished(p, h, E, e) /\ \A t \in T : t \notin Under(h, e)

CallNodes(p) == UNION {DOMAIN p.cfg[f].callee : f \in DOMAIN p.cfg}
Frames(p, E) == [elem : E, calls : SUBSET CallNodes(p)]
Elem(b) == {b[i].elem : i \in DOMAIN b}

UnderConstruction(p, h, E, b) ==
  /\ b \in Seq(Frames(p, E))
  /\ \A i \in DOMAIN b, j \in DOMAIN b : i < j => b[i].elem < b[j].elem
  /\ \A i \in DOMAIN b : InProgress(p, h, b[i].elem, b[i].calls)
  /\ \A e \in E \ Elem(b) : Completed(p, h, E, Elem(b), e)

(* A function calls itself: it has another element below the one of the    *)
(* graph.                                                                  *)
ComesBack(h, E, e) == \E d \in Under(h, e) \ E : h[d].cfg = h[e].cfg

(* The elements of the graph, in their order. *)
Roots ==
  /\ elems \in Seq(Nat) /\ elems # <<>> /\ elems[1] = 1
  /\ \A i \in 2 .. Len(elems) : elems[i] # 1

(* The first search marks every element; those outside of the graph keep   *)
(* their marks.                                                            *)
Searches ==
  LET E == ToSet(elems)
      Back(i) == ComesBack(heap, E, elems[i])
  IN  /\ tested \in Nat
      /\ phase = "calls" => tested = 0
      /\ tested = 0 => phase \in {"calls", "cycles"} /\ \A d \in DOMAIN heap : ~ heap[d].visited
      /\ tested > 0 => \A d \in (DOMAIN heap) \ E : heap[d].visited
      /\ phase \in {"calls", "cycles"} =>
           tested < Len(elems) /\ \A i \in 2 .. tested : ~ Back(i)
      /\ phase = "rejected" => cyclic /\ \E i \in 2 .. Len(elems) : Back(i)
      /\ phase \notin {"calls", "cycles", "rejected"} =>
           ~ cyclic /\ \A i \in 2 .. Len(elems) : ~ Back(i)

(* The inductive invariant. *)
IInv ==
  /\ Roots
  /\ TreeOfCalls(program, heap, ToSet(elems))
  /\ DepthFirst(heap, ToSet(elems))
  /\ UnderConstruction(program, heap, ToSet(elems), building)
  /\ phase # "calls" => building = <<>>
  /\ cyclic \in BOOLEAN
  /\ Searches
-----------------------------------------------------------------------------
(* Paths. *)

(* An edge to a node that is the source of none. *)
LEMMA ReachableGrows ==
  ASSUME NEW edges, NEW start, NEW t, NEW v, NEW more,
         IsFiniteSet(edges), t # v, \A e \in edges : e[1] # v, \A x : x \in more <=> x \in edges \/ x = <<t, v>>
  PROVE  \A z : z \in Reachable(more, start) <=>
                 z \in Reachable(edges, start) \/ (z = v /\ t \in Reachable(edges, start))
<1> DEFINE old == Reachable(edges, start)
           new == Reachable(more, start)
           both == old \cup (IF t \in old THEN {v} ELSE {})
<1>1. IsFiniteSet(more)
  <2>1. more = edges \cup {<<t, v>>}
    OBVIOUS
  <2>2. QED
    BY <2>1, FS_AddElement
<1>2. start \subseteq old /\ \A e \in edges : e[1] \in old => e[2] \in old
  BY ReachableStart, ReachableClosed
<1>3. start \subseteq new /\ \A e \in more : e[1] \in new => e[2] \in new
  <2>1. start \subseteq new
    BY <1>1, ReachableStart
  <2>2. \A e \in more : e[1] \in new => e[2] \in new
    BY <1>1, ReachableClosed
  <2>3. QED
    BY <2>1, <2>2
<1>4. new \subseteq both
  <2>1. start \subseteq both
    BY <1>2
  <2>2. \A e \in more : e[1] \in both => e[2] \in both
    BY <1>2
  <2> HIDE DEF both
  <2>3. QED
    BY <1>1, <2>1, <2>2, ReachableLeast
<1>5. old \subseteq new
  <2>1. \A e \in edges : e[1] \in new => e[2] \in new
    BY <1>3
  <2> HIDE DEF new
  <2>2. QED
    BY <1>3, <2>1, ReachableLeast
<1>6. t \in old => v \in new
  <2> DEFINE e == <<t, v>>
  <2>1. e \in more /\ e[1] = t /\ e[2] = v
    OBVIOUS
  <2> HIDE DEF e, old, new
  <2>2. QED
    BY <1>3, <1>5, <2>1
<1>7. both \subseteq new
  BY <1>5, <1>6
<1>8. QED
  <2> HIDE DEF both, new
  <2>1. new = both
    BY <1>4, <1>7
  <2>2. \A z : z \in both <=> z \in old \/ (z = v /\ t \in old)
    BY DEF both
  <2>3. QED
    BY <2>1, <2>2 DEF new, old
-----------------------------------------------------------------------------
(* Heaps. *)

LEMMA TreeFinite ==
  ASSUME NEW S, NEW h \in Seq(S)
  PROVE  IsFiniteSet(Tree(h))
<1>1. Len(h) \in Nat /\ DOMAIN h = 1 .. Len(h)
  OBVIOUS
<1>2. IsFiniteSet(DOMAIN h)
  BY <1>1, FS_Interval
<1>3. IsFiniteSet((DOMAIN h) \X (DOMAIN h))
  BY <1>2, FS_Product
<1>4. QED
  BY <1>3, FS_Subset DEF Tree

(* The elements below e: e, their callees, and no others. *)
LEMMA UnderClosed ==
  ASSUME NEW S, NEW h \in Seq(S), NEW e
  PROVE  /\ e \in Under(h, e)
         /\ \A x \in DOMAIN h, c \in DOMAIN h :
               x \in Under(h, e) /\ c \in h[x].callees => c \in Under(h, e)
<1>1. IsFiniteSet(Tree(h))
  BY TreeFinite
<1>2. e \in Under(h, e)
  BY <1>1, ReachableStart DEF Under
<1>3. ASSUME NEW x \in DOMAIN h, NEW c \in DOMAIN h, x \in Under(h, e), c \in h[x].callees
      PROVE  c \in Under(h, e)
  <2> DEFINE y == <<x, c>>
  <2>1. y \in Tree(h) /\ y[1] = x /\ y[2] = c
    BY <1>3 DEF Tree
  <2> HIDE DEF y
  <2>2. y[2] \in Under(h, e)
    BY <1>1, <1>3, <2>1, ReachableClosed DEF Under
  <2>3. QED
    BY <2>1, <2>2
<1>4. QED
  BY <1>2, <1>3

LEMMA UnderLeast ==
  ASSUME NEW S, NEW h \in Seq(S), NEW e, NEW T, e \in T,
         \A x \in DOMAIN h, c \in DOMAIN h : x \in T /\ c \in h[x].callees => c \in T
  PROVE  Under(h, e) \subseteq T
<1>1. IsFiniteSet(Tree(h))
  BY TreeFinite
<1>2. {e} \subseteq T /\ \A x \in Tree(h) : x[1] \in T => x[2] \in T
  BY DEF Tree
<1>3. QED
  BY <1>1, <1>2, ReachableLeast DEF Under

LEMMA UnderTransitive ==
  ASSUME NEW S, NEW h \in Seq(S), NEW e, NEW x \in Under(h, e)
  PROVE  Under(h, x) \subseteq Under(h, e)
BY TreeFinite, ReachableTransitive DEF Under

(* The heap with an element for a call to g by element t. *)
Grown(h, t, g) ==
  Append([h EXCEPT ![t].callees = @ \cup {Len(h) + 1}], CallGraphElem(g))

LEMMA AppendTo ==
  ASSUME NEW S, NEW s \in Seq(S), NEW x \in S
  PROVE  /\ Append(s, x) \in Seq(S) /\ Len(Append(s, x)) = Len(s) + 1
         /\ \A d \in DOMAIN s : Append(s, x)[d] = s[d]
         /\ Append(s, x)[Len(s) + 1] = x
  OBVIOUS

LEMMA GrownElements ==
  ASSUME NEW p, NEW h \in Seq(Elements(p)), NEW t \in DOMAIN h, NEW g \in DOMAIN p.cfg
  PROVE  /\ Grown(h, t, g) \in Seq(Elements(p)) /\ Len(Grown(h, t, g)) = Len(h) + 1
         /\ \A d \in DOMAIN h : Grown(h, t, g)[d].cfg = h[d].cfg
         /\ \A d \in DOMAIN h : Grown(h, t, g)[d].visited = h[d].visited
         /\ \A d \in DOMAIN h : d # t => Grown(h, t, g)[d].callees = h[d].callees
         /\ Grown(h, t, g)[t].callees = h[t].callees \cup {Len(h) + 1}
         /\ Grown(h, t, g)[Len(h) + 1] = CallGraphElem(g)
<1> DEFINE v == Len(h) + 1
           u == [h[t] EXCEPT !.callees = @ \cup {v}]
           h1 == [h EXCEPT ![t] = u]
<1>1. Len(h) \in Nat /\ DOMAIN h = 1 .. Len(h) /\ v \in Nat /\ v \notin DOMAIN h
  OBVIOUS
<1>2. u \in Elements(p) /\ u.cfg = h[t].cfg /\ u.visited = h[t].visited
      /\ u.callees = h[t].callees \cup {v}
  <2>1. h[t] \in Elements(p)
    OBVIOUS
  <2>2. h[t].callees \cup {v} \in SUBSET Nat
    BY <1>1, <2>1 DEF Elements
  <2> DEFINE x == h[t]
             C == h[t].callees \cup {v}
  <2>3. u = [x EXCEPT !.callees = C]
    OBVIOUS
  <2>4. x \in Elements(p) /\ C \in SUBSET Nat
    BY <2>1, <2>2
  <2> HIDE DEF u, x, C
  <2>5. u \in Elements(p) /\ u.cfg = x.cfg /\ u.visited = x.visited /\ u.callees = C
    BY <2>3, <2>4 DEF Elements
  <2>6. QED
    BY <2>5 DEF x, C
<1>3. h1 \in Seq(Elements(p)) /\ Len(h1) = Len(h) /\ DOMAIN h1 = DOMAIN h /\ h1[t] = u
      /\ \A d \in DOMAIN h : d # t => h1[d] = h[d]
  BY <1>1, <1>2
<1>4. CallGraphElem(g) \in Elements(p)
  BY DEF CallGraphElem, Elements
<1>5. Grown(h, t, g) = Append(h1, CallGraphElem(g))
  BY DEF Grown
<1> HIDE DEF u, h1
<1>6. /\ Grown(h, t, g) \in Seq(Elements(p)) /\ Len(Grown(h, t, g)) = v
      /\ \A d \in DOMAIN h : Grown(h, t, g)[d] = h1[d]
      /\ Grown(h, t, g)[v] = CallGraphElem(g)
  BY <1>3, <1>4, <1>5, AppendTo
<1>7. QED
  BY <1>2, <1>3, <1>6

(* What is below an element when another, v, becomes a callee of t. *)
BecomesCallee(h, k, t, v) ==
  /\ t \in DOMAIN h /\ v = Len(h) + 1 /\ Len(k) = v
  /\ \A d \in DOMAIN h : h[d].callees \subseteq DOMAIN h
  /\ \A d \in DOMAIN h : d # t => k[d].callees = h[d].callees
  /\ k[t].callees = h[t].callees \cup {v}
  /\ k[v].callees = {}

LEMMA Growth ==
  ASSUME NEW S, NEW h \in Seq(S), NEW k \in Seq(S), NEW t, NEW v, BecomesCallee(h, k, t, v)
  PROVE  /\ \A e \in DOMAIN h :
               \A z : z \in Under(k, e) <=> z \in Under(h, e) \/ (z = v /\ t \in Under(h, e))
         /\ Under(k, v) = {v}
<1>1. Len(h) \in Nat /\ DOMAIN h = 1 .. Len(h) /\ v = Len(h) + 1 /\ v \notin DOMAIN h
      /\ t \in DOMAIN h /\ k[v].callees = {} /\ \A d \in DOMAIN h : h[d].callees \subseteq DOMAIN h
  BY DEF BecomesCallee
<1>7. \A d \in DOMAIN h : k[d].callees = IF d = t THEN h[d].callees \cup {v} ELSE h[d].callees
  BY DEF BecomesCallee
<1>9. DOMAIN k = 1 .. v
  BY DEF BecomesCallee
<1>10. \A x : x \in Tree(k) <=> x \in Tree(h) \/ x = <<t, v>>
  <2>1. DOMAIN k = (DOMAIN h) \cup {v}
    BY <1>1, <1>9
  <2>2. \A x \in DOMAIN k, c \in DOMAIN k :
          c \in k[x].callees <=> <<x, c>> \in Tree(h) \cup {<<t, v>>}
    <3>1. ASSUME NEW x \in DOMAIN h, NEW c \in DOMAIN h
          PROVE  c \in k[x].callees <=> c \in h[x].callees
      BY <1>1, <1>7, <3>1
    <3>2. ASSUME NEW x \in DOMAIN h
          PROVE  v \in k[x].callees <=> x = t
      BY <1>1, <1>7, <3>2
    <3>3. \A x, c : <<x, c>> \in Tree(h) <=> x \in DOMAIN h /\ c \in DOMAIN h /\ c \in h[x].callees
      BY DEF Tree
    <3>4. \A x, c : <<x, c>> = <<t, v>> <=> x = t /\ c = v
      OBVIOUS
    <3>5. ASSUME NEW x \in DOMAIN k, NEW c \in DOMAIN k
          PROVE  c \in k[x].callees <=> \/ x \in DOMAIN h /\ c \in DOMAIN h /\ c \in h[x].callees
                                        \/ x = t /\ c = v
      <4>1. CASE x \in DOMAIN h /\ c \in DOMAIN h
        BY <1>1, <3>1, <4>1
      <4>2. CASE x \in DOMAIN h /\ c = v
        BY <1>1, <3>2, <4>2
      <4>3. CASE x = v
        BY <1>1, <4>3
      <4>4. QED
        BY <2>1, <4>1, <4>2, <4>3
    <3>6. \A x, c : <<x, c>> \in Tree(h) \cup {<<t, v>>} <=>
                      \/ x \in DOMAIN h /\ c \in DOMAIN h /\ c \in h[x].callees
                      \/ x = t /\ c = v
      BY <3>3, <3>4
    <3>7. QED
      BY <3>5, <3>6, Zenon
  <2>3. \A x \in Tree(h) \cup {<<t, v>>} : x \in (DOMAIN k) \X (DOMAIN k)
    BY <1>1, <2>1 DEF Tree
  <2>4. \A x \in (DOMAIN k) \X (DOMAIN k) : x[2] \in k[x[1]].callees <=> x \in Tree(h) \cup {<<t, v>>}
    BY <2>2
  <2>5. QED
    BY <2>3, <2>4 DEF Tree
<1>11. IsFiniteSet(Tree(h)) /\ IsFiniteSet(Tree(k))
  BY TreeFinite
<1>12. t # v /\ \A x \in Tree(h) : x[1] # v
  BY <1>1 DEF Tree
<1>13. ASSUME NEW e \in DOMAIN h
       PROVE  \A z : z \in Under(k, e) <=> z \in Under(h, e) \/ (z = v /\ t \in Under(h, e))
  BY <1>10, <1>11, <1>12, ReachableGrows, Zenon DEF Under
<1>14. Under(k, v) = {v}
  <2>1. v \in Under(k, v)
    BY UnderClosed
  <2>2. v \in {v} /\ \A x \in DOMAIN k, c \in DOMAIN k : x \in {v} /\ c \in k[x].callees => c \in {v}
    BY <1>1
  <2>3. Under(k, v) \subseteq {v}
    <3> DEFINE T == {v}
    <3>1. v \in T /\ \A x \in DOMAIN k, c \in DOMAIN k : x \in T /\ c \in k[x].callees => c \in T
      BY <2>2
    <3> HIDE DEF T
    <3>3. Under(k, v) \subseteq T
      BY <3>1, UnderLeast
    <3>4. QED
      BY <3>3 DEF T
  <2>4. QED
    BY <2>1, <2>3
<1>15. QED
  BY <1>13, <1>14

LEMMA CalleesAreFunctions ==
  ASSUME NEW p \in Programs, NEW f \in DOMAIN p.cfg, NEW g \in Callees(p, f)
  PROVE  g \in DOMAIN p.cfg /\ <<f, g>> \in Graph(p)
  BY ProgramsAssumption DEF Callees, Graph

(* What a call of g by t adds to a heap, v is the new element. *)
GrowsBy(p, h, k, t, g, v) ==
  /\ k \in Seq(Elements(p)) /\ v = Len(h) + 1 /\ Len(k) = v
  /\ \A d \in DOMAIN h : k[d].cfg = h[d].cfg
  /\ \A d \in DOMAIN h : k[d].visited = h[d].visited
  /\ \A d \in DOMAIN h : d # t => k[d].callees = h[d].callees
  /\ k[t].callees = h[t].callees \cup {v}
  /\ k[v].cfg = g /\ k[v].callees = {} /\ k[v].visited = FALSE
  /\ \A e \in DOMAIN h :
        \A z : z \in Under(k, e) <=> z \in Under(h, e) \/ (z = v /\ t \in Under(h, e))
  /\ Under(k, v) = {v}

LEMMA GrownGrows ==
  ASSUME NEW p, NEW h, NEW E, NEW t \in E, NEW g \in DOMAIN p.cfg, TreeOfCalls(p, h, E)
  PROVE  GrowsBy(p, h, Grown(h, t, g), t, g, Len(h) + 1)
<1> DEFINE k == Grown(h, t, g)
           v == Len(h) + 1
<1>1. h \in Seq(Elements(p)) /\ t \in DOMAIN h /\ \A d \in DOMAIN h : h[d].callees \subseteq DOMAIN h
  BY DEF TreeOfCalls
<1>2. /\ k \in Seq(Elements(p)) /\ Len(k) = v
      /\ \A d \in DOMAIN h : k[d].cfg = h[d].cfg
      /\ \A d \in DOMAIN h : k[d].visited = h[d].visited
      /\ \A d \in DOMAIN h : d # t => k[d].callees = h[d].callees
      /\ k[t].callees = h[t].callees \cup {v}
      /\ k[v] = CallGraphElem(g)
  BY <1>1, GrownElements
<1>3. k[v].cfg = g /\ k[v].callees = {} /\ k[v].visited = FALSE
  BY <1>2 DEF CallGraphElem
<1>7. v = Len(h) + 1
  OBVIOUS
<1> HIDE DEF k, v
<1>4. /\ \A e \in DOMAIN h :
            \A z : z \in Under(k, e) <=> z \in Under(h, e) \/ (z = v /\ t \in Under(h, e))
      /\ Under(k, v) = {v}
  <2>1. BecomesCallee(h, k, t, v)
    BY <1>1, <1>2, <1>3, <1>7 DEF BecomesCallee
  <2> DEFINE S == Elements(p)
  <2>3. h \in Seq(S) /\ k \in Seq(S)
    BY <1>1, <1>2
  <2> HIDE DEF S
  <2>4. QED
    BY <2>1, <2>3, Growth
<1>5. GrowsBy(p, h, k, t, g, v)
  BY <1>2, <1>3, <1>4, <1>7 DEF GrowsBy
<1>6. QED
  BY <1>5 DEF k, v

(* The elements of the graph are then F: an element for a function that    *)
(* has none becomes one of the graph.                                      *)
Joins(h, E, F, g, v) ==
  \/ F = E /\ \E e \in E : h[e].cfg = g
  \/ F = E \cup {v} /\ \A e \in E : h[e].cfg # g

LEMMA GrownTree ==
  ASSUME NEW p, NEW h, NEW k, NEW E, NEW F, NEW t, NEW g, NEW v,
         t \in E, g \in Callees(p, h[t].cfg),
         TreeOfCalls(p, h, E), GrowsBy(p, h, k, t, g, v), Joins(h, E, F, g, v)
  PROVE  TreeOfCalls(p, k, F)
<1>1. /\ p \in Programs /\ h \in Seq(Elements(p)) /\ h # <<>> /\ E \subseteq DOMAIN h
      /\ 1 \in E /\ h[1].cfg = p.entry
  BY DEF TreeOfCalls
<1>2. /\ Len(h) \in Nat /\ DOMAIN h = 1 .. Len(h) /\ v = Len(h) + 1 /\ v \notin DOMAIN h
      /\ k \in Seq(Elements(p)) /\ DOMAIN k = (DOMAIN h) \cup {v} /\ k # <<>>
  BY <1>1 DEF GrowsBy
<1>3. t \in DOMAIN h /\ h[t].cfg \in DOMAIN p.cfg
  <2>1. t \in DOMAIN h
    BY <1>1
  <2>2. h[t] \in Elements(p)
    BY <1>1, <2>1
  <2>3. QED
    BY <2>1, <2>2 DEF Elements
<1>4. <<h[t].cfg, g>> \in Graph(p)
  BY <1>1, <1>3, CalleesAreFunctions
<1>5. ASSUME NEW d \in DOMAIN k, NEW c \in k[d].callees
      PROVE  c \in DOMAIN k /\ d < c /\ <<k[d].cfg, k[c].cfg>> \in Graph(p)
  <2>1. CASE d \in DOMAIN h /\ c \in h[d].callees
    BY <1>2, <2>1 DEF GrowsBy, TreeOfCalls
  <2>2. CASE d = t /\ c = v
    BY <1>2, <1>3, <1>4, <2>2 DEF GrowsBy
  <2>3. QED
    BY <1>2, <1>5, <2>1, <2>2 DEF GrowsBy
<1>6. F \subseteq DOMAIN k /\ 1 \in F /\ k[1].cfg = p.entry
  BY <1>1, <1>2 DEF GrowsBy, Joins
<1>7. \A d \in F, e \in F : k[d].cfg = k[e].cfg => d = e
  <2>1. \A d \in E, e \in E : k[d].cfg = k[e].cfg => d = e
    BY <1>1 DEF GrowsBy, TreeOfCalls
  <2>2. \A d \in E : k[d].cfg = h[d].cfg
    BY <1>1 DEF GrowsBy
  <2>3. k[v].cfg = g
    BY DEF GrowsBy
  <2>4. QED
    BY <2>1, <2>2, <2>3 DEF Joins
<1>8. \A d \in DOMAIN k : \E e \in F : k[e].cfg = k[d].cfg
  <2>1. ASSUME NEW d \in DOMAIN h
        PROVE  \E e \in F : k[e].cfg = k[d].cfg
    <3>1. PICK e \in E : h[e].cfg = h[d].cfg
      BY DEF TreeOfCalls
    <3>2. QED
      BY <1>1, <3>1 DEF GrowsBy, Joins
  <2>2. \E e \in F : k[e].cfg = k[v].cfg
    BY <1>1 DEF GrowsBy, Joins
  <2>3. QED
    BY <1>2, <2>1, <2>2
<1>9. \A d \in (DOMAIN k) \ F : k[d].callees = {}
  BY <1>1, <1>2 DEF GrowsBy, TreeOfCalls, Joins
<1>10. QED
  BY <1>1, <1>2, <1>5, <1>6, <1>7, <1>8, <1>9 DEF TreeOfCalls

LEMMA LastOfInterval ==
  ASSUME NEW n \in Nat, NEW e \in 1 .. n, NEW l \in e .. n, n \in e .. l
  PROVE  l = n
  OBVIOUS

LEMMA LongerInterval ==
  ASSUME NEW n \in Nat, NEW e \in 1 .. n, NEW K, NEW v,
         v = n + 1, \A z : z \in K <=> z \in e .. n \/ z = v
  PROVE  K = e .. v
<1>1. \A z : z \in e .. v <=> z \in e .. n \/ z = v
  OBVIOUS
<1>2. QED
  BY <1>1

(* All of the elements that are under construction are above the new one;  *)
(* no other is.                                                            *)
LEMMA GrownDepthFirst ==
  ASSUME NEW p, NEW h, NEW k, NEW E, NEW F, NEW t, NEW g, NEW v,
         t \in E, TreeOfCalls(p, h, E), DepthFirst(h, E), GrowsBy(p, h, k, t, g, v), Joins(h, E, F, g, v),
         Under(h, t) = t .. Len(h)
  PROVE  DepthFirst(k, F)
<1>1. h \in Seq(Elements(p)) /\ E \subseteq DOMAIN h /\ 1 \in E
  BY DEF TreeOfCalls
<1>2. /\ Len(h) \in Nat /\ DOMAIN h = 1 .. Len(h) /\ v = Len(h) + 1 /\ Len(k) = v
      /\ DOMAIN k = (DOMAIN h) \cup {v} /\ Under(k, v) = {v}
  BY <1>1 DEF GrowsBy
<1>3. \A e \in DOMAIN h :
         \A z : z \in Under(k, e) <=> z \in Under(h, e) \/ (z = v /\ t \in Under(h, e))
  BY DEF GrowsBy
<1>4. Under(k, 1) = DOMAIN k
  BY <1>1, <1>2, <1>3 DEF DepthFirst
<1>5. ASSUME NEW e \in E
      PROVE  \E l \in e .. Len(k) : Under(k, e) = e .. l
  <2>1. PICK l \in e .. Len(h) : Under(h, e) = e .. l
    BY DEF DepthFirst
  <2>2. e \in DOMAIN h
    BY <1>1
  <2>3. CASE t \in Under(h, e)
    <3>1. Under(h, t) \subseteq Under(h, e)
      BY <1>1, <2>3, UnderTransitive
    <3>2. l = Len(h)
      <4>1. Len(h) \in t .. Len(h)
        BY <1>1, <1>2
      <4>2. Len(h) \in e .. l
        BY <2>1, <3>1, <4>1
      <4>3. Len(h) \in Nat /\ e \in 1 .. Len(h)
        BY <1>2, <2>2
      <4>4. QED
        BY <2>1, <4>2, <4>3, LastOfInterval
    <3>3. Under(k, e) = e .. v
      <4>1. \A z : z \in Under(k, e) <=> z \in e .. Len(h) \/ z = v
        BY <1>3, <2>1, <2>2, <2>3, <3>2
      <4>2. Len(h) \in Nat /\ e \in 1 .. Len(h) /\ v = Len(h) + 1
        BY <1>2, <2>2
      <4>3. QED
        BY <4>1, <4>2, LongerInterval
    <3>4. QED
      BY <1>2, <2>2, <3>3
  <2>4. CASE t \notin Under(h, e)
    <3>1. Under(k, e) = e .. l
      BY <1>3, <2>1, <2>2, <2>4
    <3>2. QED
      BY <1>2, <2>1, <2>2, <3>1
  <2>5. QED
    BY <2>3, <2>4
<1>6. \E l \in v .. Len(k) : Under(k, v) = v .. l
  BY <1>2
<1>7. \A e \in F : \E l \in e .. Len(k) : Under(k, e) = e .. l
  BY <1>5, <1>6 DEF Joins
<1>8. QED
  BY <1>4, <1>7 DEF DepthFirst

(* An element keeps its callees. *)
LEMMA CalleesKept ==
  ASSUME NEW p, NEW h, NEW k, NEW E, NEW t, NEW g, NEW v, NEW e, NEW f,
         e \in E, TreeOfCalls(p, h, E), GrowsBy(p, h, k, t, g, v)
  PROVE  /\ HasCallee(h, e, f) => HasCallee(k, e, f)
         /\ e = t => HasCallee(k, e, g)
<1>1. e \in DOMAIN h /\ \A c \in h[e].callees : c \in DOMAIN h
  BY DEF TreeOfCalls
<1>2. \A c \in h[e].callees : c \in k[e].callees
  BY <1>1 DEF GrowsBy
<1>3. \A c \in DOMAIN h : k[c].cfg = h[c].cfg
  BY DEF GrowsBy
<1>4. v \in k[t].callees /\ k[v].cfg = g
  BY DEF GrowsBy
<1>5. QED
  BY <1>1, <1>2, <1>3, <1>4 DEF HasCallee

LEMMA GrownInProgress ==
  ASSUME NEW p, NEW h, NEW k, NEW E, NEW t, NEW g, NEW v, NEW e, NEW calls,
         e \in E, TreeOfCalls(p, h, E), GrowsBy(p, h, k, t, g, v),
         t \in Under(h, e), InProgress(p, h, e, calls)
  PROVE  InProgress(p, k, e, calls)
<1> DEFINE callee == p.cfg[h[e].cfg].callee
<1>1. e \in DOMAIN h /\ h \in Seq(Elements(p))
  BY DEF TreeOfCalls
<1>2. k[e].cfg = h[e].cfg
  BY <1>1 DEF GrowsBy
<1>3. \A n \in (DOMAIN callee) \ calls : HasCallee(k, e, callee[n])
  BY CalleesKept DEF InProgress
<1>4. Under(k, e) = e .. Len(k)
  <2>1. Len(h) \in Nat /\ DOMAIN h = 1 .. Len(h)
    BY <1>1
  <2>2. Under(h, e) = e .. Len(h)
    BY DEF InProgress
  <2>3. v = Len(h) + 1 /\ Len(k) = v
        /\ \A z : z \in Under(k, e) <=> z \in Under(h, e) \/ (z = v /\ t \in Under(h, e))
    BY <1>1 DEF GrowsBy
  <2>4. \A z : z \in Under(k, e) <=> z \in e .. Len(h) \/ z = v
    BY <2>2, <2>3
  <2>5. Len(h) \in Nat /\ e \in 1 .. Len(h) /\ v = Len(h) + 1
    BY <1>1, <2>1, <2>3
  <2>6. Under(k, e) = e .. v
    BY <2>4, <2>5, LongerInterval
  <2>7. QED
    BY <2>3, <2>6
<1>5. calls \subseteq DOMAIN callee
  BY DEF InProgress
<1>6. QED
  BY <1>2, <1>3, <1>4, <1>5 DEF InProgress

LEMMA GrownCompleted ==
  ASSUME NEW p, NEW h, NEW k, NEW E, NEW F, NEW T, NEW t, NEW g, NEW v, NEW e,
         e \in E, TreeOfCalls(p, h, E), DepthFirst(h, E), GrowsBy(p, h, k, t, g, v), Joins(h, E, F, g, v),
         t \in T, Completed(p, h, E, T, e)
  PROVE  Completed(p, k, F, T \cup {v}, e)
<1>1. e \in DOMAIN h /\ h \in Seq(Elements(p)) /\ E \subseteq DOMAIN h
  BY DEF TreeOfCalls
<1>2. k[e].cfg = h[e].cfg /\ k[v].cfg = g /\ v = Len(h) + 1
  BY <1>1 DEF GrowsBy
<1>3. t \notin Under(h, e) /\ \A z : z \in Under(k, e) <=> z \in Under(h, e)
  BY <1>1 DEF Completed, GrowsBy
<1>4. ASSUME NEW u \in T \cup {v}
      PROVE  u \notin Under(k, e)
  <2>1. PICK l \in e .. Len(h) : Under(h, e) = e .. l
    BY DEF DepthFirst
  <2>2. Len(h) \in Nat /\ DOMAIN h = 1 .. Len(h)
    BY <1>1
  <2>3. v \notin Under(h, e)
    BY <1>1, <1>2, <2>1, <2>2
  <2>4. QED
    BY <1>3, <1>4, <2>3 DEF Completed
<1>5. ASSUME NEW f \in Callees(p, h[e].cfg)
      PROVE  /\ HasCallee(k, e, f)
             /\ \A y \in F : k[y].cfg = f => y < e \/ y \in Under(k, e)
  <2>1. HasCallee(h, e, f) /\ \A y \in E : h[y].cfg = f => y < e \/ y \in Under(h, e)
    BY DEF Completed, Finished
  <2>2. HasCallee(k, e, f)
    BY <2>1, CalleesKept
  <2>3. \A y \in E : k[y].cfg = h[y].cfg
    BY <1>1 DEF GrowsBy
  <2>4. PICK c \in h[e].callees : h[c].cfg = f
    BY <2>1 DEF HasCallee
  <2>5. c \in DOMAIN h
    BY <1>1, <2>4 DEF TreeOfCalls
  <2>6. \E y \in E : h[y].cfg = f
    BY <2>4, <2>5 DEF TreeOfCalls
  <2>7. ASSUME NEW y \in F, k[y].cfg = f
        PROVE  y < e \/ y \in Under(k, e)
    <3>1. y \in E
      BY <1>2, <2>6, <2>7 DEF Joins
    <3>2. QED
      BY <1>3, <2>1, <2>3, <2>7, <3>1
  <2>8. QED
    BY <2>2, <2>7
<1>6. Finished(p, k, F, e)
  BY <1>2, <1>5 DEF Finished
<1>7. QED
  BY <1>4, <1>6 DEF Completed
-----------------------------------------------------------------------------
(* The elements under construction. *)

(* Call n of the last one is scanned. *)
ScannedIn(b, n) == [b EXCEPT ![Len(b)].calls = @ \ {n}]

LEMMA ScannedFrames ==
  ASSUME NEW p, NEW E, NEW b, NEW n, b \in Seq(Frames(p, E)), b # <<>>
  PROVE  /\ ScannedIn(b, n) \in Seq(Frames(p, E)) /\ Len(ScannedIn(b, n)) = Len(b)
         /\ Len(b) \in Nat \ {0} /\ DOMAIN b = 1 .. Len(b)
         /\ \A i \in DOMAIN b : ScannedIn(b, n)[i].elem = b[i].elem
         /\ \A i \in DOMAIN b : i # Len(b) => ScannedIn(b, n)[i].calls = b[i].calls
         /\ ScannedIn(b, n)[Len(b)].calls = b[Len(b)].calls \ {n}
         /\ Elem(ScannedIn(b, n)) = Elem(b)
<1> DEFINE l == Len(b)
           x == b[l]
           u == [x EXCEPT !.calls = @ \ {n}]
           c == ScannedIn(b, n)
<1>1. l \in Nat \ {0} /\ l \in DOMAIN b /\ DOMAIN b = 1 .. l /\ x \in Frames(p, E)
  OBVIOUS
<1>2. u \in Frames(p, E) /\ u.elem = x.elem /\ u.calls = x.calls \ {n}
  <2> HIDE DEF x
  <2>1. QED
    BY <1>1 DEF Frames
<1>3. c = [b EXCEPT ![l] = u]
  BY DEF ScannedIn
<1>4. c \in Seq(Frames(p, E)) /\ Len(c) = l /\ c[l] = u /\ \A i \in DOMAIN b : i # l => c[i] = b[i]
  <2> HIDE DEF u, c
  <2>1. QED
    BY <1>1, <1>2, <1>3
<1>5. \A i \in DOMAIN b : c[i].elem = b[i].elem
  <2> HIDE DEF u, c
  <2>1. QED
    BY <1>2, <1>4
<1>6. Elem(c) = Elem(b)
  <2>1. DOMAIN c = DOMAIN b
    BY <1>1, <1>4
  <2> HIDE DEF c
  <2>2. QED
    BY <1>5, <2>1 DEF Elem
<1>7. QED
  <2> HIDE DEF u, c
  <2>1. c \in Seq(Frames(p, E)) /\ Len(c) = Len(b)
    BY <1>4
  <2>2. \A i \in DOMAIN b : i # Len(b) => c[i].calls = b[i].calls
    BY <1>4
  <2>3. c[Len(b)].calls = b[Len(b)].calls \ {n}
    BY <1>2, <1>4
  <2>4. QED
    BY <1>1, <1>5, <1>6, <2>1, <2>2, <2>3 DEF c

(* The last frame has one call less to scan, when it has a callee for it.  *)
LEMMA ScannedInProgress ==
  ASSUME NEW p, NEW h, NEW E, NEW b, NEW n,
         b \in Seq(Frames(p, E)), b # <<>>,
         \A i \in DOMAIN b : InProgress(p, h, b[i].elem, b[i].calls),
         HasCallee(h, b[Len(b)].elem, p.cfg[h[b[Len(b)].elem].cfg].callee[n])
  PROVE  \A i \in DOMAIN b : InProgress(p, h, ScannedIn(b, n)[i].elem, ScannedIn(b, n)[i].calls)
<1> DEFINE c == ScannedIn(b, n)
           l == Len(b)
<1>1. /\ l \in DOMAIN b
      /\ \A i \in DOMAIN b : c[i].elem = b[i].elem
      /\ \A i \in DOMAIN b : i # l => c[i].calls = b[i].calls
      /\ c[l].calls = b[l].calls \ {n}
  BY ScannedFrames
<1> HIDE DEF c, l
<1>2. InProgress(p, h, c[l].elem, c[l].calls)
  <2>1. c[l].elem = b[l].elem /\ c[l].calls = b[l].calls \ {n} /\ InProgress(p, h, b[l].elem, b[l].calls)
    BY <1>1
  <2>2. HasCallee(h, b[l].elem, p.cfg[h[b[l].elem].cfg].callee[n])
    BY DEF l
  <2> DEFINE e == b[l].elem
             calls == b[l].calls
             callee == p.cfg[h[b[l].elem].cfg].callee
  <2>3. /\ Under(h, e) = e .. Len(h) /\ calls \subseteq DOMAIN callee
        /\ \A m \in (DOMAIN callee) \ calls : HasCallee(h, e, callee[m])
    BY <2>1 DEF InProgress
  <2>4. HasCallee(h, e, callee[n])
    BY <2>2
  <2>5. \A m \in (DOMAIN callee) \ (calls \ {n}) : HasCallee(h, e, callee[m])
    <3> HIDE DEF e, calls, callee
    <3>1. QED
      BY <2>3, <2>4
  <2>6. InProgress(p, h, e, calls \ {n})
    BY <2>3, <2>5 DEF InProgress
  <2>7. QED
    BY <2>1, <2>6
<1>3. \A i \in DOMAIN b : i # l => InProgress(p, h, c[i].elem, c[i].calls)
  BY <1>1
<1>4. QED
  BY <1>1, <1>2, <1>3 DEF c

(* The function that the last element calls had an element below it. *)
LEMMA ScannedConstruction ==
  ASSUME NEW p, NEW h, NEW E, NEW b, NEW n, UnderConstruction(p, h, E, b), b # <<>>,
         HasCallee(h, b[Len(b)].elem, p.cfg[h[b[Len(b)].elem].cfg].callee[n])
  PROVE  UnderConstruction(p, h, E, ScannedIn(b, n))
<1> DEFINE c == ScannedIn(b, n)
<1>1. b \in Seq(Frames(p, E)) /\ \A i \in DOMAIN b : InProgress(p, h, b[i].elem, b[i].calls)
  BY DEF UnderConstruction
<1>2. /\ c \in Seq(Frames(p, E)) /\ Len(c) = Len(b) /\ Elem(c) = Elem(b)
      /\ \A i \in DOMAIN b : c[i].elem = b[i].elem
  BY <1>1, ScannedFrames
<1>3. \A i \in DOMAIN b : InProgress(p, h, c[i].elem, c[i].calls)
  BY <1>1, ScannedInProgress
<1> HIDE DEF c
<1>4. DOMAIN c = DOMAIN b
  BY <1>1, <1>2
<1>5. \A i \in DOMAIN c, j \in DOMAIN c : i < j => c[i].elem < c[j].elem
  BY <1>2, <1>4 DEF UnderConstruction
<1>6. \A e \in E \ Elem(c) : Completed(p, h, E, Elem(c), e)
  BY <1>2 DEF UnderConstruction
<1>7. UnderConstruction(p, h, E, c)
  BY <1>2, <1>3, <1>4, <1>5, <1>6 DEF UnderConstruction
<1>8. QED
  BY <1>7 DEF c

(* Call n of the last element, t, is a call of g. *)
CallOf(p, h, b, n, t, g) ==
  /\ b # <<>> /\ t = b[Len(b)].elem
  /\ n \in DOMAIN p.cfg[h[t].cfg].callee /\ g = p.cfg[h[t].cfg].callee[n]
  /\ g \in DOMAIN p.cfg

(* The frames after a call that was not known to the caller. *)
LEMMA GrownFrames ==
  ASSUME NEW p, NEW h, NEW k, NEW E, NEW F, NEW b, NEW n, NEW t, NEW g, NEW v,
         UnderConstruction(p, h, E, b), TreeOfCalls(p, h, E), DepthFirst(h, E), CallOf(p, h, b, n, t, g),
         GrowsBy(p, h, k, t, g, v), Joins(h, E, F, g, v)
  PROVE  /\ \A i \in DOMAIN b : InProgress(p, k, ScannedIn(b, n)[i].elem, ScannedIn(b, n)[i].calls)
         /\ \A e \in E \ Elem(b) : Completed(p, k, F, Elem(b) \cup {v}, e)
<1>1. b \in Seq(Frames(p, E)) /\ Len(b) \in Nat \ {0} /\ DOMAIN b = 1 .. Len(b) /\ t = b[Len(b)].elem
  <2>1. b \in Seq(Frames(p, E))
    BY DEF UnderConstruction
  <2>2. b # <<>> /\ t = b[Len(b)].elem
    BY DEF CallOf
  <2>3. QED
    BY <2>1, <2>2, ScannedFrames
<1>2. t \in E /\ t \in DOMAIN h /\ h \in Seq(Elements(p))
  <2>1. b[Len(b)] \in Frames(p, E)
    BY <1>1
  <2>2. t \in E
    BY <1>1, <2>1 DEF Frames
  <2>3. QED
    BY <2>2 DEF TreeOfCalls
<1>3. \A i \in DOMAIN b : InProgress(p, k, b[i].elem, b[i].calls)
  <2> TAKE i \in DOMAIN b
  <2>1. b[i].elem \in E /\ b[i].elem \in DOMAIN h
    <3>1. b[i] \in Frames(p, E)
      BY <1>1
    <3>2. b[i].elem \in E
      BY <3>1 DEF Frames
    <3>3. QED
      BY <3>2 DEF TreeOfCalls
  <2>2. InProgress(p, h, b[i].elem, b[i].calls)
    BY DEF UnderConstruction
  <2>3. b[i].elem = t \/ b[i].elem < t
    <3>1. CASE i = Len(b)
      BY <1>1, <3>1
    <3>2. CASE i < Len(b)
      <4>1. Len(b) \in DOMAIN b
        BY <1>1
      <4>2. QED
        BY <1>1, <3>2, <4>1 DEF UnderConstruction
    <3>3. QED
      BY <1>1, <3>1, <3>2
  <2>4. t \in Under(h, b[i].elem)
    <3> DEFINE x == b[i].elem
               m == Len(h)
    <3>1. Under(h, x) = x .. m
      BY <2>2 DEF InProgress
    <3>2. m \in Nat /\ t \in 1 .. m /\ x \in 1 .. m /\ (x = t \/ x < t)
      BY <1>2, <2>1, <2>3
    <3> HIDE DEF x, m
    <3>3. t \in Under(h, x)
      BY <3>1, <3>2
    <3>4. QED
      BY <3>3 DEF x
  <2>5. QED
    BY <2>1, <2>2, <2>4, GrownInProgress
<1>4. HasCallee(k, b[Len(b)].elem, p.cfg[k[b[Len(b)].elem].cfg].callee[n])
  <2>1. HasCallee(k, t, g)
    BY <1>2, CalleesKept
  <2>2. k[t].cfg = h[t].cfg
    BY <1>2 DEF GrowsBy
  <2>3. QED
    BY <1>1, <2>1, <2>2 DEF CallOf
<1>5. \A i \in DOMAIN b : InProgress(p, k, ScannedIn(b, n)[i].elem, ScannedIn(b, n)[i].calls)
  BY <1>1, <1>3, <1>4, ScannedInProgress DEF CallOf
<1>6. ASSUME NEW e \in E \ Elem(b)
      PROVE  Completed(p, k, F, Elem(b) \cup {v}, e)
  <2>1. t \in Elem(b)
    BY <1>1 DEF Elem
  <2>2. Completed(p, h, E, Elem(b), e)
    BY DEF UnderConstruction
  <2>3. QED
    BY <2>1, <2>2, GrownCompleted
<1>7. QED
  BY <1>5, <1>6

LEMMA GrownConstruction ==
  ASSUME NEW p, NEW h, NEW k, NEW E, NEW F, NEW b, NEW n, NEW t, NEW g, NEW v,
         UnderConstruction(p, h, E, b), TreeOfCalls(p, h, E), DepthFirst(h, E), CallOf(p, h, b, n, t, g),
         GrowsBy(p, h, k, t, g, v), Joins(h, E, F, g, v)
  PROVE  /\ F = E => UnderConstruction(p, k, E, ScannedIn(b, n))
         /\ F = E \cup {v} =>
              UnderConstruction(p, k, F, Append(ScannedIn(b, n), [elem |-> v, calls |-> DOMAIN p.cfg[g].callee]))
<1> DEFINE c == ScannedIn(b, n)
           new == [elem |-> v, calls |-> DOMAIN p.cfg[g].callee]
           d == Append(c, new)
<1>1. b \in Seq(Frames(p, E)) /\ E \subseteq DOMAIN h /\ h \in Seq(Elements(p))
  BY DEF UnderConstruction, TreeOfCalls
<1>2. /\ c \in Seq(Frames(p, E)) /\ Len(c) = Len(b) /\ Elem(c) = Elem(b)
      /\ \A i \in DOMAIN b : c[i].elem = b[i].elem
  <2>1. b # <<>>
    BY DEF CallOf
  <2>2. QED
    BY <1>1, <2>1, ScannedFrames
<1>3. \A i \in DOMAIN b : InProgress(p, k, c[i].elem, c[i].calls)
  BY GrownFrames
<1>4. \A e \in E \ Elem(b) : Completed(p, k, F, Elem(b) \cup {v}, e)
  BY GrownFrames
<1> HIDE DEF c
<1>5. DOMAIN c = DOMAIN b /\ Len(c) \in Nat /\ DOMAIN c = 1 .. Len(c)
  BY <1>1, <1>2
<1>6. \A i \in DOMAIN c, j \in DOMAIN c : i < j => c[i].elem < c[j].elem
  BY <1>2, <1>5 DEF UnderConstruction
<1>7. ASSUME F = E
      PROVE  UnderConstruction(p, k, E, c)
  <2>1. \A e \in E \ Elem(c) : Completed(p, k, E, Elem(c), e)
    BY <1>2, <1>4, <1>7 DEF Completed
  <2>2. QED
    BY <1>2, <1>3, <1>5, <1>6, <2>1 DEF UnderConstruction
<1>8. ASSUME F = E \cup {v}
      PROVE  UnderConstruction(p, k, F, d)
  <2>1. v = Len(h) + 1 /\ Len(h) \in Nat /\ DOMAIN h = 1 .. Len(h) /\ Len(k) = v
        /\ Under(k, v) = {v} /\ k[v].cfg = g
    BY <1>1 DEF GrowsBy
  <2>2. new \in Frames(p, F) /\ new.elem = v /\ new.calls = DOMAIN p.cfg[g].callee
    BY <1>8 DEF Frames, CallNodes, CallOf
  <2> HIDE DEF new
  <2>3. c \in Seq(Frames(p, F))
    <3>1. Frames(p, E) \subseteq Frames(p, F)
      BY <1>8 DEF Frames
    <3> DEFINE S == Frames(p, E)
               U == Frames(p, F)
    <3>2. c \in Seq(S) /\ S \subseteq U
      BY <1>2, <3>1
    <3> HIDE DEF S, U
    <3>3. c \in Seq(U)
      BY <3>2
    <3>4. QED
      BY <3>3 DEF U
  <2>4. /\ d \in Seq(Frames(p, F)) /\ Len(d) = Len(c) + 1
        /\ \A i \in DOMAIN c : d[i] = c[i]
        /\ d[Len(c) + 1] = new
    BY <2>2, <2>3, AppendTo
  <2> HIDE DEF d
  <2>5. DOMAIN d = 1 .. (Len(c) + 1)
    BY <2>4
  <2>6. \A i \in DOMAIN d : i \in DOMAIN c \/ i = Len(c) + 1
    BY <1>5, <2>5
  <2>7. InProgress(p, k, v, new.calls)
    <3>1. v .. Len(k) = {v}
      BY <2>1
    <3>2. QED
      BY <2>1, <2>2, <3>1 DEF InProgress
  <2>8. \A i \in DOMAIN d : InProgress(p, k, d[i].elem, d[i].calls)
    BY <1>3, <1>5, <2>2, <2>4, <2>6, <2>7
  <2>9. \A i \in DOMAIN c : c[i].elem \in 1 .. Len(h)
    <3> TAKE i \in DOMAIN c
    <3>1. c[i] \in Frames(p, E)
      BY <1>2
    <3>2. c[i].elem \in E
      BY <3>1 DEF Frames
    <3>3. QED
      BY <1>1, <2>1, <3>2
  <2>10. \A i \in DOMAIN d, j \in DOMAIN d : i < j => d[i].elem < d[j].elem
    <3> TAKE i \in DOMAIN d, j \in DOMAIN d
    <3> HAVE i < j
    <3>1. i \in DOMAIN c
      BY <1>5, <2>5
    <3>2. CASE j \in DOMAIN c
      BY <1>6, <2>4, <3>1, <3>2
    <3>3. CASE j = Len(c) + 1
      <4>1. d[i].elem \in 1 .. Len(h) /\ d[j].elem = v
        BY <2>2, <2>4, <2>9, <3>1, <3>3
      <4>2. QED
        BY <2>1, <4>1
    <3>4. QED
      BY <2>6, <3>2, <3>3
  <2>11. Elem(d) = Elem(b) \cup {v}
    <3>1. Elem(d) = Elem(c) \cup {v}
      <4>1. DOMAIN c \subseteq DOMAIN d /\ Len(c) + 1 \in DOMAIN d
        BY <1>5, <2>5
      <4>2. \A x : x \in Elem(d) <=> x \in Elem(c) \/ x = v
        <5>1. \A x : x \in Elem(d) <=> \E i \in DOMAIN d : x = d[i].elem
          BY DEF Elem
        <5>2. \A x : x \in Elem(c) <=> \E i \in DOMAIN c : x = c[i].elem
          BY DEF Elem
        <5>3. d[Len(c) + 1].elem = v /\ \A i \in DOMAIN c : d[i].elem = c[i].elem
          BY <2>2, <2>4
        <5>4. QED
          BY <2>6, <4>1, <5>1, <5>2, <5>3
      <4>3. QED
        BY <4>2
    <3>2. QED
      BY <1>2, <3>1
  <2>12. \A e \in F \ Elem(d) : Completed(p, k, F, Elem(d), e)
    BY <1>4, <1>8, <2>11
  <2>13. QED
    BY <2>4, <2>8, <2>10, <2>12 DEF UnderConstruction
<1>9. QED
  BY <1>7, <1>8 DEF c

LEMMA FrontOf ==
  ASSUME NEW S, NEW b \in Seq(S), b # <<>>
  PROVE  /\ Front(b) \in Seq(S) /\ Len(Front(b)) = Len(b) - 1
         /\ Len(b) \in Nat \ {0} /\ DOMAIN b = 1 .. Len(b)
         /\ DOMAIN Front(b) = 1 .. (Len(b) - 1)
         /\ \A i \in 1 .. (Len(b) - 1) : Front(b)[i] = b[i]
<1> DEFINE n == Len(b) - 1
<1>1. n \in Nat /\ Len(b) \in Nat \ {0} /\ DOMAIN b = 1 .. Len(b) /\ \A i \in 1 .. n : b[i] \in S
  OBVIOUS
<1>2. Len(SubSeq(b, 1, n)) = n
  BY <1>1
<1>3. \A i \in 1 .. n : SubSeq(b, 1, n)[i] = b[i]
  BY <1>1
<1>4. SubSeq(b, 1, n) \in Seq(S)
  BY <1>1
<1>5. QED
  BY <1>1, <1>2, <1>3, <1>4 DEF Front

(* The last element has no call left to scan: it is completed. *)
LEMMA EndedConstruction ==
  ASSUME NEW p, NEW h, NEW E, NEW b,
         UnderConstruction(p, h, E, b), TreeOfCalls(p, h, E), b # <<>>, b[Len(b)].calls = {}
  PROVE  UnderConstruction(p, h, E, Front(b))
<1> DEFINE c == Front(b)
           l == Len(b)
           t == b[l].elem
<1>1. b \in Seq(Frames(p, E)) /\ E \subseteq DOMAIN h /\ h \in Seq(Elements(p))
  BY DEF UnderConstruction, TreeOfCalls
<1>2. /\ c \in Seq(Frames(p, E)) /\ Len(c) = l - 1
      /\ l \in Nat \ {0} /\ DOMAIN b = 1 .. l /\ DOMAIN c = 1 .. (l - 1)
      /\ \A i \in 1 .. (l - 1) : c[i] = b[i]
  BY <1>1, FrontOf
<1>3. b[l].calls = {} /\ b[l].elem = t
  OBVIOUS
<1> HIDE DEF c, l, t
<1>4. \A i \in DOMAIN c : i \in DOMAIN b /\ i < l /\ c[i] = b[i]
  BY <1>2
<1>5. l \in DOMAIN b
  BY <1>2
<1>6. \A i \in DOMAIN c : InProgress(p, h, c[i].elem, c[i].calls)
  BY <1>4 DEF UnderConstruction
<1>7. \A i \in DOMAIN c, j \in DOMAIN c : i < j => c[i].elem < c[j].elem
  BY <1>4 DEF UnderConstruction
<1>8. \A u \in Elem(c) : u \in Elem(b) /\ u < t
  <2>1. \A i \in DOMAIN c : c[i].elem < t
    BY <1>3, <1>4, <1>5 DEF UnderConstruction
  <2>2. QED
    BY <1>4, <2>1 DEF Elem
<1>9. \A e \in Elem(b) : e \in Elem(c) \/ e = t
  <2>1. \A i \in DOMAIN b : i \in DOMAIN c \/ i = l
    BY <1>2
  <2>2. QED
    BY <1>3, <1>4, <2>1 DEF Elem
<1>10. t \in E
  <2>1. b[l] \in Frames(p, E)
    BY <1>1, <1>5
  <2>2. QED
    BY <1>3, <2>1 DEF Frames
<1>11. InProgress(p, h, t, {})
  BY <1>3, <1>5 DEF UnderConstruction
<1>12. Under(h, t) = t .. Len(h)
  BY <1>11 DEF InProgress
<1>13. Completed(p, h, E, Elem(c), t)
  <2>1. \A g \in Callees(p, h[t].cfg) : HasCallee(h, t, g)
    BY <1>11 DEF InProgress, Callees
  <2>2. \A y \in E : y < t \/ y \in Under(h, t)
    <3>1. Len(h) \in Nat /\ DOMAIN h = 1 .. Len(h)
      BY <1>1
    <3>2. \A y \in E : y \in 1 .. Len(h)
      BY <1>1, <3>1
    <3>3. QED
      BY <1>10, <1>12, <3>1, <3>2
  <2>3. \A u \in Elem(c) : u \notin Under(h, t)
    <3>1. \A u \in t .. Len(h) : t <= u
      OBVIOUS
    <3>2. t \in Nat /\ \A u \in E : u \in Nat
      BY <1>1, <1>10
    <3>3. \A u \in Elem(b) : u \in E
      <4>1. \A i \in DOMAIN b : b[i] \in Frames(p, E)
        BY <1>1
      <4>2. QED
        BY <4>1 DEF Elem, Frames
    <3>4. QED
      BY <1>8, <1>12, <3>1, <3>2, <3>3
  <2>4. QED
    BY <2>1, <2>2, <2>3 DEF Completed, Finished
<1>14. \A e \in E \ Elem(c) : Completed(p, h, E, Elem(c), e)
  <2>1. \A e \in E \ Elem(b) : Completed(p, h, E, Elem(b), e)
    BY DEF UnderConstruction
  <2>2. \A e \in E \ Elem(b) : Completed(p, h, E, Elem(c), e)
    BY <1>8, <2>1 DEF Completed
  <2>3. QED
    BY <1>9, <1>13, <2>2
<1>15. UnderConstruction(p, h, E, c)
  BY <1>2, <1>6, <1>7, <1>14 DEF UnderConstruction
<1>16. QED
  BY <1>15 DEF c
-----------------------------------------------------------------------------
(* The marks of the searches change neither the elements nor what is below *)
(* them.                                                                   *)
SameShape(h, k) ==
  /\ DOMAIN k = DOMAIN h
  /\ \A d \in DOMAIN h : k[d].cfg = h[d].cfg /\ k[d].callees = h[d].callees

LEMMA SameTree ==
  ASSUME NEW h, NEW k, NEW e, SameShape(h, k)
  PROVE  Under(k, e) = Under(h, e)
<1>1. Tree(k) = Tree(h)
  <2> DEFINE D == DOMAIN h
  <2>1. \A x \in D, c \in D : c \in k[x].callees <=> c \in h[x].callees
    BY DEF SameShape
  <2>2. DOMAIN k = D
    BY DEF SameShape
  <2> HIDE DEF D
  <2>3. {x \in D \X D : x[2] \in k[x[1]].callees} = {x \in D \X D : x[2] \in h[x[1]].callees}
    BY <2>1
  <2>4. QED
    BY <2>2, <2>3 DEF Tree, D
<1>2. QED
  BY <1>1 DEF Under

LEMMA SameTreeOfCalls ==
  ASSUME NEW p, NEW h, NEW k, NEW E, SameShape(h, k), k \in Seq(Elements(p)), TreeOfCalls(p, h, E)
  PROVE  TreeOfCalls(p, k, E)
<1>1. h \in Seq(Elements(p)) /\ E \subseteq DOMAIN h /\ 1 \in E /\ h # <<>>
  BY DEF TreeOfCalls
<1>2. DOMAIN k = DOMAIN h /\ k # <<>> /\ p \in Programs /\ k[1].cfg = p.entry
  <2>1. DOMAIN k = DOMAIN h /\ 1 \in DOMAIN h
    BY <1>1 DEF SameShape
  <2>2. k # <<>>
    BY <2>1
  <2>3. QED
    BY <2>1, <2>2 DEF SameShape, TreeOfCalls
<1>3. \A d \in DOMAIN k : \A c \in k[d].callees : /\ c \in DOMAIN k /\ d < c
                                                 /\ <<k[d].cfg, k[c].cfg>> \in Graph(p)
  BY <1>2 DEF SameShape, TreeOfCalls
<1>4. \A d \in E, e \in E : k[d].cfg = k[e].cfg => d = e
  BY <1>1 DEF SameShape, TreeOfCalls
<1>5. \A d \in DOMAIN k : \E e \in E : k[e].cfg = k[d].cfg
  BY <1>1, <1>2 DEF SameShape, TreeOfCalls
<1>6. \A d \in (DOMAIN k) \ E : k[d].callees = {}
  BY <1>2 DEF SameShape, TreeOfCalls
<1>7. QED
  BY <1>1, <1>2, <1>3, <1>4, <1>5, <1>6 DEF TreeOfCalls

LEMMA SameDepthFirst ==
  ASSUME NEW p, NEW h, NEW k, NEW E, SameShape(h, k), k \in Seq(Elements(p)), TreeOfCalls(p, h, E),
         DepthFirst(h, E)
  PROVE  DepthFirst(k, E)
<1>1. DOMAIN k = DOMAIN h /\ Len(k) = Len(h)
  <2>1. h \in Seq(Elements(p)) /\ DOMAIN k = DOMAIN h
    BY DEF TreeOfCalls, SameShape
  <2>2. QED
    BY <2>1
<1>2. \A e : Under(k, e) = Under(h, e)
  BY SameTree
<1>3. QED
  BY <1>1, <1>2 DEF DepthFirst

LEMMA SameCompleted ==
  ASSUME NEW p, NEW h, NEW k, NEW E, NEW T, NEW e, SameShape(h, k), TreeOfCalls(p, h, E), e \in E,
         Completed(p, h, E, T, e)
  PROVE  Completed(p, k, E, T, e)
<1>1. E \subseteq DOMAIN h /\ e \in DOMAIN h /\ \A c \in h[e].callees : c \in DOMAIN h
  BY DEF TreeOfCalls
<1>2. k[e].cfg = h[e].cfg /\ k[e].callees = h[e].callees /\ \A c \in DOMAIN h : k[c].cfg = h[c].cfg
  BY <1>1 DEF SameShape
<1>3. Under(k, e) = Under(h, e)
  BY SameTree
<1>4. \A g : HasCallee(k, e, g) <=> HasCallee(h, e, g)
  BY <1>1, <1>2 DEF HasCallee
<1>5. QED
  BY <1>1, <1>2, <1>3, <1>4 DEF Completed, Finished

LEMMA SameComesBack ==
  ASSUME NEW p, NEW h, NEW k, NEW E, NEW e, SameShape(h, k), TreeOfCalls(p, h, E), e \in E
  PROVE  ComesBack(k, E, e) = ComesBack(h, E, e)
<1>1. h \in Seq(Elements(p)) /\ e \in DOMAIN h
  BY DEF TreeOfCalls
<1>2. Under(k, e) = Under(h, e) /\ k[e].cfg = h[e].cfg /\ \A c \in DOMAIN h : k[c].cfg = h[c].cfg
  BY <1>1, SameTree DEF SameShape
<1>3. Under(h, e) \subseteq DOMAIN h
  <2>1. \A x \in DOMAIN h, c \in DOMAIN h : x \in DOMAIN h /\ c \in h[x].callees => c \in DOMAIN h
    OBVIOUS
  <2> DEFINE D == DOMAIN h
  <2>2. e \in D /\ \A x \in DOMAIN h, c \in DOMAIN h : x \in D /\ c \in h[x].callees => c \in D
    BY <1>1
  <2> HIDE DEF D
  <2>3. Under(h, e) \subseteq D
    BY <1>1, <2>2, UnderLeast
  <2>4. QED
    BY <2>3 DEF D
<1>4. QED
  BY <1>2, <1>3 DEF ComesBack
-----------------------------------------------------------------------------
(* The invariant is inductive. *)

LEMMA Initial ==
  ASSUME Init
  PROVE  IInv
<1> DEFINE p == program
           x == CallGraphElem(p.entry)
           E == ToSet(elems)
           b == Building(1, p.entry)
<1>1. p \in Programs /\ heap = <<x>> /\ elems = <<1>> /\ building = <<b>>
      /\ phase = "calls" /\ tested = 0 /\ cyclic = FALSE
  BY DEF Init
<1>2. p.entry \in DOMAIN p.cfg
  BY <1>1, ProgramsAssumption
<1>3. x \in Elements(p) /\ x.cfg = p.entry /\ x.callees = {} /\ x.visited = FALSE
  BY <1>2 DEF CallGraphElem, Elements
<1>4. E = {1}
  BY <1>1 DEF ToSet
<1>5. b \in Frames(p, E) /\ b.elem = 1 /\ b.calls = DOMAIN p.cfg[p.entry].callee
  BY <1>2, <1>4 DEF Building, Frames, CallNodes
<1> HIDE DEF x, E, b, p
<1>6. heap \in Seq(Elements(p)) /\ DOMAIN heap = {1} /\ Len(heap) = 1 /\ heap # <<>> /\ heap[1] = x
  <2>1. heap = <<x>>
    BY <1>1
  <2>2. QED
    BY <1>3, <2>1
<1>7. building \in Seq(Frames(p, E)) /\ DOMAIN building = {1} /\ building[1] = b
  <2>1. building = <<b>>
    BY <1>1
  <2>2. QED
    BY <1>5, <2>1
<1>8. Under(heap, 1) = {1}
  <2>1. 1 \in Under(heap, 1)
    BY <1>6, UnderClosed
  <2> DEFINE T == {1}
  <2>2. 1 \in T /\ \A d \in DOMAIN heap, c \in DOMAIN heap : d \in T /\ c \in heap[d].callees => c \in T
    BY <1>3, <1>6
  <2> HIDE DEF T
  <2>3. Under(heap, 1) \subseteq T
    BY <1>6, <2>2, UnderLeast
  <2>4. QED
    BY <2>1, <2>3 DEF T
<1>9. TreeOfCalls(p, heap, E)
  BY <1>1, <1>3, <1>4, <1>6 DEF TreeOfCalls
<1>10. DepthFirst(heap, E)
  BY <1>4, <1>6, <1>8 DEF DepthFirst
<1>11. UnderConstruction(p, heap, E, building)
  <2>1. Elem(building) = {1}
    BY <1>5, <1>7 DEF Elem
  <2>2. InProgress(p, heap, 1, b.calls)
    BY <1>3, <1>5, <1>6, <1>8 DEF InProgress
  <2>3. QED
    BY <1>4, <1>5, <1>7, <2>1, <2>2 DEF UnderConstruction
<1>12. Roots
  <2>1. elems = <<1>>
    BY <1>1
  <2>2. QED
    BY <2>1 DEF Roots
<1>13. Searches
  <2>1. Len(elems) = 1
    BY <1>1
  <2>2. \A d \in DOMAIN heap : ~ heap[d].visited
    BY <1>3, <1>6
  <2>3. QED
    BY <1>1, <2>1, <2>2 DEF Searches
<1>14. QED
  BY <1>1, <1>9, <1>10, <1>11, <1>12, <1>13 DEF IInv, p, E

(* The call that is scanned. *)
LEMMA CallScanned ==
  ASSUME IInv, NEW n \in CallsLeft
  PROVE  /\ phase = "calls" /\ building # <<>>
         /\ CallOf(program, heap, building, n, Frame.elem, Callee(n))
         /\ Frame.elem \in ToSet(elems) /\ Frame.elem \in DOMAIN heap
         /\ Callee(n) \in Callees(program, heap[Frame.elem].cfg)
         /\ Under(heap, Frame.elem) = Frame.elem .. Len(heap)
<1> DEFINE t == building[Len(building)].elem
           E == ToSet(elems)
<1>1. phase = "calls" /\ building # <<>> /\ n \in building[Len(building)].calls
  BY DEF CallsLeft, Frame, Last
<1>2. Frame = building[Len(building)]
  BY DEF Frame, Last
<1>3. UnderConstruction(program, heap, E, building) /\ TreeOfCalls(program, heap, E)
  BY DEF IInv
<1>4. building \in Seq(Frames(program, E))
  BY <1>3 DEF UnderConstruction
<1>5. Len(building) \in DOMAIN building
  BY <1>1, <1>4
<1>6. InProgress(program, heap, t, building[Len(building)].calls)
  BY <1>3, <1>5 DEF UnderConstruction
<1>7. t \in E
  <2>1. building[Len(building)] \in Frames(program, E)
    BY <1>4, <1>5
  <2>2. QED
    BY <2>1 DEF Frames
<1>8. t \in DOMAIN heap /\ program \in Programs /\ heap \in Seq(Elements(program))
  BY <1>3, <1>7 DEF TreeOfCalls
<1>9. heap[t].cfg \in DOMAIN program.cfg
  <2>1. heap[t] \in Elements(program)
    BY <1>8
  <2>2. QED
    BY <2>1 DEF Elements
<1>10. n \in DOMAIN program.cfg[heap[t].cfg].callee /\ Under(heap, t) = t .. Len(heap)
  BY <1>1, <1>6 DEF InProgress
<1>11. Callee(n) = program.cfg[heap[t].cfg].callee[n]
  BY <1>2 DEF Callee, Caller, GetCallee
<1>12. Callee(n) \in Callees(program, heap[t].cfg)
  BY <1>10, <1>11 DEF Callees
<1>13. Callee(n) \in DOMAIN program.cfg
  BY <1>8, <1>9, <1>12, CalleesAreFunctions
<1>14. CallOf(program, heap, building, n, t, Callee(n))
  BY <1>1, <1>10, <1>11, <1>13 DEF CallOf
<1>15. QED
  BY <1>1, <1>2, <1>7, <1>8, <1>10, <1>12, <1>14

LEMMA ScanKnownCallStep ==
  ASSUME IInv, NEW n \in CallsLeft, ScanKnownCall(n)
  PROVE  IInv'
<1> DEFINE E == ToSet(elems)
<1>1. /\ building' = ScannedIn(building, n)
      /\ program' = program /\ phase' = phase /\ heap' = heap /\ elems' = elems
      /\ tested' = tested /\ cyclic' = cyclic
  BY DEF ScanKnownCall, Scanned, ScannedIn
<1>2. phase = "calls" /\ building # <<>> /\ CallOf(program, heap, building, n, Frame.elem, Callee(n))
  BY CallScanned
<1>3. HasCallee(heap, Frame.elem, Callee(n))
  BY DEF ScanKnownCall, findInElems, HasCallee, Caller
<1>4. HasCallee(heap, building[Len(building)].elem,
                program.cfg[heap[building[Len(building)].elem].cfg].callee[n])
  BY <1>2, <1>3 DEF CallOf
<1>5. UnderConstruction(program, heap, E, building)
  BY DEF IInv
<1>6. UnderConstruction(program, heap, E, ScannedIn(building, n))
  BY <1>2, <1>4, <1>5, ScannedConstruction
<1>7. Roots /\ TreeOfCalls(program, heap, E) /\ DepthFirst(heap, E) /\ Searches /\ cyclic \in BOOLEAN
  BY DEF IInv
<1>8. Roots'
  BY <1>1, <1>7 DEF Roots
<1>9. Searches'
  BY <1>1, <1>7 DEF Searches
<1>10. TreeOfCalls(program, heap, E)' /\ DepthFirst(heap, E)' /\ UnderConstruction(program, heap, E, building)'
  BY <1>1, <1>6, <1>7
<1>11. phase' # "calls" => building' = <<>>
  BY <1>1, <1>2
<1>12. QED
  BY <1>1, <1>7, <1>8, <1>9, <1>10, <1>11 DEF IInv

LEMMA AppendedToSet ==
  ASSUME NEW S, NEW s \in Seq(S), NEW x \in S
  PROVE  ToSet(Append(s, x)) = ToSet(s) \cup {x}
<1>1. DOMAIN Append(s, x) = (DOMAIN s) \cup {Len(s) + 1}
  OBVIOUS
<1>2. \A i \in DOMAIN s : Append(s, x)[i] = s[i]
  OBVIOUS
<1>3. Append(s, x)[Len(s) + 1] = x
  OBVIOUS
<1>4. QED
  BY <1>1, <1>2, <1>3 DEF ToSet

LEMMA AddCalleeStep ==
  ASSUME IInv, NEW n \in CallsLeft, AddCallee(n)
  PROVE  IInv'
<1> DEFINE E == ToSet(elems)
           F == ToSet(elems')
           p == program
           t == Frame.elem
           g == Callee(n)
           v == Len(heap) + 1
           k == heap'
<1>1. /\ heap' = Grown(heap, t, g)
      /\ program' = program /\ phase' = phase /\ tested' = tested /\ cyclic' = cyclic
  BY DEF AddCallee, Grown
<1>2. phase = "calls" /\ CallOf(p, heap, building, n, t, g) /\ t \in E
      /\ g \in Callees(p, heap[t].cfg) /\ Under(heap, t) = t .. Len(heap)
  BY CallScanned
<1>3. Roots /\ TreeOfCalls(p, heap, E) /\ DepthFirst(heap, E) /\ UnderConstruction(p, heap, E, building)
      /\ Searches /\ cyclic \in BOOLEAN
  BY DEF IInv
<1>4. g \in DOMAIN p.cfg
  BY <1>2 DEF CallOf
<1>5. GrowsBy(p, heap, k, t, g, v)
  BY <1>1, <1>2, <1>3, <1>4, GrownGrows
<1>6. heap \in Seq(Elements(p)) /\ Len(heap) \in Nat /\ heap # <<>> /\ DOMAIN heap = 1 .. Len(heap)
  BY <1>3 DEF TreeOfCalls
<1>7. v \in Nat /\ v # 1
  BY <1>6
<1>8. elems \in Seq(Nat) /\ elems # <<>>
  BY <1>3 DEF Roots
<1>9. ToSet(Append(elems, v)) = E \cup {v}
  BY <1>7, <1>8, AppendedToSet
<1>10. \/ elems' = elems /\ building' = ScannedIn(building, n) /\ \E e \in E : heap[e].cfg = g
       \/ /\ elems' = Append(elems, v) /\ \A e \in E : heap[e].cfg # g
          /\ building' = Append(ScannedIn(building, n), [elem |-> v, calls |-> DOMAIN p.cfg[g].callee])
  BY DEF AddCallee, findInElems, Scanned, ScannedIn, Building
<1> HIDE DEF k, g, t, v
<1>11. Joins(heap, E, F, g, v)
  BY <1>9, <1>10 DEF Joins
<1>12. TreeOfCalls(p, k, F)
  BY <1>2, <1>3, <1>5, <1>11, GrownTree
<1>13. DepthFirst(k, F)
  BY <1>2, <1>3, <1>5, <1>11, GrownDepthFirst
<1>14. UnderConstruction(p, k, F, building')
  <2>1. CASE elems' = elems
    <3>1. F = E /\ building' = ScannedIn(building, n)
      <4>1. elems # Append(elems, v)
        BY <1>7, <1>8
      <4>2. QED
        BY <1>10, <2>1, <4>1
    <3>2. F = E => UnderConstruction(p, k, E, ScannedIn(building, n))
      BY <1>2, <1>3, <1>5, <1>11, GrownConstruction
    <3>3. QED
      BY <3>1, <3>2
  <2>2. CASE elems' # elems
    <3>1. F = E \cup {v}
          /\ building' = Append(ScannedIn(building, n), [elem |-> v, calls |-> DOMAIN p.cfg[g].callee])
      BY <1>9, <1>10, <2>2
    <3>2. F = E \cup {v} => UnderConstruction(p, k, F,
                    Append(ScannedIn(building, n), [elem |-> v, calls |-> DOMAIN p.cfg[g].callee]))
      BY <1>2, <1>3, <1>5, <1>11, GrownConstruction
    <3>3. QED
      BY <3>1, <3>2
  <2>3. QED
    BY <2>1, <2>2
<1>15. elems' \in Seq(Nat) /\ elems' # <<>> /\ elems'[1] = 1 /\ Len(elems') >= 1
       /\ \A i \in 2 .. Len(elems') : elems'[i] # 1
  <2>1. CASE elems' = elems
    BY <1>3, <1>8, <2>1 DEF Roots
  <2>2. CASE elems' = Append(elems, v)
    <3>1. /\ elems' \in Seq(Nat) /\ Len(elems') = Len(elems) + 1
          /\ \A d \in DOMAIN elems : elems'[d] = elems[d]
          /\ elems'[Len(elems) + 1] = v
      BY <1>7, <1>8, <2>2, AppendTo
    <3>2. Len(elems) \in Nat \ {0} /\ DOMAIN elems = 1 .. Len(elems)
      BY <1>8
    <3>3. \A i \in 2 .. Len(elems') : i \in 2 .. Len(elems) \/ i = Len(elems) + 1
      BY <3>1, <3>2
    <3>4. \A i \in 2 .. Len(elems') : elems'[i] # 1
      <4> TAKE i \in 2 .. Len(elems')
      <4>1. CASE i \in 2 .. Len(elems)
        <5>1. i \in DOMAIN elems
          BY <3>2, <4>1
        <5>2. elems[i] # 1
          BY <1>3, <4>1 DEF Roots
        <5>3. QED
          BY <3>1, <5>1, <5>2
      <4>2. CASE i = Len(elems) + 1
        BY <1>7, <3>1, <4>2 DEF v
      <4>3. QED
        BY <3>3, <4>1, <4>2
    <3>5. elems'[1] = 1
      BY <1>3, <3>1, <3>2 DEF Roots
    <3>6. QED
      BY <3>1, <3>2, <3>4, <3>5
  <2>3. QED
    BY <1>10, <2>1, <2>2
<1>16. Searches'
  <2>1. tested = 0 /\ \A d \in DOMAIN heap : ~ heap[d].visited
    BY <1>2, <1>3 DEF Searches
  <2>2. \A d \in DOMAIN k : ~ k[d].visited
    <3>1. \A d \in DOMAIN heap : k[d].visited = heap[d].visited
      BY <1>5 DEF GrowsBy
    <3>2. k[v].visited = FALSE
      BY <1>5 DEF GrowsBy
    <3>3. \A d \in DOMAIN k : d \in DOMAIN heap \/ d = v
      BY <1>5, <1>6 DEF GrowsBy
    <3>4. QED
      BY <2>1, <3>1, <3>2, <3>3
  <2>3. QED
    BY <1>1, <1>2, <1>15, <2>1, <2>2 DEF Searches, k
<1>17. QED
  BY <1>1, <1>2, <1>3, <1>12, <1>13, <1>14, <1>15, <1>16 DEF IInv, Roots, k

LEMMA EndBuildStep ==
  ASSUME IInv, EndBuild
  PROVE  IInv'
<1> DEFINE E == ToSet(elems)
<1>1. /\ building' = Front(building) /\ building # <<>> /\ phase = "calls" /\ CallsLeft = {}
      /\ program' = program /\ heap' = heap /\ elems' = elems /\ tested' = tested /\ cyclic' = cyclic
      /\ phase' = IF Len(building) = 1 THEN "cycles" ELSE phase
  BY DEF EndBuild
<1>2. building[Len(building)].calls = {}
  BY <1>1 DEF CallsLeft, Frame, Last
<1>3. Roots /\ TreeOfCalls(program, heap, E) /\ DepthFirst(heap, E) /\ Searches
      /\ UnderConstruction(program, heap, E, building) /\ cyclic \in BOOLEAN
  BY DEF IInv
<1>4. UnderConstruction(program, heap, E, Front(building))
  BY <1>1, <1>2, <1>3, EndedConstruction
<1>5. Roots'
  BY <1>1, <1>3 DEF Roots
<1>6. Searches'
  <2>1. tested = 0 /\ tested < Len(elems) /\ \A d \in DOMAIN heap : ~ heap[d].visited
    BY <1>1, <1>3 DEF Searches
  <2>2. phase' \in {"calls", "cycles"}
    BY <1>1
  <2>3. QED
    BY <1>1, <2>1, <2>2 DEF Searches
<1>7. TreeOfCalls(program, heap, E)' /\ DepthFirst(heap, E)' /\ UnderConstruction(program, heap, E, building)'
  BY <1>1, <1>3, <1>4
<1>8. phase' # "calls" => building' = <<>>
  <2>1. building \in Seq(Frames(program, E))
    BY <1>3 DEF UnderConstruction
  <2>2. Front(building) \in Seq(Frames(program, E)) /\ Len(Front(building)) = Len(building) - 1
    BY <1>1, <2>1, FrontOf
  <2>3. Len(building) = 1 => Front(building) = <<>>
    BY <2>2
  <2>4. QED
    BY <1>1, <2>3
<1>9. QED
  BY <1>1, <1>3, <1>5, <1>6, <1>7, <1>8 DEF IInv

LEMMA Marked ==
  ASSUME NEW p, NEW x \in Elements(p), NEW B \in BOOLEAN
  PROVE  LET y == [x EXCEPT !.visited = B]
         IN  y \in Elements(p) /\ y.cfg = x.cfg /\ y.callees = x.callees /\ y.visited = B
BY DEF Elements

LEMMA SearchedHeap ==
  ASSUME NEW e, TreeOfCalls(program, heap, ToSet(elems))
  PROVE  /\ Searched(e) \in Seq(Elements(program))
         /\ SameShape(heap, Searched(e))
         /\ \A d \in DOMAIN heap :
              Searched(e)[d].visited <=>
                d \in Under(heap, e) \/ (heap[d].visited /\ d \notin ToSet(elems))
<1> DEFINE n == Len(heap)
           marked(d) == d \in Below(e) \/ (heap[d].visited /\ d \notin ToSet(elems))
           k == Searched(e)
<1>1. heap \in Seq(Elements(program)) /\ n \in Nat /\ DOMAIN heap = 1 .. n
  BY DEF TreeOfCalls
<1>2. \A d \in DOMAIN heap : heap[d] \in Elements(program) /\ marked(d) \in BOOLEAN
  BY <1>1
<1>3. Below(e) = Under(heap, e)
  BY DEF Below, Under, Tree
<1>4. k = [d \in DOMAIN heap |-> [heap[d] EXCEPT !.visited = marked(d)]]
  BY DEF Searched
<1>5. DOMAIN k = DOMAIN heap /\ \A d \in DOMAIN heap : k[d] = [heap[d] EXCEPT !.visited = marked(d)]
  <2> HIDE DEF marked, k
  <2>1. QED
    BY <1>4
<1>6. \A d \in DOMAIN heap : /\ k[d] \in Elements(program) /\ k[d].cfg = heap[d].cfg
                              /\ k[d].callees = heap[d].callees /\ k[d].visited = marked(d)
  <2> TAKE d \in DOMAIN heap
  <2> DEFINE x == heap[d]
             B == marked(d)
             y == [x EXCEPT !.visited = B]
  <2>1. k[d] = y /\ x \in Elements(program) /\ B \in BOOLEAN
    BY <1>2, <1>5
  <2> HIDE DEF x, B, k, marked
  <2>2. y \in Elements(program) /\ y.cfg = x.cfg /\ y.callees = x.callees /\ y.visited = B
    BY <2>1, Marked
  <2> HIDE DEF y
  <2>3. k[d] \in Elements(program) /\ k[d].cfg = x.cfg /\ k[d].callees = x.callees /\ k[d].visited = B
    BY <2>1, <2>2
  <2>4. QED
    BY <2>3 DEF x, B
<1>7. k \in Seq(Elements(program))
  <2> DEFINE S == Elements(program)
  <2>1. k \in [1 .. n -> S]
    <3>1. k = [d \in 1 .. n |-> k[d]]
      <4> HIDE DEF marked
      <4>1. QED
        BY <1>1, <1>4
    <3> HIDE DEF k, S, n
    <3>2. \A d \in 1 .. n : k[d] \in S
      BY <1>1, <1>6 DEF S
    <3>3. QED
      BY <3>1, <3>2
  <2> HIDE DEF k, S, n
  <2>2. k \in Seq(S)
    BY <1>1, <2>1
  <2>3. QED
    BY <2>2 DEF S
<1> HIDE DEF k
<1>8. SameShape(heap, k)
  BY <1>5, <1>6 DEF SameShape
<1>9. \A d \in DOMAIN heap : k[d].visited <=> d \in Under(heap, e) \/ (heap[d].visited /\ d \notin ToSet(elems))
  BY <1>3, <1>6
<1>10. QED
  BY <1>7, <1>8, <1>9 DEF k

LEMMA TestCyclesStep ==
  ASSUME IInv, TestCycles
  PROVE  IInv'
<1> DEFINE E == ToSet(elems)
           p == program
           i == tested + 1
           e == elems[tested + 1]
           found == detectCycles(e, heap[e].cfg)
           Back(x) == ComesBack(heap, E, elems[x])
<1>1. /\ phase = "cycles" /\ cyclic' = found
      /\ heap' = IF found THEN heap ELSE Searched(e)
      /\ tested' = i
      /\ phase' = IF found THEN "rejected" ELSE IF i = Len(elems) THEN "contexts" ELSE phase
      /\ program' = program /\ elems' = elems /\ building' = building
  BY DEF TestCycles
<1>2. Roots /\ TreeOfCalls(p, heap, E) /\ DepthFirst(heap, E) /\ Searches
      /\ UnderConstruction(p, heap, E, building) /\ building = <<>>
  BY <1>1 DEF IInv
<1>3. heap \in Seq(Elements(p)) /\ E \subseteq DOMAIN heap /\ 1 \in E
  BY <1>2 DEF TreeOfCalls
<1>4. tested \in Nat /\ tested < Len(elems) /\ \A x \in 2 .. tested : ~ Back(x)
  BY <1>1, <1>2 DEF Searches
<1>5. elems \in Seq(Nat) /\ elems[1] = 1 /\ Len(elems) \in Nat /\ DOMAIN elems = 1 .. Len(elems)
  BY <1>2 DEF Roots
<1>6. i \in DOMAIN elems /\ e \in E /\ \A x \in DOMAIN elems : elems[x] \in E
  BY <1>4, <1>5 DEF ToSet
<1>7. found <=> \E d \in Under(heap, e) \ E : heap[d].visited /\ heap[d].cfg = heap[e].cfg
  BY DEF detectCycles, Below, Under, Tree
<1>8. Under(heap, e) \subseteq DOMAIN heap
  <2>1. PICK l \in e .. Len(heap) : Under(heap, e) = e .. l
    BY <1>2, <1>6 DEF DepthFirst
  <2>2. e \in DOMAIN heap /\ DOMAIN heap = 1 .. Len(heap) /\ Len(heap) \in Nat
    BY <1>3, <1>6
  <2> HIDE DEF e
  <2>3. QED
    BY <2>1, <2>2
<1>9. /\ Searched(e) \in Seq(Elements(p)) /\ SameShape(heap, Searched(e))
      /\ \A d \in DOMAIN heap :
            Searched(e)[d].visited <=> d \in Under(heap, e) \/ (heap[d].visited /\ d \notin E)
  BY <1>2, SearchedHeap
<1>10. heap' \in Seq(Elements(p)) /\ SameShape(heap, heap')
  <2>1. SameShape(heap, heap)
    BY DEF SameShape
  <2>2. QED
    BY <1>1, <1>3, <1>9, <2>1
<1>11. TreeOfCalls(p, heap', E)
  BY <1>2, <1>10, SameTreeOfCalls
<1>12. DepthFirst(heap', E)
  BY <1>2, <1>10, SameDepthFirst
<1>13. UnderConstruction(p, heap', E, building)
  <2>1. Elem(building) = {} /\ DOMAIN building = {}
    BY <1>2 DEF Elem
  <2>2. \A x \in E : Completed(p, heap, E, {}, x)
    BY <1>2, <2>1 DEF UnderConstruction
  <2>3. \A x \in E : Completed(p, heap', E, {}, x)
    BY <1>2, <1>10, <2>2, SameCompleted
  <2>4. building \in Seq(Frames(p, E))
    BY <1>2 DEF UnderConstruction
  <2>5. QED
    BY <2>1, <2>3, <2>4 DEF UnderConstruction
<1>14. \A x \in E : ComesBack(heap', E, x) = ComesBack(heap, E, x)
  BY <1>2, <1>10, SameComesBack
<1>15. \A x \in DOMAIN elems : ComesBack(heap', E, elems[x]) = Back(x)
  BY <1>6, <1>14
<1>16. tested = 0 => ~ found
  <2>1. tested = 0 => \A d \in DOMAIN heap : ~ heap[d].visited
    BY <1>2 DEF Searches
  <2>2. QED
    BY <1>7, <1>8, <2>1
<1>17. tested > 0 => (found <=> Back(i))
  <2>1. tested > 0 => \A d \in (DOMAIN heap) \ E : heap[d].visited
    BY <1>2 DEF Searches
  <2>2. QED
    BY <1>7, <1>8, <2>1 DEF ComesBack
<1>18. \A d \in (DOMAIN heap) \ E : heap'[d].visited
  <2>1. CASE tested = 0
    <3>1. e = 1 /\ Under(heap, e) = DOMAIN heap
      BY <1>2, <1>5, <2>1 DEF DepthFirst
    <3>2. \A d \in DOMAIN heap : Searched(e)[d].visited
      BY <1>9, <3>1
    <3>3. QED
      BY <1>1, <1>16, <2>1, <3>2
  <2>2. CASE tested > 0
    <3>1. \A d \in (DOMAIN heap) \ E : heap[d].visited
      BY <1>2, <2>2 DEF Searches
    <3>2. QED
      BY <1>1, <1>9, <3>1
  <2>3. QED
    BY <1>4, <2>1, <2>2
<1>19. DOMAIN heap' = DOMAIN heap
  BY <1>10 DEF SameShape
<1>20. i \in Nat /\ i > 0 /\ i <= Len(elems) /\ (tested > 0 <=> i \in 2 .. Len(elems))
       /\ \A x \in 2 .. i : x \in 2 .. tested \/ (x = i /\ tested > 0)
  BY <1>4, <1>5
<1>21. Searches'
  <2>1. CASE found
    <3>1. i \in 2 .. Len(elems) /\ Back(i)
      BY <1>4, <1>16, <1>17, <1>20, <2>1
    <3>2. ComesBack(heap', E, elems[i])
      BY <1>6, <1>15, <3>1
    <3>3. phase' = "rejected" /\ cyclic'
      BY <1>1, <2>1
    <3>4. QED
      BY <1>1, <1>18, <1>19, <1>20, <3>1, <3>2, <3>3 DEF Searches
  <2>2. CASE ~ found
    <3>1. \A x \in 2 .. i : ~ Back(x)
      BY <1>4, <1>17, <1>20, <2>2
    <3>2. \A x \in 2 .. i : ~ ComesBack(heap', E, elems[x])
      BY <1>5, <1>15, <1>20, <3>1
    <3>3. ~ cyclic' /\ phase' = IF i = Len(elems) THEN "contexts" ELSE "cycles"
      BY <1>1, <2>2
    <3>4. QED
      BY <1>1, <1>5, <1>18, <1>19, <1>20, <3>2, <3>3 DEF Searches
  <2>3. QED
    BY <2>1, <2>2
<1>22. Roots'
  BY <1>1, <1>2 DEF Roots
<1>23. QED
  <2>1. cyclic' \in BOOLEAN
    BY <1>1 DEF detectCycles
  <2>2. QED
    BY <1>1, <1>2, <1>11, <1>12, <1>13, <1>21, <1>22, <2>1 DEF IInv

(* The contexts and the executions come after, and change nothing of it.   *)
LEMMA LaterStep ==
  ASSUME IInv, UNCHANGED <<program, callVars>>,
         phase' = phase \/ {phase, phase'} \subseteq {"contexts", "execution", "done"}
  PROVE  IInv'
<1>1. program' = program /\ heap' = heap /\ elems' = elems /\ building' = building
      /\ tested' = tested /\ cyclic' = cyclic
  BY DEF callVars
<1>2. Roots' /\ TreeOfCalls(program, heap, ToSet(elems))' /\ DepthFirst(heap, ToSet(elems))'
      /\ UnderConstruction(program, heap, ToSet(elems), building)' /\ cyclic' \in BOOLEAN
  BY <1>1 DEF IInv, Roots
<1>3. Searches'
  <2>1. Searches
    BY DEF IInv
  <2>2. CASE phase' = phase
    BY <1>1, <2>1, <2>2 DEF Searches
  <2>3. CASE {phase, phase'} \subseteq {"contexts", "execution", "done"}
    BY <1>1, <2>1, <2>3 DEF Searches
  <2>4. QED
    BY <2>2, <2>3
<1>4. phase' # "calls" => building' = <<>>
  BY <1>1 DEF IInv
<1>5. QED
  BY <1>2, <1>3, <1>4 DEF IInv

LEMMA Invariance == Spec => []IInv
<1>1. IPETInit => IInv
  BY Initial DEF IPETInit
<1>2. ASSUME IInv, [IPETNext]_vars
      PROVE  IInv'
  <2>1. CASE BuildCallGraph
    <3>1. CASE \E n \in CallsLeft : ScanKnownCall(n) \/ AddCallee(n)
      BY <1>2, <3>1, ScanKnownCallStep, AddCalleeStep
    <3>2. QED
      BY <1>2, <2>1, <3>1, EndBuildStep, TestCyclesStep DEF BuildCallGraph
  <2>2. CASE Explore
    <3>1. UNCHANGED <<program, callVars>> /\ phase' = phase
      BY <2>2 DEF Explore
    <3>2. QED
      BY <1>2, <3>1, LaterStep
  <2>3. CASE initialise
    <3>1. UNCHANGED <<program, callVars>> /\ phase = "contexts" /\ phase' = "execution"
      BY <2>3 DEF initialise
    <3>2. QED
      BY <1>2, <3>1, LaterStep
  <2>4. CASE Enter
    <3>1. UNCHANGED <<program, callVars>> /\ phase' = phase
      BY <2>4 DEF Enter, Unanalysed
    <3>2. QED
      BY <1>2, <3>1, LaterStep
  <2>5. CASE Step
    <3>1. UNCHANGED <<program, callVars>> /\ phase' = phase
      BY <2>5 DEF Step, Unanalysed
    <3>2. QED
      BY <1>2, <3>1, LaterStep
  <2>6. CASE CallFunction
    <3>1. UNCHANGED <<program, callVars>> /\ phase' = phase
      BY <2>6 DEF CallFunction, Unanalysed
    <3>2. QED
      BY <1>2, <3>1, LaterStep
  <2>7. CASE ReturnToCaller
    <3>1. UNCHANGED <<program, callVars>> /\ phase' = phase
      BY <2>7 DEF ReturnToCaller, Unanalysed
    <3>2. QED
      BY <1>2, <3>1, LaterStep
  <2>8. CASE Stop
    <3>1. UNCHANGED <<program, callVars>> /\ phase = "execution" /\ phase' = "done"
      BY <2>8 DEF Stop, Unanalysed, Running
    <3>2. QED
      BY <1>2, <3>1, LaterStep
  <2>9. CASE UNCHANGED vars
    <3>1. UNCHANGED <<program, callVars>> /\ phase' = phase
      BY <2>9 DEF vars
    <3>2. QED
      BY <1>2, <3>1, LaterStep
  <2>10. QED
    BY <1>2, <2>1, <2>2, <2>3, <2>4, <2>5, <2>6, <2>7, <2>8, <2>9 DEF IPETNext, Analyse, Done
<1>3. QED
  BY <1>1, <1>2, PTL DEF Spec
-----------------------------------------------------------------------------
(* What the complete graph says of the program. *)

(* Every function of the graph has its callees. *)
Complete(p, h, E) ==
  /\ TreeOfCalls(p, h, E) /\ DepthFirst(h, E)
  /\ \A e \in E : Finished(p, h, E, e)

(* A function calls itself, directly or not, and not through the entry.    *)
Inner(p) == Without(Graph(p), p.entry)
Recursive(p, f) == f \in Reachable(Inner(p), Successors(Inner(p), f))
Executed(p) == Reachable(Graph(p), {p.entry})

LEMMA GraphFinite ==
  ASSUME NEW p \in Programs
  PROVE  IsFiniteSet(Graph(p)) /\ IsFiniteSet(Inner(p))
<1> DEFINE D == DOMAIN p.cfg
<1>1. IsFiniteSet(D)
  BY ProgramsAssumption
<1>2. IsFiniteSet(D \X D)
  BY <1>1, FS_Product
<1>3. Graph(p) \subseteq D \X D
  BY ProgramsAssumption DEF Graph
<1>4. IsFiniteSet(Graph(p))
  BY <1>2, <1>3, FS_Subset
<1>5. QED
  BY <1>4, WithoutFinite DEF Inner

LEMMA GraphEdges ==
  ASSUME NEW p
  PROVE  /\ \A x \in Graph(p) : x[2] \in Callees(p, x[1])
         /\ \A x : x \in Inner(p) <=> x \in Graph(p) /\ x[1] # p.entry /\ x[2] # p.entry
<1>1. \A x \in Graph(p) : x[2] \in Callees(p, x[1])
  BY DEF Graph, Callees
<1>2. \A x : x \in Inner(p) <=> x \in Graph(p) /\ x[1] # p.entry /\ x[2] # p.entry
  BY DEF Inner, Without
<1>3. QED
  BY <1>1, <1>2

(* The elements are those of the functions that are executed. *)
LEMMA ElementsAreExecuted ==
  ASSUME NEW p, NEW h, NEW E, Complete(p, h, E)
  PROVE  /\ \A d \in DOMAIN h : h[d].cfg \in Executed(p)
         /\ \A f \in Executed(p) : \E e \in E : h[e].cfg = f
<1>1. /\ p \in Programs /\ h \in Seq(Elements(p)) /\ E \subseteq DOMAIN h /\ 1 \in E
      /\ h[1].cfg = p.entry /\ Under(h, 1) = DOMAIN h
  BY DEF Complete, TreeOfCalls, DepthFirst
<1>2. IsFiniteSet(Graph(p))
  BY <1>1, GraphFinite
<1>3. p.entry \in Executed(p) /\ \A x \in Graph(p) : x[1] \in Executed(p) => x[2] \in Executed(p)
  BY <1>2, ReachableStart, ReachableClosed DEF Executed
<1>4. \A d \in DOMAIN h : h[d].cfg \in Executed(p)
  <2> DEFINE T == {d \in DOMAIN h : h[d].cfg \in Executed(p)}
  <2>1. 1 \in T
    BY <1>1, <1>3
  <2>2. ASSUME NEW x \in DOMAIN h, NEW c \in DOMAIN h, x \in T, c \in h[x].callees
        PROVE  c \in T
    <3> DEFINE y == <<h[x].cfg, h[c].cfg>>
    <3>1. y \in Graph(p) /\ y[1] = h[x].cfg /\ y[2] = h[c].cfg
      BY <2>2 DEF Complete, TreeOfCalls
    <3> HIDE DEF y
    <3>2. y[1] \in Executed(p)
      BY <2>2, <3>1
    <3>3. QED
      BY <1>3, <3>1, <3>2
  <2> HIDE DEF T
  <2>3. Under(h, 1) \subseteq T
    BY <1>1, <2>1, <2>2, UnderLeast
  <2>4. QED
    BY <1>1, <2>3 DEF T
<1>5. \A f \in Executed(p) : \E e \in E : h[e].cfg = f
  <2> DEFINE T == {h[e].cfg : e \in E}
  <2>1. {p.entry} \subseteq T
    BY <1>1
  <2>2. ASSUME NEW x \in Graph(p), x[1] \in T
        PROVE  x[2] \in T
    <3>1. PICK e \in E : h[e].cfg = x[1]
      BY <2>2
    <3>2. HasCallee(h, e, x[2])
      BY <3>1, GraphEdges DEF Complete, Finished
    <3>3. PICK c \in h[e].callees : h[c].cfg = x[2]
      BY <3>2 DEF HasCallee
    <3>4. c \in DOMAIN h
      BY <1>1, <3>3 DEF Complete, TreeOfCalls
    <3>5. PICK y \in E : h[y].cfg = h[c].cfg
      BY <3>4 DEF Complete, TreeOfCalls
    <3>6. QED
      BY <3>3, <3>5
  <2> HIDE DEF T
  <2>3. Executed(p) \subseteq T
    BY <1>2, <2>1, <2>2, ReachableLeast DEF Executed
  <2>4. QED
    BY <2>3 DEF T
<1>6. QED
  BY <1>4, <1>5

LEMMA UnderInHeap ==
  ASSUME NEW p, NEW h, NEW E, NEW e \in E, TreeOfCalls(p, h, E), DepthFirst(h, E)
  PROVE  Under(h, e) \subseteq DOMAIN h
<1>1. PICK l \in e .. Len(h) : Under(h, e) = e .. l
  BY DEF DepthFirst
<1>2. e \in DOMAIN h /\ h \in Seq(Elements(p))
  BY DEF TreeOfCalls
<1>3. e \in 1 .. Len(h) /\ DOMAIN h = 1 .. Len(h) /\ Len(h) \in Nat
  BY <1>2
<1>4. QED
  BY <1>1, <1>3

(* An element below that of its function is one of a recursion. *)
LEMMA BackIsRecursive ==
  ASSUME NEW p, NEW h, NEW E, NEW e \in E, Complete(p, h, E), e # 1, ComesBack(h, E, e)
  PROVE  h[e].cfg # p.entry /\ Recursive(p, h[e].cfg)
<1> DEFINE f == h[e].cfg
           R == Reachable(Inner(p), Successors(Inner(p), f))
           T == {x \in DOMAIN h : \/ x = e
                                  \/ x \notin E /\ h[x].cfg = p.entry
                                  \/ h[x].cfg \in R /\ h[x].cfg # p.entry}
<1>1. /\ p \in Programs /\ h \in Seq(Elements(p)) /\ E \subseteq DOMAIN h /\ 1 \in E
      /\ h[1].cfg = p.entry
      /\ \A d \in E : h[d].cfg = p.entry => d = 1
      /\ \A d \in (DOMAIN h) \ E : h[d].callees = {}
  BY DEF Complete, TreeOfCalls
<1>2. f # p.entry
  BY <1>1
<1>3. IsFiniteSet(Inner(p))
  BY <1>1, GraphFinite
<1>4. /\ Successors(Inner(p), f) \subseteq R
      /\ \A x \in Inner(p) : x[1] \in R => x[2] \in R
  BY <1>3, ReachableStart, ReachableClosed
<1>5. \A x \in Inner(p) : x[1] = f => x[2] \in R
  BY <1>4 DEF Successors
<1>6. e \in T
  BY <1>1
<1>7. ASSUME NEW x \in DOMAIN h, NEW c \in DOMAIN h, x \in T, c \in h[x].callees
      PROVE  c \in T
  <2> DEFINE y == <<h[x].cfg, h[c].cfg>>
  <2>1. y \in Graph(p) /\ y[1] = h[x].cfg /\ y[2] = h[c].cfg /\ x < c
    BY <1>7 DEF Complete, TreeOfCalls
  <2> HIDE DEF R
  <2>2. x \in E /\ (h[x].cfg = f \/ h[x].cfg \in R) /\ h[x].cfg # p.entry
    BY <1>1, <1>2, <1>7
  <2>3. CASE h[c].cfg = p.entry
    <3>1. c # 1
      <4>1. x \in Nat /\ x >= 1
        BY <1>1
      <4>2. QED
        BY <2>1, <4>1
    <3>2. c \notin E
      BY <1>1, <2>3, <3>1
    <3>3. QED
      BY <2>3, <3>2
  <2>4. CASE h[c].cfg # p.entry
    <3> HIDE DEF y
    <3>1. y \in Inner(p)
      BY <2>1, <2>2, <2>4, GraphEdges
    <3>2. h[c].cfg \in R
      BY <1>4, <1>5, <2>1, <2>2, <3>1
    <3>3. QED
      BY <2>4, <3>2
  <2>5. QED
    BY <2>3, <2>4
<1>8. Under(h, e) \subseteq T
  <2> HIDE DEF T
  <2>1. QED
    BY <1>1, <1>6, <1>7, UnderLeast
<1>9. PICK d \in Under(h, e) \ E : h[d].cfg = f
  BY DEF ComesBack
<1>10. h[d].cfg \in R
  <2> HIDE DEF R
  <2>1. d \in T /\ d \notin E
    BY <1>8, <1>9
  <2>2. QED
    BY <1>2, <1>9, <2>1
<1>11. QED
  BY <1>2, <1>9, <1>10 DEF Recursive

(* Every node of a path is its first or comes after the first. *)
LEMMA ReachableSplit ==
  ASSUME NEW edges, NEW a, IsFiniteSet(edges), NEW z \in Reachable(edges, {a})
  PROVE  z = a \/ z \in Reachable(edges, Successors(edges, a))
<1> DEFINE R == Reachable(edges, Successors(edges, a))
           T == {a} \cup R
<1>1. Successors(edges, a) \subseteq R /\ \A x \in edges : x[1] \in R => x[2] \in R
  BY ReachableStart, ReachableClosed
<1>2. \A x \in edges : x[1] = a => x[2] \in R
  BY <1>1 DEF Successors
<1>3. {a} \subseteq T /\ \A x \in edges : x[1] \in T => x[2] \in T
  <2> HIDE DEF R
  <2>1. QED
    BY <1>1, <1>2
<1>4. Reachable(edges, {a}) \subseteq T
  <2> HIDE DEF T
  <2>1. QED
    BY <1>3, ReachableLeast
<1>5. QED
  BY <1>4

(* A function that reaches one of a recursion and is reached from it is    *)
(* recursive.                                                              *)
LEMMA RecursionShared ==
  ASSUME NEW p \in Programs, NEW f, NEW g, Recursive(p, f),
         g \in Reachable(Inner(p), {f}), f \in Reachable(Inner(p), {g})
  PROVE  Recursive(p, g)
<1> DEFINE S(x) == Reachable(Inner(p), Successors(Inner(p), x))
<1>1. IsFiniteSet(Inner(p))
  BY GraphFinite
<1>2. CASE f = g
  BY <1>2
<1>3. CASE f # g
  <2>1. f \in S(g)
    BY <1>1, <1>3, ReachableSplit
  <2>2. Reachable(Inner(p), {f}) \subseteq S(g)
    BY <1>1, <2>1, ReachableTransitive
  <2>3. QED
    BY <2>2 DEF Recursive
<1>4. QED
  BY <1>2, <1>3

(* The oldest element of a recursive function has, below it, all of the    *)
(* recursion, and the call that closes it.                                 *)
LEMMA RecursiveComesBack ==
  ASSUME NEW p, NEW h, NEW E, NEW f, Complete(p, h, E), f \in Executed(p), f # p.entry, Recursive(p, f)
  PROVE  \E e \in E : e # 1 /\ ComesBack(h, E, e)
<1> DEFINE S == {x \in E : h[x].cfg # p.entry /\ Recursive(p, h[x].cfg)}
<1>1. /\ p \in Programs /\ h \in Seq(Elements(p)) /\ E \subseteq DOMAIN h
      /\ h[1].cfg = p.entry /\ \A d \in E, x \in E : h[d].cfg = h[x].cfg => d = x
      /\ \A d \in DOMAIN h : \A c \in h[d].callees : c \in DOMAIN h /\ d < c
      /\ TreeOfCalls(p, h, E) /\ DepthFirst(h, E)
  BY DEF Complete, TreeOfCalls
<1>2. PICK e \in S : \A x \in S : e <= x
  <2>1. S # {}
    BY ElementsAreExecuted
  <2>2. S \in SUBSET Nat
    BY <1>1
  <2> HIDE DEF S
  <2>3. QED
    BY <2>1, <2>2, LeastElement
<1> DEFINE r == h[e].cfg
           Near(g) == Reachable(Inner(p), {g})
<1>3. e \in E /\ e # 1 /\ r # p.entry /\ Recursive(p, r)
  <2>1. e \in E /\ r # p.entry /\ Recursive(p, r)
    OBVIOUS
  <2>2. e # 1
    BY <1>1, <2>1
  <2>3. QED
    BY <2>1, <2>2
<1>4. IsFiniteSet(Inner(p)) /\ IsFiniteSet(Graph(p))
  BY <1>1, GraphFinite
<1>5. PICK y \in Inner(p) : y[1] \in Near(r) /\ y[2] = r
  BY <1>3, <1>4, LastEdge DEF Recursive
<1>6. ASSUME NEW g
      PROVE  g \in Near(g) /\ \A x \in Inner(p) : x[1] \in Near(g) => x[2] \in Near(g)
  BY <1>4, ReachableStart, ReachableClosed
<1>7. ASSUME NEW x \in Inner(p), r \in Near(x[2])
      PROVE  r \in Near(x[1])
  <2>1. x[2] \in Near(x[1])
    BY <1>6
  <2>2. Near(x[2]) \subseteq Near(x[1])
    BY <1>4, <2>1, ReachableTransitive
  <2>3. QED
    BY <1>7, <2>2
<1>8. Near(r) \subseteq Executed(p)
  <2> DEFINE L == Executed(p)
  <2>1. \A x \in Graph(p) : x[1] \in L => x[2] \in L
    BY <1>4, ReachableClosed DEF Executed
  <2>2. \A x \in Inner(p) : x[1] \in L => x[2] \in L
    BY <2>1, GraphEdges
  <2>3. {r} \subseteq L
    BY <1>1, <1>3, ElementsAreExecuted
  <2> HIDE DEF L
  <2>4. Near(r) \subseteq L
    BY <1>4, <2>2, <2>3, ReachableLeast
  <2>5. QED
    BY <2>4 DEF L
<1>9. PICK l \in e .. Len(h) : Under(h, e) = e .. l
  BY <1>1, <1>3 DEF DepthFirst
<1>10. e \in Under(h, e)
  BY <1>1, UnderClosed
<1> DEFINE AllBelow(g) == \A x \in E : h[x].cfg = g => x \in Under(h, e)
           T == {g \in Near(r) : r \in Near(g) => AllBelow(g)}
<1>11. r \in T
  BY <1>1, <1>3, <1>6, <1>10
<1>12. ASSUME NEW x \in Inner(p), x[1] \in T
       PROVE  x[2] \in T
  <2>1. x[2] \in Near(r)
    BY <1>6, <1>12
  <2>2. ASSUME r \in Near(x[2]), NEW b \in E, h[b].cfg = x[2]
        PROVE  b \in Under(h, e)
    <3>1. r \in Near(x[1]) /\ AllBelow(x[1]) /\ x[1] \in Near(r)
      BY <1>7, <1>12, <2>2
    <3>2. PICK a \in E : h[a].cfg = x[1]
      BY <1>8, <3>1, ElementsAreExecuted
    <3>3. a \in Under(h, e)
      BY <3>1, <3>2
    <3>4. x[2] \in Callees(p, h[a].cfg) /\ x[2] # p.entry
      BY <3>2, GraphEdges
    <3>5. b < a \/ b \in Under(h, a)
      BY <2>2, <3>4 DEF Complete, Finished
    <3>6. Under(h, a) \subseteq Under(h, e)
      BY <1>1, <3>3, UnderTransitive
    <3>7. Recursive(p, x[2])
      BY <1>1, <1>3, <2>1, <2>2, RecursionShared
    <3>8. e <= b
      BY <1>2, <2>2, <3>4, <3>7
    <3>9. e \in Nat /\ a \in Nat /\ b \in Nat /\ a \in e .. l
      BY <1>1, <1>3, <1>9, <3>3
    <3>10. b < a => b \in e .. l
      <4> HIDE DEF S, r
      <4>1. QED
        BY <1>9, <3>8, <3>9
    <3>11. QED
      BY <1>9, <3>5, <3>6, <3>10
  <2>3. QED
    BY <2>1, <2>2
<1>13. Near(r) \subseteq T
  <2>1. {r} \subseteq T
    BY <1>11
  <2> HIDE DEF T
  <2>2. QED
    BY <1>4, <1>12, <2>1, ReachableLeast
<1>14. PICK x \in E : h[x].cfg = y[1]
  <2>1. y[1] \in Executed(p)
    BY <1>5, <1>8
  <2>2. \A g \in Executed(p) : \E x \in E : h[x].cfg = g
    BY ElementsAreExecuted
  <2>3. QED
    BY <2>1, <2>2
<1>15. x \in Under(h, e)
  <2>1. r \in Near(y[1])
    BY <1>5, <1>6, <1>7
  <2>2. QED
    BY <1>5, <1>13, <1>14, <2>1
<1>16. HasCallee(h, x, r)
  <2>1. r \in Callees(p, h[x].cfg)
    BY <1>5, <1>14, GraphEdges
  <2>2. QED
    BY <2>1 DEF Complete, Finished
<1>17. PICK c \in h[x].callees : h[c].cfg = r
  BY <1>16 DEF HasCallee
<1>18. x \in DOMAIN h /\ c \in DOMAIN h /\ x < c
  BY <1>1, <1>17
<1>19. c \in Under(h, e)
  BY <1>1, <1>15, <1>17, <1>18, UnderClosed
<1>20. c # e
  <2>1. x \in e .. l /\ x \in Nat /\ e \in Nat
    BY <1>1, <1>3, <1>9, <1>15, <1>18
  <2> HIDE DEF S, r
  <2>2. QED
    BY <1>18, <2>1
<1>21. c \notin E
  BY <1>1, <1>3, <1>17, <1>20
<1>22. ComesBack(h, E, e)
  BY <1>17, <1>19, <1>21 DEF ComesBack
<1>23. QED
  BY <1>3, <1>22
-----------------------------------------------------------------------------
LEMMA CallingIsGraph ==
  ASSUME TRUE
  PROVE  /\ Calling = Graph(program)
         /\ Live = Executed(program)
         /\ \A e : Below(e) = Under(heap, e)
<1>1. Calling = Graph(program)
  BY DEF Calling, Graph, Functions, GetCallee
<1>2. Live = Executed(program)
  BY <1>1 DEF Live, Executed
<1>3. \A e : Below(e) = Under(heap, e)
  BY DEF Below, Under, Tree
<1>4. QED
  BY <1>1, <1>2, <1>3

LEMMA GraphComplete ==
  ASSUME IInv, phase # "calls"
  PROVE  Complete(program, heap, ToSet(elems))
<1>1. UnderConstruction(program, heap, ToSet(elems), building) /\ building = <<>>
  BY DEF IInv
<1>2. Elem(building) = {}
  BY <1>1 DEF Elem
<1>3. \A e \in ToSet(elems) : Finished(program, heap, ToSet(elems), e)
  BY <1>1, <1>2 DEF UnderConstruction, Completed
<1>4. QED
  BY <1>3 DEF Complete, IInv

(* A function is detected to call itself if and only if it does. *)
LEMMA RecursionDetected ==
  ASSUME IInv, phase \notin {"calls", "cycles"}
  PROVE  cyclic = \E f \in Live \ {program.entry} : Recursive(program, f)
<1> DEFINE p == program
           E == ToSet(elems)
           Back(e) == ComesBack(heap, E, e)
<1>1. Complete(p, heap, E) /\ cyclic \in BOOLEAN /\ Searches /\ Roots
  BY GraphComplete DEF IInv
<1>2. E \subseteq DOMAIN heap
  BY <1>1 DEF Complete, TreeOfCalls
<1>3. \A i \in 2 .. Len(elems) : elems[i] \in E /\ elems[i] # 1
  BY <1>1 DEF Roots, ToSet
<1>4. \A e \in E : e # 1 => \E i \in 2 .. Len(elems) : elems[i] = e
  <2>1. \A e \in E : \E i \in DOMAIN elems : elems[i] = e
    BY DEF ToSet
  <2>2. elems[1] = 1 /\ DOMAIN elems = 1 .. Len(elems) /\ Len(elems) \in Nat
    BY <1>1 DEF Roots
  <2>3. \A i \in DOMAIN elems : i = 1 \/ i \in 2 .. Len(elems)
    BY <2>2
  <2>4. QED
    BY <2>1, <2>2, <2>3
<1>5. cyclic <=> \E i \in 2 .. Len(elems) : Back(elems[i])
  BY <1>1 DEF Searches
<1>6. cyclic <=> \E e \in E : e # 1 /\ Back(e)
  BY <1>3, <1>4, <1>5
<1>7. ASSUME NEW e \in E, e # 1, Back(e)
      PROVE  \E f \in Live \ {p.entry} : Recursive(p, f)
  <2>1. heap[e].cfg # p.entry /\ Recursive(p, heap[e].cfg)
    BY <1>1, <1>7, BackIsRecursive
  <2>2. heap[e].cfg \in Live
    BY <1>1, <1>2, ElementsAreExecuted, CallingIsGraph
  <2>3. QED
    BY <2>1, <2>2
<1>8. ASSUME NEW f \in Live \ {p.entry}, Recursive(p, f)
      PROVE  \E e \in E : e # 1 /\ Back(e)
  <2>1. f \in Executed(p) /\ f # p.entry
    BY CallingIsGraph
  <2>2. QED
    BY <1>1, <1>8, <2>1, RecursiveComesBack
<1>9. cyclic <=> \E f \in Live \ {p.entry} : Recursive(p, f)
  BY <1>6, <1>7, <1>8
<1>10. QED
  BY <1>1, <1>9

(* The functions without an element are those that are never executed.     *)
LEMMA DeadCodeExact ==
  ASSUME IInv, phase # "calls", NEW f
  PROVE  isDeadCode(f) = (f \notin Live)
<1> DEFINE p == program
           E == ToSet(elems)
<1>1. Complete(p, heap, E) /\ TreeOfCalls(p, heap, E) /\ DepthFirst(heap, E)
  BY GraphComplete DEF IInv
<1>2. /\ E \subseteq DOMAIN heap /\ 1 \in E /\ heap[1].cfg = p.entry /\ p \in Programs
      /\ Under(heap, 1) = DOMAIN heap
  BY <1>1 DEF TreeOfCalls, DepthFirst
<1>3. \A e \in E : Under(heap, e) \subseteq DOMAIN heap
  BY <1>1, UnderInHeap
<1>4. \A d \in DOMAIN heap : heap[d].cfg \in Live
  BY <1>1, ElementsAreExecuted, CallingIsGraph
<1>5. ASSUME f \in Live, f # p.entry
      PROVE  \E e \in E : Calls(e, f)
  <2>1. PICK d \in E : heap[d].cfg = f
    BY <1>1, <1>5, ElementsAreExecuted, CallingIsGraph
  <2>2. d \in Under(heap, 1) \ {1}
    BY <1>2, <1>5, <2>1
  <2>3. Calls(1, f)
    BY <2>1, <2>2, CallingIsGraph DEF Calls
  <2>4. QED
    BY <1>2, <2>3
<1>6. ASSUME NEW e \in E, Calls(e, f)
      PROVE  f \in Live
  BY <1>3, <1>4, <1>6, CallingIsGraph DEF Calls
<1>7. p.entry \in Live
  BY <1>2, <1>4
<1>8. isDeadCode(f) <=> f \notin Live
  BY <1>5, <1>6, <1>7 DEF isDeadCode
<1>9. QED
  BY <1>8 DEF isDeadCode

(* Every recursion among the functions that are executed is detected, save *)
(* one that goes through the entry point, and nothing else is rejected;    *)
(* the functions that are taken for dead are those that are never called.  *)
(* CallGraph.cc                                                            *)
THEOREM CallGraphIsExact == Spec => []CallGraphExact
<1>1. ASSUME IInv
      PROVE  CallGraphExact
  <2>1. ASSUME phase \notin {"calls", "cycles"}
        PROVE  cyclic = \E f \in Live \ {program.entry} :
                          LET inner == Without(Calling, program.entry)
                          IN  f \in Reachable(inner, Successors(inner, f))
    BY <1>1, <2>1, RecursionDetected, CallingIsGraph DEF Recursive, Inner
  <2>2. ASSUME phase \notin {"calls", "cycles", "rejected"}
        PROVE  \A f \in Functions : isDeadCode(f) = (f \notin Live)
    BY <1>1, <2>2, DeadCodeExact
  <2>3. QED
    BY <2>1, <2>2 DEF CallGraphExact
<1>2. IInv => CallGraphExact
  BY <1>1
<1>3. QED
  BY <1>2, Invariance, PTL
-----------------------------------------------------------------------------
NodesOf(p, f) == ToSet(p.cfg[f].nodes)
AllNodes(p) == UNION {NodesOf(p, f) : f \in DOMAIN p.cfg}

(* What is assumed of the functions of a program.                          *)
LEMMA ProgramFacts ==
  ASSUME NEW p \in Programs
  PROVE  /\ p.entry \in DOMAIN p.cfg
         /\ \A f \in DOMAIN p.cfg :
              /\ p.cfg[f].nodes \in Seq(NodesOf(p, f))
              /\ \A i, j \in DOMAIN p.cfg[f].nodes :
                    p.cfg[f].nodes[i] = p.cfg[f].nodes[j] => i = j
              /\ p.cfg[f].edges \subseteq NodesOf(p, f) \X NodesOf(p, f)
              /\ p.cfg[f].start \in NodesOf(p, f) /\ p.cfg[f].ends \subseteq NodesOf(p, f)
              /\ DOMAIN p.cfg[f].callee \subseteq NodesOf(p, f)
              /\ \A n \in DOMAIN p.cfg[f].callee : p.cfg[f].callee[n] \in DOMAIN p.cfg
              /\ None \notin NodesOf(p, f)
              /\ \A g \in DOMAIN p.cfg : f # g => NodesOf(p, f) \cap NodesOf(p, g) = {}
<1>1. p.entry \in DOMAIN p.cfg
  BY ProgramsAssumption
<1>2. ASSUME NEW f \in DOMAIN p.cfg
      PROVE  /\ p.cfg[f].nodes \in Seq(NodesOf(p, f))
             /\ \A i, j \in DOMAIN p.cfg[f].nodes :
                   p.cfg[f].nodes[i] = p.cfg[f].nodes[j] => i = j
             /\ p.cfg[f].edges \subseteq NodesOf(p, f) \X NodesOf(p, f)
             /\ p.cfg[f].start \in NodesOf(p, f) /\ p.cfg[f].ends \subseteq NodesOf(p, f)
             /\ DOMAIN p.cfg[f].callee \subseteq NodesOf(p, f)
             /\ None \notin NodesOf(p, f)
             /\ \A g \in (DOMAIN p.cfg) \ {f} : NodesOf(p, f) \cap NodesOf(p, g) = {}
  BY FunctionsAssumption DEF NodesOf, IsInjective
<1>3. QED
  BY <1>1, <1>2, ProgramsAssumption
-----------------------------------------------------------------------------
(* The call nodes of a function, each once.                                *)
IsCallNodes(c, N, nodes, S) ==
  c = [i \in 0 .. N |-> IF i = 0 THEN <<>>
                        ELSE IF nodes[i] \in S THEN Append(c[i - 1], nodes[i])
                        ELSE c[i - 1]]

LEMMA CallNodesExist ==
  ASSUME NEW N \in Nat, NEW nodes, NEW S
  PROVE  \E c : IsCallNodes(c, N, nodes, S)
<1> DEFINE T == {n \in Nat : \E c : IsCallNodes(c, n, nodes, S)}
<1>1. 0 \in T
  <2>1. IsCallNodes([i \in 0 .. 0 |-> <<>>], 0, nodes, S)
    BY DEF IsCallNodes
  <2>2. QED
    BY <2>1
<1>2. ASSUME NEW n \in Nat, n \in T
      PROVE  n + 1 \in T
  <2>1. PICK c : IsCallNodes(c, n, nodes, S)
    BY <1>2
  <2> DEFINE last == IF nodes[n + 1] \in S THEN Append(c[n], nodes[n + 1]) ELSE c[n]
  <2> DEFINE d == [i \in 0 .. n + 1 |-> IF i = n + 1 THEN last ELSE c[i]]
  <2> HIDE DEF last
  <2>2. \A i \in 0 .. n : d[i] = c[i]
    OBVIOUS
  <2>3. ASSUME NEW i \in 0 .. n + 1
        PROVE  d[i] = IF i = 0 THEN <<>>
                      ELSE IF nodes[i] \in S THEN Append(d[i - 1], nodes[i])
                      ELSE d[i - 1]
    <3>1. CASE i = n + 1
      <4>1. d[i] = last /\ i # 0 /\ d[i - 1] = c[n]
        BY <3>1
      <4>2. QED
        BY <3>1, <4>1 DEF last
    <3>2. CASE i # n + 1
      <4>1. i \in 0 .. n /\ d[i] = c[i] /\ (i # 0 => d[i - 1] = c[i - 1])
        BY <3>2
      <4>2. c[i] = IF i = 0 THEN <<>>
                   ELSE IF nodes[i] \in S THEN Append(c[i - 1], nodes[i])
                   ELSE c[i - 1]
        BY <2>1, <4>1 DEF IsCallNodes
      <4>3. QED
        BY <4>1, <4>2
    <3>3. QED
      BY <3>1, <3>2
  <2>4. IsCallNodes(d, n + 1, nodes, S)
    BY <2>3, Zenon DEF IsCallNodes
  <2>5. QED
    BY <2>4
<1> HIDE DEF T
<1>3. Nat \subseteq T
  BY <1>1, <1>2, Induction
<1>4. QED
  BY <1>3 DEF T

LEMMA CallNodesList ==
  ASSUME NEW V, NEW nodes \in Seq(V), NEW S, NEW c, IsCallNodes(c, Len(nodes), nodes, S),
         \A i, j \in DOMAIN nodes : nodes[i] = nodes[j] => i = j
  PROVE  LET calls == c[Len(nodes)]
         IN  /\ calls \in Seq(V)
             /\ \A k \in DOMAIN calls : calls[k] \in S
             /\ \A k, l \in DOMAIN calls : calls[k] = calls[l] => k = l
             /\ \A m \in DOMAIN nodes : nodes[m] \in S => \E k \in DOMAIN calls : calls[k] = nodes[m]
<1> DEFINE N == Len(nodes)
           (* After i nodes. *)
           Good(i, l) == /\ l \in Seq(V)
                         /\ \A k \in DOMAIN l : l[k] \in S /\ \E m \in 1 .. i : l[k] = nodes[m]
                         /\ \A k, j \in DOMAIN l : l[k] = l[j] => k = j
                         /\ \A m \in 1 .. i : nodes[m] \in S => \E k \in DOMAIN l : l[k] = nodes[m]
           T == {i \in Nat : i <= N => Good(i, c[i])}
<1>1. N \in Nat /\ DOMAIN nodes = 1 .. N
  OBVIOUS
<1>2. /\ c[0] = <<>>
      /\ \A i \in 1 .. N : c[i] = IF nodes[i] \in S THEN Append(c[i - 1], nodes[i]) ELSE c[i - 1]
  <2>1. \A i \in 0 .. N : c[i] = IF i = 0 THEN <<>>
                                 ELSE IF nodes[i] \in S THEN Append(c[i - 1], nodes[i])
                                 ELSE c[i - 1]
    BY DEF IsCallNodes
  <2>2. 0 \in 0 .. N /\ \A i \in 1 .. N : i \in 0 .. N /\ i # 0
    BY <1>1
  <2>3. QED
    BY <2>1, <2>2
<1>3. Good(0, c[0])
  BY <1>2
<1>4. ASSUME NEW i \in Nat, i + 1 <= N, NEW l, Good(i, l),
             NEW d, d = IF nodes[i + 1] \in S THEN Append(l, nodes[i + 1]) ELSE l
      PROVE  Good(i + 1, d)
  <2>1. i + 1 \in DOMAIN nodes /\ nodes[i + 1] \in V
    BY <1>1, <1>4
  <2>2. CASE nodes[i + 1] \notin S
    <3>1. d = l
      BY <1>4, <2>2
    <3>2. \A m \in 1 .. i + 1 : m \in 1 .. i \/ m = i + 1
      OBVIOUS
    <3>3. QED
      BY <1>4, <2>2, <3>1, <3>2
  <2>3. CASE nodes[i + 1] \in S
    <3>1. d = Append(l, nodes[i + 1])
      BY <1>4, <2>3
    <3>2. l \in Seq(V) /\ Len(l) \in Nat /\ DOMAIN l = 1 .. Len(l)
      BY <1>4
    <3>3. /\ d \in Seq(V) /\ DOMAIN d = 1 .. Len(l) + 1
          /\ \A k \in DOMAIN l : d[k] = l[k]
          /\ d[Len(l) + 1] = nodes[i + 1]
      BY <2>1, <3>1, <3>2
    <3>4. \A k \in DOMAIN d : k \in DOMAIN l \/ k = Len(l) + 1
      BY <3>2, <3>3
    <3>5. Len(l) + 1 \in DOMAIN d /\ DOMAIN l \subseteq DOMAIN d
      BY <3>2, <3>3
    <3>6. \A k \in DOMAIN l : l[k] # nodes[i + 1]
      <4>1. ASSUME NEW k \in DOMAIN l, l[k] = nodes[i + 1]
            PROVE  FALSE
        <5>1. PICK m \in 1 .. i : l[k] = nodes[m]
          BY <1>4
        <5>2. m \in DOMAIN nodes /\ m # i + 1
          BY <1>1, <1>4
        <5>3. QED
          BY <2>1, <4>1, <5>1, <5>2
      <4>2. QED
        BY <4>1
    <3>7. ASSUME NEW k \in DOMAIN d
          PROVE  d[k] \in S /\ \E m \in 1 .. i + 1 : d[k] = nodes[m]
      <4>1. CASE k \in DOMAIN l
        <5>1. PICK m \in 1 .. i : l[k] = nodes[m] /\ l[k] \in S
          BY <1>4, <4>1
        <5>2. m \in 1 .. i + 1
          OBVIOUS
        <5>3. QED
          BY <3>3, <4>1, <5>1, <5>2
      <4>2. CASE k = Len(l) + 1
        BY <2>3, <3>3, <4>2
      <4>3. QED
        BY <3>4, <4>1, <4>2
    <3>8. \A k, j \in DOMAIN d : d[k] = d[j] => k = j
      <4>1. \A k, j \in DOMAIN l : l[k] = l[j] => k = j
        BY <1>4
      <4>2. QED
        BY <3>3, <3>4, <3>6, <4>1
    <3>9. ASSUME NEW m \in 1 .. i + 1, nodes[m] \in S
          PROVE  \E k \in DOMAIN d : d[k] = nodes[m]
      <4>1. CASE m = i + 1
        BY <3>3, <3>5, <4>1
      <4>2. CASE m # i + 1
        <5>1. m \in 1 .. i
          BY <4>2
        <5>2. PICK k \in DOMAIN l : l[k] = nodes[m]
          BY <1>4, <3>9, <5>1
        <5>3. QED
          BY <3>3, <3>5, <5>2
      <4>3. QED
        BY <4>1, <4>2
    <3>10. QED
      BY <3>3, <3>7, <3>8, <3>9
  <2>4. QED
    BY <2>2, <2>3
<1> HIDE DEF Good
<1>5. 0 \in T
  BY <1>3
<1>6. ASSUME NEW i \in Nat, i \in T
      PROVE  i + 1 \in T
  <2>1. SUFFICES ASSUME i + 1 <= N
                 PROVE  Good(i + 1, c[i + 1])
    OBVIOUS
  <2>2. Good(i, c[i]) /\ i + 1 \in 1 .. N /\ i + 1 - 1 = i
    BY <1>1, <1>6, <2>1
  <2>3. c[i + 1] = IF nodes[i + 1] \in S THEN Append(c[i], nodes[i + 1]) ELSE c[i]
    BY <1>2, <2>2
  <2>4. QED
    BY <1>4, <2>1, <2>2, <2>3
<1>7. Good(N, c[N])
  <2>1. Nat \subseteq T
    <3> HIDE DEF T
    <3>1. QED
      BY <1>5, <1>6, Induction
  <2>2. QED
    BY <1>1, <2>1
<1>8. QED
  BY <1>1, <1>7 DEF Good

LEMMA CallNodesFacts ==
  ASSUME program \in Programs, NEW f \in Functions
  PROVE  LET calls == GetCallNodes(f)
         IN  /\ calls \in Seq(NodesOf(program, f))
             /\ \A k \in DOMAIN calls : IsCall(f, calls[k])
             /\ \A k, l \in DOMAIN calls : calls[k] = calls[l] => k = l
             /\ \A n : IsCall(f, n) => \E k \in DOMAIN calls : calls[k] = n
<1> DEFINE nodes == program.cfg[f].nodes
           S == DOMAIN program.cfg[f].callee
           V == NodesOf(program, f)
           c == CHOOSE c : IsCallNodes(c, Len(nodes), nodes, S)
<1>1. /\ nodes \in Seq(V) /\ Len(nodes) \in Nat
      /\ \A i, j \in DOMAIN nodes : nodes[i] = nodes[j] => i = j
      /\ S \subseteq V
  BY ProgramFacts DEF Functions
<1>2. V = {nodes[i] : i \in DOMAIN nodes}
  BY DEF NodesOf, ToSet
<1>3. IsCallNodes(c, Len(nodes), nodes, S)
  BY <1>1, CallNodesExist
<1>4. GetCallNodes(f) = c[Len(nodes)]
  BY DEF GetCallNodes, IsCallNodes, IsCall
<1>5. \A n : IsCall(f, n) <=> n \in S
  BY DEF IsCall
<1>6. \A n \in S : \E m \in DOMAIN nodes : nodes[m] = n
  BY <1>1, <1>2
<1> HIDE DEF c, nodes, S, V
<1>7. /\ c[Len(nodes)] \in Seq(V)
      /\ \A k \in DOMAIN c[Len(nodes)] : c[Len(nodes)][k] \in S
      /\ \A k, l \in DOMAIN c[Len(nodes)] : c[Len(nodes)][k] = c[Len(nodes)][l] => k = l
      /\ \A m \in DOMAIN nodes : nodes[m] \in S => \E k \in DOMAIN c[Len(nodes)] : c[Len(nodes)][k] = nodes[m]
  BY <1>1, <1>3, CallNodesList
<1>8. QED
  BY <1>4, <1>5, <1>6, <1>7 DEF V
-----------------------------------------------------------------------------
(* The contexts cs, of which the first k had their call nodes scanned: a   *)
(* tree, callers before callees, one callee for each call node scanned.    *)
CalleesOf(p, f) == p.cfg[f].callee

ContextRecord(p) ==
  [caller : Nat, node : AllNodes(p) \cup {None}, function : DOMAIN p.cfg]

CalledFrom(p, cs, k, d) ==
  LET c == cs[d].caller
      callees == CalleesOf(p, cs[c].function)
  IN  /\ c \in 1 .. k /\ c < d
      /\ cs[d].node \in DOMAIN callees
      /\ cs[d].function = callees[cs[d].node]

Scanned_(p, cs, c) ==
  \A n \in DOMAIN CalleesOf(p, cs[c].function) :
     \E d \in 2 .. Len(cs) : cs[d].caller = c /\ cs[d].node = n

ContextTree(p, cs, k) ==
  /\ p \in Programs
  /\ cs \in Seq(ContextRecord(p)) /\ cs # <<>> /\ k \in 0 .. Len(cs)
  /\ cs[1] = Context(None, None, p.entry)
  /\ \A d \in 2 .. Len(cs) : CalledFrom(p, cs, k, d)
  /\ \A d, e \in 2 .. Len(cs) : cs[d].caller = cs[e].caller /\ cs[d].node = cs[e].node => d = e
  /\ \A c \in 1 .. k : Scanned_(p, cs, c)

LEMMA ContextTypes ==
  ASSUME NEW p, NEW cs, NEW k, ContextTree(p, cs, k)
  PROVE  /\ p \in Programs /\ Len(cs) \in Nat \ {0} /\ DOMAIN cs = 1 .. Len(cs) /\ k \in Nat
         /\ \A c \in 1 .. Len(cs) : /\ cs[c].function \in DOMAIN p.cfg /\ cs[c].caller \in Nat
                                    /\ cs[c].node \in AllNodes(p) \cup {None}
<1>1. /\ p \in Programs /\ cs \in Seq(ContextRecord(p)) /\ cs # <<>> /\ k \in 0 .. Len(cs)
  BY DEF ContextTree
<1>2. \A c \in 1 .. Len(cs) : cs[c] \in ContextRecord(p)
  BY <1>1
<1>3. Len(cs) \in Nat \ {0} /\ DOMAIN cs = 1 .. Len(cs) /\ k \in Nat
  BY <1>1
<1>4. QED
  BY <1>1, <1>2, <1>3 DEF ContextRecord

LEMMA GrownContexts ==
  ASSUME NEW p, NEW cs, NEW k, ContextTree(p, cs, k), k < Len(cs),
         NEW calls \in Seq(NodesOf(p, cs[k + 1].function)),
         \A i \in DOMAIN calls : calls[i] \in DOMAIN CalleesOf(p, cs[k + 1].function),
         \A i, j \in DOMAIN calls : calls[i] = calls[j] => i = j,
         \A n \in DOMAIN CalleesOf(p, cs[k + 1].function) : \E i \in DOMAIN calls : calls[i] = n,
         NEW more, more = [i \in DOMAIN calls |->
                             Context(k + 1, calls[i], CalleesOf(p, cs[k + 1].function)[calls[i]])]
  PROVE  ContextTree(p, cs \o more, k + 1)
<1> DEFINE f == cs[k + 1].function
           callees == CalleesOf(p, f)
           ds == cs \o more
           N == Len(cs)
           M == Len(calls)
<1>1. /\ p \in Programs /\ cs \in Seq(ContextRecord(p)) /\ N \in Nat /\ DOMAIN cs = 1 .. N
      /\ k \in Nat /\ k + 1 \in 1 .. N /\ M \in Nat /\ DOMAIN calls = 1 .. M
  BY DEF ContextTree
<1>2. f \in DOMAIN p.cfg
  BY <1>1, ContextTypes
<1>3. \A i \in 1 .. M : /\ calls[i] \in AllNodes(p) /\ callees[calls[i]] \in DOMAIN p.cfg
                        /\ calls[i] \in DOMAIN callees
  <2>1. DOMAIN callees \subseteq NodesOf(p, f) /\ NodesOf(p, f) \subseteq AllNodes(p)
    BY <1>1, <1>2, ProgramFacts DEF AllNodes, CalleesOf
  <2>2. \A n \in DOMAIN callees : callees[n] \in DOMAIN p.cfg
    BY <1>1, <1>2, ProgramFacts DEF CalleesOf
  <2>3. \A i \in 1 .. M : calls[i] \in DOMAIN callees
    BY <1>1
  <2> HIDE DEF callees
  <2>4. QED
    BY <2>1, <2>2, <2>3
<1> HIDE DEF callees, f
<1>4. more \in Seq(ContextRecord(p)) /\ Len(more) = M
  <2>1. \A i \in 1 .. M : Context(k + 1, calls[i], callees[calls[i]]) \in ContextRecord(p)
    BY <1>1, <1>3 DEF ContextRecord, Context
  <2>2. more = [i \in 1 .. M |-> Context(k + 1, calls[i], callees[calls[i]])]
    BY <1>1 DEF callees, f
  <2> HIDE DEF M
  <2>3. QED
    BY <1>1, <2>1, <2>2
<1>5. /\ ds \in Seq(ContextRecord(p)) /\ Len(ds) = N + M
      /\ \A d \in 1 .. N : ds[d] = cs[d]
      /\ \A i \in 1 .. M : ds[N + i] = more[i]
  BY <1>1, <1>4
<1>6. \A i \in 1 .. M : /\ ds[N + i].caller = k + 1 /\ ds[N + i].node = calls[i]
                        /\ ds[N + i].function = callees[calls[i]]
  <2>1. \A i \in 1 .. M : more[i] = Context(k + 1, calls[i], callees[calls[i]])
    BY <1>1 DEF callees, f
  <2>2. \A i \in 1 .. M : ds[N + i] = Context(k + 1, calls[i], callees[calls[i]])
    BY <1>5, <2>1
  <2>3. \A caller, call, g : LET c == Context(caller, call, g)
                             IN  c.caller = caller /\ c.node = call /\ c.function = g
    BY DEF Context
  <2> HIDE DEF ds, N, M
  <2>4. QED
    BY <2>2, <2>3
<1> HIDE DEF ds
<1>7. \A d \in 1 .. N + M : d \in 1 .. N \/ \E i \in 1 .. M : d = N + i
  <2>1. ASSUME NEW d \in 1 .. N + M, d \notin 1 .. N
        PROVE  d - N \in 1 .. M /\ d = N + (d - N)
    BY <1>1, <2>1
  <2>2. QED
    BY <2>1
<1>8. \A d \in 2 .. N : CalledFrom(p, cs, k, d)
  BY DEF ContextTree
<1>9. \A d \in 2 .. N : ds[d] = cs[d] /\ cs[d].caller \in 1 .. k /\ ds[cs[d].caller] = cs[cs[d].caller]
  <2>1. 2 .. N \subseteq 1 .. N /\ 1 .. k \subseteq 1 .. N
    BY <1>1
  <2>2. QED
    BY <1>5, <1>8, <2>1 DEF CalledFrom
<1>10. ASSUME NEW d \in 2 .. N + M
       PROVE  CalledFrom(p, ds, k + 1, d)
  <2>1. CASE d \in 1 .. N
    <3>1. d \in 2 .. N
      BY <1>1, <2>1
    <3>2. CalledFrom(p, cs, k, d) /\ 1 .. k \subseteq 1 .. k + 1
      BY <1>1, <1>8, <3>1
    <3>3. QED
      BY <1>9, <3>1, <3>2 DEF CalledFrom
  <2>2. CASE \E i \in 1 .. M : d = N + i
    <3>1. PICK i \in 1 .. M : d = N + i
      BY <2>2
    <3>2. ds[d].caller = k + 1 /\ ds[d].node = calls[i] /\ ds[d].function = callees[calls[i]]
      BY <1>6, <3>1
    <3>3. ds[k + 1].function = f
      BY <1>1, <1>5 DEF f
    <3>4. k + 1 \in 1 .. k + 1 /\ k + 1 < d
      BY <1>1, <3>1
    <3>5. QED
      BY <1>3, <3>2, <3>3, <3>4 DEF CalledFrom, callees
  <2>3. QED
    BY <1>1, <1>7, <2>1, <2>2
<1>11. ASSUME NEW d \in 2 .. N + M, NEW e \in 2 .. N + M,
              ds[d].caller = ds[e].caller, ds[d].node = ds[e].node
       PROVE  d = e
  <2>1. \A x \in 2 .. N + M : \/ x \in 2 .. N /\ ds[x].caller # k + 1
                              \/ \E i \in 1 .. M : x = N + i
    <3>1. ASSUME NEW x \in 2 .. N
          PROVE  ds[x].caller # k + 1
      BY <1>1, <1>9
    <3>2. \A x \in 2 .. N + M : x \in 1 .. N + M /\ (x \in 1 .. N => x \in 2 .. N)
      BY <1>1
    <3>3. QED
      BY <1>7, <3>1, <3>2
  <2>2. CASE d \in 2 .. N /\ ds[d].caller # k + 1
    <3>1. e \in 2 .. N
      BY <1>6, <1>11, <2>1, <2>2
    <3>2. cs[d].caller = cs[e].caller /\ cs[d].node = cs[e].node
      BY <1>9, <1>11, <2>2, <3>1
    <3>3. QED
      BY <2>2, <3>1, <3>2 DEF ContextTree
  <2>3. CASE \E i \in 1 .. M : d = N + i
    <3>1. PICK i \in 1 .. M : d = N + i
      BY <2>3
    <3>2. ds[e].caller = k + 1
      BY <1>6, <1>11, <3>1
    <3>3. PICK j \in 1 .. M : e = N + j
      BY <2>1, <3>2
    <3>4. calls[i] = calls[j]
      BY <1>6, <1>11, <3>1, <3>3
    <3>5. i = j
      BY <1>1, <3>4
    <3>6. QED
      BY <3>1, <3>3, <3>5
  <2>4. QED
    BY <2>1, <2>2, <2>3
<1>12. ASSUME NEW c \in 1 .. k + 1
       PROVE  Scanned_(p, ds, c)
  <2>0. c \in 1 .. N /\ ds[c] = cs[c] /\ 2 .. N \subseteq 2 .. N + M
    BY <1>1, <1>5
  <2>1. CASE c \in 1 .. k
    <3>1. Scanned_(p, cs, c)
      BY <2>1 DEF ContextTree
    <3>2. ASSUME NEW n \in DOMAIN CalleesOf(p, ds[c].function)
          PROVE  \E d \in 2 .. N + M : ds[d].caller = c /\ ds[d].node = n
      <4>1. PICK d \in 2 .. N : cs[d].caller = c /\ cs[d].node = n
        BY <2>0, <3>1, <3>2 DEF Scanned_
      <4>2. QED
        BY <1>9, <2>0, <4>1
    <3>3. QED
      BY <1>5, <3>2 DEF Scanned_
  <2>2. CASE c = k + 1
    <3>1. ASSUME NEW n \in DOMAIN callees
          PROVE  \E d \in 2 .. N + M : ds[d].caller = c /\ ds[d].node = n
      <4>1. PICK i \in 1 .. M : calls[i] = n
        BY <1>1, <3>1 DEF callees, f
      <4>2. N + i \in 2 .. N + M
        BY <1>1
      <4>3. QED
        BY <1>6, <2>2, <4>1, <4>2
    <3>2. QED
      BY <1>5, <2>0, <2>2, <3>1 DEF Scanned_, callees, f
  <2>3. QED
    BY <1>1, <2>1, <2>2
<1>13. ds # <<>> /\ ds[1] = Context(None, None, p.entry) /\ k + 1 \in 0 .. N + M
  BY <1>1, <1>5 DEF ContextTree
<1>14. QED
  <2>1. ContextTree(p, ds, k + 1)
    BY <1>1, <1>5, <1>10, <1>11, <1>12, <1>13 DEF ContextTree
  <2>2. QED
    BY <2>1 DEF ds

LEMMA ExploreStep ==
  ASSUME ContextTree(program, contexts, explored), Explore
  PROVE  ContextTree(program, contexts', explored')
<1> DEFINE c == explored + 1
           f == contexts[c].function
           calls == GetCallNodes(f)
           more == [i \in DOMAIN calls |-> Context(c, calls[i], GetCallee(f, calls[i]))]
<1>1. /\ explored < Len(contexts) /\ program \in Programs
      /\ contexts' = contexts \o more /\ explored' = explored + 1
  BY DEF Explore, ContextTree
<1>2. f \in Functions
  <2>1. c \in 1 .. Len(contexts)
    BY <1>1, ContextTypes
  <2>2. QED
    BY <2>1, ContextTypes DEF Functions
<1>3. /\ calls \in Seq(NodesOf(program, f))
      /\ \A k \in DOMAIN calls : IsCall(f, calls[k])
      /\ \A k, l \in DOMAIN calls : calls[k] = calls[l] => k = l
      /\ \A n : IsCall(f, n) => \E k \in DOMAIN calls : calls[k] = n
  BY <1>1, <1>2, CallNodesFacts
<1> HIDE DEF calls
<1>4. more = [i \in DOMAIN calls |-> Context(c, calls[i], CalleesOf(program, f)[calls[i]])]
  BY DEF GetCallee, CalleesOf
<1>5. \A n : IsCall(f, n) <=> n \in DOMAIN CalleesOf(program, f)
  BY DEF IsCall, CalleesOf
<1>6. ContextTree(program, contexts \o more, c)
  <2> DEFINE g == contexts[explored + 1].function
  <2>1. /\ calls \in Seq(NodesOf(program, g))
        /\ \A i \in DOMAIN calls : calls[i] \in DOMAIN CalleesOf(program, g)
        /\ \A i, j \in DOMAIN calls : calls[i] = calls[j] => i = j
        /\ \A n \in DOMAIN CalleesOf(program, g) : \E i \in DOMAIN calls : calls[i] = n
        /\ more = [i \in DOMAIN calls |-> Context(explored + 1, calls[i], CalleesOf(program, g)[calls[i]])]
    BY <1>3, <1>4, <1>5
  <2> HIDE DEF more
  <2>2. QED
    BY <1>1, <2>1, GrownContexts
<1>7. QED
  BY <1>1, <1>6
-----------------------------------------------------------------------------
(* The stacks of calls of the contexts.                                    *)
LEMMA Pushed ==
  ASSUME NEW X, NEW a \in X, NEW s \in Seq(X)
  PROVE  /\ <<a>> \o s \in Seq(X) /\ <<a>> \o s # <<>>
         /\ Head(<<a>> \o s) = a /\ Tail(<<a>> \o s) = s
<1>1. <<a>> \o s \in Seq(X) /\ Len(<<a>> \o s) = Len(s) + 1 /\ Len(s) \in Nat
  OBVIOUS
<1>2. Head(<<a>> \o s) = a /\ \A i \in 1 .. Len(s) : (<<a>> \o s)[i + 1] = s[i]
  OBVIOUS
<1>3. Tail(<<a>> \o s) \in Seq(X) /\ Len(Tail(<<a>> \o s)) = Len(s)
  BY <1>1
<1>4. \A i \in 1 .. Len(s) : Tail(<<a>> \o s)[i] = s[i]
  BY <1>1, <1>2
<1>5. Tail(<<a>> \o s) = s
  BY <1>3, <1>4
<1>6. QED
  BY <1>1, <1>2, <1>5

IsStacks(w, N, cs) ==
  w = [d \in 1 .. N |-> IF cs[d].caller = None THEN <<>>
                        ELSE <<cs[d].node>> \o w[cs[d].caller]]

StackOf(cs, c) == (CHOOSE w : IsStacks(w, Len(cs), cs))[c]

LEMMA StacksExist ==
  ASSUME NEW p, NEW cs, NEW k, ContextTree(p, cs, k)
  PROVE  \E w : IsStacks(w, Len(cs), cs)
<1> DEFINE T == {n \in Nat : n <= Len(cs) => \E w : IsStacks(w, n, cs)}
<1>1. 0 \in T
  <2>1. IsStacks([d \in 1 .. 0 |-> <<>>], 0, cs)
    BY DEF IsStacks
  <2>2. QED
    BY <2>1
<1>2. ASSUME NEW n \in Nat, n \in T
      PROVE  n + 1 \in T
  <2>1. SUFFICES ASSUME n + 1 <= Len(cs)
                 PROVE  \E w : IsStacks(w, n + 1, cs)
    OBVIOUS
  <2>2. Len(cs) \in Nat
    BY ContextTypes
  <2>3. PICK w : IsStacks(w, n, cs)
    BY <1>2, <2>1, <2>2
  <2> DEFINE last == IF cs[n + 1].caller = None THEN <<>> ELSE <<cs[n + 1].node>> \o w[cs[n + 1].caller]
             u == [d \in 1 .. n + 1 |-> IF d = n + 1 THEN last ELSE w[d]]
  <2> HIDE DEF last
  <2>4. \A d \in 1 .. n : u[d] = w[d]
    OBVIOUS
  <2>5. \A d \in 1 .. n + 1 : cs[d].caller # None => cs[d].caller \in 1 .. n /\ cs[d].caller < d
    <3>1. SUFFICES ASSUME NEW d \in 1 .. n + 1, d # 1
                   PROVE  cs[d].caller \in 1 .. n /\ cs[d].caller < d
      <4>1. cs[1].caller = None
        BY DEF ContextTree, Context
      <4>2. QED
        BY <4>1
    <3>2. d \in 2 .. Len(cs) /\ k \in Nat
      BY <2>1, <2>2, <3>1, ContextTypes
    <3>3. cs[d].caller \in 1 .. k /\ cs[d].caller < d
      BY <3>2 DEF ContextTree, CalledFrom
    <3>4. QED
      BY <3>2, <3>3
  <2>6. ASSUME NEW d \in 1 .. n + 1
        PROVE  u[d] = IF cs[d].caller = None THEN <<>> ELSE <<cs[d].node>> \o u[cs[d].caller]
    <3>1. CASE d = n + 1
      <4>1. u[d] = last /\ (cs[d].caller # None => u[cs[d].caller] = w[cs[d].caller])
        BY <2>4, <2>5, <3>1
      <4>2. QED
        BY <3>1, <4>1 DEF last
    <3>2. CASE d # n + 1
      <4>1. d \in 1 .. n /\ u[d] = w[d]
        BY <3>2
      <4>2. w[d] = IF cs[d].caller = None THEN <<>> ELSE <<cs[d].node>> \o w[cs[d].caller]
        BY <2>3, <4>1 DEF IsStacks
      <4>3. cs[d].caller # None => u[cs[d].caller] = w[cs[d].caller]
        BY <2>4, <2>5
      <4>4. QED
        BY <4>1, <4>2, <4>3
    <3>3. QED
      BY <3>1, <3>2
  <2>7. IsStacks(u, n + 1, cs)
    <3> HIDE DEF u
    <3>1. u = [d \in 1 .. n + 1 |-> u[d]]
      BY DEF u
    <3>2. QED
      BY <2>6, <3>1 DEF IsStacks
  <2>8. QED
    BY <2>7
<1>3. Nat \subseteq T
  <2> HIDE DEF T
  <2>1. QED
    BY <1>1, <1>2, Induction
<1>4. QED
  BY <1>3, ContextTypes

Tree_ == ContextTree(program, contexts, explored)

LEMMA CallerFacts ==
  ASSUME Tree_, NEW d \in 2 .. Len(contexts)
  PROVE  LET c == contexts[d].caller
             f == getCurrentFunction(c)
         IN  /\ c \in 1 .. Len(contexts) /\ c < d /\ c # None
             /\ IsCall(f, contexts[d].node)
             /\ getCurrentFunction(d) = GetCallee(f, contexts[d].node)
             /\ contexts[d].node \in NodesOf(program, f) /\ contexts[d].node \in AllNodes(program)
<1>1. CalledFrom(program, contexts, explored, d)
  BY DEF Tree_, ContextTree
<1>2. explored \in 0 .. Len(contexts) /\ Len(contexts) \in Nat
  BY ContextTypes DEF Tree_, ContextTree
<1>3. contexts[d].caller \in 1 .. Len(contexts) /\ contexts[d].caller < d /\ contexts[d].caller # None
  BY <1>1, <1>2 DEF CalledFrom, None
<1>4. getCurrentFunction(contexts[d].caller) \in Functions /\ program \in Programs
  BY <1>3, ContextTypes DEF Tree_, getCurrentFunction, Functions
<1>5. NodesOf(program, getCurrentFunction(contexts[d].caller)) \subseteq AllNodes(program)
  BY <1>4 DEF AllNodes, Functions
<1>6. contexts[d].node \in NodesOf(program, getCurrentFunction(contexts[d].caller))
  <2> DEFINE f == getCurrentFunction(contexts[d].caller)
  <2>1. contexts[d].node \in DOMAIN program.cfg[f].callee
    BY <1>1 DEF CalledFrom, CalleesOf, getCurrentFunction
  <2> HIDE DEF f
  <2>2. DOMAIN program.cfg[f].callee \subseteq NodesOf(program, f)
    <3>1. f \in DOMAIN program.cfg /\ program \in Programs
      BY <1>4 DEF Functions, f
    <3>2. QED
      BY <3>1, ProgramFacts
  <2>3. QED
    BY <2>1, <2>2 DEF f
<1>7. QED
  BY <1>1, <1>3, <1>5, <1>6 DEF CalledFrom, CalleesOf, IsCall, GetCallee, getCurrentFunction

LEMMA RootFacts ==
  ASSUME Tree_
  PROVE  /\ program \in Programs /\ Len(contexts) \in Nat /\ DOMAIN contexts = 1 .. Len(contexts)
         /\ 1 \in DOMAIN contexts /\ explored \in 0 .. Len(contexts)
         /\ contexts[1].caller = None /\ getCurrentFunction(1) = program.entry
         /\ \A c \in DOMAIN contexts : /\ getCurrentFunction(c) \in Functions
                                       /\ c = 1 \/ c \in 2 .. Len(contexts)
                                       /\ c = 1 <=> contexts[c].caller = None
<1>1. /\ program \in Programs /\ Len(contexts) \in Nat \ {0} /\ DOMAIN contexts = 1 .. Len(contexts)
      /\ \A c \in DOMAIN contexts : getCurrentFunction(c) \in Functions
  BY ContextTypes DEF Tree_, getCurrentFunction, Functions
<1>2. /\ contexts[1].caller = None /\ getCurrentFunction(1) = program.entry
      /\ explored \in 0 .. Len(contexts)
  BY DEF Tree_, ContextTree, Context, getCurrentFunction
<1>3. \A d \in 2 .. Len(contexts) : contexts[d].caller # None
  BY CallerFacts
<1>4. QED
  BY <1>1, <1>2, <1>3

LEMMA StackFacts ==
  ASSUME Tree_
  PROVE  /\ GetCallerNodeStack(1) = <<>>
         /\ \A d \in 2 .. Len(contexts) :
              GetCallerNodeStack(d) = <<contexts[d].node>> \o GetCallerNodeStack(contexts[d].caller)
         /\ \A d \in DOMAIN contexts : /\ GetCallerNodeStack(d) \in Seq(AllNodes(program))
                                       /\ GetCallerNodeStack(d) = StackOf(contexts, d)
<1> DEFINE N == Len(contexts)
           w == CHOOSE w : IsStacks(w, N, contexts)
<1>1. DOMAIN contexts = 1 .. N /\ N \in Nat
  BY RootFacts
<1>2. IsStacks(w, N, contexts)
  BY StacksExist DEF Tree_
<1>3. \A d : GetCallerNodeStack(d) = w[d] /\ StackOf(contexts, d) = w[d]
  BY <1>1 DEF GetCallerNodeStack, StackOf, IsStacks
<1> HIDE DEF w
<1>4. \A d \in 1 .. N : w[d] = IF contexts[d].caller = None THEN <<>>
                               ELSE <<contexts[d].node>> \o w[contexts[d].caller]
  BY <1>2 DEF IsStacks
<1>5. w[1] = <<>>
  BY <1>1, <1>4, RootFacts
<1>6. \A d \in 2 .. N : w[d] = <<contexts[d].node>> \o w[contexts[d].caller]
  <2>1. \A d \in 2 .. N : d \in 1 .. N /\ contexts[d].caller # None
    BY <1>1, CallerFacts
  <2>2. QED
    BY <1>4, <2>1
<1> DEFINE T == {n \in Nat : \A d \in 1 .. N : d <= n => w[d] \in Seq(AllNodes(program))}
<1>7. 0 \in T
  OBVIOUS
<1>8. ASSUME NEW n \in Nat, n \in T
      PROVE  n + 1 \in T
  <2>1. SUFFICES ASSUME NEW d \in 1 .. N, d <= n + 1
                 PROVE  w[d] \in Seq(AllNodes(program))
    OBVIOUS
  <2>2. CASE d = 1
    <3>1. <<>> \in Seq(AllNodes(program))
      OBVIOUS
    <3>2. QED
      BY <1>5, <2>2, <3>1
  <2>3. CASE d # 1
    <3>1. d \in 2 .. N
      BY <1>1, <2>3
    <3>2. /\ contexts[d].caller \in 1 .. N /\ contexts[d].caller < d
          /\ contexts[d].node \in AllNodes(program)
      BY <3>1, CallerFacts
    <3>3. w[contexts[d].caller] \in Seq(AllNodes(program))
      BY <1>8, <2>1, <3>2
    <3>4. QED
      BY <1>6, <3>1, <3>2, <3>3, Pushed
  <2>4. QED
    BY <2>2, <2>3
<1>9. Nat \subseteq T
  <2> HIDE DEF T
  <2>1. QED
    BY <1>7, <1>8, Induction
<1>10. \A d \in 1 .. N : w[d] \in Seq(AllNodes(program))
  BY <1>1, <1>9
<1>11. QED
  BY <1>1, <1>3, <1>5, <1>6, <1>10

(* A stack of calls leads to one context.                                  *)
LEMMA StacksDiffer ==
  ASSUME Tree_, NEW c \in DOMAIN contexts, NEW d \in DOMAIN contexts,
         GetCallerNodeStack(c) = GetCallerNodeStack(d)
  PROVE  c = d
<1> DEFINE S(x) == GetCallerNodeStack(x)
           N == Len(contexts)
           T == {n \in Nat : \A x, y \in 1 .. N : x <= n /\ S(x) = S(y) => x = y}
<1>1. N \in Nat /\ DOMAIN contexts = 1 .. N
  BY RootFacts
<1>2. S(1) = <<>> /\ \A x \in 1 .. N : S(x) \in Seq(AllNodes(program))
  BY <1>1, StackFacts
<1>3. \A x \in 2 .. N : /\ S(x) # <<>> /\ Head(S(x)) = contexts[x].node
                        /\ Tail(S(x)) = S(contexts[x].caller)
                        /\ contexts[x].caller \in 1 .. N /\ contexts[x].caller < x
  <2>1. SUFFICES ASSUME NEW x \in 2 .. N
                 PROVE  /\ S(x) # <<>> /\ Head(S(x)) = contexts[x].node
                        /\ Tail(S(x)) = S(contexts[x].caller)
                        /\ contexts[x].caller \in 1 .. N /\ contexts[x].caller < x
    OBVIOUS
  <2>2. /\ contexts[x].caller \in 1 .. N /\ contexts[x].caller < x
        /\ contexts[x].node \in AllNodes(program)
    BY CallerFacts
  <2>3. S(x) = <<contexts[x].node>> \o S(contexts[x].caller)
    BY StackFacts
  <2> HIDE DEF S
  <2>4. QED
    BY <1>2, <2>2, <2>3, Pushed
<1> HIDE DEF S
<1>4. 0 \in T
  OBVIOUS
<1>5. ASSUME NEW n \in Nat, n \in T
      PROVE  n + 1 \in T
  <2>1. SUFFICES ASSUME NEW x \in 1 .. N, NEW y \in 1 .. N, x <= n + 1, S(x) = S(y)
                 PROVE  x = y
    OBVIOUS
  <2>2. CASE x = 1 \/ y = 1
    <3>1. \A z \in 1 .. N : S(z) = <<>> => z = 1
      BY <1>1, <1>3
    <3>2. QED
      BY <1>2, <2>1, <2>2, <3>1
  <2>3. CASE x # 1 /\ y # 1
    <3>1. x \in 2 .. N /\ y \in 2 .. N
      BY <1>1, <2>3
    <3>2. contexts[x].node = contexts[y].node /\ S(contexts[x].caller) = S(contexts[y].caller)
      BY <1>3, <2>1, <3>1
    <3>3. contexts[x].caller = contexts[y].caller
      BY <1>3, <1>5, <2>1, <3>1, <3>2
    <3>4. QED
      BY <3>1, <3>2, <3>3 DEF Tree_, ContextTree
  <2>4. QED
    BY <2>2, <2>3
<1>6. Nat \subseteq T
  <2> HIDE DEF T
  <2>1. QED
    BY <1>4, <1>5, Induction
<1>7. QED
  <2>1. S(c) = S(d) /\ c \in T
    BY <1>1, <1>6 DEF S
  <2>2. QED
    BY <1>1, <2>1

(* The context of a stack, and the function on top of it.                  *)
LEMMA StackOfContext ==
  ASSUME Tree_, NEW c \in DOMAIN contexts
  PROVE  LET st == GetCallerNodeStack(c)
         IN  /\ ContextsOf(st) = {c} /\ CurrentContext(st) = c
             /\ FunctionOn(st) = getCurrentFunction(c)
             /\ c # 1 => /\ st # <<>> /\ Head(st) = contexts[c].node
                         /\ Tail(st) = GetCallerNodeStack(contexts[c].caller)
             /\ c = 1 => st = <<>>
<1> DEFINE st == GetCallerNodeStack(c)
<1>1. ContextsOf(st) = {c}
  BY StacksDiffer DEF ContextsOf
<1>2. CurrentContext(st) = c
  BY <1>1 DEF CurrentContext
<1>3. CASE c = 1
  <2>1. st = <<>> /\ getCurrentFunction(c) = program.entry
    BY <1>3, StackFacts, RootFacts
  <2>2. QED
    BY <1>1, <1>2, <1>3, <2>1 DEF FunctionOn
<1>4. CASE c # 1
  <2> DEFINE d == contexts[c].caller
             f == getCurrentFunction(d)
             m == contexts[c].node
  <2>1. c \in 2 .. Len(contexts)
    BY <1>4, RootFacts
  <2>2. /\ d \in DOMAIN contexts /\ IsCall(f, m) /\ getCurrentFunction(c) = GetCallee(f, m)
        /\ m \in AllNodes(program)
    BY <2>1, CallerFacts, RootFacts
  <2>3. st = <<m>> \o GetCallerNodeStack(d) /\ GetCallerNodeStack(d) \in Seq(AllNodes(program))
    BY <2>1, <2>2, StackFacts
  <2>4. st # <<>> /\ Head(st) = m /\ Tail(st) = GetCallerNodeStack(d)
    <3> HIDE DEF d, m, st
    <3>1. QED
      BY <2>2, <2>3, Pushed
  <2>5. f \in Functions /\ getCurrentFunction(c) \in Functions /\ program \in Programs
    BY <2>2, RootFacts
  <2>6. ASSUME NEW g \in Functions, IsCall(g, m)
        PROVE  g = f
    <3>1. m \in NodesOf(program, g) /\ m \in NodesOf(program, f)
      BY <2>2, <2>5, <2>6, ProgramFacts DEF IsCall, Functions
    <3>2. QED
      BY <2>5, <3>1, ProgramFacts DEF Functions
  <2>7. FunctionOn(st) = getCurrentFunction(c)
    <3> HIDE DEF d, f, m, st
    <3>1. \A g \in Functions : (\E h \in Functions : IsCall(h, m) /\ g = GetCallee(h, m))
                                  <=> g = getCurrentFunction(c)
      BY <2>2, <2>5, <2>6
    <3>2. FunctionOn(st) = CHOOSE g \in Functions : \E h \in Functions : IsCall(h, m) /\ g = GetCallee(h, m)
      BY <2>4 DEF FunctionOn
    <3>3. QED
      BY <2>5, <3>1, <3>2
  <2>8. QED
    BY <1>1, <1>2, <1>4, <2>4, <2>7
<1>5. QED
  BY <1>3, <1>4
-----------------------------------------------------------------------------
(* The invariant: once every context was scanned, an execution stands at a *)
(* node of the function of the one context that has its stack.             *)
Execution ==
  /\ Tree_
  /\ phase \in {"execution", "done"} => explored = Len(contexts)
  /\ phase \notin {"execution", "done"} => node = None
  /\ node = None => stack = <<>>
  /\ node # None => \E c \in DOMAIN contexts :
                       /\ stack = StackOf(contexts, c)
                       /\ node \in NodesOf(program, getCurrentFunction(c))

LEMMA HereFacts ==
  ASSUME Execution, node # None
  PROVE  LET c == CurrentContext(stack)
         IN  /\ c \in DOMAIN contexts /\ stack = GetCallerNodeStack(c)
             /\ FunctionOn(stack) = getCurrentFunction(c)
             /\ getCurrentFunction(c) \in Functions
             /\ node \in NodesOf(program, getCurrentFunction(c))
             /\ explored = Len(contexts)
<1>1. PICK c \in DOMAIN contexts : /\ stack = StackOf(contexts, c)
                                   /\ node \in NodesOf(program, getCurrentFunction(c))
  BY DEF Execution
<1>2. stack = GetCallerNodeStack(c)
  BY <1>1, StackFacts DEF Execution
<1>3. CurrentContext(stack) = c /\ FunctionOn(stack) = getCurrentFunction(c)
  BY <1>2, StackOfContext DEF Execution
<1>4. getCurrentFunction(c) \in Functions
  BY RootFacts DEF Execution
<1>5. explored = Len(contexts)
  BY DEF Execution
<1>6. QED
  BY <1>1, <1>2, <1>3, <1>4, <1>5

LEMMA EntryFacts ==
  ASSUME Execution, Begin
  PROVE  /\ stack' = GetCallerNodeStack(1) /\ node' = program.cfg[getCurrentFunction(1)].start
         /\ node' \in NodesOf(program, getCurrentFunction(1))
<1>1. stack' = <<>> /\ node' = program.cfg[program.entry].start
  BY DEF Execution, Begin
<1>2. program.entry \in DOMAIN program.cfg /\ program \in Programs
  BY RootFacts, ProgramsAssumption DEF Execution
<1>3. program.cfg[program.entry].start \in NodesOf(program, program.entry)
  BY <1>2, ProgramFacts
<1>4. QED
  BY <1>1, <1>3, RootFacts, StackFacts DEF Execution

LEMMA EdgeFacts ==
  ASSUME Tree_, NEW c \in DOMAIN contexts, NEW u, NEW v \in Successors(Cfg(c).edges, u)
  PROVE  /\ <<u, v>> \in Cfg(c).edges
         /\ u \in NodesOf(program, getCurrentFunction(c))
         /\ v \in NodesOf(program, getCurrentFunction(c))
         /\ u \in Predecessors(Cfg(c).edges, v)
<1> DEFINE f == getCurrentFunction(c)
<1>1. f \in DOMAIN program.cfg /\ program \in Programs
  BY RootFacts DEF Functions
<1>2. program.cfg[f].edges \subseteq NodesOf(program, f) \X NodesOf(program, f)
  BY <1>1, ProgramFacts
<1>3. PICK e \in Cfg(c).edges : e[1] = u /\ e[2] = v
  BY DEF Successors
<1>4. e \in NodesOf(program, f) \X NodesOf(program, f)
  BY <1>2, <1>3 DEF Cfg
<1>5. e = <<u, v>>
  BY <1>3, <1>4
<1>6. u \in Predecessors(Cfg(c).edges, v)
  BY <1>3 DEF Predecessors
<1>7. QED
  BY <1>3, <1>4, <1>5, <1>6

LEMMA BranchFacts ==
  ASSUME Execution, NEW v, Branch(v)
  PROVE  LET c == CurrentContext(stack)
         IN  /\ stack' = stack /\ node' = v /\ v \in Successors(Cfg(c).edges, node)
             /\ v \in NodesOf(program, getCurrentFunction(c))
             /\ ~ IsCall(getCurrentFunction(c), node) /\ node \notin Cfg(c).ends
             /\ ContextualStep(c, node, c, v)
<1> DEFINE c == CurrentContext(stack)
           f == getCurrentFunction(c)
<1>1. node # None /\ ~ AtCall /\ ~ AtReturn /\ stack' = stack /\ node' = v
  BY DEF Branch, Running, Follow
<1>2. v \in Successors(program.cfg[FunctionOn(stack)].edges, node)
  BY DEF Branch, Follow
<1>3. c \in DOMAIN contexts /\ FunctionOn(stack) = f
  BY <1>1, HereFacts
<1> HIDE DEF c
<1>4. /\ ~ IsCall(f, node) /\ node \notin Cfg(c).ends /\ ~ IsReturn(c, node)
  BY <1>1, <1>3 DEF AtCall, AtReturn, Cfg, IsReturn
<1>5. v \in Successors(Cfg(c).edges, node)
  BY <1>2, <1>3 DEF Cfg
<1>6. v \in NodesOf(program, f) /\ node \in Predecessors(Cfg(c).edges, v)
  BY <1>3, <1>5, EdgeFacts DEF Execution
<1>7. <<c, v>> \in GetContextualSuccessors(c, node)
  BY <1>4, <1>5 DEF GetContextualSuccessors
<1>8. <<c, node>> \in GetContextualPredecessors(c, v)
  BY <1>4, <1>6 DEF GetContextualPredecessors
<1>9. QED
  BY <1>1, <1>4, <1>5, <1>6, <1>7, <1>8 DEF ContextualStep, c

(* The context of a call, once every context was scanned.                  *)
LEMMA CalleeContext ==
  ASSUME Tree_, explored = Len(contexts), NEW c \in DOMAIN contexts, NEW n,
         IsCall(getCurrentFunction(c), n)
  PROVE  LET d == getCalleeContext(c, n)
         IN  /\ d \in 2 .. Len(contexts) /\ contexts[d].caller = c /\ contexts[d].node = n
             /\ \A e \in DOMAIN contexts :
                   contexts[e].caller = c /\ contexts[e].node = n => e = d
<1>1. Scanned_(program, contexts, c)
  BY RootFacts DEF Tree_, ContextTree
<1>2. PICK d \in 2 .. Len(contexts) : contexts[d].caller = c /\ contexts[d].node = n
  BY <1>1 DEF Scanned_, CalleesOf, IsCall, getCurrentFunction
<1>3. ASSUME NEW e \in DOMAIN contexts, contexts[e].caller = c, contexts[e].node = n
      PROVE  e = d
  <2>1. e # 1
    BY <1>3, RootFacts DEF None
  <2>2. e \in 2 .. Len(contexts)
    BY <2>1, RootFacts
  <2>3. QED
    BY <1>2, <1>3, <2>2 DEF Tree_, ContextTree
<1>4. d \in DOMAIN contexts
  BY RootFacts
<1>5. getCalleeContext(c, n) = d
  BY <1>2, <1>3, <1>4 DEF getCalleeContext
<1>6. QED
  BY <1>2, <1>3, <1>5

LEMMA CallFacts ==
  ASSUME Execution, Call
  PROVE  LET c == CurrentContext(stack)
             d == getCalleeContext(c, node)
         IN  /\ IsCall(getCurrentFunction(c), node)
             /\ d \in 2 .. Len(contexts) /\ contexts[d].caller = c /\ contexts[d].node = node
             /\ stack' = GetCallerNodeStack(d) /\ node' = Cfg(d).start
             /\ node' \in NodesOf(program, getCurrentFunction(d))
             /\ ContextualStep(c, node, d, node')
<1> DEFINE c == CurrentContext(stack)
           f == getCurrentFunction(c)
           d == getCalleeContext(c, node)
<1>1. /\ node # None /\ AtCall /\ stack' = <<node>> \o stack
      /\ node' = program.cfg[GetCallee(FunctionOn(stack), node)].start
  BY DEF Call, Running
<1>2. /\ c \in DOMAIN contexts /\ FunctionOn(stack) = f /\ stack = GetCallerNodeStack(c)
      /\ explored = Len(contexts)
  BY <1>1, HereFacts
<1> HIDE DEF c
<1>3. IsCall(f, node)
  BY <1>1, <1>2 DEF AtCall
<1>4. d \in 2 .. Len(contexts) /\ contexts[d].caller = c /\ contexts[d].node = node
  BY <1>2, <1>3, CalleeContext DEF Execution
<1> HIDE DEF d
<1>5. getCurrentFunction(d) = GetCallee(f, node)
  BY <1>4, CallerFacts DEF Execution
<1>6. stack' = GetCallerNodeStack(d)
  BY <1>1, <1>2, <1>4, StackFacts DEF Execution
<1>7. node' = Cfg(d).start
  BY <1>1, <1>2, <1>5 DEF Cfg
<1>8. node' \in NodesOf(program, getCurrentFunction(d))
  <2>1. program \in Programs /\ getCurrentFunction(d) \in DOMAIN program.cfg
    BY <1>4, RootFacts DEF Execution, Functions
  <2>2. QED
    BY <1>7, <2>1, ProgramFacts DEF Cfg
<1>9. <<d, node'>> \in GetContextualSuccessors(c, node)
  BY <1>3, <1>5, <1>7 DEF GetContextualSuccessors, Cfg, d
<1>10. <<c, node>> \in GetContextualPredecessors(d, node')
  <2>1. contexts[d].caller # None
    BY <1>4, CallerFacts DEF Execution
  <2>2. QED
    BY <1>4, <1>7, <2>1 DEF GetContextualPredecessors
<1>11. QED
  BY <1>3, <1>4, <1>6, <1>7, <1>8, <1>9, <1>10 DEF ContextualStep, c, d

LEMMA ReturnFacts ==
  ASSUME Execution, NEW v, Return(v)
  PROVE  LET c == CurrentContext(stack)
             d == contexts[c].caller
         IN  /\ c \in 2 .. Len(contexts) /\ d \in DOMAIN contexts
             /\ node \in Cfg(c).ends /\ ~ IsCall(getCurrentFunction(c), node)
             /\ stack # <<>> /\ Head(stack) = contexts[c].node /\ Tail(stack) = GetCallerNodeStack(d)
             /\ stack' = GetCallerNodeStack(d) /\ node' = v
             /\ v \in Successors(Cfg(d).edges, contexts[c].node)
             /\ v \in NodesOf(program, getCurrentFunction(d))
             /\ ContextualStep(c, node, d, v)
<1> DEFINE c == CurrentContext(stack)
           d == contexts[c].caller
           m == contexts[c].node
<1>1. /\ node # None /\ AtReturn /\ stack # <<>> /\ stack' = Tail(stack) /\ node' = v
      /\ v \in Successors(program.cfg[FunctionOn(Tail(stack))].edges, Head(stack))
  BY DEF Return, Running, Follow
<1>2. /\ c \in DOMAIN contexts /\ FunctionOn(stack) = getCurrentFunction(c)
      /\ stack = GetCallerNodeStack(c) /\ explored = Len(contexts)
  BY <1>1, HereFacts
<1> HIDE DEF c
<1>3. c \in 2 .. Len(contexts) /\ Head(stack) = m /\ Tail(stack) = GetCallerNodeStack(d)
  <2>1. c # 1
    BY <1>1, <1>2, StackOfContext DEF Execution
  <2>2. QED
    BY <1>2, <2>1, StackOfContext, RootFacts DEF Execution
<1>4. /\ d \in DOMAIN contexts /\ IsCall(getCurrentFunction(d), m)
      /\ getCurrentFunction(c) = GetCallee(getCurrentFunction(d), m) /\ d # None
  BY <1>3, CallerFacts, RootFacts DEF Execution
<1> HIDE DEF d, m
<1>5. FunctionOn(Tail(stack)) = getCurrentFunction(d)
  BY <1>3, <1>4, StackOfContext DEF Execution
<1>6. v \in Successors(Cfg(d).edges, m)
  BY <1>1, <1>3, <1>5 DEF Cfg
<1>7. v \in NodesOf(program, getCurrentFunction(d)) /\ m \in Predecessors(Cfg(d).edges, v)
  BY <1>4, <1>6, EdgeFacts DEF Execution
<1>8. node \in Cfg(c).ends /\ ~ IsCall(getCurrentFunction(c), node) /\ IsReturn(c, node)
  BY <1>1, <1>2 DEF AtReturn, AtCall, Cfg, IsReturn
<1>9. <<d, v>> \in GetContextualSuccessors(c, node)
  BY <1>4, <1>6, <1>8 DEF GetContextualSuccessors, d, m
<1>10. <<c, node>> \in GetContextualPredecessors(d, v)
  <2>1. getCalleeContext(d, m) = c
    BY <1>2, <1>4, CalleeContext DEF Execution, d, m
  <2>2. <<c, node>> \in {getCalleeContext(d, m)} \X program.cfg[GetCallee(getCurrentFunction(d), m)].ends
    BY <1>4, <1>8, <2>1 DEF Cfg
  <2>3. QED
    BY <1>4, <1>7, <2>2 DEF GetContextualPredecessors
<1>11. QED
  BY <1>1, <1>3, <1>4, <1>6, <1>7, <1>8, <1>9, <1>10 DEF ContextualStep, c, d, m
-----------------------------------------------------------------------------
LEMMA AnalyseKeeps ==
  ASSUME Execution, Analyse
  PROVE  Execution' /\ node' = None
<1>1. UNCHANGED <<stack, node>>
  BY DEF Analyse, runVars
<1>2. CASE BuildCallGraph /\ UNCHANGED contextVars
  <2>1. /\ phase \in {"calls", "cycles"} /\ phase' \in {"calls", "cycles", "contexts", "rejected"}
        /\ UNCHANGED program
    <3>1. CASE \E n \in CallsLeft : ScanKnownCall(n) \/ AddCallee(n)
      <4>1. PICK n \in CallsLeft : ScanKnownCall(n) \/ AddCallee(n)
        BY <3>1
      <4>2. phase = "calls"
        BY <4>1 DEF CallsLeft
      <4>3. phase' = phase /\ program' = program
        BY <4>1 DEF ScanKnownCall, AddCallee
      <4>4. QED
        BY <4>2, <4>3
    <3>2. CASE EndBuild
      BY <3>2 DEF EndBuild
    <3>3. CASE TestCycles
      BY <3>3 DEF TestCycles
    <3>4. QED
      BY <1>2, <3>1, <3>2, <3>3 DEF BuildCallGraph
  <2>2. UNCHANGED <<contexts, explored>>
    BY <1>2 DEF contextVars
  <2>3. node = None /\ stack = <<>> /\ Tree_
    BY <2>1 DEF Execution
  <2>4. Tree_'
    BY <2>1, <2>2, <2>3 DEF Tree_
  <2>5. QED
    BY <1>1, <2>1, <2>3, <2>4 DEF Execution
<1>3. CASE Explore
  <2>1. phase = "contexts" /\ phase' = phase /\ program' = program
    BY <1>3 DEF Explore
  <2>2. node = None /\ stack = <<>> /\ Tree_
    BY <2>1 DEF Execution
  <2>3. Tree_'
    BY <1>3, <2>1, <2>2, ExploreStep DEF Tree_
  <2>4. QED
    BY <1>1, <2>1, <2>2, <2>3 DEF Execution
<1>4. CASE initialise
  <2>1. /\ phase = "contexts" /\ phase' = "execution" /\ explored = Len(contexts)
        /\ UNCHANGED <<program, contexts, explored>>
    BY <1>4 DEF initialise, contextVars
  <2>2. node = None /\ stack = <<>> /\ Tree_
    BY <2>1 DEF Execution
  <2>3. Tree_'
    BY <2>1, <2>2 DEF Tree_
  <2>4. QED
    BY <1>1, <2>1, <2>2, <2>3 DEF Execution
<1>5. QED
  BY <1>2, <1>3, <1>4 DEF Analyse

(* Where an execution may go.                                              *)
Stands(c, n) == c \in DOMAIN contexts /\ n \in NodesOf(program, getCurrentFunction(c))

LEMMA RunKeeps ==
  ASSUME Execution, Unanalysed, phase = "execution", phase' \in {"execution", "done"},
         NEW d, Stands(d, node'), stack' = GetCallerNodeStack(d)
  PROVE  Execution'
<1>1. /\ Tree_ /\ explored = Len(contexts)
      /\ UNCHANGED <<program, contexts, explored>>
  BY DEF Execution, Unanalysed, contextVars
<1>2. Tree_'
  BY <1>1 DEF Tree_
<1>3. d \in DOMAIN contexts /\ stack' = StackOf(contexts, d)
  BY <1>1, StackFacts DEF Stands
<1>4. node' # None
  <2>1. program \in Programs /\ getCurrentFunction(d) \in DOMAIN program.cfg
    BY <1>1, <1>3, RootFacts DEF Functions
  <2>2. QED
    BY <2>1, ProgramFacts DEF Stands
<1>5. d \in DOMAIN contexts' /\ stack' = StackOf(contexts', d)
  BY <1>1, <1>3
<1>6. node' \in NodesOf(program, getCurrentFunction(d))'
  BY <1>1 DEF Stands, NodesOf, getCurrentFunction
<1>7. (\E c \in DOMAIN contexts : /\ stack = StackOf(contexts, c)
                                  /\ node \in NodesOf(program, getCurrentFunction(c)))'
  BY <1>5, <1>6
<1>8. QED
  BY <1>1, <1>2, <1>4, <1>7 DEF Execution

(* Every execution stands somewhere.                                       *)
LEMMA ExecutionKept ==
  ASSUME Execution, [IPETNext]_vars
  PROVE  Execution'
<1>1. CASE Analyse
  BY <1>1, AnalyseKeeps
<1>2. CASE Enter
  <2>1. Begin /\ Unanalysed /\ phase' = phase /\ phase = "execution"
    BY <1>2 DEF Enter, Begin
  <2>2. stack' = GetCallerNodeStack(1) /\ Stands(1, node')
    BY <2>1, EntryFacts, RootFacts DEF Execution, Stands
  <2>3. QED
    BY <2>1, <2>2, RunKeeps
<1>3. CASE Step
  <2>1. PICK v : Branch(v) /\ Unanalysed /\ phase' = phase
    BY <1>3 DEF Step
  <2>2. phase = "execution" /\ node # None
    BY <2>1 DEF Branch, Running
  <2> DEFINE c == CurrentContext(stack)
  <2>3. stack' = GetCallerNodeStack(c) /\ Stands(c, node')
    BY <2>1, <2>2, HereFacts, BranchFacts DEF Stands
  <2>4. QED
    BY <2>1, <2>2, <2>3, RunKeeps
<1>4. CASE CallFunction
  <2>1. Call /\ Unanalysed /\ phase' = phase /\ phase = "execution"
    BY <1>4 DEF CallFunction, Call, Running
  <2> DEFINE d == getCalleeContext(CurrentContext(stack), node)
  <2>2. stack' = GetCallerNodeStack(d) /\ Stands(d, node')
    BY <2>1, CallFacts, RootFacts DEF Execution, Stands
  <2>3. QED
    BY <2>1, <2>2, RunKeeps
<1>5. CASE ReturnToCaller
  <2>1. PICK v : Return(v) /\ Unanalysed /\ phase' = phase
    BY <1>5 DEF ReturnToCaller
  <2>2. phase = "execution"
    BY <2>1 DEF Return, Running
  <2> DEFINE d == contexts[CurrentContext(stack)].caller
  <2>3. stack' = GetCallerNodeStack(d) /\ Stands(d, node')
    BY <2>1, ReturnFacts DEF Stands
  <2>4. QED
    BY <2>1, <2>2, <2>3, RunKeeps
<1>6. CASE Stop
  <2>1. /\ Unanalysed /\ phase = "execution" /\ phase' = "done" /\ node # None
        /\ stack' = stack /\ node' = node
    BY <1>6 DEF Stop, Running, runVars
  <2> DEFINE c == CurrentContext(stack)
  <2>2. stack' = GetCallerNodeStack(c) /\ Stands(c, node')
    BY <2>1, HereFacts DEF Stands
  <2>3. QED
    BY <2>1, <2>2, RunKeeps
<1>7. CASE UNCHANGED vars
  BY <1>7 DEF vars, contextVars, runVars, Execution, Tree_, NodesOf, getCurrentFunction
<1>8. QED
  BY <1>1, <1>2, <1>3, <1>4, <1>5, <1>6, <1>7 DEF IPETNext, Done

LEMMA ExecutionStarts ==
  ASSUME IPETInit
  PROVE  Execution
<1>1. /\ program \in Programs /\ contexts = <<Context(None, None, program.entry)>> /\ explored = 0
      /\ stack = <<>> /\ node = None /\ phase = "calls"
  BY DEF IPETInit, Init, InitContexts, InitRun
<1>2. Context(None, None, program.entry) \in ContextRecord(program)
  <2>1. program.entry \in DOMAIN program.cfg
    BY <1>1, ProgramsAssumption
  <2>2. QED
    BY <2>1 DEF Context, ContextRecord, None
<1>3. /\ contexts \in Seq(ContextRecord(program)) /\ contexts # <<>> /\ Len(contexts) = 1
      /\ contexts[1] = Context(None, None, program.entry)
  BY <1>1, <1>2
<1>4. ContextTree(program, contexts, explored)
  <2>1. 2 .. Len(contexts) = {} /\ 1 .. explored = {} /\ explored \in 0 .. Len(contexts)
    BY <1>1, <1>3
  <2>2. QED
    BY <1>1, <1>3, <2>1 DEF ContextTree
<1>5. QED
  BY <1>1, <1>4 DEF Execution, Tree_

(* In every execution of every program whose call graph has no end, each   *)
(* node is executed in one context, and each step goes to a contextual     *)
(* successor, back from which it is a contextual predecessor: a call to    *)
(* the context of its call node, a return to the context it was called     *)
(* from.                                                                   *)
THEOREM ContextsFollowExecutions == Spec => ContextualPath
<1> DEFINE OneContext(st) == Cardinality(ContextsOf(st)) = 1
           Good == node # None /\ node' # None =>
                     /\ OneContext(stack) /\ OneContext(stack')
                     /\ ContextualStep(CurrentContext(stack), node, CurrentContext(stack'), node')
<1>1. Execution /\ [IPETNext]_vars => [Good]_<<stack, node>>
  <2>1. SUFFICES ASSUME Execution, [IPETNext]_vars, ~ UNCHANGED <<stack, node>>,
                        node # None, node' # None
                 PROVE  Good
    OBVIOUS
  <2> DEFINE c == CurrentContext(stack)
  <2>2. c \in DOMAIN contexts /\ stack = GetCallerNodeStack(c) /\ Tree_
    BY <2>1, HereFacts DEF Execution
  <2>3. \A x : Cardinality({x}) = 1
    BY FS_Singleton
  <2>4. ASSUME NEW d \in DOMAIN contexts, NEW st, st = GetCallerNodeStack(d)
        PROVE  OneContext(st) /\ CurrentContext(st) = d
    <3>1. ContextsOf(st) = {d} /\ CurrentContext(st) = d
      BY <2>2, <2>4, StackOfContext
    <3>2. QED
      BY <2>3, <3>1
  <2>5. SUFFICES \E d \in DOMAIN contexts :
                   stack' = GetCallerNodeStack(d) /\ ContextualStep(c, node, d, node')
    <3>1. OneContext(stack)
      BY <2>2, <2>4
    <3>2. ASSUME NEW d \in DOMAIN contexts, stack' = GetCallerNodeStack(d),
                 ContextualStep(c, node, d, node')
          PROVE  Good
      <4>1. OneContext(stack') /\ CurrentContext(stack') = d
        BY <2>4, <3>2
      <4> HIDE DEF OneContext
      <4>2. QED
        BY <3>1, <3>2, <4>1
    <3>3. QED
      BY <3>2
  <2>6. CASE Analyse
    BY <2>1, <2>6, AnalyseKeeps
  <2>7. CASE Enter
    BY <2>1, <2>7 DEF Enter, Begin
  <2>8. CASE Step
    <3>1. PICK v : Branch(v)
      BY <2>8 DEF Step
    <3>2. QED
      BY <2>1, <2>2, <3>1, BranchFacts
  <2>9. CASE CallFunction
    <3>1. Call
      BY <2>9 DEF CallFunction
    <3>2. QED
      BY <2>1, <2>2, <3>1, CallFacts, RootFacts
  <2>10. CASE ReturnToCaller
    <3>1. PICK v : Return(v)
      BY <2>10 DEF ReturnToCaller
    <3>2. QED
      BY <2>1, <3>1, ReturnFacts
  <2>11. CASE Stop
    BY <2>1, <2>11 DEF Stop, runVars
  <2>12. CASE UNCHANGED vars
    BY <2>1, <2>12 DEF vars, runVars
  <2>13. QED
    BY <2>1, <2>6, <2>7, <2>8, <2>9, <2>10, <2>11, <2>12 DEF IPETNext, Done
<1>2. IPETInit => Execution
  BY ExecutionStarts
<1>3. Execution /\ [IPETNext]_vars => Execution'
  BY ExecutionKept
<1>4. [][Good]_<<stack, node>> => ContextualPath
  BY PTL DEF ContextualPath
<1>5. QED
  <2> HIDE DEF Good
  <2>1. QED
    BY <1>1, <1>2, <1>3, <1>4, PTL DEF Spec
-----------------------------------------------------------------------------
(* What an execution counts.                                               *)
One(b) == IF b THEN 1 ELSE 0

LEMMA CountAfter ==
  ASSUME NEW f, NEW k, NEW j
  PROVE  Count(Incremented(f, k), j) = Count(f, j) + One(j = k)
<1> DEFINE g == Incremented(f, k)
<1>1. DOMAIN g = DOMAIN f \cup {k}
  BY DEF Incremented
<1>2. CASE j \in DOMAIN g
  BY <1>1, <1>2 DEF Incremented, Count, One
<1>3. CASE j \notin DOMAIN g
  <2>1. j # k /\ j \notin DOMAIN f
    BY <1>1, <1>3
  <2>2. Count(g, j) = 0 /\ Count(f, j) = 0 /\ One(j = k) = 0
    BY <1>3, <2>1 DEF Count, One
  <2> HIDE DEF g
  <2>3. QED
    BY <2>2 DEF g
<1>4. QED
  BY <1>2, <1>3

(* The sums over the edges of E, in the linear program e_.                 *)
Passages(E) == E \X BOOLEAN \X BOOLEAN
EdgeCount(ec, c, x) == Count(ec, <<c, x[1][1], x[1][2], x[2], x[3]>>)
EdgeSum(ec, c, E) ==
  MapThenSumSet(LAMBDA x : Count(ec, <<c, x[1][1], x[1][2], x[2], x[3]>>), E \X BOOLEAN \X BOOLEAN)

LEMMA PassagesFinite ==
  ASSUME NEW E, IsFiniteSet(E)
  PROVE  IsFiniteSet(Passages(E))
<1> DEFINE S == Passages(E)
           T == (E \X BOOLEAN) \X BOOLEAN
           f == [x \in T |-> <<x[1][1], x[1][2], x[2]>>]
<1>1. IsFiniteSet(BOOLEAN)
  <2>1. IsFiniteSet({TRUE} \cup {FALSE})
    BY FS_Singleton, FS_Union
  <2>2. BOOLEAN = {TRUE} \cup {FALSE}
    OBVIOUS
  <2>3. QED
    BY <2>1, <2>2
<1>2. IsFiniteSet(T)
  BY <1>1, FS_Product
<1>3. f \in Surjection(T, S)
  <2>1. \A x \in T : f[x] \in S
    BY DEF Passages
  <2>2. ASSUME NEW y \in S
        PROVE  \E x \in T : f[x] = y
    <3>1. PICK e \in E, a \in BOOLEAN, b \in BOOLEAN : y = <<e, a, b>>
      BY DEF Passages
    <3>2. <<<<e, a>>, b>> \in T /\ f[<<<<e, a>>, b>>] = y
      BY <3>1
    <3>3. QED
      BY <3>2
  <2>3. QED
    BY <2>1, <2>2 DEF Surjection
<1>4. QED
  BY <1>2, <1>3, FS_Surjection

LEMMA EdgeSumIsSum ==
  ASSUME NEW ec, NEW c, NEW E, IsFiniteSet(E)
  PROVE  \E w : /\ IsSum(w, Passages(E), [x \in Passages(E) |-> EdgeCount(ec, c, x)])
                /\ EdgeSum(ec, c, E) = w[Passages(E)]
<1> DEFINE S == Passages(E)
           f == [x \in S |-> EdgeCount(ec, c, x)]
           Iter(w) == w = [s \in SUBSET S |->
                             IF s = {} THEN 0
                             ELSE Count(ec, <<c, (CHOOSE x \in s : TRUE)[1][1], (CHOOSE x \in s : TRUE)[1][2],
                                              (CHOOSE x \in s : TRUE)[2], (CHOOSE x \in s : TRUE)[3]>>)
                                  + w[s \ {CHOOSE x \in s : TRUE}]]
           total == CHOOSE w : Iter(w)
<1>1. IsFiniteSet(S)
  BY PassagesFinite
<1>2. \A s \in SUBSET S : s # {} => f[Some(s)] = Count(ec, <<c, (CHOOSE x \in s : TRUE)[1][1],
         (CHOOSE x \in s : TRUE)[1][2], (CHOOSE x \in s : TRUE)[2], (CHOOSE x \in s : TRUE)[3]>>)
  BY DEF Some, EdgeCount
<1>3. \A x : IsSum(x, S, f) <=> Iter(x)
  BY <1>2 DEF IsSum, Some
<1>4. Iter(total)
  <2>1. PICK x : IsSum(x, S, f)
    <3> HIDE DEF f, S
    <3>1. QED
      BY <1>1, SumExists
  <2>2. Iter(x)
    BY <1>3, <2>1
  <2> HIDE DEF Iter
  <2>3. QED
    BY <2>2, Zenon
<1>5. EdgeSum(ec, c, E) = total[S]
  BY DEF EdgeSum, MapThenSumSet, MapThenFoldSet, Passages
<1>6. QED
  <2>1. IsSum(total, S, f)
    BY <1>3, <1>4
  <2> HIDE DEF total, Iter
  <2>2. QED
    BY <1>5, <2>1, Zenon

LEMMA EdgeSumTerms ==
  ASSUME NEW ec, \A k : Count(ec, k) \in Nat, NEW c, NEW E, IsFiniteSet(E)
  PROVE  /\ EdgeSum(ec, c, E) \in Nat
         /\ \A e \in E : \A a, b \in BOOLEAN :
              Count(ec, <<c, e[1], e[2], a, b>>) <= EdgeSum(ec, c, E)
         /\ (\A e \in E : \A a, b \in BOOLEAN : Count(ec, <<c, e[1], e[2], a, b>>) = 0)
              => EdgeSum(ec, c, E) = 0
<1> DEFINE S == Passages(E)
           f == [x \in S |-> EdgeCount(ec, c, x)]
<1>1. PICK w : IsSum(w, S, f) /\ EdgeSum(ec, c, E) = w[S]
  BY EdgeSumIsSum
<1>2. IsFiniteSet(S) /\ \A x \in S : f[x] \in Nat
  BY PassagesFinite DEF EdgeCount
<1>3. /\ w[S] \in Nat /\ \A x \in S : f[x] <= w[S]
      /\ (\A x \in S : f[x] = 0) => w[S] = 0
  <2> HIDE DEF f, S
  <2>1. QED
    BY <1>1, <1>2, SumTerms
<1>4. \A e \in E : \A a, b \in BOOLEAN :
        <<e, a, b>> \in S /\ f[<<e, a, b>>] = Count(ec, <<c, e[1], e[2], a, b>>)
  BY DEF Passages, EdgeCount
<1>5. \A x \in S : \E e \in E : \E a, b \in BOOLEAN : x = <<e, a, b>>
  BY DEF Passages
<1> HIDE DEF f, S
<1>6. ASSUME NEW e \in E, NEW a \in BOOLEAN, NEW b \in BOOLEAN
      PROVE  Count(ec, <<c, e[1], e[2], a, b>>) <= EdgeSum(ec, c, E)
  <2>1. <<e, a, b>> \in S /\ f[<<e, a, b>>] = Count(ec, <<c, e[1], e[2], a, b>>)
    BY <1>4, Zenon
  <2>2. f[<<e, a, b>>] <= w[S]
    BY <1>3, <2>1, Zenon
  <2>3. QED
    BY <1>1, <2>1, <2>2, Zenon
<1>7. ASSUME \A e \in E : \A a, b \in BOOLEAN : Count(ec, <<c, e[1], e[2], a, b>>) = 0
      PROVE  EdgeSum(ec, c, E) = 0
  <2>1. ASSUME NEW x \in S
        PROVE  f[x] = 0
    <3>1. PICK e \in E, a \in BOOLEAN, b \in BOOLEAN : x = <<e, a, b>>
      BY <1>5, Zenon
    <3>2. f[<<e, a, b>>] = Count(ec, <<c, e[1], e[2], a, b>>)
      BY <1>4, Zenon
    <3>3. QED
      BY <1>7, <3>1, <3>2, Zenon
  <2>2. QED
    BY <1>1, <1>3, <2>1, Zenon
<1>8. EdgeSum(ec, c, E) \in Nat
  BY <1>1, <1>3
<1>9. QED
  BY <1>6, <1>7, <1>8, Zenon

Numbers(f) == \A k : Count(f, k) \in Nat

LEMMA EdgeSumAfter ==
  ASSUME NEW ec, Numbers(ec), NEW c, NEW E, Pairs(E),
         NEW c0, NEW u, NEW v, NEW a0, a0 \in BOOLEAN, NEW b0, b0 \in BOOLEAN
  PROVE  EdgeSum(Incremented(ec, <<c0, u, v, a0, b0>>), c, E)
           = EdgeSum(ec, c, E) + One(c = c0 /\ <<u, v>> \in E)
<1> DEFINE S == Passages(E)
           k0 == <<c0, u, v, a0, b0>>
           ed == Incremented(ec, k0)
           f == [x \in S |-> EdgeCount(ec, c, x)]
           g == [x \in S |-> EdgeCount(ed, c, x)]
           x0 == <<<<u, v>>, a0, b0>>
           i == One(c = c0)
<1>1. PICK w : IsSum(w, S, f) /\ EdgeSum(ec, c, E) = w[S]
  BY EdgeSumIsSum DEF Pairs
<1>2. PICK t : IsSum(t, S, g) /\ EdgeSum(ed, c, E) = t[S]
  BY EdgeSumIsSum DEF Pairs
<1>3. ASSUME NEW x \in S
      PROVE  f[x] \in Int /\ g[x] = f[x] + (IF x = x0 THEN i ELSE 0)
  <2>1. x = <<<<x[1][1], x[1][2]>>, x[2], x[3]>>
    BY DEF Passages, Pairs
  <2> DEFINE j == <<c, x[1][1], x[1][2], x[2], x[3]>>
  <2>2. f[x] = Count(ec, j) /\ g[x] = Count(ed, j)
    BY DEF EdgeCount
  <2>3. Count(ed, j) = Count(ec, j) + One(j = k0)
    <3> HIDE DEF j, k0
    <3>1. QED
      BY CountAfter
  <2>4. j = k0 <=> x = x0 /\ c = c0
    BY <2>1
  <2>5. Count(ec, j) \in Nat
    BY DEF Numbers
  <2> HIDE DEF f, g, j, k0, ed, x0
  <2>6. QED
    BY <2>2, <2>3, <2>4, <2>5 DEF One
<1>4. x0 \in S <=> <<u, v>> \in E
  BY DEF Passages
<1>5. i \in Int /\ IsFiniteSet(S)
  BY PassagesFinite DEF One, Pairs
<1>6. w[S] \in Int /\ t[S] = w[S] + (IF x0 \in S THEN i ELSE 0)
  <2> HIDE DEF f, g, S, x0, i, ed, k0
  <2>1. QED
    BY <1>1, <1>2, <1>3, <1>5, SumMoves
<1>7. QED
  BY <1>1, <1>2, <1>4, <1>6 DEF One
-----------------------------------------------------------------------------
(* The ancestors of the contexts cs, and whether none is annotated.        *)
Parents(cs) == {<<d, cs[d].caller>> : d \in DOMAIN cs}
Anc(cs, c) == Reachable(Parents(cs), {c}) \ {None}
Seen(p, cs, c) == \A d \in Anc(cs, c) : cs[d].function \notin DOMAIN p.wcet

LEMMA AncestorFacts ==
  ASSUME NEW p, NEW cs, NEW k, ContextTree(p, cs, k)
  PROVE  /\ Anc(cs, 1) = {1}
         /\ \A d \in 2 .. Len(cs) : /\ Anc(cs, d) = {d} \cup Anc(cs, cs[d].caller)
                                    /\ cs[d].caller \in 1 .. Len(cs) /\ cs[d].caller < d
         /\ \A d \in 1 .. Len(cs) : Anc(cs, d) \subseteq 1 .. d
<1> DEFINE N == Len(cs)
           P == Parents(cs)
<1>1. N \in Nat \ {0} /\ DOMAIN cs = 1 .. N /\ k \in 0 .. N /\ cs[1].caller = 0
  BY ContextTypes DEF ContextTree, Context, None
<1>2. \A d \in 2 .. N : cs[d].caller \in 1 .. N /\ cs[d].caller < d
  BY <1>1 DEF ContextTree, CalledFrom
<1>3. \A d \in 1 .. N : cs[d].caller \in 0 .. N /\ cs[d].caller < d
  BY <1>1, <1>2
<1>4. IsFiniteSet(P) /\ \A e \in P : \E d \in 1 .. N : e = <<d, cs[d].caller>>
  <2>1. IsFiniteSet((1 .. N) \X (0 .. N))
    <3>1. IsFiniteSet(1 .. N) /\ IsFiniteSet(0 .. N)
      BY <1>1, FS_Interval
    <3>2. QED
      BY <3>1, FS_Product
  <2>2. P \subseteq (1 .. N) \X (0 .. N)
    BY <1>1, <1>3 DEF Parents
  <2>3. IsFiniteSet(P)
    BY <2>1, <2>2, FS_Subset
  <2>4. QED
    BY <1>1, <2>3 DEF Parents
<1>5. \A d \in 1 .. N : <<d, cs[d].caller>> \in P
  BY <1>1 DEF Parents
<1>11. \A e \in P : e[1] \in 1 .. N /\ e[2] \in 0 .. N /\ e[2] < e[1]
  BY <1>3, <1>4
<1> HIDE DEF P
<1>6. \A c : c \in Reachable(P, {c})
  BY <1>4, ReachableStart
<1>7. Anc(cs, 1) = {1}
  <2>1. Reachable(P, {1}) \subseteq {0, 1}
    <3>1. \A e \in P : e[1] \in {0, 1} => e[2] \in {0, 1}
      BY <1>1, <1>4
    <3>2. QED
      BY <1>4, <3>1, ReachableLeast
  <2>2. QED
    BY <1>6, <2>1 DEF Anc, None, P
<1>8. ASSUME NEW d \in 2 .. N
      PROVE  Anc(cs, d) = {d} \cup Anc(cs, cs[d].caller)
  <2> DEFINE q == cs[d].caller
             R == Reachable(P, {d})
             Q == Reachable(P, {q})
  <2>1. R \subseteq {d} \cup Q
    <3>1. ASSUME NEW e \in P, e[1] \in {d} \cup Q
          PROVE  e[2] \in {d} \cup Q
      <4>1. CASE e[1] = d
        <5>1. e[2] = q
          BY <1>4, <4>1
        <5>2. QED
          BY <1>6, <5>1
      <4>2. CASE e[1] \in Q
        BY <1>4, <4>2, ReachableClosed
      <4>3. QED
        BY <3>1, <4>1, <4>2
    <3> HIDE DEF Q
    <3>2. QED
      BY <1>4, <3>1, ReachableLeast
  <2>2. Q \subseteq R
    <3>1. q \in R
      <4>1. <<d, q>> \in P /\ d \in R
        BY <1>5, <1>6
      <4>2. QED
        BY <1>4, <4>1, ReachableClosed
    <3>2. \A e \in P : e[1] \in R => e[2] \in R
      BY <1>4, ReachableClosed
    <3> HIDE DEF R, q
    <3>3. QED
      BY <1>4, <3>1, <3>2, ReachableLeast DEF q
  <2>3. R = {d} \cup Q
    BY <1>6, <2>1, <2>2
  <2>4. d # None
    BY DEF None
  <2>5. Anc(cs, d) = R \ {None} /\ Anc(cs, q) = Q \ {None}
    BY DEF Anc, P
  <2> HIDE DEF R, Q, q
  <2>6. QED
    BY <2>3, <2>4, <2>5 DEF q
<1>9. ASSUME NEW d \in 1 .. N
      PROVE  Anc(cs, d) \subseteq 1 .. d
  <2>1. \A e \in P : e[1] \in 0 .. d => e[2] \in 0 .. d
    BY <1>1, <1>11
  <2>2. Reachable(P, {d}) \subseteq 0 .. d
    <3>1. {d} \subseteq 0 .. d
      BY <1>1
    <3>2. QED
      BY <1>4, <2>1, <3>1, ReachableLeast
  <2>3. Anc(cs, d) = Reachable(P, {d}) \ {0}
    BY DEF Anc, None, P
  <2>4. (0 .. d) \ {0} = 1 .. d
    BY <1>1
  <2>5. QED
    BY <2>2, <2>3, <2>4
<1>10. QED
  BY <1>2, <1>7, <1>8, <1>9

LEMMA SeenFacts ==
  ASSUME NEW p, NEW cs, NEW k, ContextTree(p, cs, k)
  PROVE  /\ Seen(p, cs, 1) <=> p.entry \notin DOMAIN p.wcet
         /\ \A d \in 2 .. Len(cs) :
              Seen(p, cs, d) <=> Seen(p, cs, cs[d].caller) /\ cs[d].function \notin DOMAIN p.wcet
<1>1. cs[1].function = p.entry
  BY DEF ContextTree, Context
<1>2. QED
  BY <1>1, AncestorFacts DEF Seen
-----------------------------------------------------------------------------
(* The counts of an execution, while the nodes under execution are those   *)
(* of at: a node was entered as often as it was executed, and left as      *)
(* often but for the execution under way; a function was executed once for *)
(* each execution of its call node, but for the one that is to begin.      *)
GraphOf(p, cs, d) == p.cfg[cs[d].function]
NodesIn(p, cs, d) == NodesOf(p, cs[d].function)
Into(p, cs, d, n) == {e \in GraphOf(p, cs, d).edges : e[2] = n}
From(p, cs, d, n) == {e \in GraphOf(p, cs, d).edges : e[1] = n}

Balanced(p, cs, nc, ec, at, d) ==
  \A n \in NodesIn(p, cs, d) :
     /\ n # GraphOf(p, cs, d).start => Count(nc, <<d, n>>) = EdgeSum(ec, d, Into(p, cs, d, n))
     /\ From(p, cs, d, n) # {} =>
          Count(nc, <<d, n>>) = EdgeSum(ec, d, From(p, cs, d, n)) + One(at[d] = n)

FirstOnce(p, cs, ec, d) ==
  \A e \in GraphOf(p, cs, d).edges :
     /\ Count(ec, <<d, e[1], e[2], TRUE, TRUE>>) + Count(ec, <<d, e[1], e[2], TRUE, FALSE>>) <= 1
     /\ Count(ec, <<d, e[1], e[2], TRUE, TRUE>>) + Count(ec, <<d, e[1], e[2], FALSE, TRUE>>) <= 1

Untouched(p, cs, nc, ec, d) ==
  /\ \A n \in NodesIn(p, cs, d) : Count(nc, <<d, n>>) = 0
  /\ \A e \in GraphOf(p, cs, d).edges : \A a, b \in BOOLEAN :
       Count(ec, <<d, e[1], e[2], a, b>>) = 0

Called(p, cs, nc, xc, d) ==
  IF cs[d].function \in DOMAIN p.wcet THEN Count(xc, d)
  ELSE Count(nc, <<d, GraphOf(p, cs, d).start>>)

CallsCounted(p, cs, nc, xc, at, d) ==
  LET q == cs[d].caller
      n == cs[d].node
  IN  IF Seen(p, cs, q)
      THEN Called(p, cs, nc, xc, d) + One(at[q] = n /\ at[d] = None) = Count(nc, <<q, n>>)
      ELSE Count(xc, d) = 0

Counting(p, cs, nc, ec, xc, at) ==
  /\ Numbers(nc) /\ Numbers(ec) /\ Numbers(xc)
  /\ \A d \in 1 .. Len(cs) : IF Seen(p, cs, d)
                             THEN Balanced(p, cs, nc, ec, at, d) /\ FirstOnce(p, cs, ec, d)
                             ELSE Untouched(p, cs, nc, ec, d)
  /\ \A d \in 2 .. Len(cs) : CallsCounted(p, cs, nc, xc, at, d)
  /\ Count(nc, <<1, GraphOf(p, cs, 1).start>>) = 1

LEMMA GraphFacts ==
  ASSUME NEW p, NEW cs, NEW k, ContextTree(p, cs, k), EnteredByCalls(p)
  PROVE  /\ \A d \in 1 .. Len(cs) :
              /\ None \notin NodesIn(p, cs, d)
              /\ GraphOf(p, cs, d).edges \subseteq NodesIn(p, cs, d) \X NodesIn(p, cs, d)
              /\ GraphOf(p, cs, d).start \in NodesIn(p, cs, d)
              /\ IsFiniteSet(GraphOf(p, cs, d).edges)
              /\ \A e \in GraphOf(p, cs, d).edges :
                    /\ e[2] # GraphOf(p, cs, d).start
                    /\ e[1] \in GraphOf(p, cs, d).ends => e[1] \in DOMAIN GraphOf(p, cs, d).callee
         /\ \A d \in 2 .. Len(cs) :
              /\ cs[d].caller \in 1 .. Len(cs) /\ cs[d].caller < d
              /\ cs[d].node \in NodesIn(p, cs, cs[d].caller) /\ cs[d].node # None
              /\ cs[d].node \in DOMAIN GraphOf(p, cs, cs[d].caller).callee
         /\ \A d, e \in 2 .. Len(cs) : cs[d].caller = cs[e].caller /\ cs[d].node = cs[e].node => d = e
<1>1. ASSUME NEW d \in 1 .. Len(cs)
      PROVE  /\ None \notin NodesIn(p, cs, d)
             /\ GraphOf(p, cs, d).edges \subseteq NodesIn(p, cs, d) \X NodesIn(p, cs, d)
             /\ GraphOf(p, cs, d).start \in NodesIn(p, cs, d)
             /\ IsFiniteSet(GraphOf(p, cs, d).edges)
             /\ \A e \in GraphOf(p, cs, d).edges :
                   /\ e[2] # GraphOf(p, cs, d).start
                   /\ e[1] \in GraphOf(p, cs, d).ends => e[1] \in DOMAIN GraphOf(p, cs, d).callee
             /\ DOMAIN GraphOf(p, cs, d).callee \subseteq NodesIn(p, cs, d)
  <2> DEFINE f == cs[d].function
             V == NodesOf(p, f)
             nodes == p.cfg[f].nodes
  <2>1. p \in Programs /\ f \in DOMAIN p.cfg
    BY ContextTypes
  <2> HIDE DEF f
  <2>2. /\ None \notin V /\ p.cfg[f].edges \subseteq V \X V /\ p.cfg[f].start \in V
        /\ DOMAIN p.cfg[f].callee \subseteq V
        /\ nodes \in Seq(V)
    BY <2>1, ProgramFacts
  <2>3. IsFiniteSet(V)
    <3>1. V = {nodes[i] : i \in 1 .. Len(nodes)} /\ Len(nodes) \in Nat
      <4>1. V = {nodes[i] : i \in DOMAIN nodes}
        BY DEF NodesOf, ToSet
      <4> HIDE DEF V, nodes
      <4>2. DOMAIN nodes = 1 .. Len(nodes) /\ Len(nodes) \in Nat
        BY <2>2
      <4>3. QED
        BY <4>1, <4>2
    <3> HIDE DEF V, nodes
    <3>2. [i \in 1 .. Len(nodes) |-> nodes[i]] \in Surjection(1 .. Len(nodes), V)
      BY <3>1 DEF Surjection
    <3>3. QED
      BY <3>1, <3>2, FS_Interval, FS_Surjection
  <2>4. IsFiniteSet(p.cfg[f].edges)
    BY <2>2, <2>3, FS_Product, FS_Subset
  <2>5. QED
    BY <2>1, <2>2, <2>4 DEF NodesIn, GraphOf, EnteredByCalls, f
<1>2. ASSUME NEW d \in 2 .. Len(cs)
      PROVE  /\ cs[d].caller \in 1 .. Len(cs) /\ cs[d].caller < d
             /\ cs[d].node \in DOMAIN GraphOf(p, cs, cs[d].caller).callee
  <2>1. CalledFrom(p, cs, k, d)
    BY DEF ContextTree
  <2>2. cs[d].caller \in 1 .. Len(cs) /\ cs[d].caller < d
    BY AncestorFacts
  <2>3. QED
    BY <2>1, <2>2 DEF CalledFrom, CalleesOf, GraphOf
<1>3. QED
  BY <1>1, <1>2 DEF ContextTree

(* A step along the edge from u to v in context q, from within the         *)
(* function or from a call that returns.                                   *)
Move(p, cs, nc, ec, at, q, u, v, nd, ed, au) ==
  /\ q \in 1 .. Len(cs) /\ <<u, v>> \in GraphOf(p, cs, q).edges
  /\ at[q] = u /\ au[q] = v
  /\ \A x \in (1 .. Len(cs)) \ {q} :
       \/ au[x] = at[x]
       \/ /\ x \in 2 .. Len(cs) /\ cs[x].caller = q /\ au[x] = None
          /\ at[x] # None /\ From(p, cs, x, at[x]) = {}
          /\ at[x] \notin DOMAIN GraphOf(p, cs, x).callee
  /\ \A d \in 2 .. Len(cs) : cs[d].caller = q => au[d] = None /\ (at[d] = None => cs[d].node # u)
  /\ IF Seen(p, cs, q)
     THEN /\ nd = Incremented(nc, <<q, v>>)
          /\ ed = Incremented(ec, <<q, u, v, Count(nc, <<q, u>>) = 1, Count(nc, <<q, v>>) = 0>>)
     ELSE nd = nc /\ ed = ec

LEMMA MoveNodes ==
  ASSUME NEW p, NEW cs, NEW nc, Numbers(nc), NEW ec, NEW at, NEW q, NEW u, NEW v, NEW nd, NEW ed, NEW au,
         Move(p, cs, nc, ec, at, q, u, v, nd, ed, au), NEW x, NEW y
  PROVE  Count(nd, <<x, y>>) = Count(nc, <<x, y>>) + (IF Seen(p, cs, q) /\ x = q /\ y = v THEN 1 ELSE 0)
<1>1. CASE ~ Seen(p, cs, q)
  BY <1>1 DEF Move, Numbers
<1>2. CASE Seen(p, cs, q)
  <2>1. nd = Incremented(nc, <<q, v>>)
    BY <1>2 DEF Move
  <2>2. \A j : Count(nd, j) = Count(nc, j) + (IF j = <<q, v>> THEN 1 ELSE 0)
    BY <2>1, CountAfter DEF One
  <2>3. QED
    BY <1>2, <2>2
<1>3. QED
  BY <1>1, <1>2

LEMMA MoveCounts ==
  ASSUME NEW p, NEW cs, NEW k, ContextTree(p, cs, k), EnteredByCalls(p), NEW nc, NEW ec, NEW xc, NEW at,
         Counting(p, cs, nc, ec, xc, at), NEW q, NEW u, NEW v, NEW nd, NEW ed, NEW au,
         Move(p, cs, nc, ec, at, q, u, v, nd, ed, au)
  PROVE  /\ Numbers(nd) /\ Numbers(ed)
         /\ \A d, n : Count(nd, <<d, n>>) = Count(nc, <<d, n>>) + One(Seen(p, cs, q) /\ d = q /\ n = v)
         /\ \A d \in 1 .. Len(cs) : \A E \in SUBSET GraphOf(p, cs, d).edges :
              EdgeSum(ed, d, E) = EdgeSum(ec, d, E) + One(Seen(p, cs, q) /\ d = q /\ <<u, v>> \in E)
         /\ \A d \in 1 .. Len(cs) : \A E \in SUBSET GraphOf(p, cs, d).edges : EdgeSum(ec, d, E) \in Nat
<1> DEFINE a0 == Count(nc, <<q, u>>) = 1
           b0 == Count(nc, <<q, v>>) = 0
           k0 == <<q, u, v, a0, b0>>
           s == Seen(p, cs, q)
<1>1. Numbers(nc) /\ Numbers(ec)
  BY DEF Counting
<1>2. /\ s => nd = Incremented(nc, <<q, v>>) /\ ed = Incremented(ec, k0)
      /\ ~ s => nd = nc /\ ed = ec
  BY DEF Move
<1>3. \A d \in 1 .. Len(cs) : \A E \in SUBSET GraphOf(p, cs, d).edges :
        IsFiniteSet(E) /\ E \in SUBSET (NodesIn(p, cs, d) \X NodesIn(p, cs, d))
  BY GraphFacts, FS_Subset
<1>4. a0 \in BOOLEAN /\ b0 \in BOOLEAN
  OBVIOUS
<1> HIDE DEF a0, b0, s
<1>5. \A d \in 1 .. Len(cs) : \A E \in SUBSET GraphOf(p, cs, d).edges : EdgeSum(ec, d, E) \in Nat
  BY <1>1, <1>3, EdgeSumTerms DEF Numbers
<1>6. CASE ~ s
  <2>1. \A d, n : One(s /\ d = q /\ n = v) = 0
    BY <1>6 DEF One
  <2>2. \A d, E : One(s /\ d = q /\ <<u, v>> \in E) = 0
    BY <1>6 DEF One
  <2>3. \A d, n : Count(nc, <<d, n>>) \in Nat
    BY <1>1 DEF Numbers
  <2>4. QED
    BY <1>1, <1>2, <1>5, <1>6, <2>1, <2>2, <2>3 DEF s
<1>7. CASE s
  <2>1. \A j : Count(nd, j) = Count(nc, j) + One(j = <<q, v>>)
    BY <1>2, <1>7, CountAfter
  <2>2. \A j : Count(ed, j) = Count(ec, j) + One(j = k0)
    <3> HIDE DEF k0
    <3>1. QED
      BY <1>2, <1>7, CountAfter
  <2>3. Numbers(nd) /\ Numbers(ed)
    <3> HIDE DEF k0
    <3>1. QED
      BY <1>1, <2>1, <2>2 DEF Numbers, One
  <2>4. ASSUME NEW d, NEW n
        PROVE  Count(nd, <<d, n>>) = Count(nc, <<d, n>>) + One(s /\ d = q /\ n = v)
    <3>1. (<<d, n>> = <<q, v>>) <=> (s /\ d = q /\ n = v)
      BY <1>7
    <3>2. One(<<d, n>> = <<q, v>>) = One(s /\ d = q /\ n = v)
      BY <3>1 DEF One
    <3>3. QED
      BY <2>1, <3>2
  <2>5. ASSUME NEW d \in 1 .. Len(cs), NEW E \in SUBSET GraphOf(p, cs, d).edges
        PROVE  EdgeSum(ed, d, E) = EdgeSum(ec, d, E) + One(s /\ d = q /\ <<u, v>> \in E)
    <3>1. One(s /\ d = q /\ <<u, v>> \in E) = One(d = q /\ <<u, v>> \in E)
      BY <1>7 DEF One
    <3>2. EdgeSum(Incremented(ec, k0), d, E) = EdgeSum(ec, d, E) + One(d = q /\ <<u, v>> \in E)
      <4>2. Pairs(E)
        BY <1>3 DEF Pairs
      <4>3. ASSUME NEW a, a \in BOOLEAN, NEW b, b \in BOOLEAN
            PROVE  EdgeSum(Incremented(ec, <<q, u, v, a, b>>), d, E)
                     = EdgeSum(ec, d, E) + One(d = q /\ <<u, v>> \in E)
        BY <1>1, <4>2, <4>3, EdgeSumAfter
      <4>4. QED
        BY <1>4, <4>3
    <3>3. QED
      BY <1>2, <1>7, <3>1, <3>2
  <2>6. QED
    BY <1>5, <2>3, <2>4, <2>5 DEF s
<1>8. QED
  BY <1>6, <1>7

LEMMA MoveBalanced ==
  ASSUME NEW p, NEW cs, NEW k, ContextTree(p, cs, k), EnteredByCalls(p), NEW nc, NEW ec, NEW xc, NEW at,
         Counting(p, cs, nc, ec, xc, at), NEW q, NEW u, NEW v, NEW nd, NEW ed, NEW au,
         Move(p, cs, nc, ec, at, q, u, v, nd, ed, au),
         NEW d \in 1 .. Len(cs), Seen(p, cs, d)
  PROVE  Balanced(p, cs, nd, ed, au, d)
<1> DEFINE s == Seen(p, cs, q)
           N(n) == Count(nc, <<d, n>>)
           M(n) == Count(nd, <<d, n>>)
           S(E) == EdgeSum(ec, d, E)
           T(E) == EdgeSum(ed, d, E)
           G == GraphOf(p, cs, d)
           I(n) == Into(p, cs, d, n)
           F(n) == From(p, cs, d, n)
<1>1. Balanced(p, cs, nc, ec, at, d) /\ Numbers(nc)
  BY DEF Counting
<1>2. SUFFICES ASSUME NEW n \in NodesIn(p, cs, d)
               PROVE  /\ n # G.start => M(n) = T(I(n))
                      /\ F(n) # {} => M(n) = T(F(n)) + One(au[d] = n)
  BY DEF Balanced
<1>3. /\ n # G.start => N(n) = S(I(n))
      /\ F(n) # {} => N(n) = S(F(n)) + One(at[d] = n)
  BY <1>1 DEF Balanced
<1>4. I(n) \in SUBSET G.edges /\ F(n) \in SUBSET G.edges
  BY DEF Into, From
<1>5. /\ M(n) = N(n) + One(s /\ d = q /\ n = v)
      /\ T(I(n)) = S(I(n)) + One(s /\ d = q /\ <<u, v>> \in I(n))
      /\ T(F(n)) = S(F(n)) + One(s /\ d = q /\ <<u, v>> \in F(n))
      /\ S(I(n)) \in Nat /\ S(F(n)) \in Nat /\ N(n) \in Nat
  BY <1>1, <1>4, MoveCounts DEF Numbers
<1>6. d = q => (<<u, v>> \in I(n) <=> n = v) /\ (<<u, v>> \in F(n) <=> n = u)
  BY DEF Into, From, Move
<1>7. CASE d = q
  <2>1. s /\ at[d] = u /\ au[d] = v
    BY <1>7 DEF Move
  <2>2. /\ M(n) = N(n) + One(n = v) /\ T(I(n)) = S(I(n)) + One(n = v)
        /\ T(F(n)) = S(F(n)) + One(n = u)
    BY <1>5, <1>6, <1>7, <2>1 DEF One
  <2>3. One(at[d] = n) = One(n = u) /\ One(au[d] = n) = One(n = v)
    BY <2>1 DEF One
  <2>4. One(n = u) \in Nat /\ One(n = v) \in Nat
    BY DEF One
  <2> HIDE DEF M, N, S, T, I, F
  <2>5. QED
    BY <1>3, <1>5, <2>2, <2>3, <2>4
<1>8. CASE d # q
  <2>1. M(n) = N(n) /\ T(I(n)) = S(I(n)) /\ T(F(n)) = S(F(n))
    BY <1>5, <1>8 DEF One
  <2>2. F(n) # {} => (au[d] = n <=> at[d] = n)
    <3>1. n # None
      BY GraphFacts
    <3>2. au[d] = at[d] \/ (au[d] = None /\ F(at[d]) = {})
      BY <1>8 DEF Move
    <3> HIDE DEF F
    <3>3. QED
      BY <3>1, <3>2
  <2>3. F(n) # {} => One(au[d] = n) = One(at[d] = n)
    BY <2>2 DEF One
  <2> HIDE DEF M, N, S, T, I, F
  <2>4. QED
    BY <1>3, <2>1, <2>3
<1>9. QED
  BY <1>7, <1>8

LEMMA MoveFirstOnce ==
  ASSUME NEW p, NEW cs, NEW k, ContextTree(p, cs, k), EnteredByCalls(p), NEW nc, NEW ec, NEW xc, NEW at,
         Counting(p, cs, nc, ec, xc, at), NEW q, NEW u, NEW v, NEW nd, NEW ed, NEW au,
         Move(p, cs, nc, ec, at, q, u, v, nd, ed, au),
         NEW d \in 1 .. Len(cs), Seen(p, cs, d)
  PROVE  FirstOnce(p, cs, ed, d)
<1> DEFINE a0 == Count(nc, <<q, u>>) = 1
           b0 == Count(nc, <<q, v>>) = 0
           k0 == <<q, u, v, a0, b0>>
           G == GraphOf(p, cs, d)
<1>1. FirstOnce(p, cs, ec, d) /\ Numbers(nc) /\ Numbers(ec) /\ Balanced(p, cs, nc, ec, at, d)
  BY DEF Counting
<1>2. SUFFICES ASSUME NEW e \in G.edges
               PROVE  /\ Count(ed, <<d, e[1], e[2], TRUE, TRUE>>) + Count(ed, <<d, e[1], e[2], TRUE, FALSE>>) <= 1
                      /\ Count(ed, <<d, e[1], e[2], TRUE, TRUE>>) + Count(ed, <<d, e[1], e[2], FALSE, TRUE>>) <= 1
  BY DEF FirstOnce
<1> DEFINE C(a, b) == Count(ec, <<d, e[1], e[2], a, b>>)
           D(a, b) == Count(ed, <<d, e[1], e[2], a, b>>)
           here == Seen(p, cs, q) /\ d = q /\ e = <<u, v>>
           c11 == C(TRUE, TRUE)
           c10 == C(TRUE, FALSE)
           c01 == C(FALSE, TRUE)
           d11 == D(TRUE, TRUE)
           d10 == D(TRUE, FALSE)
           d01 == D(FALSE, TRUE)
<1>13. \A j : Count(ec, j) \in Nat
  BY <1>1 DEF Numbers
<1>3. c11 + c10 <= 1 /\ c11 + c01 <= 1
  BY <1>1 DEF FirstOnce
<1>4. /\ c11 \in Nat /\ c10 \in Nat /\ c01 \in Nat
  BY <1>1 DEF Numbers
<1>5. e[1] \in NodesIn(p, cs, d) /\ e[2] \in NodesIn(p, cs, d) /\ e = <<e[1], e[2]>> /\ e[2] # G.start
  <2>1. G.edges \subseteq NodesIn(p, cs, d) \X NodesIn(p, cs, d) /\ e[2] # G.start
    BY GraphFacts
  <2>2. QED
    BY <2>1
<1>6. ASSUME NEW a, a \in BOOLEAN, NEW b, b \in BOOLEAN
      PROVE  D(a, b) = C(a, b) + One(here /\ a = a0 /\ b = b0)
  <2> DEFINE j == <<d, e[1], e[2], a, b>>
  <2>1. CASE ~ Seen(p, cs, q)
    <3>1. ed = ec /\ One(here /\ a = a0 /\ b = b0) = 0
      BY <2>1 DEF Move, One
    <3>2. Count(ec, j) \in Nat
      BY <1>1 DEF Numbers
    <3> HIDE DEF j
    <3>3. QED
      BY <3>1, <3>2 DEF j
  <2>2. CASE Seen(p, cs, q)
    <3>1. ed = Incremented(ec, k0)
      BY <2>2 DEF Move
    <3>2. Count(ed, j) = Count(ec, j) + One(j = k0)
      <4> HIDE DEF j, k0
      <4>1. QED
        BY <3>1, CountAfter
    <3>3. j = k0 <=> here /\ a = a0 /\ b = b0
      <4> HIDE DEF a0, b0
      <4>1. QED
        BY <1>5, <2>2
    <3>4. One(j = k0) = One(here /\ a = a0 /\ b = b0)
      <4> HIDE DEF j, k0, here, a0, b0
      <4>1. QED
        BY <3>3 DEF One
    <3>5. QED
      BY <3>2, <3>4
  <2>3. QED
    BY <2>1, <2>2
<1>7. here /\ a0 => c11 = 0 /\ c10 = 0 /\ c01 = 0
  <2>1. SUFFICES ASSUME here, a0
                 PROVE  c11 = 0 /\ c10 = 0 /\ c01 = 0
    BY Zenon
  <2> DEFINE E == From(p, cs, d, u)
  <2>2. e \in E /\ d = q /\ e[1] = u /\ at[d] = u
    BY <2>1 DEF From, Move
  <2>3. Count(nc, <<d, u>>) = EdgeSum(ec, d, E) + One(at[d] = u)
    BY <1>1, <1>5, <2>2 DEF Balanced
  <2>4. IsFiniteSet(E)
    BY GraphFacts, FS_Subset DEF From
  <2> HIDE DEF E
  <2>5. EdgeSum(ec, d, E) \in Nat
    BY <1>1, <2>4, EdgeSumTerms DEF Numbers
  <2>6. EdgeSum(ec, d, E) = 0
    BY <2>1, <2>2, <2>3, <2>5 DEF One
  <2>7. c11 <= 0 /\ c10 <= 0 /\ c01 <= 0
    <3>1. \A x \in E : \A a, b \in BOOLEAN : Count(ec, <<d, x[1], x[2], a, b>>) <= EdgeSum(ec, d, E)
      BY <1>13, <2>4, EdgeSumTerms, Zenon
    <3>2. \A a, b \in BOOLEAN : C(a, b) <= 0
      BY <2>2, <2>6, <3>1, Zenon
    <3> HIDE DEF C
    <3>3. TRUE \in BOOLEAN /\ FALSE \in BOOLEAN
      OBVIOUS
    <3>4. QED
      BY <3>2, <3>3, Zenon
  <2> HIDE DEF c11, c10, c01
  <2>8. QED
    BY <1>4, <2>7
<1>8. here /\ b0 => c11 = 0 /\ c10 = 0 /\ c01 = 0
  <2>1. SUFFICES ASSUME here, b0
                 PROVE  c11 = 0 /\ c10 = 0 /\ c01 = 0
    BY Zenon
  <2> DEFINE E == Into(p, cs, d, v)
  <2>2. e \in E /\ d = q /\ e[2] = v
    BY <2>1 DEF Into
  <2>3. Count(nc, <<d, v>>) = EdgeSum(ec, d, E)
    BY <1>1, <1>5, <2>2 DEF Balanced
  <2>4. IsFiniteSet(E)
    BY GraphFacts, FS_Subset DEF Into
  <2> HIDE DEF E
  <2>5. EdgeSum(ec, d, E) = 0
    BY <2>1, <2>2, <2>3
  <2>6. c11 <= 0 /\ c10 <= 0 /\ c01 <= 0
    <3>1. \A x \in E : \A a, b \in BOOLEAN : Count(ec, <<d, x[1], x[2], a, b>>) <= EdgeSum(ec, d, E)
      BY <1>13, <2>4, EdgeSumTerms, Zenon
    <3>2. \A a, b \in BOOLEAN : C(a, b) <= 0
      BY <2>2, <2>5, <3>1, Zenon
    <3> HIDE DEF C
    <3>3. TRUE \in BOOLEAN /\ FALSE \in BOOLEAN
      OBVIOUS
    <3>4. QED
      BY <3>2, <3>3, Zenon
  <2> HIDE DEF c11, c10, c01
  <2>7. QED
    BY <1>4, <2>6
<1> DEFINE t1 == One(here /\ a0 /\ b0)
           t2 == One(here /\ a0 /\ ~ b0)
           t3 == One(here /\ ~ a0 /\ b0)
<1>9. /\ d11 = c11 + t1
      /\ d10 = c10 + t2
      /\ d01 = c01 + t3
  <2>1. /\ t1 = One(here /\ TRUE = a0 /\ TRUE = b0)
        /\ t2 = One(here /\ TRUE = a0 /\ FALSE = b0)
        /\ t3 = One(here /\ FALSE = a0 /\ TRUE = b0)
    BY DEF One
  <2>2. TRUE \in BOOLEAN /\ FALSE \in BOOLEAN
    OBVIOUS
  <2> HIDE DEF t1, t2, t3, C, D, here, a0, b0
  <2>3. QED
    BY <1>6, <2>1, <2>2, Zenon
<1>10. /\ t1 \in {0, 1} /\ t2 \in {0, 1} /\ t3 \in {0, 1} /\ t1 + t2 <= 1 /\ t1 + t3 <= 1
       /\ (t1 # 0 => here /\ a0) /\ (t2 # 0 => here /\ a0) /\ (t3 # 0 => here /\ b0)
  <2>1. a0 \in BOOLEAN /\ b0 \in BOOLEAN /\ here \in BOOLEAN
    OBVIOUS
  <2> HIDE DEF here, a0, b0
  <2>2. CASE here /\ a0 /\ b0
    BY <2>2 DEF One
  <2>3. CASE here /\ a0 /\ ~ b0
    BY <2>3 DEF One
  <2>4. CASE here /\ ~ a0
    BY <2>4 DEF One
  <2>5. CASE ~ here
    BY <2>5 DEF One
  <2>6. QED
    BY <2>1, <2>2, <2>3, <2>4, <2>5
<1>11. d11 + d10 <= 1 /\ d11 + d01 <= 1
  <2> HIDE DEF c11, c10, c01, d11, d10, d01, here, a0, b0, t1, t2, t3
  <2>1. CASE t1 = 0 /\ t2 = 0 /\ t3 = 0
    BY <1>3, <1>4, <1>9, <2>1
  <2>2. CASE t1 # 0 \/ t2 # 0 \/ t3 # 0
    <3>1. c11 = 0 /\ c10 = 0 /\ c01 = 0
      BY <1>7, <1>8, <1>10, <2>2
    <3>2. QED
      BY <1>9, <1>10, <3>1
  <2>3. QED
    BY <2>1, <2>2
<1>12. QED
  BY <1>11

LEMMA MoveCalls ==
  ASSUME NEW p, NEW cs, NEW k, ContextTree(p, cs, k), EnteredByCalls(p), NEW nc, NEW ec, NEW xc, NEW at,
         Counting(p, cs, nc, ec, xc, at), NEW q, NEW u, NEW v, NEW nd, NEW ed, NEW au,
         Move(p, cs, nc, ec, at, q, u, v, nd, ed, au),
         NEW d \in 2 .. Len(cs)
  PROVE  CallsCounted(p, cs, nd, xc, au, d)
<1> DEFINE c == cs[d].caller
           n == cs[d].node
           start == GraphOf(p, cs, d).start
<1>1. CallsCounted(p, cs, nc, xc, at, d) /\ Numbers(nc) /\ Numbers(xc)
  BY DEF Counting
<1>2. /\ c \in 1 .. Len(cs) /\ c < d /\ n # None /\ n \in DOMAIN GraphOf(p, cs, c).callee
      /\ d \in 1 .. Len(cs)
  BY GraphFacts, ContextTypes
<1>3. CASE ~ Seen(p, cs, c)
  BY <1>1, <1>3 DEF CallsCounted
<1>4. CASE Seen(p, cs, c)
  <2>1. Called(p, cs, nc, xc, d) + One(at[c] = n /\ at[d] = None) = Count(nc, <<c, n>>)
    BY <1>1, <1>4 DEF CallsCounted
  <2>2. Count(nd, <<c, n>>) = Count(nc, <<c, n>>) + (IF Seen(p, cs, q) /\ c = q /\ n = v THEN 1 ELSE 0)
    BY <1>1, MoveNodes
  <2>3. Called(p, cs, nd, xc, d) = Called(p, cs, nc, xc, d) /\ Called(p, cs, nc, xc, d) \in Nat
    <3>1. Count(nd, <<d, start>>) = Count(nc, <<d, start>>) + (IF Seen(p, cs, q) /\ d = q /\ start = v THEN 1 ELSE 0)
      BY <1>1, MoveNodes
    <3>2. ~ (d = q /\ start = v)
      <4>1. <<u, v>> \in GraphOf(p, cs, q).edges /\ q \in 1 .. Len(cs)
        BY DEF Move
      <4>2. <<u, v>>[2] # GraphOf(p, cs, q).start
        BY <4>1, GraphFacts
      <4>3. QED
        BY <4>2
    <3>3. Count(nd, <<d, start>>) = Count(nc, <<d, start>>)
      <4>1. Count(nc, <<d, start>>) \in Nat
        BY <1>1 DEF Numbers
      <4>2. QED
        BY <3>1, <3>2, <4>1 DEF One
    <3>4. QED
      BY <1>1, <3>3 DEF Called, Numbers
  <2>4. One(au[c] = n /\ au[d] = None) =
          One(at[c] = n /\ at[d] = None) + (IF Seen(p, cs, q) /\ c = q /\ n = v THEN 1 ELSE 0)
    <3>1. CASE c = q
      <4>1. au[d] = None /\ (at[d] = None => n # u) /\ at[c] = u /\ au[c] = v
        BY <3>1 DEF Move
      <4>2. QED
        BY <1>4, <3>1, <4>1 DEF One
    <3>2. CASE c # q
      <4>1. au[c] = n /\ au[d] = None <=> at[c] = n /\ at[d] = None
        <5>1. au[c] = n <=> at[c] = n
          <6>1. au[c] = at[c] \/ (au[c] = None /\ at[c] \notin DOMAIN GraphOf(p, cs, c).callee)
            BY <1>2, <3>2 DEF Move
          <6>2. QED
            BY <1>2, <6>1
        <5>2. au[d] = None <=> at[d] = None
          <6>1. CASE d = q
            <7>1. at[d] = u /\ au[d] = v
              BY <6>1 DEF Move
            <7>2. u # None /\ v # None
              <8>1. q \in 1 .. Len(cs) /\ <<u, v>> \in GraphOf(p, cs, q).edges
                BY DEF Move
              <8>2. None \notin NodesIn(p, cs, q)
                    /\ GraphOf(p, cs, q).edges \subseteq NodesIn(p, cs, q) \X NodesIn(p, cs, q)
                BY <8>1, GraphFacts
              <8>3. QED
                BY <8>1, <8>2
            <7>3. QED
              BY <7>1, <7>2
          <6>2. CASE d # q
            BY <1>2, <3>2, <6>2 DEF Move
          <6>3. QED
            BY <6>1, <6>2
        <5>3. QED
          BY <5>1, <5>2
      <4>2. QED
        BY <3>2, <4>1 DEF One
    <3>3. QED
      BY <3>1, <3>2
  <2>5. One(at[c] = n /\ at[d] = None) \in Nat
    BY DEF One
  <2>6. Called(p, cs, nd, xc, d) + One(au[c] = n /\ au[d] = None) = Count(nd, <<c, n>>)
    <3> HIDE DEF c, n
    <3>1. QED
      BY <2>1, <2>2, <2>3, <2>4, <2>5
  <2>7. QED
    BY <1>4, <2>6 DEF CallsCounted
<1>5. QED
  BY <1>3, <1>4

LEMMA Moved ==
  ASSUME NEW p, NEW cs, NEW k, ContextTree(p, cs, k), EnteredByCalls(p), NEW nc, NEW ec, NEW xc, NEW at,
         Counting(p, cs, nc, ec, xc, at), NEW q, NEW u, NEW v, NEW nd, NEW ed, NEW au,
         Move(p, cs, nc, ec, at, q, u, v, nd, ed, au)
  PROVE  Counting(p, cs, nd, ed, xc, au)
<1>1. Numbers(nd) /\ Numbers(ed) /\ Numbers(xc)
  BY MoveCounts DEF Counting
<1>6. Numbers(nc)
  BY DEF Counting
<1>2. ASSUME NEW d \in 1 .. Len(cs)
      PROVE  IF Seen(p, cs, d) THEN Balanced(p, cs, nd, ed, au, d) /\ FirstOnce(p, cs, ed, d)
             ELSE Untouched(p, cs, nd, ed, d)
  <2>1. CASE Seen(p, cs, d)
    BY <2>1, MoveBalanced, MoveFirstOnce
  <2>2. CASE ~ Seen(p, cs, d)
    <3>1. Untouched(p, cs, nc, ec, d)
      BY <2>2 DEF Counting
    <3>2. CASE ~ Seen(p, cs, q)
      <4>1. nd = nc /\ ed = ec
        BY <3>2 DEF Move
      <4>2. QED
        BY <2>2, <3>1, <4>1
    <3>3. CASE Seen(p, cs, q)
      <4>1. d # q
        BY <2>2, <3>3
      <4>2. \A n : Count(nd, <<d, n>>) = Count(nc, <<d, n>>) + (IF Seen(p, cs, q) /\ d = q /\ n = v THEN 1 ELSE 0)
        BY <1>6, MoveNodes
      <4>3. ASSUME NEW n \in NodesIn(p, cs, d)
            PROVE  Count(nd, <<d, n>>) = 0
        BY <3>1, <4>1, <4>2 DEF Untouched, One
      <4>4. ASSUME NEW e \in GraphOf(p, cs, d).edges, NEW a, a \in BOOLEAN, NEW b, b \in BOOLEAN
            PROVE  Count(ed, <<d, e[1], e[2], a, b>>) = 0
        <5> DEFINE a0 == Count(nc, <<q, u>>) = 1
                   b0 == Count(nc, <<q, v>>) = 0
                   k0 == <<q, u, v, a0, b0>>
                   j == <<d, e[1], e[2], a, b>>
        <5>1. ed = Incremented(ec, k0)
          BY <3>3 DEF Move
        <5>2. Count(ed, j) = Count(ec, j) + One(j = k0)
          <6> HIDE DEF j, k0
          <6>1. QED
            BY <5>1, CountAfter
        <5>3. j # k0
          <6> HIDE DEF a0, b0
          <6>1. QED
            BY <4>1
        <5>4. Count(ec, j) = 0
          BY <3>1, <4>4, Zenon DEF Untouched
        <5> HIDE DEF j, k0
        <5>5. Count(ed, j) = 0
          BY <5>2, <5>3, <5>4 DEF One
        <5>6. QED
          BY <5>5 DEF j
      <4>5. QED
        BY <2>2, <4>3, <4>4 DEF Untouched
    <3>4. QED
      BY <3>2, <3>3
  <2>3. QED
    BY <2>1, <2>2
<1>3. \A d \in 2 .. Len(cs) : CallsCounted(p, cs, nd, xc, au, d)
  BY MoveCalls
<1>4. Count(nd, <<1, GraphOf(p, cs, 1).start>>) = 1
  <2> DEFINE start == GraphOf(p, cs, 1).start
  <2>1. Count(nd, <<1, start>>) = Count(nc, <<1, start>>) + (IF Seen(p, cs, q) /\ 1 = q /\ start = v THEN 1 ELSE 0)
    BY <1>6, MoveNodes
  <2>2. ~ (1 = q /\ start = v)
    <3>1. <<u, v>> \in GraphOf(p, cs, q).edges /\ q \in 1 .. Len(cs)
      BY DEF Move
    <3>2. <<u, v>>[2] # GraphOf(p, cs, q).start
      BY <3>1, GraphFacts
    <3>3. QED
      BY <3>2
  <2>3. Count(nc, <<1, start>>) = 1
    BY DEF Counting
  <2>4. QED
    BY <2>1, <2>2, <2>3 DEF One
<1>5. QED
  BY <1>1, <1>2, <1>3, <1>4 DEF Counting

(* A call from the context c of the call node to the context d of its      *)
(* callee.                                                                 *)
Annotated(p, cs, d) == cs[d].function \in DOMAIN p.wcet

Descent(p, cs, nc, xc, at, d, nd, xd, au) ==
  LET c == cs[d].caller
      start == GraphOf(p, cs, d).start
  IN  /\ d \in 2 .. Len(cs)
      /\ at[c] = cs[d].node /\ at[d] = None /\ au[d] = start
      /\ \A x \in (1 .. Len(cs)) \ {d} : au[x] = at[x]
      /\ \A x \in 2 .. Len(cs) : cs[x].caller = d => at[x] = None
      /\ IF Seen(p, cs, c) /\ Annotated(p, cs, d)
         THEN nd = nc /\ xd = Incremented(xc, d)
         ELSE xd = xc /\ nd = IF Seen(p, cs, d) THEN Incremented(nc, <<d, start>>) ELSE nc

LEMMA DescentNodes ==
  ASSUME NEW p, NEW cs, NEW k, ContextTree(p, cs, k), NEW nc, Numbers(nc), NEW xc, NEW at, NEW d, NEW nd,
         NEW xd, NEW au, Descent(p, cs, nc, xc, at, d, nd, xd, au), NEW x, NEW y
  PROVE  Count(nd, <<x, y>>) = Count(nc, <<x, y>>)
           + (IF Seen(p, cs, d) /\ x = d /\ y = GraphOf(p, cs, d).start THEN 1 ELSE 0)
<1> DEFINE start == GraphOf(p, cs, d).start
<1>1. d \in 2 .. Len(cs) /\ (Seen(p, cs, d) <=> Seen(p, cs, cs[d].caller) /\ ~ Annotated(p, cs, d))
  BY SeenFacts DEF Descent, Annotated
<1>2. Count(nc, <<x, y>>) \in Nat
  BY DEF Numbers
<1>3. CASE Seen(p, cs, d)
  <2>1. nd = Incremented(nc, <<d, start>>)
    BY <1>1, <1>3 DEF Descent
  <2>2. Count(nd, <<x, y>>) = Count(nc, <<x, y>>) + (IF <<x, y>> = <<d, start>> THEN 1 ELSE 0)
    BY <2>1, CountAfter DEF One
  <2>3. QED
    BY <1>3, <2>2
<1>4. CASE ~ Seen(p, cs, d)
  <2>1. nd = nc
    BY <1>4 DEF Descent
  <2>2. QED
    BY <1>2, <1>4, <2>1
<1>5. QED
  BY <1>3, <1>4

LEMMA DescentCalls ==
  ASSUME NEW p, NEW cs, NEW nc, NEW xc, Numbers(xc), NEW at, NEW d, NEW nd, NEW xd, NEW au,
         Descent(p, cs, nc, xc, at, d, nd, xd, au), NEW x
  PROVE  Count(xd, x) = Count(xc, x)
           + (IF Seen(p, cs, cs[d].caller) /\ Annotated(p, cs, d) /\ x = d THEN 1 ELSE 0)
<1>1. CASE Seen(p, cs, cs[d].caller) /\ Annotated(p, cs, d)
  <2>1. xd = Incremented(xc, d)
    BY <1>1 DEF Descent
  <2>2. Count(xd, x) = Count(xc, x) + (IF x = d THEN 1 ELSE 0)
    BY <2>1, CountAfter DEF One
  <2>3. QED
    BY <1>1, <2>2
<1>2. CASE ~ (Seen(p, cs, cs[d].caller) /\ Annotated(p, cs, d))
  <2>1. xd = xc /\ Count(xc, x) \in Nat
    BY <1>2 DEF Descent, Numbers
  <2>2. QED
    BY <1>2, <2>1
<1>3. QED
  BY <1>1, <1>2

LEMMA Descended ==
  ASSUME NEW p, NEW cs, NEW k, ContextTree(p, cs, k), EnteredByCalls(p), NEW nc, NEW ec, NEW xc, NEW at,
         Counting(p, cs, nc, ec, xc, at), NEW d, NEW nd, NEW xd, NEW au,
         Descent(p, cs, nc, xc, at, d, nd, xd, au)
  PROVE  Counting(p, cs, nd, ec, xd, au)
<1> DEFINE start == GraphOf(p, cs, d).start
           c == cs[d].caller
           N == Len(cs)
<1>1. Numbers(nc) /\ Numbers(ec) /\ Numbers(xc)
  BY DEF Counting
<1>2. /\ d \in 2 .. N /\ d \in 1 .. N /\ c \in 1 .. N /\ c < d /\ N \in Nat
      /\ (Seen(p, cs, d) <=> Seen(p, cs, c) /\ ~ Annotated(p, cs, d))
  BY SeenFacts, GraphFacts, ContextTypes DEF Descent, Annotated
<1>3. /\ at[c] = cs[d].node /\ at[d] = None /\ au[d] = start
      /\ \A x \in (1 .. N) \ {d} : au[x] = at[x]
      /\ \A x \in 2 .. N : cs[x].caller = d => at[x] = None
  BY DEF Descent
<1>4. None \notin NodesIn(p, cs, d) /\ start \in NodesIn(p, cs, d)
  BY <1>2, GraphFacts
<1>5. ASSUME NEW x, NEW y
      PROVE  /\ Count(nd, <<x, y>>) = Count(nc, <<x, y>>)
                  + (IF Seen(p, cs, d) /\ x = d /\ y = start THEN 1 ELSE 0)
             /\ Count(nc, <<x, y>>) \in Nat
  BY <1>1, DescentNodes DEF Numbers
<1>6. ASSUME NEW x
      PROVE  /\ Count(xd, x) = Count(xc, x)
                  + (IF Seen(p, cs, c) /\ Annotated(p, cs, d) /\ x = d THEN 1 ELSE 0)
             /\ Count(xc, x) \in Nat
  BY <1>1, DescentCalls DEF Numbers
<1>7. Numbers(nd) /\ Numbers(xd)
  <2>1. ASSUME NEW j
        PROVE  Count(nd, j) \in Nat
    <3>1. nd = nc \/ nd = Incremented(nc, <<d, start>>)
      BY DEF Descent
    <3>2. Count(Incremented(nc, <<d, start>>), j) = Count(nc, j) + One(j = <<d, start>>)
      BY CountAfter
    <3>3. QED
      BY <1>1, <3>1, <3>2 DEF Numbers, One
  <2>2. QED
    BY <1>6, <2>1 DEF Numbers
<1>8. ASSUME NEW x \in 1 .. N
      PROVE  IF Seen(p, cs, x) THEN Balanced(p, cs, nd, ec, au, x) /\ FirstOnce(p, cs, ec, x)
             ELSE Untouched(p, cs, nd, ec, x)
  <2>1. CASE Seen(p, cs, x)
    <3>1. Balanced(p, cs, nc, ec, at, x) /\ FirstOnce(p, cs, ec, x)
      BY <2>1 DEF Counting
    <3>2. ASSUME NEW n \in NodesIn(p, cs, x)
          PROVE  /\ n # GraphOf(p, cs, x).start => Count(nd, <<x, n>>) = EdgeSum(ec, x, Into(p, cs, x, n))
                 /\ From(p, cs, x, n) # {} =>
                      Count(nd, <<x, n>>) = EdgeSum(ec, x, From(p, cs, x, n)) + One(au[x] = n)
      <4>1. /\ n # GraphOf(p, cs, x).start => Count(nc, <<x, n>>) = EdgeSum(ec, x, Into(p, cs, x, n))
            /\ From(p, cs, x, n) # {} =>
                 Count(nc, <<x, n>>) = EdgeSum(ec, x, From(p, cs, x, n)) + One(at[x] = n)
        BY <3>1 DEF Balanced
      <4>2. EdgeSum(ec, x, From(p, cs, x, n)) \in Nat
        <5>1. IsFiniteSet(From(p, cs, x, n))
          BY GraphFacts, FS_Subset DEF From
        <5>2. QED
          BY <1>1, <5>1, EdgeSumTerms DEF Numbers
      <4>3. Count(nd, <<x, n>>) = Count(nc, <<x, n>>) + (IF Seen(p, cs, d) /\ x = d /\ n = start THEN 1 ELSE 0)
        BY <1>5
      <4>4. Count(nc, <<x, n>>) \in Nat
        BY <1>5
      <4>5. One(au[x] = n) = One(at[x] = n) + (IF Seen(p, cs, d) /\ x = d /\ n = start THEN 1 ELSE 0)
        BY <1>3, <1>4, <2>1 DEF One
      <4>6. One(at[x] = n) \in Nat
        BY DEF One
      <4>7. n # GraphOf(p, cs, x).start => ~ (x = d /\ n = start)
        OBVIOUS
      <4> HIDE DEF start
      <4>8. QED
        BY <4>1, <4>2, <4>3, <4>4, <4>5, <4>6, <4>7
    <3>3. QED
      BY <2>1, <3>1, <3>2 DEF Balanced
  <2>2. CASE ~ Seen(p, cs, x)
    <3>1. Untouched(p, cs, nc, ec, x)
      BY <2>2 DEF Counting
    <3>2. ASSUME NEW n \in NodesIn(p, cs, x)
          PROVE  Count(nd, <<x, n>>) = 0
      <4>1. Count(nc, <<x, n>>) = 0
        BY <3>1 DEF Untouched
      <4>2. Count(nd, <<x, n>>) = Count(nc, <<x, n>>) + (IF Seen(p, cs, d) /\ x = d /\ n = start THEN 1 ELSE 0)
        BY <1>5
      <4>3. QED
        BY <2>2, <4>1, <4>2
    <3>3. QED
      BY <2>2, <3>1, <3>2 DEF Untouched
  <2>3. QED
    BY <2>1, <2>2
<1>9. ASSUME NEW y \in 2 .. N
      PROVE  CallsCounted(p, cs, nd, xd, au, y)
  <2> DEFINE q == cs[y].caller
             n == cs[y].node
             here == GraphOf(p, cs, y).start
             annotated == cs[y].function \in DOMAIN p.wcet
  <2>1. CallsCounted(p, cs, nc, xc, at, y)
    BY DEF Counting
  <2>2. q \in 1 .. N /\ q < y /\ y \in 1 .. N
    BY <1>2, GraphFacts
  <2>3. /\ Count(nd, <<y, here>>) = Count(nc, <<y, here>>)
             + (IF Seen(p, cs, d) /\ y = d /\ here = start THEN 1 ELSE 0)
        /\ Count(nd, <<q, n>>) = Count(nc, <<q, n>>)
             + (IF Seen(p, cs, d) /\ q = d /\ n = start THEN 1 ELSE 0)
        /\ Count(nc, <<y, here>>) \in Nat /\ Count(nc, <<q, n>>) \in Nat
    BY <1>5
  <2>4. /\ Count(xd, y) = Count(xc, y)
             + (IF Seen(p, cs, c) /\ Annotated(p, cs, d) /\ y = d THEN 1 ELSE 0)
        /\ Count(xc, y) \in Nat
    BY <1>6
  <2>5. CASE ~ Seen(p, cs, q)
    <3>1. Count(xc, y) = 0 /\ ~ (y = d /\ Seen(p, cs, c))
      BY <2>1, <2>5 DEF CallsCounted
    <3>2. QED
      BY <2>4, <2>5, <3>1 DEF CallsCounted
  <2>6. CASE Seen(p, cs, q)
    <3>1. Called(p, cs, nc, xc, y) + One(at[q] = n /\ at[y] = None) = Count(nc, <<q, n>>)
      BY <2>1, <2>6 DEF CallsCounted
    <3>2. Called(p, cs, nd, xd, y) = Called(p, cs, nc, xc, y) + (IF y = d THEN 1 ELSE 0)
          /\ Called(p, cs, nc, xc, y) \in Nat
      <4>1. CASE annotated
        BY <2>4, <2>6, <4>1 DEF Called, Annotated
      <4>2. CASE ~ annotated
        BY <1>2, <2>3, <2>6, <4>2 DEF Called, Annotated
      <4>3. QED
        BY <4>1, <4>2
    <3>3. (IF y = d THEN 1 ELSE 0) + One(au[q] = n /\ au[y] = None)
            = One(at[q] = n /\ at[y] = None) + (IF Seen(p, cs, d) /\ q = d /\ n = start THEN 1 ELSE 0)
      <4>1. CASE y = d
        <5>1. q # d /\ at[q] = n /\ at[y] = None /\ au[y] # None
          BY <1>2, <1>3, <1>4, <4>1
        <5>2. QED
          BY <4>1, <5>1 DEF One
      <4>2. CASE y # d /\ q = d
        <5>1. at[q] = None /\ au[q] = start /\ au[y] = None /\ Seen(p, cs, d)
          BY <1>3, <2>2, <2>6, <4>2
        <5>2. n # None
          BY GraphFacts
        <5>3. QED
          BY <4>2, <5>1, <5>2 DEF One
      <4>3. CASE y # d /\ q # d
        <5>1. au[q] = at[q] /\ au[y] = at[y]
          BY <1>3, <2>2, <4>3
        <5>2. QED
          BY <4>3, <5>1 DEF One
      <4>4. QED
        BY <4>1, <4>2, <4>3
    <3>4. One(au[q] = n /\ au[y] = None) \in Nat /\ One(at[q] = n /\ at[y] = None) \in Nat
      BY DEF One
    <3>5. Called(p, cs, nd, xd, y) + One(au[q] = n /\ au[y] = None) = Count(nd, <<q, n>>)
      <4> HIDE DEF q, n, start
      <4>1. QED
        BY <2>3, <3>1, <3>2, <3>3, <3>4
    <3>6. QED
      BY <2>6, <3>5 DEF CallsCounted
  <2>7. QED
    BY <2>5, <2>6
<1>10. Count(nd, <<1, GraphOf(p, cs, 1).start>>) = 1
  <2>1. Count(nc, <<1, GraphOf(p, cs, 1).start>>) = 1
    BY DEF Counting
  <2>2. Count(nd, <<1, GraphOf(p, cs, 1).start>>) = Count(nc, <<1, GraphOf(p, cs, 1).start>>)
          + (IF Seen(p, cs, d) /\ 1 = d /\ GraphOf(p, cs, 1).start = start THEN 1 ELSE 0)
    BY <1>5
  <2>3. 1 # d
    BY <1>2
  <2>4. QED
    BY <2>1, <2>2, <2>3
<1>11. QED
  BY <1>1, <1>7, <1>8, <1>9, <1>10 DEF Counting

(* The beginning of an execution.                                          *)
LEMMA Started ==
  ASSUME NEW p, NEW cs, NEW k, ContextTree(p, cs, k), EnteredByCalls(p), NEW nd, NEW at,
         nd = Incremented(<<>>, <<1, GraphOf(p, cs, 1).start>>), at[1] = GraphOf(p, cs, 1).start,
         \A x \in 2 .. Len(cs) : at[x] = None
  PROVE  Counting(p, cs, nd, <<>>, <<>>, at)
<1> DEFINE start == GraphOf(p, cs, 1).start
           N == Len(cs)
<1>1. \A j : Count(<<>>, j) = 0
  BY DEF Count
<1>2. \A j : Count(nd, j) = (IF j = <<1, start>> THEN 1 ELSE 0)
  <2> HIDE DEF start
  <2>1. \A j : Count(nd, j) = Count(<<>>, j) + One(j = <<1, start>>)
    BY CountAfter DEF start
  <2>2. QED
    BY <1>1, <2>1 DEF One
<1>3. Numbers(nd) /\ Numbers(<<>>)
  BY <1>1, <1>2 DEF Numbers
<1>4. N \in Nat \ {0}
  BY ContextTypes
<1>5. Seen(p, cs, 1)
  BY SeenFacts DEF EnteredByCalls
<1>6. ASSUME NEW x \in 1 .. N
      PROVE  IF Seen(p, cs, x) THEN Balanced(p, cs, nd, <<>>, at, x) /\ FirstOnce(p, cs, <<>>, x)
             ELSE Untouched(p, cs, nd, <<>>, x)
  <2>1. ASSUME NEW E \in SUBSET GraphOf(p, cs, x).edges
        PROVE  EdgeSum(<<>>, x, E) = 0
    <3>1. IsFiniteSet(E)
      BY GraphFacts, FS_Subset
    <3>2. \A j : Count(<<>>, j) \in Nat
      BY <1>1
    <3>3. \A e \in E : \A a, b \in BOOLEAN : Count(<<>>, <<x, e[1], e[2], a, b>>) = 0
      BY <1>1, Zenon
    <3>4. QED
      BY <3>1, <3>2, <3>3, EdgeSumTerms, Zenon
  <2>2. ASSUME NEW n \in NodesIn(p, cs, x)
        PROVE  Count(nd, <<x, n>>) = IF x = 1 /\ n = start THEN 1 ELSE 0
    BY <1>2
  <2>3. Balanced(p, cs, nd, <<>>, at, x)
    <3>1. ASSUME NEW n \in NodesIn(p, cs, x)
          PROVE  /\ n # GraphOf(p, cs, x).start => Count(nd, <<x, n>>) = EdgeSum(<<>>, x, Into(p, cs, x, n))
                 /\ From(p, cs, x, n) # {} =>
                      Count(nd, <<x, n>>) = EdgeSum(<<>>, x, From(p, cs, x, n)) + One(at[x] = n)
      <4>1. EdgeSum(<<>>, x, Into(p, cs, x, n)) = 0 /\ EdgeSum(<<>>, x, From(p, cs, x, n)) = 0
        BY <2>1 DEF Into, From
      <4>2. Count(nd, <<x, n>>) = One(at[x] = n)
        <5>1. n # None
          BY GraphFacts
        <5>2. CASE x = 1
          BY <2>2, <5>2 DEF One
        <5>3. CASE x # 1
          <6>1. at[x] = None
            BY <1>4, <5>3
          <6>2. QED
            BY <2>2, <5>1, <5>3, <6>1 DEF One
        <5>4. QED
          BY <5>2, <5>3
      <4>3. n # GraphOf(p, cs, x).start => Count(nd, <<x, n>>) = 0
        BY <2>2
      <4>4. One(at[x] = n) \in Nat
        BY DEF One
      <4>5. QED
        BY <4>1, <4>2, <4>3, <4>4
    <3>2. QED
      BY <3>1 DEF Balanced
  <2>4. FirstOnce(p, cs, <<>>, x)
    <3>1. \A j : Count(<<>>, j) + Count(<<>>, j) <= 1 /\ Count(<<>>, j) = 0
      BY <1>1
    <3>2. ASSUME NEW e \in GraphOf(p, cs, x).edges
          PROVE  /\ Count(<<>>, <<x, e[1], e[2], TRUE, TRUE>>) + Count(<<>>, <<x, e[1], e[2], TRUE, FALSE>>) <= 1
                 /\ Count(<<>>, <<x, e[1], e[2], TRUE, TRUE>>) + Count(<<>>, <<x, e[1], e[2], FALSE, TRUE>>) <= 1
      <4> DEFINE c11 == Count(<<>>, <<x, e[1], e[2], TRUE, TRUE>>)
                 c10 == Count(<<>>, <<x, e[1], e[2], TRUE, FALSE>>)
                 c01 == Count(<<>>, <<x, e[1], e[2], FALSE, TRUE>>)
      <4>1. c11 = 0 /\ c10 = 0 /\ c01 = 0
        BY <3>1, Zenon
      <4> HIDE DEF c11, c10, c01
      <4>2. c11 + c10 <= 1 /\ c11 + c01 <= 1
        BY <4>1
      <4>3. QED
        BY <4>2 DEF c11, c10, c01
    <3>3. QED
      BY <3>2 DEF FirstOnce
  <2>5. CASE ~ Seen(p, cs, x)
    <3>1. x # 1
      BY <1>5, <2>5
    <3>2. \A n \in NodesIn(p, cs, x) : Count(nd, <<x, n>>) = 0
      BY <2>2, <3>1
    <3>3. \A e \in GraphOf(p, cs, x).edges : \A a, b \in BOOLEAN :
             Count(<<>>, <<x, e[1], e[2], a, b>>) = 0
      BY <1>1, Zenon
    <3>4. QED
      BY <2>5, <3>2, <3>3, Zenon DEF Untouched
  <2>6. QED
    BY <2>3, <2>4, <2>5
<1>7. ASSUME NEW y \in 2 .. N
      PROVE  CallsCounted(p, cs, nd, <<>>, at, y)
  <2> DEFINE q == cs[y].caller
             n == cs[y].node
  <2>1. q \in 1 .. N /\ n # None /\ at[y] = None
    BY GraphFacts
  <2>2. Called(p, cs, nd, <<>>, y) = 0
    BY <1>1, <1>2, <1>4 DEF Called
  <2>3. Count(nd, <<q, n>>) = IF q = 1 /\ n = start THEN 1 ELSE 0
    BY <1>2
  <2>4. One(at[q] = n /\ at[y] = None) = Count(nd, <<q, n>>)
    <3>1. CASE q = 1
      BY <2>1, <2>3, <3>1 DEF One
    <3>2. CASE q # 1
      <4>1. at[q] = None
        BY <1>4, <2>1, <3>2
      <4>2. QED
        BY <2>1, <2>3, <3>2, <4>1 DEF One
    <3>3. QED
      BY <3>1, <3>2
  <2>5. One(at[q] = n /\ at[y] = None) \in Nat
    BY DEF One
  <2>6. Called(p, cs, nd, <<>>, y) + One(at[q] = n /\ at[y] = None) = Count(nd, <<q, n>>)
    BY <2>2, <2>4, <2>5
  <2>7. QED
    BY <1>1, <2>6 DEF CallsCounted
<1>8. Count(nd, <<1, start>>) = 1
  BY <1>2
<1>9. QED
  BY <1>3, <1>6, <1>7, <1>8 DEF Counting
-----------------------------------------------------------------------------
(* The nodes under execution: n in context c, and in the contexts above    *)
(* the calls that led there.                                               *)
Following(cs, at, c, n) ==
  /\ c \in 1 .. Len(cs) /\ at[c] = n
  /\ \A b \in 1 .. Len(cs) : at[b] # None => b \in Anc(cs, c) /\ (b # 1 => at[cs[b].caller] = cs[b].node)

CountedMove(p, cs, nc, ec, q, u, v, nd, ed) ==
  IF Seen(p, cs, q)
  THEN /\ nd = Incremented(nc, <<q, v>>)
       /\ ed = Incremented(ec, <<q, u, v, Count(nc, <<q, u>>) = 1, Count(nc, <<q, v>>) = 0>>)
  ELSE nd = nc /\ ed = ec

LEMMA FollowBranch ==
  ASSUME NEW p, NEW cs, NEW k, ContextTree(p, cs, k), EnteredByCalls(p),
         NEW at, NEW c, NEW u, Following(cs, at, c, u), NEW v, <<u, v>> \in GraphOf(p, cs, c).edges,
         u \notin DOMAIN GraphOf(p, cs, c).callee,
         NEW nc, NEW ec, NEW nd, NEW ed, CountedMove(p, cs, nc, ec, c, u, v, nd, ed),
         NEW au, au = [x \in 1 .. Len(cs) |-> IF x = c THEN v ELSE at[x]]
  PROVE  Following(cs, au, c, v) /\ Move(p, cs, nc, ec, at, c, u, v, nd, ed, au)
<1> DEFINE N == Len(cs)
<1>1. /\ N \in Nat /\ c \in 1 .. N /\ at[c] = u
      /\ \A b \in 1 .. N : at[b] # None => b \in Anc(cs, c) /\ (b # 1 => at[cs[b].caller] = cs[b].node)
  BY ContextTypes DEF Following
<1>2. \A b \in 1 .. N : au[b] = IF b = c THEN v ELSE at[b]
  OBVIOUS
<1>3. \A d \in 2 .. N : cs[d].caller \in 1 .. N /\ cs[d].caller < d
  BY GraphFacts
<1>4. Anc(cs, c) \subseteq 1 .. c /\ c \in Anc(cs, c)
  BY <1>1, AncestorFacts
<1>5. u # None /\ v # None
  BY <1>1, GraphFacts
<1> HIDE DEF N
<1>6. Following(cs, au, c, v)
  <2>1. ASSUME NEW b \in 1 .. N, au[b] # None
        PROVE  b \in Anc(cs, c) /\ (b # 1 => au[cs[b].caller] = cs[b].node)
    <3>1. at[b] # None
      BY <1>1, <1>2, <1>5, <2>1
    <3>2. b \in Anc(cs, c) /\ b <= c
      BY <1>1, <1>4, <3>1
    <3>3. b # 1 => cs[b].caller \in 1 .. N /\ cs[b].caller # c
      BY <1>1, <1>3, <3>2
    <3>4. QED
      BY <1>1, <1>2, <3>1, <3>2, <3>3
  <2>2. QED
    BY <1>1, <1>2, <2>1 DEF Following, N
<1>7. ASSUME NEW d \in 2 .. N, cs[d].caller = c
      PROVE  au[d] = None /\ (at[d] = None => cs[d].node # u)
  <2>1. d \in 1 .. N /\ d # c /\ d \notin Anc(cs, c)
    BY <1>1, <1>3, <1>4, <1>7
  <2>2. cs[d].node # u
    BY <1>7, GraphFacts DEF N
  <2>3. QED
    BY <1>1, <1>2, <2>1, <2>2
<1>8. Move(p, cs, nc, ec, at, c, u, v, nd, ed, au)
  BY <1>1, <1>2, <1>7 DEF Move, CountedMove, N
<1>9. QED
  BY <1>6, <1>8

LEMMA FollowReturn ==
  ASSUME NEW p, NEW cs, NEW k, ContextTree(p, cs, k), EnteredByCalls(p),
         NEW at, NEW c, NEW n, Following(cs, at, c, n), c # 1, n # None,
         n \in GraphOf(p, cs, c).ends, n \notin DOMAIN GraphOf(p, cs, c).callee,
         NEW q, q = cs[c].caller, NEW u, u = cs[c].node, NEW v, <<u, v>> \in GraphOf(p, cs, q).edges,
         NEW nc, NEW ec, NEW nd, NEW ed, CountedMove(p, cs, nc, ec, q, u, v, nd, ed),
         NEW au, au = [x \in 1 .. Len(cs) |-> IF x = c THEN None ELSE IF x = q THEN v ELSE at[x]]
  PROVE  Following(cs, au, q, v) /\ Move(p, cs, nc, ec, at, q, u, v, nd, ed, au)
<1> DEFINE N == Len(cs)
<1>1. /\ N \in Nat /\ c \in 2 .. N /\ at[c] = n /\ c \in 1 .. N
      /\ \A b \in 1 .. N : at[b] # None => b \in Anc(cs, c) /\ (b # 1 => at[cs[b].caller] = cs[b].node)
  BY ContextTypes DEF Following
<1>2. \A b \in 1 .. N : au[b] = IF b = c THEN None ELSE IF b = q THEN v ELSE at[b]
  OBVIOUS
<1>3. \A d \in 2 .. N : cs[d].caller \in 1 .. N /\ cs[d].caller < d
  BY GraphFacts
<1>4. q \in 1 .. N /\ q < c /\ q # c
  BY <1>1, <1>3
<1>5. Anc(cs, c) = {c} \cup Anc(cs, q) /\ Anc(cs, q) \subseteq 1 .. q /\ q \in Anc(cs, q)
  BY <1>1, <1>4, AncestorFacts
<1>6. at[q] = u /\ v # None
  <2>1. at[q] = u
    BY <1>1
  <2>2. v # None
    BY <1>4, GraphFacts
  <2>3. QED
    BY <2>1, <2>2
<1> HIDE DEF N
<1>7. Following(cs, au, q, v)
  <2>1. ASSUME NEW b \in 1 .. N, au[b] # None
        PROVE  b \in Anc(cs, q) /\ (b # 1 => au[cs[b].caller] = cs[b].node)
    <3>1. b # c /\ b \in Anc(cs, q)
      BY <1>1, <1>2, <1>5, <2>1
    <3>2. b <= q /\ b < c
      BY <1>1, <1>4, <1>5, <3>1
    <3>3. CASE b = 1
      BY <3>1, <3>3
    <3>4. CASE b # 1
      <4>1. b \in 2 .. N /\ cs[b].caller \in 1 .. N /\ cs[b].caller # c /\ cs[b].caller # q
        BY <1>3, <1>4, <3>2, <3>4
      <4>2. at[b] # None
        BY <1>2, <1>6, <2>1, <3>1, GraphFacts DEF N
      <4>3. QED
        BY <1>1, <1>2, <3>1, <4>1, <4>2
    <3>5. QED
      BY <3>3, <3>4
  <2>2. QED
    BY <1>2, <1>4, <2>1 DEF Following, N
<1>8. ASSUME NEW d \in 2 .. N, cs[d].caller = q
      PROVE  au[d] = None /\ (at[d] = None => cs[d].node # u)
  <2>1. CASE d = c
    BY <1>1, <1>2, <2>1
  <2>2. CASE d # c
    <3>1. d \in 1 .. N /\ d # q /\ d \notin Anc(cs, c)
      BY <1>1, <1>3, <1>4, <1>5, <1>8, <2>2
    <3>2. cs[d].node # u
      BY <1>1, <1>8, <2>2, GraphFacts DEF N
    <3>3. QED
      BY <1>1, <1>2, <2>2, <3>1, <3>2
  <2>3. QED
    BY <2>1, <2>2
<1>9. From(p, cs, c, n) = {}
  BY <1>1, GraphFacts DEF From, N
<1>10. \A x \in (1 .. N) \ {q} :
         \/ au[x] = at[x]
         \/ /\ x \in 2 .. N /\ cs[x].caller = q /\ au[x] = None
            /\ at[x] # None /\ From(p, cs, x, at[x]) = {}
            /\ at[x] \notin DOMAIN GraphOf(p, cs, x).callee
  BY <1>1, <1>2, <1>4, <1>9
<1>11. Move(p, cs, nc, ec, at, q, u, v, nd, ed, au)
  BY <1>2, <1>4, <1>6, <1>8, <1>10 DEF Move, CountedMove, N
<1>12. QED
  BY <1>7, <1>11

LEMMA FollowCall ==
  ASSUME NEW p, NEW cs, NEW k, ContextTree(p, cs, k),
         NEW at, NEW d \in 2 .. Len(cs), Following(cs, at, cs[d].caller, cs[d].node), EnteredByCalls(p),
         NEW au, au = [x \in 1 .. Len(cs) |-> IF x = d THEN GraphOf(p, cs, d).start ELSE at[x]]
  PROVE  /\ Following(cs, au, d, GraphOf(p, cs, d).start)
         /\ at[cs[d].caller] = cs[d].node /\ at[d] = None /\ au[d] = GraphOf(p, cs, d).start
         /\ \A x \in (1 .. Len(cs)) \ {d} : au[x] = at[x]
         /\ \A x \in 2 .. Len(cs) : cs[x].caller = d => at[x] = None
<1> DEFINE N == Len(cs)
           c == cs[d].caller
           start == GraphOf(p, cs, d).start
<1>1. /\ N \in Nat /\ c \in 1 .. N /\ at[c] = cs[d].node /\ d \in 1 .. N
      /\ \A b \in 1 .. N : at[b] # None => b \in Anc(cs, c) /\ (b # 1 => at[cs[b].caller] = cs[b].node)
  BY ContextTypes DEF Following
<1>2. \A b \in 1 .. N : au[b] = IF b = d THEN start ELSE at[b]
  OBVIOUS
<1>3. \A x \in 2 .. N : cs[x].caller \in 1 .. N /\ cs[x].caller < x
  BY GraphFacts
<1>4. Anc(cs, d) = {d} \cup Anc(cs, c) /\ Anc(cs, c) \subseteq 1 .. c /\ c < d
  BY <1>1, <1>3, AncestorFacts
<1> HIDE DEF N, start
<1>5. at[d] = None
  BY <1>1, <1>4
<1>6. ASSUME NEW x \in 2 .. N, cs[x].caller = d
      PROVE  at[x] = None
  BY <1>1, <1>3, <1>4, <1>6
<1>7. ASSUME NEW b \in 1 .. N, au[b] # None
      PROVE  b \in Anc(cs, d) /\ (b # 1 => au[cs[b].caller] = cs[b].node)
  <2>1. CASE b = d
    BY <1>1, <1>2, <1>4, <2>1
  <2>2. CASE b # d
    <3>1. at[b] # None /\ b \in Anc(cs, c) /\ b < d
      BY <1>1, <1>2, <1>4, <1>7, <2>2
    <3>2. b # 1 => cs[b].caller \in 1 .. N /\ cs[b].caller # d
      BY <1>1, <1>3, <3>1
    <3>3. QED
      BY <1>1, <1>2, <1>4, <3>1, <3>2
  <2>3. QED
    BY <2>1, <2>2
<1>8. Following(cs, au, d, start)
  BY <1>1, <1>2, <1>7 DEF Following, N
<1>9. QED
  BY <1>1, <1>2, <1>5, <1>6, <1>8 DEF N, start
-----------------------------------------------------------------------------
(* The loops of a graph and their iterations.  The edges that stay in the  *)
(* iteration, the nodes an execution at u may still come to within it, and *)
(* the nodes whose executions the linear program bounds.                   *)
Continuing(g, l) == {e \in Among(g.edges, l.nodes) : ~ Begins(g, l, e[1], e[2])}
Ahead(g, l, u) == Reachable(Continuing(g, l), Successors(Continuing(g, l), u))
Entries(g, l) == {e \in g.edges : e[2] = l.head /\ e[1] \notin l.nodes}
Constrained(g, l, n) ==
  LET own == GetAllNodesNotNested(g, l)
  IN  n \in own /\ (BBLoopMustBeConstrained(g, l, n) \/ own = {l.head})

Bounded(g) ==
  /\ Pairs(g.edges) /\ \A e \in g.edges : e[2] # g.start
  /\ Reducible(g.edges, g.start)
  /\ g.maxiter \in [LoopHeads(g.edges, g.start) -> Nat]
  /\ \A l \in Loops(g) : GetAllNodesNotNested(g, l) = {l.head} => Tests(g, l) = {}

LEMMA BoundedLoop ==
  ASSUME NEW g, Bounded(g), NEW l \in Loops(g)
  PROVE  /\ l.head \in LoopHeads(g.edges, g.start) /\ l.nodes = LoopOf(g.edges, g.start, l.head)
         /\ l.head \in l.nodes /\ l.maxiter \in Nat
         /\ \A k \in Loops(g) : k.head = l.head => k = l
         /\ g.start \notin l.nodes
         /\ \A e \in g.edges : e[1] \notin l.nodes /\ e[2] \in l.nodes => e[2] = l.head
         /\ \A n \in l.nodes : \E e \in g.edges : n = e[1] \/ n = e[2]
<1> DEFINE E == g.edges
           s == g.start
<1>1. PICK h \in LoopHeads(E, s) : l = [head |-> h, maxiter |-> g.maxiter[h], nodes |-> LoopOf(E, s, h)]
  BY DEF Loops, Bounded
<1>2. l.head = h /\ l.maxiter \in Nat /\ l.nodes = LoopOf(E, s, h) /\ h \in l.nodes
  BY <1>1 DEF Bounded, LoopOf
<1>3. \A k \in Loops(g) : k.head = h => k = l
  BY <1>1 DEF Loops
<1>4. Pairs(E) /\ h # s
  BY DEF Bounded, LoopHeads, BackEdges
<1>5. s \notin LoopOf(E, s, h)
  <2>1. s \in Reachable(Without(E, h), {s})
    BY <1>4, WithoutFinite, ReachableStart DEF Pairs
  <2>2. QED
    BY <1>4, <2>1, LoopDominated
<1>6. \A e \in E : e[1] \notin LoopOf(E, s, h) /\ e[2] \in LoopOf(E, s, h) => e[2] = h
  BY <1>4, LoopBackward
<1>7. \A n \in LoopOf(E, s, h) : \E e \in E : n = e[1] \/ n = e[2]
  BY <1>4, LoopNodes
<1>8. QED
  BY <1>2, <1>3, <1>5, <1>6, <1>7

(* The tests are in the loop, the head among them; they are not            *)
(* constrained.                                                            *)
LEMMA TestFacts ==
  ASSUME NEW g, Bounded(g), NEW l \in Loops(g)
  PROVE  /\ Tests(g, l) \subseteq l.nodes /\ (Tests(g, l) # {} => l.head \in Tests(g, l))
         /\ \A n : Constrained(g, l, n) => n \in l.nodes /\ n \notin Tests(g, l)
<1> DEFINE tests == {n \in l.nodes : CanLeave(g, l, n) /\ (n = l.head \/ ~ IsLatch(g, l, n))}
           D == {e \in g.edges : e[1] \in tests /\ e[2] \in tests}
           T == Tests(g, l)
<1>1. IsFiniteSet(D)
  BY FS_Subset DEF Bounded, Pairs
<1>2. T = IF l.nodes = {l.head} \/ l.head \notin tests THEN {} ELSE Reachable(D, {l.head})
  BY DEF Tests
<1>3. T \subseteq tests /\ (T # {} => l.head \in T)
  <2>1. CASE l.nodes = {l.head} \/ l.head \notin tests
    BY <1>2, <2>1
  <2>2. CASE l.nodes # {l.head} /\ l.head \in tests
    <3>1. {l.head} \subseteq tests /\ \A e \in D : e[1] \in tests => e[2] \in tests
      BY <2>2
    <3>2. T = Reachable(D, {l.head})
      BY <1>2, <2>2
    <3> HIDE DEF D, tests
    <3>3. QED
      BY <1>1, <3>1, <3>2, ReachableLeast, ReachableStart
  <2>3. QED
    BY <2>1, <2>2
<1>4. ASSUME NEW n, Constrained(g, l, n)
      PROVE  n \in l.nodes /\ n \notin T
  <2>1. n \in l.nodes
    BY <1>4 DEF Constrained, GetAllNodesNotNested
  <2>2. CASE BBLoopMustBeConstrained(g, l, n)
    <3>1. n \notin tests
      BY <2>2 DEF BBLoopMustBeConstrained
    <3>2. QED
      BY <1>3, <2>1, <3>1
  <2>3. CASE GetAllNodesNotNested(g, l) = {l.head}
    BY <2>1, <2>3 DEF Bounded
  <2>4. QED
    BY <1>4, <2>1, <2>2, <2>3 DEF Constrained
<1>5. QED
  BY <1>3, <1>4

(* What lies ahead gets less along an edge of the iteration.               *)
LEMMA AheadLess ==
  ASSUME NEW g, Bounded(g), NEW l \in Loops(g), NEW u, NEW v, <<u, v>> \in g.edges,
         u \in l.nodes, v \in l.nodes, ~ Begins(g, l, u, v)
  PROVE  v \in Ahead(g, l, u) /\ Ahead(g, l, v) \subseteq Ahead(g, l, u)
<1> DEFINE C == Continuing(g, l)
           A == Ahead(g, l, u)
           S == Successors(C, v)
           e == <<u, v>>
<1>1. IsFiniteSet(C)
  BY FS_Subset DEF Continuing, Among, Bounded, Pairs
<1>2. e \in C /\ e[1] = u /\ e[2] = v
  BY DEF Continuing, Among
<1>3. v \in Successors(C, u)
  BY <1>2 DEF Successors
<1>4. v \in A
  BY <1>1, <1>3, ReachableStart DEF Ahead
<1>5. \A x \in C : x[1] \in A => x[2] \in A
  BY <1>1, ReachableClosed DEF Ahead
<1>6. S \subseteq A
  BY <1>4, <1>5 DEF Successors
<1>7. Reachable(C, S) \subseteq A
  <2> HIDE DEF A, C, S
  <2>1. QED
    BY <1>1, <1>5, <1>6, ReachableLeast
<1>8. QED
  BY <1>4, <1>7 DEF Ahead

(* Nothing that is constrained lies ahead of the test: an iteration begins *)
(* where the tests are left.                                               *)
LEMMA AheadOfHead ==
  ASSUME NEW g, Bounded(g), NEW l \in Loops(g), Tests(g, l) # {}, NEW n, Constrained(g, l, n)
  PROVE  n \notin Ahead(g, l, l.head)
<1> DEFINE C == Continuing(g, l)
           T == Tests(g, l)
           S == Successors(C, l.head)
<1>1. IsFiniteSet(C)
  BY FS_Subset DEF Continuing, Among, Bounded, Pairs
<1>2. \A e \in C : e[1] \in T => e[2] \in T
  BY DEF Continuing, Among, Begins
<1>3. S \subseteq T
  BY <1>2, TestFacts DEF Successors
<1>4. Reachable(C, S) \subseteq T
  <2> HIDE DEF C, S, T
  <2>1. QED
    BY <1>1, <1>2, <1>3, ReachableLeast
<1>5. QED
  BY <1>4, TestFacts DEF Ahead

(* No iteration comes to a constrained node twice: a cycle that does not   *)
(* begin an iteration is in a loop nested in this one.                     *)
LEMMA AheadOnce ==
  ASSUME NEW g, Bounded(g), NEW l \in Loops(g), NEW n, Constrained(g, l, n),
         n \in Reachable(g.edges, {g.start})
  PROVE  n \notin Ahead(g, l, n)
<1> DEFINE C == Continuing(g, l)
           T == Tests(g, l)
           h == l.head
           G == Among(g.edges, l.nodes \ {h})
           SC == Successors(C, n)
           SG == Successors(G, n)
           R == Reachable(G, SG)
           W == R \cup T
<1>1. IsFiniteSet(C) /\ IsFiniteSet(G)
  BY FS_Subset DEF Continuing, Among, Bounded, Pairs
<1>2. n \in l.nodes /\ n \notin T /\ T \subseteq l.nodes /\ (T # {} => h \in T)
  BY TestFacts
<1>3. CASE n = h
  <2>1. T = {}
    BY <1>2, <1>3
  <2>2. \A e \in C : e[2] # h
    BY <2>1 DEF Continuing, Begins
  <2>3. n \in Reachable(C, SC) => \E e \in C : e[2] = n
    BY <1>1, LastEdge
  <2>4. QED
    BY <1>3, <2>2, <2>3 DEF Ahead
<1>4. CASE n # h
  <2>1. R \subseteq l.nodes \ {h} /\ SG \subseteq R /\ \A e \in G : e[1] \in R => e[2] \in R
    <3>1. R \subseteq l.nodes \ {h}
      <4> DEFINE I == l.nodes \ {h}
      <4>1. SG \subseteq I
        BY DEF Successors, Among
      <4>2. \A e \in G : e[1] \in I => e[2] \in I
        BY DEF Among
      <4> HIDE DEF I, G, SG
      <4>3. R \subseteq I
        BY <1>1, <4>1, <4>2, ReachableLeast
      <4>4. QED
        BY <4>3 DEF I
    <3>2. QED
      BY <1>1, <3>1, ReachableStart, ReachableClosed
  <2>2. ASSUME NEW e \in C
        PROVE  /\ e[1] \in T => e[2] \in T
               /\ e[1] # h => e[2] \in T \/ e \in G
    <3>1. e \in g.edges /\ e[1] \in l.nodes /\ e[2] \in l.nodes /\ ~ Begins(g, l, e[1], e[2])
      BY DEF Continuing, Among
    <3>2. e[1] \in T => e[2] \in T
      BY <3>1 DEF Begins
    <3>3. e[2] # h /\ e[1] # h => e \in G
      BY <3>1 DEF Among
    <3>4. e[2] = h => h \in T
      BY <1>2, <3>1 DEF Begins
    <3>5. QED
      BY <3>2, <3>3, <3>4
  <2> HIDE DEF C, T, G
  <2>3. SC \subseteq W
    <3>1. ASSUME NEW e \in C, e[1] = n
          PROVE  e[2] \in W
      BY <1>4, <2>1, <2>2, <3>1 DEF Successors
    <3>2. QED
      BY <3>1 DEF Successors
  <2> HIDE DEF R, SG, SC
  <2>4. \A e \in C : e[1] \in W => e[2] \in W
    BY <2>1, <2>2
  <2>5. Reachable(C, SC) \subseteq W
    <3> HIDE DEF W
    <3>1. QED
      BY <1>1, <2>3, <2>4, ReachableLeast
  <2>6. n \notin R
    <3>1. ASSUME n \in R
          PROVE  FALSE
      <4>1. l.nodes = LoopOf(g.edges, g.start, h) /\ h \in LoopHeads(g.edges, g.start)
        BY BoundedLoop
      <4>2. G = Among(g.edges, LoopOf(g.edges, g.start, h) \ {h})
        BY <4>1 DEF G
      <4>3. PICK y \in LoopHeads(g.edges, g.start) :
              /\ y # h /\ n \in LoopOf(g.edges, g.start, y)
              /\ LoopOf(g.edges, g.start, y) \subseteq LoopOf(g.edges, g.start, h)
        <5>1. n \in Reachable(G, Successors(G, n))
          BY <3>1 DEF R, SG
        <5>2. /\ Pairs(g.edges) /\ Reducible(g.edges, g.start)
              /\ \A e \in g.edges : e[2] # g.start
          BY DEF Bounded
        <5>3. QED
          BY <4>1, <4>2, <5>1, <5>2, CyclesHaveLoops
      <4> DEFINE k == [head |-> y, maxiter |-> g.maxiter[y], nodes |-> LoopOf(g.edges, g.start, y)]
      <4>4. k \in Loops(g) /\ k # l
        BY <4>3 DEF Loops, Bounded
      <4>5. n \in k.nodes /\ k.nodes \subseteq l.nodes
        BY <4>1, <4>3
      <4>6. QED
        BY <4>4, <4>5 DEF Constrained, GetAllNodesNotNested
    <3>2. QED
      BY <3>1
  <2>7. QED
    BY <1>2, <2>5, <2>6 DEF Ahead, C, SC, T
<1>5. QED
  BY <1>3, <1>4

(* The iterations of the loops, while the nodes under execution are those  *)
(* of at: in every loop, the executions of a constrained node, with the    *)
(* one that may be to come in this iteration, are as many as the bound for *)
(* every entry before the last and the iterations since that one.          *)
InLoop(nc, ec, its, u, d, st, g, l) ==
  LET k == <<st, l.head>>
  IN  /\ k \in DOMAIN its /\ its[k] \in 0 .. l.maxiter
      /\ \A n : Constrained(g, l, n) =>
           Count(nc, <<d, n>>) + One(n \in Ahead(g, l, u)) + l.maxiter
             <= l.maxiter * EdgeSum(ec, d, Entries(g, l)) + its[k]

OutOfLoop(nc, ec, d, g, l) ==
  \A n : Constrained(g, l, n) => Count(nc, <<d, n>>) <= l.maxiter * EdgeSum(ec, d, Entries(g, l))

Pacing(nc, ec, its, u, d, st, g) ==
  /\ u # None => u \in Reachable(g.edges, {g.start})
  /\ \A l \in Loops(g) : IF u \in l.nodes THEN InLoop(nc, ec, its, u, d, st, g, l)
                         ELSE OutOfLoop(nc, ec, d, g, l)

Paced(p, cs, nc, ec, its, at) ==
  \A d \in 1 .. Len(cs) :
     Seen(p, cs, d) => Pacing(nc, ec, its, at[d], d, StackOf(cs, d), GraphOf(p, cs, d))

(* What is assumed of the loops of a program.                              *)
LEMMA GraphBounded ==
  ASSUME NEW p, NEW cs, NEW k, ContextTree(p, cs, k), EnteredByCalls(p), LoopsBounded(p),
         NEW d \in 1 .. Len(cs)
  PROVE  Bounded(GraphOf(p, cs, d)) /\ \A l \in Loops(GraphOf(p, cs, d)) : None \notin l.nodes
<1> DEFINE g == GraphOf(p, cs, d)
           V == NodesIn(p, cs, d)
<1>1. /\ None \notin V /\ g.edges \subseteq V \X V /\ IsFiniteSet(g.edges)
      /\ \A e \in g.edges : e[2] # g.start
  BY GraphFacts
<1>2. Pairs(g.edges)
  BY <1>1 DEF Pairs
<1>3. cs[d].function \in DOMAIN p.cfg
  BY ContextTypes
<1>4. /\ Reducible(g.edges, g.start)
      /\ g.maxiter \in [LoopHeads(g.edges, g.start) -> Nat]
      /\ \A l \in Loops(g) : GetAllNodesNotNested(g, l) = {l.head} => Tests(g, l) = {}
  BY <1>3 DEF LoopsBounded, GraphOf
<1> HIDE DEF g, V
<1>5. Bounded(g)
  BY <1>1, <1>2, <1>4 DEF Bounded
<1>6. ASSUME NEW l \in Loops(g), None \in l.nodes
      PROVE  FALSE
  <2>1. PICK e \in g.edges : None = e[1] \/ None = e[2]
    BY <1>5, <1>6, BoundedLoop
  <2>2. QED
    BY <1>1, <2>1
<1>7. QED
  BY <1>5, <1>6 DEF g

(* What a step along the edge from u to v does to the iterations of the    *)
(* loops of the graph g, on the stack st.                                  *)
Turned(its, itt, st, g, u, v) ==
  /\ \A k \in DOMAIN its : k[1] # st => k \in DOMAIN itt /\ itt[k] = its[k]
  /\ \A l \in Loops(g) : v \in l.nodes =>
       LET k == <<st, l.head>>
       IN  /\ k \in DOMAIN itt /\ itt[k] <= l.maxiter
           /\ itt[k] = (IF u \in l.nodes THEN its[k] ELSE 0) + One(Begins(g, l, u, v))

LEMMA IteratedTurns ==
  ASSUME NEW st, NEW u, NEW v, NEW g, g = program.cfg[FunctionOn(st)], Bounded(g),
         WithinBounds(st, Iterated(st, u, v))
  PROVE  Turned(iterations, Iterated(st, u, v), st, g, u, v)
<1> DEFINE its == iterations
           itt == Iterated(st, u, v)
           before(l) == IF u \in l.nodes THEN iterations[<<st, l.head>>] ELSE 0
           after(l) == before(l) + (IF Begins(g, l, u, v) THEN 1 ELSE 0)
           inner == {l \in Loops(g) : v \in l.nodes}
           D == {k \in DOMAIN its : k[1] # st} \cup {<<st, l.head>> : l \in inner}
<1>1. itt = [k \in D |-> IF k[1] # st THEN its[k] ELSE after(CHOOSE l \in inner : l.head = k[2])]
  BY DEF Iterated
<1> HIDE DEF after, its
<1>2. DOMAIN itt = D
  BY <1>1
<1>3. \A k \in DOMAIN its : k[1] # st => k \in DOMAIN itt /\ itt[k] = its[k]
  BY <1>1, <1>2
<1>4. ASSUME NEW l \in Loops(g), v \in l.nodes
      PROVE  LET k == <<st, l.head>>
             IN  /\ k \in DOMAIN itt /\ itt[k] <= l.maxiter
                 /\ itt[k] = (IF u \in l.nodes THEN its[k] ELSE 0) + One(Begins(g, l, u, v))
  <2> DEFINE k == <<st, l.head>>
  <2>1. l \in inner
    BY <1>4
  <2>2. k \in D /\ k[1] = st /\ k[2] = l.head
    BY <2>1
  <2>3. itt[k] = after(CHOOSE x \in inner : x.head = k[2])
    <3> HIDE DEF D, inner, k
    <3>1. QED
      BY <1>1, <2>2
  <2>4. (CHOOSE x \in inner : x.head = k[2]) = l
    <3>1. \A x \in inner : x.head = l.head => x = l
      BY BoundedLoop
    <3> HIDE DEF inner, k
    <3>2. QED
      BY <2>1, <2>2, <3>1
  <2>5. itt[k] = after(l)
    BY <2>3, <2>4
  <2>6. itt[k] <= l.maxiter
    BY <1>2, <2>2 DEF WithinBounds
  <2>7. after(l) = (IF u \in l.nodes THEN its[k] ELSE 0) + One(Begins(g, l, u, v))
    BY DEF after, its, One
  <2>8. QED
    BY <1>2, <2>2, <2>5, <2>6, <2>7
<1>5. QED
  BY <1>3, <1>4 DEF Turned, its

LEMMA Times ==
  ASSUME NEW m \in Nat, NEW x \in Nat
  PROVE  m * x \in Nat /\ m * (x + 1) = m * x + m /\ m * 0 = 0
OBVIOUS

(* The counts of a context after a step along the edge from u to v.        *)
Advanced(nc, ec, d, g, u, v, nd, ed) ==
  /\ \A n : /\ Count(nc, <<d, n>>) \in Nat
            /\ Count(nd, <<d, n>>) = Count(nc, <<d, n>>) + One(n = v)
  /\ \A E \in SUBSET g.edges : /\ EdgeSum(ec, d, E) \in Nat
                               /\ EdgeSum(ed, d, E) = EdgeSum(ec, d, E) + One(<<u, v>> \in E)

Standing(nc, ec, d, g, nd, ed) ==
  /\ \A n : Count(nc, <<d, n>>) \in Nat /\ Count(nd, <<d, n>>) = Count(nc, <<d, n>>)
  /\ \A E \in SUBSET g.edges : EdgeSum(ec, d, E) \in Nat /\ EdgeSum(ed, d, E) = EdgeSum(ec, d, E)

(* A step within the function, in a context that is counted.               *)
LEMMA PacingMoves ==
  ASSUME NEW g, Bounded(g), NEW nc, NEW ec, NEW its, NEW q, NEW st, NEW u, u # None, NEW v,
         Pacing(nc, ec, its, u, q, st, g), <<u, v>> \in g.edges,
         NEW itt, Turned(its, itt, st, g, u, v), NEW nd, NEW ed,
         Advanced(nc, ec, q, g, u, v, nd, ed)
  PROVE  Pacing(nd, ed, itt, v, q, st, g)
<1> DEFINE e == <<u, v>>
<1>1. v \in Reachable(g.edges, {g.start}) /\ u \in Reachable(g.edges, {g.start})
  <2>1. e[1] = u /\ e[2] = v /\ e \in g.edges /\ IsFiniteSet(g.edges)
    BY DEF Bounded, Pairs
  <2>2. u \in Reachable(g.edges, {g.start})
    BY DEF Pacing
  <2> HIDE DEF e
  <2>3. QED
    BY <2>1, <2>2, ReachableClosed
<1>2. ASSUME NEW l \in Loops(g)
      PROVE  IF v \in l.nodes THEN InLoop(nd, ed, itt, v, q, st, g, l) ELSE OutOfLoop(nd, ed, q, g, l)
  <2> DEFINE X == EdgeSum(ec, q, Entries(g, l))
             Y == EdgeSum(ed, q, Entries(g, l))
             m == l.maxiter
             M == m * X
             k == <<st, l.head>>
             A(n) == Count(nc, <<q, n>>)
             B(n) == Count(nd, <<q, n>>)
             P(n, x) == One(n \in Ahead(g, l, x))
  <2>1. /\ l.head \in l.nodes /\ m \in Nat
        /\ e[1] \notin l.nodes /\ e[2] \in l.nodes => e[2] = l.head
    BY BoundedLoop
  <2>2. X \in Nat /\ Y = X + One(u \notin l.nodes /\ v = l.head)
    <3>1. Entries(g, l) \in SUBSET g.edges
      BY DEF Entries
    <3>2. <<u, v>> \in Entries(g, l) <=> (u \notin l.nodes /\ v = l.head)
      BY DEF Entries
    <3>3. X \in Nat /\ Y = X + One(<<u, v>> \in Entries(g, l))
      BY <3>1 DEF Advanced
    <3>4. QED
      BY <3>2, <3>3 DEF One
  <2>3. M \in Nat /\ m * (X + 1) = M + m
    BY <2>1, <2>2, Times
  <2>4. ASSUME NEW n
        PROVE  /\ A(n) \in Nat /\ B(n) = A(n) + One(n = v)
               /\ One(n = v) \in 0 .. 1 /\ P(n, u) \in 0 .. 1 /\ P(n, v) \in 0 .. 1
    BY DEF One, Advanced
  <2>5. ASSUME NEW n, Constrained(g, l, n)
        PROVE  /\ n \in l.nodes /\ n \notin Tests(g, l)
               /\ One(n = v) + P(n, v) <= 1
               /\ Tests(g, l) # {} => P(n, l.head) = 0
    <3>1. n \in l.nodes /\ n \notin Tests(g, l)
      BY <2>5, TestFacts
    <3>2. n = v => n \notin Ahead(g, l, n)
      BY <1>1, <2>5, AheadOnce
    <3>3. Tests(g, l) # {} => n \notin Ahead(g, l, l.head)
      BY <2>5, AheadOfHead
    <3>4. QED
      BY <3>1, <3>2, <3>3 DEF One
  <2>6. v \in l.nodes => /\ k \in DOMAIN itt /\ itt[k] <= m
                         /\ itt[k] = (IF u \in l.nodes THEN its[k] ELSE 0) + One(Begins(g, l, u, v))
    BY DEF Turned
  <2>7. CASE u \in l.nodes /\ v \in l.nodes
    <3>1. /\ k \in DOMAIN its /\ its[k] \in 0 .. m
          /\ \A n : Constrained(g, l, n) => A(n) + P(n, u) + m <= M + its[k]
      BY <2>7 DEF Pacing, InLoop
    <3>2. Y = X
      BY <2>2, <2>7 DEF One
    <3>3. itt[k] = its[k] + One(Begins(g, l, u, v)) /\ itt[k] \in 0 .. m
      BY <2>1, <2>6, <2>7, <3>1 DEF One
    <3>4. ASSUME NEW n, Constrained(g, l, n)
          PROVE  B(n) + P(n, v) + m <= M + itt[k]
      <4>1. One(n = v) + P(n, v) <= P(n, u) + One(Begins(g, l, u, v))
        <5>1. CASE Begins(g, l, u, v)
          <6>1. One(Begins(g, l, u, v)) = 1
            BY <5>1 DEF One
          <6>2. P(n, u) \in 0 .. 1 /\ One(n = v) + P(n, v) <= 1 /\ One(n = v) \in 0 .. 1 /\ P(n, v) \in 0 .. 1
            BY <2>4, <2>5, <3>4
          <6> HIDE DEF P
          <6>3. QED
            BY <6>1, <6>2
        <5>2. CASE ~ Begins(g, l, u, v)
          <6>1. v \in Ahead(g, l, u) /\ Ahead(g, l, v) \subseteq Ahead(g, l, u)
            BY <2>7, <5>2, AheadLess
          <6>2. One(n = v) + P(n, v) <= 1
            BY <2>5, <3>4
          <6>3. QED
            BY <5>2, <6>1, <6>2 DEF One
        <5>3. QED
          BY <5>1, <5>2
      <4>2. One(Begins(g, l, u, v)) \in 0 .. 1
        BY DEF One
      <4>3. A(n) + P(n, u) + m <= M + its[k]
        BY <3>1, <3>4
      <4>4. its[k] \in Int /\ m \in Int /\ M \in Int
        BY <2>1, <2>3, <3>1
      <4> HIDE DEF A, B, P, M, m, k
      <4>5. QED
        BY <2>4, <3>3, <4>1, <4>2, <4>3, <4>4
    <3>5. InLoop(nd, ed, itt, v, q, st, g, l)
      BY <2>6, <2>7, <3>2, <3>3, <3>4 DEF InLoop
    <3>6. QED
      BY <2>7, <3>5
  <2>8. CASE u \notin l.nodes /\ v \in l.nodes
    <3>1. \A n : Constrained(g, l, n) => A(n) <= M
      BY <2>8 DEF Pacing, OutOfLoop
    <3>2. v = l.head /\ Y = X + 1
      BY <2>1, <2>2, <2>8 DEF One
    <3>3. itt[k] = One(Begins(g, l, u, v)) /\ itt[k] \in 0 .. m
      BY <2>1, <2>6, <2>8 DEF One
    <3>4. ASSUME NEW n, Constrained(g, l, n)
          PROVE  One(n = v) + P(n, v) <= itt[k]
      <4>1. CASE Tests(g, l) = {}
        <5>1. itt[k] = 1
          BY <3>2, <3>3, <4>1 DEF Begins, One
        <5>2. QED
          BY <2>5, <3>4, <5>1
      <4>2. CASE Tests(g, l) # {}
        <5>1. n # v
          BY <2>5, <3>2, <3>4, <4>2, TestFacts
        <5>2. P(n, v) = 0
          BY <2>5, <3>2, <3>4, <4>2
        <5>3. One(n = v) = 0
          BY <5>1 DEF One
        <5> HIDE DEF P, k
        <5>4. QED
          BY <3>3, <5>2, <5>3
      <4>3. QED
        BY <4>1, <4>2
    <3>5. ASSUME NEW n, Constrained(g, l, n)
          PROVE  B(n) + P(n, v) + m <= (M + m) + itt[k]
      <4>1. A(n) <= M /\ One(n = v) + P(n, v) <= itt[k] /\ itt[k] \in Int /\ m \in Int /\ M \in Int
        BY <2>1, <2>3, <3>1, <3>3, <3>4, <3>5
      <4> HIDE DEF A, B, P, M, m, k
      <4>2. QED
        BY <2>4, <4>1
    <3>6. m * Y = M + m
      BY <2>3, <3>2
    <3>7. InLoop(nd, ed, itt, v, q, st, g, l)
      <4> HIDE DEF M
      <4>1. QED
        BY <2>6, <2>8, <3>3, <3>5, <3>6 DEF InLoop
    <3>8. QED
      BY <2>8, <3>7
  <2>9. CASE v \notin l.nodes
    <3>1. Y = X
      BY <2>1, <2>2, <2>9 DEF One
    <3>2. ASSUME NEW n, Constrained(g, l, n)
          PROVE  A(n) <= M
      <4>1. CASE u \in l.nodes
        <5>1. its[k] \in 0 .. m /\ A(n) + P(n, u) + m <= M + its[k]
          BY <3>2, <4>1 DEF Pacing, InLoop
        <5>2. /\ m \in Int /\ M \in Int /\ its[k] \in Int /\ its[k] <= m
              /\ A(n) \in Nat /\ P(n, u) \in 0 .. 1
          BY <2>1, <2>3, <2>4, <5>1
        <5> HIDE DEF A, P, M, m, k
        <5>3. QED
          BY <5>1, <5>2
      <4>2. CASE u \notin l.nodes
        BY <3>2, <4>2 DEF Pacing, OutOfLoop
      <4>3. QED
        BY <4>1, <4>2
    <3>3. ASSUME NEW n, Constrained(g, l, n)
          PROVE  B(n) <= M
      <4>1. n # v
        BY <2>5, <2>9, <3>3
      <4>2. One(n = v) = 0
        BY <4>1 DEF One
      <4>3. A(n) <= M
        BY <3>2, <3>3
      <4> HIDE DEF A, B, M
      <4>4. QED
        BY <2>3, <2>4, <4>2, <4>3
    <3>4. OutOfLoop(nd, ed, q, g, l)
      BY <3>1, <3>3 DEF OutOfLoop
    <3>5. QED
      BY <2>9, <3>4
  <2>10. QED
    BY <2>7, <2>8, <2>9
<1>3. QED
  BY <1>1, <1>2 DEF Pacing

(* A context the step is not in, where the execution stays or ends.        *)
LEMMA PacingStays ==
  ASSUME NEW g, Bounded(g), \A l \in Loops(g) : None \notin l.nodes,
         NEW nc, NEW ec, NEW its, NEW d, NEW st, NEW u, Pacing(nc, ec, its, u, d, st, g),
         NEW v, v = u \/ v = None,
         NEW itt, \A k \in DOMAIN its : k[1] = st => k \in DOMAIN itt /\ itt[k] = its[k],
         NEW nd, NEW ed,
         Standing(nc, ec, d, g, nd, ed)
  PROVE  Pacing(nd, ed, itt, v, d, st, g)
<1>1. v # None => v \in Reachable(g.edges, {g.start})
  BY DEF Pacing
<1>2. ASSUME NEW l \in Loops(g)
      PROVE  IF v \in l.nodes THEN InLoop(nd, ed, itt, v, d, st, g, l) ELSE OutOfLoop(nd, ed, d, g, l)
  <2> DEFINE X == EdgeSum(ec, d, Entries(g, l))
             Y == EdgeSum(ed, d, Entries(g, l))
             m == l.maxiter
             M == m * X
             k == <<st, l.head>>
             A(n) == Count(nc, <<d, n>>)
             B(n) == Count(nd, <<d, n>>)
             P(n) == One(n \in Ahead(g, l, u))
  <2>1. m \in Nat
    BY BoundedLoop
  <2>2. X \in Nat /\ Y = X
    <3>1. Entries(g, l) \in SUBSET g.edges
      BY DEF Entries
    <3>2. QED
      BY <3>1 DEF Standing
  <2>3. M \in Nat
    BY <2>1, <2>2, Times
  <2>4. \A n : A(n) \in Nat /\ B(n) = A(n) /\ P(n) \in 0 .. 1
    BY DEF One, Standing
  <2>5. CASE u \in l.nodes
    <3>1. /\ k \in DOMAIN its /\ its[k] \in 0 .. m
          /\ \A n : Constrained(g, l, n) => A(n) + P(n) + m <= M + its[k]
      BY <2>5 DEF Pacing, InLoop
    <3>2. CASE v = u
      <4>1. k \in DOMAIN itt /\ itt[k] = its[k]
        BY <3>1
      <4>2. \A n : B(n) = A(n)
        BY <2>4
      <4>3. InLoop(nd, ed, itt, u, d, st, g, l)
        BY <2>2, <3>1, <4>1, <4>2 DEF InLoop
      <4>4. QED
        BY <2>5, <3>2, <4>3
    <3>3. CASE v = None
      <4>1. ASSUME NEW n, Constrained(g, l, n)
            PROVE  B(n) <= M
        <5>1. /\ A(n) + P(n) + m <= M + its[k] /\ its[k] \in Int /\ its[k] <= m /\ m \in Int
              /\ A(n) \in Nat /\ B(n) = A(n) /\ P(n) \in 0 .. 1 /\ M \in Int
          BY <2>1, <2>3, <2>4, <3>1, <4>1
        <5> HIDE DEF A, B, P, M, m, k
        <5>2. QED
          BY <5>1
      <4>2. OutOfLoop(nd, ed, d, g, l)
        BY <2>2, <4>1 DEF OutOfLoop
      <4>3. v \notin l.nodes
        BY <3>3
      <4>4. QED
        BY <4>2, <4>3
    <3>4. QED
      BY <3>2, <3>3
  <2>6. CASE u \notin l.nodes
    <3>1. \A n : Constrained(g, l, n) => A(n) <= M
      BY <2>6 DEF Pacing, OutOfLoop
    <3>2. \A n : B(n) = A(n)
      BY <2>4
    <3>3. OutOfLoop(nd, ed, d, g, l)
      BY <2>2, <3>1, <3>2 DEF OutOfLoop
    <3>4. v \notin l.nodes
      BY <2>6
    <3>5. QED
      BY <3>3, <3>4
  <2>7. QED
    BY <2>5, <2>6
<1>3. QED
  BY <1>1, <1>2 DEF Pacing

(* A step of the execution: the iterations of other stacks are left alone. *)
LEMMA PacedMove ==
  ASSUME NEW p, NEW cs, NEW k, ContextTree(p, cs, k), EnteredByCalls(p), LoopsBounded(p),
         NEW nc, NEW ec, NEW xc, NEW at, Counting(p, cs, nc, ec, xc, at),
         NEW q, NEW u, NEW v, NEW nd, NEW ed, NEW au, Move(p, cs, nc, ec, at, q, u, v, nd, ed, au),
         NEW its, Paced(p, cs, nc, ec, its, at),
         NEW itt, Turned(its, itt, StackOf(cs, q), GraphOf(p, cs, q), u, v),
         \A d \in 1 .. Len(cs) : StackOf(cs, d) = StackOf(cs, q) => d = q
  PROVE  Paced(p, cs, nd, ed, itt, au)
<1>1. ASSUME NEW d \in 1 .. Len(cs), Seen(p, cs, d)
      PROVE  Pacing(nd, ed, itt, au[d], d, StackOf(cs, d), GraphOf(p, cs, d))
  <2> DEFINE g == GraphOf(p, cs, d)
             st == StackOf(cs, d)
  <2>1. Bounded(g) /\ \A l \in Loops(g) : None \notin l.nodes
    BY GraphBounded
  <2>2. Pacing(nc, ec, its, at[d], d, st, g)
    BY <1>1 DEF Paced
  <2>3. /\ \A n : Count(nd, <<d, n>>) = Count(nc, <<d, n>>) + One(Seen(p, cs, q) /\ d = q /\ n = v)
        /\ \A E \in SUBSET g.edges :
             EdgeSum(ed, d, E) = EdgeSum(ec, d, E) + One(Seen(p, cs, q) /\ d = q /\ <<u, v>> \in E)
        /\ \A E \in SUBSET g.edges : EdgeSum(ec, d, E) \in Nat
        /\ \A n : Count(nc, <<d, n>>) \in Nat
    <3>1. Numbers(nc)
      BY DEF Counting
    <3>2. \A n : Count(nc, <<d, n>>) \in Nat
      BY <3>1 DEF Numbers
    <3>3. ASSUME NEW n
          PROVE  Count(nd, <<d, n>>) = Count(nc, <<d, n>>) + One(Seen(p, cs, q) /\ d = q /\ n = v)
      <4>1. Count(nd, <<d, n>>)
              = Count(nc, <<d, n>>) + (IF Seen(p, cs, q) /\ d = q /\ n = v THEN 1 ELSE 0)
        BY <3>1, MoveNodes
      <4>2. QED
        BY <4>1 DEF One
    <3>4. \A x \in 1 .. Len(cs) : \A E \in SUBSET GraphOf(p, cs, x).edges :
            EdgeSum(ed, x, E) = EdgeSum(ec, x, E) + One(Seen(p, cs, q) /\ x = q /\ <<u, v>> \in E)
      BY MoveCounts
    <3>5. \A x \in 1 .. Len(cs) : \A E \in SUBSET GraphOf(p, cs, x).edges : EdgeSum(ec, x, E) \in Nat
      BY MoveCounts
    <3>6. QED
      BY <3>2, <3>3, <3>4, <3>5, Zenon
  <2>4. CASE d = q
    <3>1. <<u, v>> \in g.edges /\ at[d] = u /\ au[d] = v
      BY <2>4 DEF Move
    <3>2. u # None
      <4>1. g.edges \subseteq NodesIn(p, cs, d) \X NodesIn(p, cs, d) /\ None \notin NodesIn(p, cs, d)
        BY GraphFacts
      <4>3. <<u, v>> \in NodesIn(p, cs, d) \X NodesIn(p, cs, d)
        BY <3>1, <4>1
      <4>2. QED
        BY <4>1, <4>3
    <3>3. Turned(its, itt, st, g, u, v)
      BY <2>4
    <3>5. Advanced(nc, ec, d, g, u, v, nd, ed)
      <4>1. ASSUME NEW n
            PROVE  /\ Count(nc, <<d, n>>) \in Nat
                   /\ Count(nd, <<d, n>>) = Count(nc, <<d, n>>) + One(n = v)
        <5>1. One(Seen(p, cs, q) /\ d = q /\ n = v) = One(n = v)
          BY <1>1, <2>4 DEF One
        <5>2. Count(nd, <<d, n>>) = Count(nc, <<d, n>>) + One(Seen(p, cs, q) /\ d = q /\ n = v)
          BY <2>3
        <5>3. QED
          BY <2>3, <5>1, <5>2
      <4>2. ASSUME NEW E \in SUBSET g.edges
            PROVE  /\ EdgeSum(ec, d, E) \in Nat
                   /\ EdgeSum(ed, d, E) = EdgeSum(ec, d, E) + One(<<u, v>> \in E)
        <5>1. One(Seen(p, cs, q) /\ d = q /\ <<u, v>> \in E) = One(<<u, v>> \in E)
          BY <1>1, <2>4 DEF One
        <5>2. EdgeSum(ed, d, E) = EdgeSum(ec, d, E) + One(Seen(p, cs, q) /\ d = q /\ <<u, v>> \in E)
          BY <2>3
        <5>3. QED
          BY <2>3, <5>1, <5>2
      <4>3. QED
        BY <4>1, <4>2 DEF Advanced
    <3>6. Pacing(nc, ec, its, u, d, st, g)
      BY <2>2, <3>1
    <3> HIDE DEF g, st
    <3>7. Pacing(nd, ed, itt, v, d, st, g)
      BY <2>1, <3>1, <3>2, <3>3, <3>5, <3>6, PacingMoves
    <3>8. QED
      BY <3>1, <3>7 DEF g, st
  <2>5. CASE d # q
    <3>1. au[d] = at[d] \/ au[d] = None
      BY <2>5 DEF Move
    <3>2. \A j \in DOMAIN its : j[1] = st => j \in DOMAIN itt /\ itt[j] = its[j]
      BY <2>5 DEF Turned
    <3>4. Standing(nc, ec, d, g, nd, ed)
      <4>1. ASSUME NEW n
            PROVE  Count(nc, <<d, n>>) \in Nat /\ Count(nd, <<d, n>>) = Count(nc, <<d, n>>)
        <5>1. One(Seen(p, cs, q) /\ d = q /\ n = v) = 0
          BY <2>5 DEF One
        <5>2. Count(nd, <<d, n>>) = Count(nc, <<d, n>>) + One(Seen(p, cs, q) /\ d = q /\ n = v)
          BY <2>3
        <5>3. QED
          BY <2>3, <5>1, <5>2
      <4>2. ASSUME NEW E \in SUBSET g.edges
            PROVE  EdgeSum(ec, d, E) \in Nat /\ EdgeSum(ed, d, E) = EdgeSum(ec, d, E)
        <5>1. One(Seen(p, cs, q) /\ d = q /\ <<u, v>> \in E) = 0
          BY <2>5 DEF One
        <5>2. EdgeSum(ed, d, E) = EdgeSum(ec, d, E) + One(Seen(p, cs, q) /\ d = q /\ <<u, v>> \in E)
          BY <2>3
        <5>3. QED
          BY <2>3, <5>1, <5>2
      <4>3. QED
        BY <4>1, <4>2 DEF Standing
    <3> HIDE DEF g, st
    <3>5. Pacing(nd, ed, itt, au[d], d, st, g)
      BY <2>1, <2>2, <3>1, <3>2, <3>4, PacingStays
    <3>6. QED
      BY <3>5 DEF g, st
  <2>6. QED
    BY <2>4, <2>5
<1>2. QED
  BY <1>1 DEF Paced

(* A function begins: at its start, which no loop holds.                   *)
LEMMA PacingBegins ==
  ASSUME NEW g, Bounded(g), NEW nc, NEW ec, NEW its, NEW d, NEW st,
         \A l \in Loops(g) : OutOfLoop(nc, ec, d, g, l),
         NEW nd, \A n : n # g.start => Count(nd, <<d, n>>) = Count(nc, <<d, n>>)
  PROVE  Pacing(nd, ec, its, g.start, d, st, g)
<1>1. g.start \in Reachable(g.edges, {g.start})
  BY ReachableStart DEF Bounded, Pairs
<1>2. ASSUME NEW l \in Loops(g)
      PROVE  g.start \notin l.nodes /\ OutOfLoop(nd, ec, d, g, l)
  <2>1. g.start \notin l.nodes
    BY BoundedLoop
  <2>2. \A n : Constrained(g, l, n) => n # g.start
    BY <2>1, TestFacts
  <2>3. OutOfLoop(nc, ec, d, g, l)
    OBVIOUS
  <2>4. QED
    BY <2>1, <2>2, <2>3 DEF OutOfLoop
<1>3. QED
  BY <1>1, <1>2 DEF Pacing

LEMMA PacedDescent ==
  ASSUME NEW p, NEW cs, NEW k, ContextTree(p, cs, k), EnteredByCalls(p), LoopsBounded(p),
         NEW nc, Numbers(nc), NEW ec, NEW xc, NEW at, NEW its, Paced(p, cs, nc, ec, its, at),
         NEW d, NEW nd, NEW xd, NEW au, Descent(p, cs, nc, xc, at, d, nd, xd, au)
  PROVE  Paced(p, cs, nd, ec, its, au)
<1>1. ASSUME NEW x \in 1 .. Len(cs), Seen(p, cs, x)
      PROVE  Pacing(nd, ec, its, au[x], x, StackOf(cs, x), GraphOf(p, cs, x))
  <2> DEFINE g == GraphOf(p, cs, x)
             st == StackOf(cs, x)
  <2>1. Bounded(g) /\ \A l \in Loops(g) : None \notin l.nodes
    BY GraphBounded
  <2>2. Pacing(nc, ec, its, at[x], x, st, g)
    BY <1>1 DEF Paced
  <2>3. \A n : Count(nc, <<x, n>>) \in Nat
               /\ Count(nd, <<x, n>>) = Count(nc, <<x, n>>)
                    + (IF Seen(p, cs, d) /\ x = d /\ n = GraphOf(p, cs, d).start THEN 1 ELSE 0)
    BY DescentNodes DEF Numbers
  <2>4. CASE x = d
    <3>1. at[x] = None /\ au[x] = g.start
      BY <2>4 DEF Descent
    <3>2. \A l \in Loops(g) : OutOfLoop(nc, ec, x, g, l)
      BY <2>1, <2>2, <3>1 DEF Pacing
    <3>3. \A n : n # g.start => Count(nd, <<x, n>>) = Count(nc, <<x, n>>)
      BY <2>3, <2>4
    <3> HIDE DEF g, st
    <3>4. Pacing(nd, ec, its, g.start, x, st, g)
      BY <2>1, <3>2, <3>3, PacingBegins
    <3>5. QED
      BY <3>1, <3>4 DEF g, st
  <2>5. CASE x # d
    <3>1. au[x] = at[x]
      BY <2>5 DEF Descent
    <3>2. \A n : Count(nd, <<x, n>>) = Count(nc, <<x, n>>)
      BY <2>3, <2>5
    <3> HIDE DEF g, st
    <3>3. Pacing(nd, ec, its, at[x], x, st, g)
      BY <2>2, <3>2 DEF Pacing, InLoop, OutOfLoop
    <3>4. QED
      BY <3>1, <3>3 DEF g, st
  <2>6. QED
    BY <2>4, <2>5
<1>2. QED
  BY <1>1 DEF Paced

LEMMA PacedStart ==
  ASSUME NEW p, NEW cs, NEW k, ContextTree(p, cs, k), EnteredByCalls(p), LoopsBounded(p),
         NEW nd, nd = Incremented(<<>>, <<1, GraphOf(p, cs, 1).start>>),
         NEW at, at[1] = GraphOf(p, cs, 1).start, \A x \in 2 .. Len(cs) : at[x] = None, NEW its
  PROVE  Paced(p, cs, nd, <<>>, its, at)
<1>1. \A j : Count(<<>>, j) = 0
  BY DEF Count
<1>2. \A j : Count(nd, j) = (IF j = <<1, GraphOf(p, cs, 1).start>> THEN 1 ELSE 0)
  <2> DEFINE j0 == <<1, GraphOf(p, cs, 1).start>>
  <2> HIDE DEF j0
  <2>1. \A j : Count(nd, j) = Count(<<>>, j) + One(j = j0)
    BY CountAfter DEF j0
  <2>2. QED
    BY <1>1, <2>1 DEF One, j0
<1>3. ASSUME NEW d \in 1 .. Len(cs)
      PROVE  Pacing(nd, <<>>, its, at[d], d, StackOf(cs, d), GraphOf(p, cs, d))
  <2> DEFINE g == GraphOf(p, cs, d)
             st == StackOf(cs, d)
  <2>1. Bounded(g) /\ \A l \in Loops(g) : None \notin l.nodes
    BY GraphBounded
  <2>2. ASSUME NEW l \in Loops(g)
        PROVE  OutOfLoop(<<>>, <<>>, d, g, l)
    <3> DEFINE E == Entries(g, l)
    <3>1. IsFiniteSet(E)
      BY <2>1, FS_Subset DEF Entries, Bounded, Pairs
    <3>2. EdgeSum(<<>>, d, E) = 0
      <4> DEFINE none == <<>>
      <4>1. \A j : Count(none, j) = 0
        BY <1>1
      <4> HIDE DEF E, none
      <4>4. /\ \A j : Count(none, j) \in Nat
            /\ \A e \in E : \A a, b \in BOOLEAN : Count(none, <<d, e[1], e[2], a, b>>) = 0
        BY <4>1
      <4>2. EdgeSum(none, d, E) = 0
        BY <3>1, <4>4, EdgeSumTerms, Zenon
      <4>3. QED
        BY <4>2 DEF none
    <3>3. l.maxiter \in Nat
      BY <2>1, BoundedLoop
    <3>4. l.maxiter * EdgeSum(<<>>, d, E) = 0
      BY <3>2, <3>3
    <3>5. QED
      BY <1>1, <3>4 DEF OutOfLoop
  <2>3. CASE d = 1
    <3>1. at[d] = g.start
      BY <2>3
    <3>2. \A n : n # g.start => Count(nd, <<d, n>>) = Count(<<>>, <<d, n>>)
      BY <1>1, <1>2, <2>3
    <3> HIDE DEF g, st
    <3>3. Pacing(nd, <<>>, its, g.start, d, st, g)
      BY <2>1, <2>2, <3>2, PacingBegins
    <3>4. QED
      BY <3>1, <3>3 DEF g, st
  <2>4. CASE d # 1
    <3>1. at[d] = None
      <4>1. d \in 2 .. Len(cs)
        BY <2>4, ContextTypes
      <4>2. QED
        BY <4>1
    <3>2. \A n : Count(nd, <<d, n>>) = Count(<<>>, <<d, n>>)
      BY <1>1, <1>2, <2>4
    <3> HIDE DEF g, st
    <3>3. \A l \in Loops(g) : OutOfLoop(nd, <<>>, d, g, l)
      BY <2>2, <3>2 DEF OutOfLoop
    <3>4. Pacing(nd, <<>>, its, None, d, st, g)
      BY <2>1, <3>3 DEF Pacing
    <3>5. QED
      BY <3>1, <3>4 DEF g, st
  <2>5. QED
    BY <2>3, <2>4
<1>4. QED
  BY <1>3 DEF Paced

(* What the linear program bounds is within its bounds all the time.       *)
LEMMA PacedBounds ==
  ASSUME NEW p, NEW cs, NEW k, ContextTree(p, cs, k), EnteredByCalls(p), LoopsBounded(p),
         NEW nc, NEW ec, NEW xc, NEW at, Counting(p, cs, nc, ec, xc, at),
         NEW its, Paced(p, cs, nc, ec, its, at), NEW d \in 1 .. Len(cs),
         NEW l \in Loops(GraphOf(p, cs, d)), NEW n, Constrained(GraphOf(p, cs, d), l, n)
  PROVE  Count(nc, <<d, n>>) <= l.maxiter * EdgeSum(ec, d, Entries(GraphOf(p, cs, d), l))
<1> DEFINE g == GraphOf(p, cs, d)
           st == StackOf(cs, d)
           X == EdgeSum(ec, d, Entries(g, l))
           m == l.maxiter
           M == m * X
           j == <<st, l.head>>
           A == Count(nc, <<d, n>>)
<1>1. Bounded(g)
  BY GraphBounded
<1>2. m \in Nat
  BY <1>1, BoundedLoop
<1>3. Numbers(nc) /\ Numbers(ec)
  BY DEF Counting
<1>4. A \in Nat
  BY <1>3 DEF Numbers
<1>5. X \in Nat
  <2> DEFINE E == Entries(g, l)
  <2>1. IsFiniteSet(E)
    BY <1>1, FS_Subset DEF Entries, Bounded, Pairs
  <2> HIDE DEF E
  <2>2. EdgeSum(ec, d, E) \in Nat
    BY <1>3, <2>1, EdgeSumTerms DEF Numbers
  <2>3. QED
    BY <2>2 DEF E
<1>6. M \in Nat
  BY <1>2, <1>5, Times
<1>7. CASE Seen(p, cs, d)
  <2>1. Pacing(nc, ec, its, at[d], d, st, g)
    BY <1>7 DEF Paced
  <2>2. CASE at[d] \in l.nodes
    <3> DEFINE P == One(n \in Ahead(g, l, at[d]))
    <3>1. its[j] \in 0 .. m /\ A + P + m <= M + its[j]
      BY <2>1, <2>2 DEF Pacing, InLoop
    <3>2. P \in 0 .. 1
      BY DEF One
    <3>3. m \in Int /\ M \in Int /\ its[j] \in Int /\ its[j] <= m /\ A \in Nat
      BY <1>2, <1>4, <1>6, <3>1
    <3>4. A <= M
      <4> HIDE DEF A, P, M, m, j
      <4>1. QED
        BY <3>1, <3>2, <3>3
    <3>5. QED
      BY <3>4
  <2>3. CASE at[d] \notin l.nodes
    BY <2>1, <2>3 DEF Pacing, OutOfLoop
  <2>4. QED
    BY <2>2, <2>3
<1>8. CASE ~ Seen(p, cs, d)
  <2>1. Untouched(p, cs, nc, ec, d)
    BY <1>8 DEF Counting
  <2>2. n \in NodesIn(p, cs, d)
    <3>1. n \in l.nodes
      BY <1>1, TestFacts
    <3>2. PICK e \in g.edges : n = e[1] \/ n = e[2]
      BY <1>1, <3>1, BoundedLoop
    <3>3. e \in NodesIn(p, cs, d) \X NodesIn(p, cs, d)
      BY <3>2, GraphFacts
    <3>4. QED
      BY <3>2, <3>3
  <2>3. A = 0
    BY <2>1, <2>2 DEF Untouched
  <2> HIDE DEF A, M
  <2>4. A <= M
    BY <1>6, <2>3
  <2>5. QED
    BY <2>4 DEF A, M
<1>9. QED
  BY <1>7, <1>8

LEMMA FollowPaces ==
  ASSUME Tree_, EnteredByCalls(program), LoopsBounded(program), NEW at,
         Counting(program, contexts, nodeCount, edgeCount, externalCount, at),
         Paced(program, contexts, nodeCount, edgeCount, iterations, at),
         NEW q \in DOMAIN contexts, NEW u, NEW v, Follow(GetCallerNodeStack(q), u, v), NEW au,
         Move(program, contexts, nodeCount, edgeCount, at, q, u, v, nodeCount', edgeCount', au)
  PROVE  Paced(program, contexts, nodeCount', edgeCount', iterations', au)
<1> DEFINE st == GetCallerNodeStack(q)
           g == GraphOf(program, contexts, q)
<1>1. ContextTree(program, contexts, explored) /\ DOMAIN contexts = 1 .. Len(contexts)
  BY RootFacts DEF Tree_
<1>2. iterations' = Iterated(st, u, v) /\ WithinBounds(st, iterations')
  BY DEF Follow
<1>3. g = program.cfg[FunctionOn(st)]
  BY StackOfContext DEF GraphOf, getCurrentFunction
<1>4. Bounded(g)
  BY <1>1, GraphBounded
<1>5. WithinBounds(st, Iterated(st, u, v))
  BY <1>2
<1>6. Turned(iterations, Iterated(st, u, v), st, g, u, v)
  <2> HIDE DEF g, st
  <2>1. QED
    BY <1>3, <1>4, <1>5, IteratedTurns
<1>7. st = StackOf(contexts, q)
  BY StackFacts
<1>8. Turned(iterations, iterations', StackOf(contexts, q), g, u, v)
  BY <1>2, <1>6, <1>7
<1>9. ASSUME NEW d \in 1 .. Len(contexts), StackOf(contexts, d) = StackOf(contexts, q)
      PROVE  d = q
  <2>1. GetCallerNodeStack(d) = GetCallerNodeStack(q)
    BY <1>1, <1>9, StackFacts
  <2>2. QED
    BY <1>1, <2>1, StacksDiffer
<1>10. QED
  BY <1>1, <1>8, <1>9, PacedMove
-----------------------------------------------------------------------------
(* The invariant: the counts are those of an execution that stands where   *)
(* it does.                                                                *)
Tallied(p, cs, nc, ec, xc, its, at) ==
  Counting(p, cs, nc, ec, xc, at) /\ (LoopsBounded(p) => Paced(p, cs, nc, ec, its, at))

Tally ==
  EnteredByCalls(program) =>
    /\ node = None => nodeCount = <<>> /\ edgeCount = <<>> /\ externalCount = <<>>
    /\ node # None =>
         \E c \in DOMAIN contexts : \E at :
            /\ stack = StackOf(contexts, c) /\ Following(contexts, at, c, node)
            /\ Tallied(program, contexts, nodeCount, edgeCount, externalCount, iterations, at)
    /\ phase = "done" => node # None /\ AtReturn /\ stack = <<>>

LEMMA ReachableState ==
  ASSUME NEW c
  PROVE  isReachableState(c) <=> Seen(program, contexts, c)
BY DEF isReachableState, Seen, Ancestors, Anc, Parents, HasExternalWCET, getCurrentFunction

LEMMA ArriveFacts ==
  ASSUME Tree_, NEW d \in DOMAIN contexts, stack' = GetCallerNodeStack(d), Arrive
  PROVE  nodeCount' = IF Seen(program, contexts, d) THEN Incremented(nodeCount, <<d, node'>>) ELSE nodeCount
<1>1. CurrentContext(stack') = d
  BY StackOfContext
<1>2. IF isReachableState(d) THEN Visit(d, node') ELSE Unseen
  BY <1>1 DEF Arrive
<1>3. QED
  BY <1>2, ReachableState DEF Visit, Unseen

LEMMA TraverseFacts ==
  ASSUME Tree_, NEW q \in DOMAIN contexts, NEW u, NEW v, Traverse(GetCallerNodeStack(q), u, v)
  PROVE  edgeCount' = IF Seen(program, contexts, q)
                      THEN Incremented(edgeCount, <<q, u, v, Count(nodeCount, <<q, u>>) = 1,
                                                    Count(nodeCount, <<q, v>>) = 0>>)
                      ELSE edgeCount
<1>1. CurrentContext(GetCallerNodeStack(q)) = q
  BY StackOfContext
<1> DEFINE after == Incremented(edgeCount, <<q, u, v, Count(nodeCount, <<q, u>>) = 1,
                                             Count(nodeCount, <<q, v>>) = 0>>)
<1>2. edgeCount' = IF isReachableState(q) THEN after ELSE edgeCount
  BY <1>1 DEF Traverse, n_
<1> HIDE DEF after
<1>3. edgeCount' = IF Seen(program, contexts, q) THEN after ELSE edgeCount
  BY <1>2, ReachableState
<1>4. QED
  BY <1>3 DEF after

LEMMA TallyKeeps ==
  ASSUME Execution, Unanalysed, NEW d \in DOMAIN contexts, stack' = GetCallerNodeStack(d),
         node' # None, phase' # "done", NEW au, Following(contexts, au, d, node'),
         Tallied(program, contexts, nodeCount', edgeCount', externalCount', iterations', au)
  PROVE  Tally'
<1>1. program' = program /\ contexts' = contexts
  BY DEF Unanalysed, contextVars
<1>2. stack' = StackOf(contexts', d) /\ d \in DOMAIN contexts'
  BY <1>1, StackFacts DEF Execution
<1>3. Following(contexts', au, d, node')
  BY <1>1
<1>4. Tallied(program', contexts', nodeCount', edgeCount', externalCount', iterations', au)
  BY <1>1
<1>5. QED
  BY <1>2, <1>3, <1>4 DEF Tally

(* The counts of the execution that stands at node.                        *)
LEMMA TallyHere ==
  ASSUME Execution, Tally, EnteredByCalls(program), node # None
  PROVE  LET c == CurrentContext(stack)
         IN  /\ c \in DOMAIN contexts /\ stack = GetCallerNodeStack(c)
             /\ \E at : /\ Following(contexts, at, c, node)
                        /\ Tallied(program, contexts, nodeCount, edgeCount, externalCount, iterations, at)
<1>1. PICK c \in DOMAIN contexts : \E at :
         /\ stack = StackOf(contexts, c) /\ Following(contexts, at, c, node)
         /\ Tallied(program, contexts, nodeCount, edgeCount, externalCount, iterations, at)
  BY DEF Tally
<1>2. stack = GetCallerNodeStack(c)
  BY <1>1, StackFacts DEF Execution
<1>3. CurrentContext(stack) = c
  BY <1>2, StackOfContext DEF Execution
<1>4. QED
  BY <1>1, <1>2, <1>3

LEMMA EnterTallies ==
  ASSUME Execution, Tally, EnteredByCalls(program), Enter
  PROVE  Tally'
<1>1. Begin /\ Arrive /\ Unanalysed /\ phase' = phase /\ edgeCount' = edgeCount /\ externalCount' = externalCount
  BY DEF Enter
<1>2. /\ stack' = GetCallerNodeStack(1) /\ node' = GraphOf(program, contexts, 1).start
      /\ node' # None /\ 1 \in DOMAIN contexts /\ phase # "done" /\ 1 \in 1 .. Len(contexts)
  BY <1>1, EntryFacts, RootFacts, GraphFacts DEF Execution, Tree_, Begin, GraphOf, getCurrentFunction
<1>3. nodeCount = <<>> /\ edgeCount = <<>> /\ externalCount = <<>>
  BY <1>1 DEF Begin, Tally
<1>4. nodeCount' = Incremented(<<>>, <<1, node'>>)
  <2>1. Seen(program, contexts, 1)
    BY SeenFacts DEF Execution, Tree_, EnteredByCalls
  <2>2. QED
    BY <1>1, <1>2, <1>3, <2>1, ArriveFacts DEF Execution
<1> DEFINE at == [x \in 1 .. Len(contexts) |-> IF x = 1 THEN node' ELSE None]
<1>5. at[1] = node' /\ \A x \in 2 .. Len(contexts) : at[x] = None
  <2>1. Len(contexts) \in Nat /\ \A x \in 2 .. Len(contexts) : x \in 1 .. Len(contexts) /\ x # 1
    BY RootFacts DEF Execution
  <2>2. QED
    BY <1>2, <2>1
<1>6. Counting(program, contexts, nodeCount', <<>>, <<>>, at)
  <2> HIDE DEF at
  <2>1. QED
    BY <1>2, <1>4, <1>5, Started DEF Execution, Tree_
<1>7. Following(contexts, at, 1, node')
  <2>1. Anc(contexts, 1) = {1}
    BY AncestorFacts DEF Execution, Tree_
  <2>2. QED
    BY <1>2, <2>1 DEF Following
<1>8. LoopsBounded(program) => Paced(program, contexts, nodeCount', <<>>, iterations', at)
  <2> HIDE DEF at
  <2>1. QED
    BY <1>2, <1>4, <1>5, PacedStart DEF Execution, Tree_
<1> HIDE DEF at
<1>9. Tallied(program, contexts, nodeCount', edgeCount', externalCount', iterations', at)
  BY <1>1, <1>3, <1>6, <1>8 DEF Tallied
<1>10. QED
  BY <1>1, <1>2, <1>7, <1>9, TallyKeeps

LEMMA StepTallies ==
  ASSUME Execution, Tally, EnteredByCalls(program), Step
  PROVE  Tally'
<1>1. PICK v : /\ Branch(v) /\ Traverse(stack, node, v) /\ Arrive /\ Unanalysed
               /\ phase' = phase /\ externalCount' = externalCount
  BY DEF Step
<1>2. node # None /\ phase = "execution"
  BY <1>1 DEF Branch, Running
<1> DEFINE c == CurrentContext(stack)
<1>3. /\ stack' = stack /\ node' = v /\ v \in Successors(Cfg(c).edges, node)
      /\ ~ IsCall(getCurrentFunction(c), node)
  BY <1>1, BranchFacts
<1>4. PICK at : /\ Following(contexts, at, c, node)
                /\ Counting(program, contexts, nodeCount, edgeCount, externalCount, at)
                /\ LoopsBounded(program) => Paced(program, contexts, nodeCount, edgeCount, iterations, at)
  BY <1>2, TallyHere DEF Tallied
<1>5. c \in DOMAIN contexts /\ stack = GetCallerNodeStack(c)
  BY <1>2, TallyHere
<1> HIDE DEF c
<1>6. <<node, v>> \in GraphOf(program, contexts, c).edges
  BY <1>3, <1>5, EdgeFacts DEF Execution, GraphOf, Cfg, getCurrentFunction
<1>7. node \notin DOMAIN GraphOf(program, contexts, c).callee
  BY <1>3 DEF IsCall, GraphOf, getCurrentFunction
<1>8. CountedMove(program, contexts, nodeCount, edgeCount, c, node, v, nodeCount', edgeCount')
  <2>1. nodeCount' = IF Seen(program, contexts, c) THEN Incremented(nodeCount, <<c, v>>) ELSE nodeCount
    BY <1>1, <1>3, <1>5, ArriveFacts DEF Execution
  <2>2. edgeCount' = IF Seen(program, contexts, c)
                     THEN Incremented(edgeCount, <<c, node, v, Count(nodeCount, <<c, node>>) = 1,
                                                   Count(nodeCount, <<c, v>>) = 0>>)
                     ELSE edgeCount
    BY <1>1, <1>5, TraverseFacts, Zenon DEF Execution
  <2>3. QED
    BY <2>1, <2>2, Zenon DEF CountedMove
<1> DEFINE au == [x \in 1 .. Len(contexts) |-> IF x = c THEN v ELSE at[x]]
<1>9. Following(contexts, au, c, v)
      /\ Move(program, contexts, nodeCount, edgeCount, at, c, node, v, nodeCount', edgeCount', au)
  <2>1. ContextTree(program, contexts, explored)
    BY DEF Execution, Tree_
  <2>2. QED
    BY <1>4, <1>6, <1>7, <1>8, <2>1, FollowBranch
<1> HIDE DEF au
<1>10. Counting(program, contexts, nodeCount', edgeCount', externalCount, au)
  BY <1>4, <1>9, Moved DEF Execution, Tree_
<1>11. v # None
  BY <1>3, <1>5, <1>6, GraphFacts, RootFacts DEF Execution, Tree_
<1>12. LoopsBounded(program) => Paced(program, contexts, nodeCount', edgeCount', iterations', au)
  <2>1. Follow(GetCallerNodeStack(c), node, v)
    BY <1>1, <1>5 DEF Branch
  <2>2. QED
    BY <1>4, <1>5, <1>9, <2>1, FollowPaces DEF Execution
<1>13. Tallied(program, contexts, nodeCount', edgeCount', externalCount', iterations', au)
  BY <1>1, <1>10, <1>12 DEF Tallied
<1>14. QED
  BY <1>1, <1>2, <1>3, <1>5, <1>9, <1>11, <1>13, TallyKeeps

LEMMA CallTallies ==
  ASSUME Execution, Tally, EnteredByCalls(program), CallFunction
  PROVE  Tally'
<1> DEFINE c == CurrentContext(stack)
           d == getCalleeContext(c, node)
           start == GraphOf(program, contexts, d).start
<1>1. /\ Call /\ Unanalysed /\ phase' = phase /\ edgeCount' = edgeCount
      /\ IF isReachableState(c) /\ HasExternalWCET(GetCallee(FunctionOn(stack), node))
         THEN externalCount' = Incremented(externalCount, d) /\ nodeCount' = nodeCount
         ELSE Arrive /\ externalCount' = externalCount
  BY DEF CallFunction
<1>2. node # None /\ phase = "execution"
  BY <1>1 DEF Call, Running
<1>3. /\ d \in 2 .. Len(contexts) /\ contexts[d].caller = c /\ contexts[d].node = node
      /\ stack' = GetCallerNodeStack(d) /\ node' = start
  BY <1>1, CallFacts DEF GraphOf, Cfg, getCurrentFunction
<1>4. PICK at : /\ Following(contexts, at, c, node)
                /\ Counting(program, contexts, nodeCount, edgeCount, externalCount, at)
                /\ LoopsBounded(program) => Paced(program, contexts, nodeCount, edgeCount, iterations, at)
  BY <1>2, TallyHere DEF Tallied
<1>5. c \in DOMAIN contexts /\ FunctionOn(stack) = getCurrentFunction(c)
  BY <1>2, HereFacts
<1>6. /\ ContextTree(program, contexts, explored) /\ d \in DOMAIN contexts
      /\ start # None /\ d \in 1 .. Len(contexts)
  <2>1. ContextTree(program, contexts, explored) /\ d \in 1 .. Len(contexts) /\ d \in DOMAIN contexts
    BY <1>3, RootFacts DEF Execution, Tree_
  <2>2. QED
    BY <2>1, GraphFacts
<1>7. GetCallee(FunctionOn(stack), node) = contexts[d].function
  BY <1>3, <1>5, CallerFacts DEF Execution, getCurrentFunction
<1> HIDE DEF c, d
<1>8. IF Seen(program, contexts, c) /\ Annotated(program, contexts, d)
      THEN nodeCount' = nodeCount /\ externalCount' = Incremented(externalCount, d)
      ELSE /\ externalCount' = externalCount
           /\ nodeCount' = IF Seen(program, contexts, d) THEN Incremented(nodeCount, <<d, start>>)
                           ELSE nodeCount
  <2>1. isReachableState(c) /\ HasExternalWCET(GetCallee(FunctionOn(stack), node))
          <=> Seen(program, contexts, c) /\ Annotated(program, contexts, d)
    BY <1>7, ReachableState DEF Annotated, HasExternalWCET
  <2>2. Arrive => nodeCount' = IF Seen(program, contexts, d) THEN Incremented(nodeCount, <<d, start>>)
                               ELSE nodeCount
    BY <1>3, <1>6, ArriveFacts DEF Execution
  <2>3. QED
    BY <1>1, <2>1, <2>2
<1> HIDE DEF start
<1> DEFINE au == [x \in 1 .. Len(contexts) |-> IF x = d THEN start ELSE at[x]]
<1>9. /\ Following(contexts, au, d, start)
      /\ at[c] = node /\ at[d] = None /\ au[d] = start
      /\ \A x \in (1 .. Len(contexts)) \ {d} : au[x] = at[x]
      /\ \A x \in 2 .. Len(contexts) : contexts[x].caller = d => at[x] = None
  BY <1>3, <1>4, <1>6, FollowCall DEF start
<1> HIDE DEF au
<1>10. Descent(program, contexts, nodeCount, externalCount, at, d, nodeCount', externalCount', au)
  BY <1>3, <1>8, <1>9 DEF Descent, start
<1>11. Counting(program, contexts, nodeCount', edgeCount, externalCount', au)
  BY <1>4, <1>6, <1>10, Descended
<1>12. LoopsBounded(program) => Paced(program, contexts, nodeCount', edgeCount', iterations', au)
  <2>1. iterations' = iterations /\ Numbers(nodeCount)
    BY <1>1, <1>4 DEF Call, Counting
  <2>2. QED
    BY <1>1, <1>4, <1>6, <1>10, <2>1, PacedDescent
<1>13. Tallied(program, contexts, nodeCount', edgeCount', externalCount', iterations', au)
  BY <1>1, <1>11, <1>12 DEF Tallied
<1>14. QED
  BY <1>1, <1>2, <1>3, <1>6, <1>9, <1>13, TallyKeeps

LEMMA ReturnTallies ==
  ASSUME Execution, Tally, EnteredByCalls(program), ReturnToCaller
  PROVE  Tally'
<1>1. PICK v : /\ Return(v) /\ Traverse(Tail(stack), Head(stack), v) /\ Arrive /\ Unanalysed
               /\ phase' = phase /\ externalCount' = externalCount
  BY DEF ReturnToCaller
<1>2. node # None /\ phase = "execution"
  BY <1>1 DEF Return, Running
<1> DEFINE c == CurrentContext(stack)
           q == contexts[c].caller
           u == contexts[c].node
<1>3. /\ c \in 2 .. Len(contexts) /\ q \in DOMAIN contexts
      /\ node \in Cfg(c).ends /\ ~ IsCall(getCurrentFunction(c), node)
      /\ Head(stack) = u /\ Tail(stack) = GetCallerNodeStack(q)
      /\ stack' = GetCallerNodeStack(q) /\ node' = v /\ v \in Successors(Cfg(q).edges, u)
  BY <1>1, ReturnFacts
<1>4. PICK at : /\ Following(contexts, at, c, node)
                /\ Counting(program, contexts, nodeCount, edgeCount, externalCount, at)
                /\ LoopsBounded(program) => Paced(program, contexts, nodeCount, edgeCount, iterations, at)
  BY <1>2, TallyHere DEF Tallied
<1> HIDE DEF c, q, u
<1>5. ContextTree(program, contexts, explored) /\ q \in 1 .. Len(contexts) /\ c # 1
  BY <1>3, RootFacts DEF Execution, Tree_
<1>6. <<u, v>> \in GraphOf(program, contexts, q).edges
  BY <1>3, EdgeFacts DEF Execution, GraphOf, Cfg, getCurrentFunction
<1>7. node \in GraphOf(program, contexts, c).ends /\ node \notin DOMAIN GraphOf(program, contexts, c).callee
  BY <1>3 DEF IsCall, GraphOf, Cfg, getCurrentFunction
<1>8. CountedMove(program, contexts, nodeCount, edgeCount, q, u, v, nodeCount', edgeCount')
  <2>1. nodeCount' = IF Seen(program, contexts, q) THEN Incremented(nodeCount, <<q, v>>) ELSE nodeCount
    BY <1>1, <1>3, ArriveFacts DEF Execution
  <2>2. edgeCount' = IF Seen(program, contexts, q)
                     THEN Incremented(edgeCount, <<q, u, v, Count(nodeCount, <<q, u>>) = 1,
                                                   Count(nodeCount, <<q, v>>) = 0>>)
                     ELSE edgeCount
    BY <1>1, <1>3, TraverseFacts, Zenon DEF Execution
  <2>3. QED
    BY <2>1, <2>2, Zenon DEF CountedMove
<1> DEFINE au == [x \in 1 .. Len(contexts) |-> IF x = c THEN None ELSE IF x = q THEN v ELSE at[x]]
<1>9. Following(contexts, au, q, v)
      /\ Move(program, contexts, nodeCount, edgeCount, at, q, u, v, nodeCount', edgeCount', au)
  BY <1>2, <1>4, <1>5, <1>6, <1>7, <1>8, FollowReturn DEF q, u
<1> HIDE DEF au
<1>10. Counting(program, contexts, nodeCount', edgeCount', externalCount, au)
  BY <1>4, <1>5, <1>9, Moved
<1>11. v # None
  BY <1>5, <1>6, GraphFacts
<1>12. LoopsBounded(program) => Paced(program, contexts, nodeCount', edgeCount', iterations', au)
  <2>1. Follow(GetCallerNodeStack(q), u, v)
    BY <1>1, <1>3 DEF Return
  <2>2. QED
    BY <1>3, <1>4, <1>9, <2>1, FollowPaces DEF Execution
<1>13. Tallied(program, contexts, nodeCount', edgeCount', externalCount', iterations', au)
  BY <1>1, <1>10, <1>12 DEF Tallied
<1>14. QED
  BY <1>1, <1>2, <1>3, <1>9, <1>11, <1>13, TallyKeeps

LEMMA AnalyseTallies ==
  ASSUME Execution, Tally, Analyse
  PROVE  Tally'
<1>1. node' = None /\ UNCHANGED <<node, stack, nodeCount, edgeCount, externalCount>>
  BY AnalyseKeeps DEF Analyse, runVars, ipetVars
<1>2. program' = program
  <2>1. CASE BuildCallGraph
    <3>1. CASE \E n \in CallsLeft : ScanKnownCall(n) \/ AddCallee(n)
      BY <3>1 DEF ScanKnownCall, AddCallee
    <3>2. CASE EndBuild
      BY <3>2 DEF EndBuild
    <3>3. CASE TestCycles
      BY <3>3 DEF TestCycles
    <3>4. QED
      BY <2>1, <3>1, <3>2, <3>3 DEF BuildCallGraph
  <2>2. CASE Explore \/ initialise
    BY <2>2 DEF Explore, initialise
  <2>3. QED
    BY <2>1, <2>2 DEF Analyse
<1>3. phase' # "done"
  <2>1. CASE BuildCallGraph
    <3>1. CASE \E n \in CallsLeft : ScanKnownCall(n) \/ AddCallee(n)
      BY <3>1 DEF ScanKnownCall, AddCallee, CallsLeft
    <3>2. CASE EndBuild
      BY <3>2 DEF EndBuild
    <3>3. CASE TestCycles
      BY <3>3 DEF TestCycles
    <3>4. QED
      BY <2>1, <3>1, <3>2, <3>3 DEF BuildCallGraph
  <2>2. CASE Explore \/ initialise
    BY <2>2 DEF Explore, initialise
  <2>3. QED
    BY <2>1, <2>2 DEF Analyse
<1>4. QED
  BY <1>1, <1>2, <1>3 DEF Tally

LEMMA TallyStarts == IPETInit => Tally
BY DEF IPETInit, Init, InitRun, InitContexts, Tally

LEMMA TallyKept ==
  ASSUME Execution, Tally, [IPETNext]_vars
  PROVE  Tally'
<1>1. CASE Analyse
  BY <1>1, AnalyseTallies
<1>2. CASE ~ EnteredByCalls(program) /\ (Enter \/ Step \/ CallFunction \/ ReturnToCaller)
  BY <1>2 DEF Tally, Enter, Step, CallFunction, ReturnToCaller, Unanalysed
<1>3. CASE EnteredByCalls(program) /\ (Enter \/ Step \/ CallFunction \/ ReturnToCaller)
  BY <1>3, EnterTallies, StepTallies, CallTallies, ReturnTallies
<1>4. CASE Stop
  <2>1. /\ node # None /\ AtReturn /\ stack = <<>>
        /\ UNCHANGED <<program, contexts, stack, node, iterations, nodeCount, edgeCount, externalCount>>
    BY <1>4 DEF Stop, Running, Unanalysed, contextVars, runVars, ipetVars
  <2>2. AtReturn'
    BY <2>1 DEF AtReturn, AtCall, FunctionOn, IsCall, GetCallee, Functions
  <2>3. QED
    BY <2>1, <2>2 DEF Tally
<1>5. CASE UNCHANGED vars
  <2>1. /\ UNCHANGED <<program, phase, contexts, runVars, nodeCount, edgeCount, externalCount>>
        /\ UNCHANGED <<stack, node, iterations>>
    BY <1>5 DEF vars, contextVars, runVars, ipetVars
  <2>2. AtReturn => AtReturn'
    BY <2>1 DEF AtReturn, AtCall, FunctionOn, IsCall, GetCallee, Functions
  <2>3. QED
    BY <2>1, <2>2 DEF Tally
<1>6. QED
  BY <1>1, <1>2, <1>3, <1>4, <1>5 DEF IPETNext, Done
-----------------------------------------------------------------------------
(* At the end no call is under way, and the counts are a flow.             *)
LEMMA EndFacts ==
  ASSUME Execution, Tally, EnteredByCalls(program), phase = "done"
  PROVE  \E at : /\ Tallied(program, contexts, nodeCount, edgeCount, externalCount, iterations, at)
                 /\ at[1] = node /\ node \in GraphOf(program, contexts, 1).ends
                 /\ node \notin DOMAIN GraphOf(program, contexts, 1).callee
                 /\ \A x \in 2 .. Len(contexts) : at[x] = None
<1>1. node # None /\ AtReturn /\ stack = <<>>
  BY DEF Tally
<1> DEFINE c == CurrentContext(stack)
<1>2. c \in DOMAIN contexts /\ stack = GetCallerNodeStack(c)
      /\ \E at : /\ Following(contexts, at, c, node)
                 /\ Tallied(program, contexts, nodeCount, edgeCount, externalCount, iterations, at)
  BY <1>1, TallyHere
<1> HIDE DEF c
<1>3. c = 1
  BY <1>1, <1>2, StackOfContext DEF Execution
<1>4. FunctionOn(stack) = contexts[1].function
  BY <1>2, <1>3, StackOfContext DEF Execution, getCurrentFunction
<1>5. node \in GraphOf(program, contexts, 1).ends /\ node \notin DOMAIN GraphOf(program, contexts, 1).callee
  BY <1>1, <1>4 DEF AtReturn, AtCall, IsCall, GraphOf
<1>6. PICK at : /\ Following(contexts, at, 1, node)
                /\ Tallied(program, contexts, nodeCount, edgeCount, externalCount, iterations, at)
  BY <1>2, <1>3
<1>7. Anc(contexts, 1) = {1} /\ Len(contexts) \in Nat
  BY AncestorFacts, RootFacts DEF Execution, Tree_
<1>8. at[1] = node /\ \A x \in 2 .. Len(contexts) : at[x] = None
  BY <1>6, <1>7 DEF Following
<1>9. QED
  BY <1>5, <1>6, <1>8

LEMMA EndFlows ==
  ASSUME Execution, Tally, EnteredByCalls(program), phase = "done"
  PROVE  FlowHolds
<1>1. PICK at : /\ Counting(program, contexts, nodeCount, edgeCount, externalCount, at)
                /\ at[1] = node /\ node \in GraphOf(program, contexts, 1).ends
                /\ node \notin DOMAIN GraphOf(program, contexts, 1).callee
                /\ \A x \in 2 .. Len(contexts) : at[x] = None
  BY EndFacts DEF Tallied
<1>2. ContextTree(program, contexts, explored) /\ DOMAIN contexts = 1 .. Len(contexts) /\ Len(contexts) \in Nat
  BY RootFacts DEF Execution, Tree_
<1>3. EntryConstraint
  <2>1. Count(nodeCount, <<1, GraphOf(program, contexts, 1).start>>) = 1
    BY <1>1 DEF Counting
  <2>2. getCurrentFunction(1) = program.entry
    BY RootFacts DEF Execution
  <2>3. QED
    BY <2>1, <2>2 DEF EntryConstraint, n_, GraphOf, getCurrentFunction
<1>4. ASSUME NEW c \in 1 .. Len(contexts), NEW E
      PROVE  e_(c, E) = EdgeSum(edgeCount, c, E)
  BY DEF e_, efn_, EdgeSum
<1>5. ASSUME NEW c \in 1 .. Len(contexts), NEW n, From(program, contexts, c, n) # {}
      PROVE  One(at[c] = n) = 0 \/ n = None
  <2>1. CASE c = 1
    <3>1. From(program, contexts, 1, node) = {}
      BY <1>1, <1>2, <2>1, GraphFacts DEF From
    <3>2. QED
      BY <1>1, <1>5, <2>1, <3>1 DEF One
  <2>2. CASE c # 1
    <3>1. at[c] = None
      BY <1>1, <1>2, <2>2
    <3>2. QED
      BY <3>1 DEF One
  <2>3. QED
    BY <2>1, <2>2
<1>6. ASSUME NEW c \in 1 .. Len(contexts), NEW n \in NodesIn(program, contexts, c)
      PROVE  /\ Into(program, contexts, c, n) # {} =>
                  n_(c, n) = e_(c, Into(program, contexts, c, n))
             /\ From(program, contexts, c, n) # {} =>
                  n_(c, n) = e_(c, From(program, contexts, c, n))
  <2>1. \A E \in SUBSET GraphOf(program, contexts, c).edges :
          EdgeSum(edgeCount, c, E) \in Nat
          /\ ((\A e \in E : \A a, b \in BOOLEAN : Count(edgeCount, <<c, e[1], e[2], a, b>>) = 0)
                => EdgeSum(edgeCount, c, E) = 0)
    <3>1. \A E \in SUBSET GraphOf(program, contexts, c).edges : IsFiniteSet(E)
      BY <1>2, GraphFacts, FS_Subset
    <3>2. \A k : Count(edgeCount, k) \in Nat
      BY <1>1 DEF Counting, Numbers
    <3>3. QED
      BY <3>1, <3>2, EdgeSumTerms, Zenon
  <2>2. /\ Into(program, contexts, c, n) \in SUBSET GraphOf(program, contexts, c).edges
        /\ From(program, contexts, c, n) \in SUBSET GraphOf(program, contexts, c).edges
    BY DEF Into, From
  <2>3. n # None
    BY <1>2, GraphFacts
  <2>4. CASE Seen(program, contexts, c)
    <3>1. Balanced(program, contexts, nodeCount, edgeCount, at, c)
      BY <1>1, <2>4 DEF Counting
    <3>2. Into(program, contexts, c, n) # {} => n # GraphOf(program, contexts, c).start
      BY <1>2, GraphFacts DEF Into
    <3>3. Into(program, contexts, c, n) # {} =>
            n_(c, n) = EdgeSum(edgeCount, c, Into(program, contexts, c, n))
      BY <3>1, <3>2 DEF Balanced, n_
    <3>4. From(program, contexts, c, n) # {} =>
            n_(c, n) = EdgeSum(edgeCount, c, From(program, contexts, c, n)) + One(at[c] = n)
      BY <3>1 DEF Balanced, n_
    <3>5. From(program, contexts, c, n) # {} => One(at[c] = n) = 0
      BY <1>5, <2>3
    <3>6. EdgeSum(edgeCount, c, From(program, contexts, c, n)) \in Nat
      BY <2>1, <2>2
    <3>7. QED
      BY <1>4, <3>3, <3>4, <3>5, <3>6
  <2>5. CASE ~ Seen(program, contexts, c)
    <3>1. Untouched(program, contexts, nodeCount, edgeCount, c)
      BY <1>1, <2>5 DEF Counting
    <3>2. n_(c, n) = 0
      BY <3>1 DEF Untouched, n_
    <3>3. ASSUME NEW E \in SUBSET GraphOf(program, contexts, c).edges
          PROVE  EdgeSum(edgeCount, c, E) = 0
      <4>1. \A e \in E : \A a, b \in BOOLEAN : Count(edgeCount, <<c, e[1], e[2], a, b>>) = 0
        BY <3>1, Zenon DEF Untouched
      <4>2. QED
        BY <2>1, <4>1, Zenon
    <3>4. QED
      BY <1>4, <2>2, <3>2, <3>3
  <2>6. QED
    BY <2>4, <2>5
<1>7. ASSUME NEW c \in 1 .. Len(contexts), NEW e \in GraphOf(program, contexts, c).edges
      PROVE  /\ efn_(c, e, TRUE, TRUE) + efn_(c, e, TRUE, FALSE) <= 1
             /\ efn_(c, e, TRUE, TRUE) + efn_(c, e, FALSE, TRUE) <= 1
  <2>1. CASE Seen(program, contexts, c)
    <3>1. FirstOnce(program, contexts, edgeCount, c)
      BY <1>1, <2>1 DEF Counting
    <3>2. QED
      BY <3>1 DEF FirstOnce, efn_
  <2>2. CASE ~ Seen(program, contexts, c)
    <3>1. Untouched(program, contexts, nodeCount, edgeCount, c)
      BY <1>1, <2>2 DEF Counting
    <3> DEFINE c11 == efn_(c, e, TRUE, TRUE)
               c10 == efn_(c, e, TRUE, FALSE)
               c01 == efn_(c, e, FALSE, TRUE)
    <3>2. c11 = 0 /\ c10 = 0 /\ c01 = 0
      <4>1. TRUE \in BOOLEAN /\ FALSE \in BOOLEAN
        OBVIOUS
      <4>2. QED
        BY <3>1, <4>1, Zenon DEF Untouched, efn_
    <3> HIDE DEF c11, c10, c01
    <3>3. c11 + c10 <= 1 /\ c11 + c01 <= 1
      BY <3>2
    <3>4. QED
      BY <3>3 DEF c11, c10, c01
  <2>3. QED
    BY <2>1, <2>2
<1>8. ASSUME NEW f \in Counted, NEW c \in ContextList(f)
      PROVE  FlowConstraints(f, c) /\ EdgeConstraints(f, c)
  <2>1. c \in 1 .. Len(contexts) /\ contexts[c].function = f
    BY <1>2, <1>8 DEF ContextList, getCurrentFunction
  <2>2. /\ program.cfg[f] = GraphOf(program, contexts, c)
        /\ Nodes(f) = NodesIn(program, contexts, c)
    BY <2>1 DEF GraphOf, NodesIn, NodesOf, Nodes
  <2>3. FlowConstraints(f, c)
    <3>1. SUFFICES ASSUME NEW n \in Nodes(f)
                   PROVE  LET into == {e \in program.cfg[f].edges : e[2] = n}
                              from == {e \in program.cfg[f].edges : e[1] = n}
                          IN  /\ into # {} => n_(c, n) = e_(c, into)
                              /\ from # {} => n_(c, n) = e_(c, from)
      BY DEF FlowConstraints
    <3>2. /\ Into(program, contexts, c, n) # {} => n_(c, n) = e_(c, Into(program, contexts, c, n))
          /\ From(program, contexts, c, n) # {} => n_(c, n) = e_(c, From(program, contexts, c, n))
      BY <1>6, <2>1, <2>2, <3>1
    <3>3. /\ Into(program, contexts, c, n) = {e \in program.cfg[f].edges : e[2] = n}
          /\ From(program, contexts, c, n) = {e \in program.cfg[f].edges : e[1] = n}
      BY <2>2 DEF Into, From
    <3>4. QED
      BY <3>2, <3>3
  <2>4. EdgeConstraints(f, c)
    BY <1>7, <2>1, <2>2, Zenon DEF EdgeConstraints
  <2>5. QED
    BY <2>3, <2>4
<1>9. ASSUME NEW f \in Used, NEW c \in ContextList(f)
      PROVE  CallConstraints(f, c)
  <2> DEFINE q == contexts[c].caller
             n == contexts[c].node
             start == program.cfg[f].start
  <2>1. c \in 1 .. Len(contexts) /\ contexts[c].function = f /\ start = GraphOf(program, contexts, c).start
    BY <1>2, <1>9 DEF ContextList, getCurrentFunction, GraphOf
  <2>2. CASE q = None
    BY <2>2 DEF CallConstraints
  <2>3. CASE q # None
    <3>1. c \in 2 .. Len(contexts)
      BY <1>2, <2>1, <2>3, RootFacts DEF Execution
    <3>2. CallsCounted(program, contexts, nodeCount, externalCount, at, c)
      BY <1>1, <3>1 DEF Counting
    <3>3. /\ q \in 1 .. Len(contexts) /\ n \in NodesIn(program, contexts, q) /\ n # None
          /\ n \in DOMAIN GraphOf(program, contexts, q).callee
      BY <1>2, <3>1, GraphFacts
    <3>4. Seen(program, contexts, c) <=> Seen(program, contexts, q) /\ ~ HasExternalWCET(f)
      BY <1>2, <2>1, <3>1, SeenFacts DEF HasExternalWCET
    <3>5. One(at[q] = n /\ at[c] = None) = 0
      <4>1. at[q] # n
        <5>1. CASE q = 1
          BY <1>1, <3>3, <5>1
        <5>2. CASE q # 1
          <6>1. at[q] = None
            BY <1>1, <1>2, <3>3, <5>2
          <6>2. QED
            BY <3>3, <6>1
        <5>3. QED
          BY <5>1, <5>2
      <4>2. QED
        BY <4>1 DEF One
    <3>6. Called(program, contexts, nodeCount, externalCount, c)
            = IF HasExternalWCET(f) THEN Count(externalCount, c) ELSE Count(nodeCount, <<c, start>>)
      BY <2>1 DEF Called, HasExternalWCET
    <3>7. Count(externalCount, c) \in Nat /\ Count(nodeCount, <<c, start>>) \in Nat
      BY <1>1 DEF Counting, Numbers
    <3>8. CASE Seen(program, contexts, q)
      <4>1. Called(program, contexts, nodeCount, externalCount, c) + One(at[q] = n /\ at[c] = None)
              = Count(nodeCount, <<q, n>>)
        BY <3>2, <3>8 DEF CallsCounted
      <4>2. Called(program, contexts, nodeCount, externalCount, c) = Count(nodeCount, <<q, n>>)
        BY <3>5, <3>6, <3>7, <4>1
      <4>3. ~ HasExternalWCET(f) => isReachableState(c)
        BY <3>4, <3>8, ReachableState
      <4>4. QED
        BY <2>1, <3>6, <4>2, <4>3 DEF CallConstraints, n_, ex_
    <3>9. CASE ~ Seen(program, contexts, q)
      <4>1. Count(externalCount, c) = 0
        BY <3>2, <3>9 DEF CallsCounted
      <4>2. Untouched(program, contexts, nodeCount, edgeCount, q)
        BY <1>1, <3>3, <3>9 DEF Counting
      <4>3. Untouched(program, contexts, nodeCount, edgeCount, c)
        BY <1>1, <2>1, <3>4, <3>9 DEF Counting
      <4>4. Count(nodeCount, <<q, n>>) = 0
        BY <3>3, <4>2 DEF Untouched
      <4>5. Count(nodeCount, <<c, start>>) = 0
        BY <1>2, <2>1, <4>3, GraphFacts DEF Untouched
      <4>6. ~ isReachableState(c)
        BY <3>4, <3>9, ReachableState
      <4>7. QED
        BY <2>1, <4>1, <4>4, <4>5, <4>6 DEF CallConstraints, n_, ex_
    <3>10. QED
      BY <3>8, <3>9
  <2>4. QED
    BY <2>2, <2>3
<1>10. QED
  BY <1>3, <1>8, <1>9 DEF FlowHolds

(* The loop constraints: an execution goes round no loop more often than   *)
(* its entries and its bound allow.                                        *)
LEMMA EndLoops ==
  ASSUME Execution, Tally, EnteredByCalls(program), LoopsBounded(program), phase = "done",
         NEW f \in Counted, NEW c \in ContextList(f)
  PROVE  LoopConstraints(f, c)
<1>1. PICK at : Tallied(program, contexts, nodeCount, edgeCount, externalCount, iterations, at)
  BY EndFacts
<1>2. /\ Counting(program, contexts, nodeCount, edgeCount, externalCount, at)
      /\ Paced(program, contexts, nodeCount, edgeCount, iterations, at)
  BY <1>1 DEF Tallied
<1>3. ContextTree(program, contexts, explored) /\ DOMAIN contexts = 1 .. Len(contexts)
  BY RootFacts DEF Execution, Tree_
<1>4. c \in 1 .. Len(contexts) /\ contexts[c].function = f
  BY <1>3 DEF ContextList, getCurrentFunction
<1> DEFINE g == program.cfg[f]
<1>5. g = GraphOf(program, contexts, c)
  BY <1>4 DEF GraphOf
<1>6. ASSUME NEW l \in Loops(g), NEW n \in GetAllNodesNotNested(g, l),
             BBLoopMustBeConstrained(g, l, n) \/ GetAllNodesNotNested(g, l) = {l.head}
      PROVE  n_(c, n) <= l.maxiter * e_(c, {e \in g.edges : e[2] = l.head /\ e[1] \notin l.nodes})
  <2>1. Constrained(g, l, n)
    BY <1>6 DEF Constrained
  <2>2. Count(nodeCount, <<c, n>>) <= l.maxiter * EdgeSum(edgeCount, c, Entries(g, l))
    <3> HIDE DEF g
    <3>1. QED
      BY <1>2, <1>3, <1>4, <1>5, <1>6, <2>1, PacedBounds
  <2>3. e_(c, Entries(g, l)) = EdgeSum(edgeCount, c, Entries(g, l))
    <3> DEFINE E == Entries(g, l)
    <3> HIDE DEF E
    <3>1. e_(c, E) = EdgeSum(edgeCount, c, E)
      BY DEF e_, efn_, EdgeSum
    <3>2. QED
      BY <3>1 DEF E
  <2>4. n_(c, n) = Count(nodeCount, <<c, n>>)
    BY DEF n_
  <2>5. n_(c, n) <= l.maxiter * e_(c, Entries(g, l))
    BY <2>2, <2>3, <2>4
  <2>6. QED
    BY <2>5 DEF Entries
<1>7. QED
  BY <1>6 DEF LoopConstraints

(* What an execution counts by its end satisfies the flow, edge, call and  *)
(* entry constraints of the linear program, whatever its graphs, its calls *)
(* and its annotations, when a function is entered by calls alone: the     *)
(* constraints of ConstraintsHold but the loop bounds.                     *)
THEOREM ExecutionsAreFlows == Spec => [](EnteredByCalls(program) /\ phase = "done" => FlowHolds)
<1>1. IPETInit => Execution /\ Tally
  BY TallyStarts, ExecutionStarts
<1>2. Execution /\ Tally /\ [IPETNext]_vars => (Execution /\ Tally)'
  BY ExecutionKept, TallyKept
<1>3. Execution /\ Tally => (EnteredByCalls(program) /\ phase = "done" => FlowHolds)
  BY EndFlows
<1>4. QED
  BY <1>1, <1>2, <1>3, PTL DEF Spec

(* What an execution counts by its end is a solution of the linear         *)
(* program, the loop constraints included, whatever its graphs, its calls, *)
(* its annotations and the bounds of its loops: of a program whose         *)
(* functions are entered by calls alone, whose cycles all go through the   *)
(* head of a loop, and no loop of which has nothing of its own but a test. *)
THEOREM ExecutionsAreSolutions ==
  Spec => [](EnteredByCalls(program) /\ LoopsBounded(program) => ConstraintsHold)
<1>1. IPETInit => Execution /\ Tally
  BY TallyStarts, ExecutionStarts
<1>2. Execution /\ Tally /\ [IPETNext]_vars => (Execution /\ Tally)'
  BY ExecutionKept, TallyKept
<1>3. Execution /\ Tally => (EnteredByCalls(program) /\ LoopsBounded(program) => ConstraintsHold)
  <2>1. ASSUME Execution, Tally, EnteredByCalls(program), LoopsBounded(program), phase = "done"
        PROVE  /\ FlowHolds
               /\ \A f \in Counted : \A c \in ContextList(f) : LoopConstraints(f, c)
    BY <2>1, EndFlows, EndLoops
  <2>2. QED
    BY <2>1 DEF ConstraintsHold
<1>4. QED
  BY <1>1, <1>2, <1>3, PTL DEF Spec
=============================================================================
