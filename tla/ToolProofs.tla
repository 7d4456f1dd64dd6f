----------------------------- MODULE ToolProofs -----------------------------
(***************************************************************************)
(* Proofs about the two tools beside the analysis: the loops of the        *)
(* extraction and the caches of the simulator.                             *)
(*                                                                         *)
(* The dominators and the loops of LoopDetection are those of the graph,   *)
(* for every graph and order of its nodes.  The invariant: the passes only *)
(* remove nodes that do not dominate, so every dominator is kept; a pass   *)
(* that changes nothing leaves a set of dominators closed under the paths, *)
(* so nothing else is; the walk of a loop marks what reaches a back edge.  *)
(*                                                                         *)
(* The caches of the simulator implement LRU, and its statistics count     *)
(* every access once, for every geometry, page table and program.          *)
(* A set of a cache is seen as the ages of its lines: the lines of a set   *)
(* used since.  Dates of use are all different, so a way is replaced when  *)
(* its age is the number of ways less one; then every age changes as LRU   *)
(* says.  The statistics are sums over the addresses: a fetch changes them *)
(* at one address.                                                         *)
(***************************************************************************)
EXTENDS LoopDetection, MMU, Lemmas

(* The sources of the back edges to h, by the dominators computed. *)
Sources(h) == {pred \in Predecessors(cfg.edges, h) : h \in dominators[pred]}

(* What h and the paths to its back edges without h reach. *)
Body(h) == {h} \cup Reachable(Reversed(Without(cfg.edges, h)), Sources(h) \ {h})

Loop == [head : Nodes, nodes : SUBSET Nodes, backedges : SUBSET (Nodes \X Nodes)]

TypeOK ==
  /\ cfg \in Graphs
  /\ phase \in {"dominators", "loops", "done"}
  /\ next \in 1 .. Len(cfg.nodes) + 1
  /\ dominators \in [Nodes -> SUBSET Nodes]
  /\ change \in BOOLEAN
  /\ steps \in Nat
  /\ loops \in Seq(Loop)
  /\ todo \in SUBSET Nodes

(* The equation of the dominators of bb. *)
Solved(bb) == bb = StartNode \/ dominators[bb] = Intersection(bb) \cup {bb}

DominatorsInv ==
  /\ dominators[StartNode] = {StartNode}
  /\ \A n \in Nodes : n \in dominators[n]
  /\ NoDominatorLost

(* A pass that changed nothing leaves solved nodes behind it. *)
PassInv ==
  /\ phase = "dominators" => steps > 0
  /\ phase = "dominators" /\ ~ change => \A i \in 1 .. next - 1 : Solved(cfg.nodes[i])
  /\ phase # "dominators" /\ steps > 0 => \A n \in Nodes : Solved(n)

(* The head of l has back edges, and l has them. *)
Headed(l) ==
  /\ Sources(l.head) # {}
  /\ l.backedges = Sources(l.head) \X {l.head}

(* The loops are those of the heads seen so far, one each. *)
HeadsInv ==
  /\ phase = "dominators" => loops = <<>>
  /\ loops = <<>> => todo = {}
  /\ \A i \in 1 .. Len(loops) :
        /\ Headed(loops[i])
        /\ \E k \in 1 .. next - 1 : loops[i].head = cfg.nodes[k]
  /\ \A i, j \in 1 .. Len(loops) : loops[i].head = loops[j].head => i = j
  /\ phase # "dominators" =>
       \A k \in 1 .. next - 1 :
          Sources(cfg.nodes[k]) # {} => \E i \in 1 .. Len(loops) : loops[i].head = cfg.nodes[k]
  /\ phase = "done" => next > Len(cfg.nodes) /\ todo = {}

(* The nodes of a loop and those left to walk are nodes of its body, and   *)
(* nothing of the body is out of sight.                                    *)
Walked(l, left) ==
  /\ l.head \in l.nodes
  /\ Sources(l.head) \subseteq l.nodes \cup left
  /\ l.nodes \cup left \subseteq Body(l.head)
  /\ \A n \in l.nodes \ {l.head} : Predecessors(cfg.edges, n) \subseteq l.nodes \cup left

WalkInv ==
  \A i \in 1 .. Len(loops) : Walked(loops[i], IF i = Len(loops) THEN todo ELSE {})

IInv == TypeOK /\ DominatorsInv /\ PassInv /\ HeadsInv /\ WalkInv
-----------------------------------------------------------------------------
LEMMA Graph ==
  ASSUME cfg \in Graphs
  PROVE  /\ Len(cfg.nodes) \in Nat \ {0}
         /\ DOMAIN cfg.nodes = 1 .. Len(cfg.nodes)
         /\ \A i \in 1 .. Len(cfg.nodes) : cfg.nodes[i] \in Nodes
         /\ \A n \in Nodes : \E i \in 1 .. Len(cfg.nodes) : n = cfg.nodes[i]
         /\ \A i, j \in 1 .. Len(cfg.nodes) : cfg.nodes[i] = cfg.nodes[j] => i = j
         /\ StartNode \in Nodes
         /\ cfg.edges \subseteq Nodes \X Nodes
         /\ IsFiniteSet(cfg.edges)
<1>1. cfg.nodes \in Seq(Nodes) /\ cfg.nodes # <<>> /\ IsInjective(cfg.nodes)
      /\ cfg.edges \subseteq Nodes \X Nodes
  BY GraphsAssumption, Zenon DEF Nodes
<1>2. Len(cfg.nodes) \in Nat \ {0} /\ DOMAIN cfg.nodes = 1 .. Len(cfg.nodes)
  BY <1>1
<1>3. \A i \in 1 .. Len(cfg.nodes) : cfg.nodes[i] \in Nodes
  BY <1>1, <1>2
<1>4. \A n \in Nodes : \E i \in 1 .. Len(cfg.nodes) : n = cfg.nodes[i]
  BY <1>2, Zenon DEF Nodes, Range
<1>5. \A i, j \in 1 .. Len(cfg.nodes) : cfg.nodes[i] = cfg.nodes[j] => i = j
  BY <1>1, <1>2, Zenon DEF IsInjective
<1>6. StartNode \in Nodes
  BY <1>2, <1>3 DEF StartNode
<1>7. IsFiniteSet(cfg.edges)
  <2> DEFINE f == [i \in 1 .. Len(cfg.nodes) |-> cfg.nodes[i]]
  <2>1. f \in Surjection(1 .. Len(cfg.nodes), Nodes)
    BY <1>3, <1>4 DEF Surjection
  <2>2. IsFiniteSet(1 .. Len(cfg.nodes))
    BY <1>2, FS_Interval
  <2>3. IsFiniteSet(Nodes)
    BY <2>1, <2>2, FS_Surjection
  <2>4. IsFiniteSet(Nodes \X Nodes)
    BY <2>3, FS_Product
  <2>5. QED
    BY <1>1, <2>4, FS_Subset
<1>8. QED
  BY <1>1, <1>2, <1>3, <1>4, <1>5, <1>6, <1>7

(* What dominates a node and is not that node dominates its predecessors. *)
LEMMA DominatesPredecessor ==
  ASSUME NEW edges, NEW entry, NEW d, NEW e \in edges, IsFiniteSet(edges),
         Dominates(edges, entry, d, e[2]), d # e[2]
  PROVE  Dominates(edges, entry, d, e[1])
<1>1. CASE d = entry \/ d = e[1]
  BY <1>1 DEF Dominates
<1>2. CASE d # entry /\ d # e[1]
  <2>1. e[2] \notin Reachable(Without(edges, d), {entry})
    BY <1>2 DEF Dominates
  <2>2. e \in Without(edges, d)
    BY <1>2 DEF Without
  <2>3. IsFiniteSet(Without(edges, d))
    BY WithoutFinite
  <2>4. e[1] \notin Reachable(Without(edges, d), {entry})
    BY <2>1, <2>2, <2>3, ReachableClosed, Zenon
  <2>5. QED
    BY <2>4 DEF Dominates
<1>3. QED
  BY <1>1, <1>2

(* Only the entry dominates the entry. *)
LEMMA DominatesEntry ==
  ASSUME NEW edges, NEW entry, NEW d, IsFiniteSet(edges), Dominates(edges, entry, d, entry)
  PROVE  d = entry
<1>1. entry \in Reachable(Without(edges, d), {entry})
  BY WithoutFinite, ReachableStart
<1>2. QED
  BY <1>1 DEF Dominates

(* Solutions of the equations are exact: a node that does not dominate n   *)
(* is outside the set of n, whatever solution it is.                       *)
LEMMA SolutionsExact ==
  ASSUME TypeOK, DominatorsInv, \A n \in Nodes : Solved(n)
  PROVE  \A n \in Nodes :
           dominators[n] = {d \in Nodes : Dominates(cfg.edges, StartNode, d, n)}
<1>1. ASSUME NEW n \in Nodes, NEW d \in Nodes, Dominates(cfg.edges, StartNode, d, n)
      PROVE  d \in dominators[n]
  BY <1>1, Zenon DEF DominatorsInv, NoDominatorLost
<1>2. ASSUME NEW n \in Nodes, NEW d \in dominators[n], ~ Dominates(cfg.edges, StartNode, d, n)
      PROVE  FALSE
  <2> DEFINE edges == Without(cfg.edges, d)
             T == {m \in Nodes : d \notin dominators[m]}
  <2>1. d # n /\ d # StartNode /\ n \in Reachable(edges, {StartNode})
    BY <1>2 DEF Dominates
  <2>2. {StartNode} \subseteq T
    BY <2>1, Graph DEF TypeOK, DominatorsInv
  <2>3. ASSUME NEW e \in edges, e[1] \in T
        PROVE  e[2] \in T
    <3>1. e \in cfg.edges /\ e[2] # d
      BY DEF Without
    <3>2. e[1] \in Nodes /\ e[2] \in Nodes
      BY <3>1, Graph DEF TypeOK
    <3>3. e[1] \in Predecessors(cfg.edges, e[2])
      BY <3>1 DEF Predecessors
    <3>4. d \notin Intersection(e[2]) \cup {e[2]}
      BY <2>3, <3>1, <3>3 DEF Intersection
    <3>5. CASE e[2] = StartNode
      BY <2>2, <3>5
    <3>6. CASE dominators[e[2]] = Intersection(e[2]) \cup {e[2]}
      BY <3>2, <3>4, <3>6
    <3>7. QED
      BY <3>2, <3>5, <3>6 DEF Solved
  <2>4. IsFiniteSet(edges)
    BY WithoutFinite, Graph DEF TypeOK
  <2>5. Reachable(edges, {StartNode}) \subseteq T
    <3> HIDE DEF T, edges
    <3>1. QED
      BY <2>2, <2>3, <2>4, ReachableLeast
  <2>6. QED
    BY <1>2, <2>1, <2>5
<1>3. \A n \in Nodes : dominators[n] \subseteq Nodes
  BY DEF TypeOK
<1>4. QED
  BY <1>1, <1>2, <1>3
(* A walk with nothing left has found the body. *)
LEMMA WalkComplete ==
  ASSUME TypeOK, NEW l, Walked(l, {})
  PROVE  l.nodes = Body(l.head)
<1> DEFINE h == l.head
           edges == Reversed(Without(cfg.edges, h))
<1>1. IsFiniteSet(edges)
  BY WithoutFinite, ReversedFinite, Graph DEF TypeOK
<1>2. Sources(h) \ {h} \subseteq l.nodes
  BY DEF Walked
<1>3. ASSUME NEW e \in edges, e[1] \in l.nodes
      PROVE  e[2] \in l.nodes
  <2>1. PICK x \in Without(cfg.edges, h) : e = <<x[2], x[1]>>
    BY DEF Reversed
  <2>2. x \in cfg.edges /\ x[2] # h
    BY <2>1 DEF Without
  <2>3. x[1] \in Predecessors(cfg.edges, x[2])
    BY <2>2 DEF Predecessors
  <2>4. x[2] \in l.nodes \ {h}
    BY <1>3, <2>1, <2>2
  <2>5. Predecessors(cfg.edges, x[2]) \subseteq l.nodes
    BY <2>4 DEF Walked
  <2>6. QED
    BY <2>1, <2>3, <2>5
<1>4. Reachable(edges, Sources(h) \ {h}) \subseteq l.nodes
  <2> HIDE DEF edges, h
  <2>1. QED
    BY <1>1, <1>2, <1>3, ReachableLeast
<1>5. QED
  BY <1>4 DEF Walked, Body

-----------------------------------------------------------------------------
LEMMA InitIInv ==
  ASSUME Init
  PROVE  IInv
<1>1. cfg \in Graphs
  BY DEF Init
<1>2. TypeOK
  <2>1. dominators \in [Nodes -> SUBSET Nodes]
    BY <1>1, Graph DEF Init
  <2>2. loops \in Seq(Loop)
    BY DEF Init
  <2>3. next \in 1 .. Len(cfg.nodes) + 1 /\ steps \in Nat
    BY <1>1, Graph, PassesAssumption DEF Init
  <2>4. QED
    BY <1>1, <2>1, <2>2, <2>3 DEF Init, TypeOK
<1>3. DominatorsInv
  <2>1. ASSUME NEW n \in Nodes, NEW d \in Nodes, Dominates(cfg.edges, StartNode, d, n)
        PROVE  d \in dominators[n]
    <3>1. CASE n = StartNode
      BY <1>1, <2>1, <3>1, Graph, DominatesEntry DEF Init
    <3>2. CASE n # StartNode
      BY <3>2 DEF Init
    <3>3. QED
      BY <3>1, <3>2
  <2>2. QED
    BY <1>1, <2>1, Graph DEF Init, DominatorsInv, NoDominatorLost
<1>4. PassInv /\ HeadsInv /\ WalkInv
  BY PassesAssumption DEF Init, PassInv, HeadsInv, WalkInv
<1>5. QED
  BY <1>2, <1>3, <1>4 DEF IInv

(* Visit replaces the set of a node by its equation. *)
LEMMA VisitIInv ==
  ASSUME IInv, Visit
  PROVE  IInv'
<1> DEFINE bb == Current
           TempSet == Intersection(bb) \cup {bb}
<1>1. /\ TypeOK /\ DominatorsInv /\ PassInv /\ HeadsInv /\ WalkInv
      /\ next \in 1 .. Len(cfg.nodes) /\ phase = "dominators"
  BY Graph DEF IInv, Visit, TypeOK
<1>2. bb \in Nodes
  BY <1>1, Graph DEF Current, TypeOK
<1>3. UNCHANGED <<cfg, phase, steps, loops, todo, Nodes, StartNode>> /\ next' = next + 1
  BY DEF Visit, Nodes, StartNode
<1>4. \/ /\ UNCHANGED <<dominators, change>>
         /\ Solved(bb)
      \/ /\ bb # StartNode
         /\ dominators' = [dominators EXCEPT ![bb] = TempSet]
         /\ change' = TRUE
  BY DEF Visit, Solved
<1>5. TempSet \in SUBSET Nodes
  BY <1>2 DEF Intersection
<1> HIDE DEF bb, TempSet
<1>6. dominators' \in [Nodes -> SUBSET Nodes] /\ change' \in BOOLEAN
  BY <1>1, <1>2, <1>4, <1>5 DEF TypeOK
<1>7. TypeOK'
  <2>1. next' \in 1 .. Len(cfg.nodes) + 1
    BY <1>1, <1>3, Graph DEF TypeOK
  <2>2. Loop' = Loop
    BY <1>3 DEF Loop
  <2>3. QED
    BY <1>1, <1>3, <1>6, <2>1, <2>2 DEF TypeOK
<1>8. ASSUME NEW n \in Nodes, NEW d \in Nodes, Dominates(cfg.edges, StartNode, d, n)
      PROVE  d \in dominators'[n]
  <2>1. d \in dominators[n]
    BY <1>1, <1>8, Zenon DEF DominatorsInv, NoDominatorLost
  <2>2. CASE n = bb /\ d # bb /\ bb # StartNode
    <3>1. ASSUME NEW pred \in Predecessors(cfg.edges, bb)
          PROVE  d \in dominators[pred]
      <4>1. PICK e \in cfg.edges : e[2] = bb /\ e[1] = pred
        BY DEF Predecessors
      <4>2. IsFiniteSet(cfg.edges) /\ e[1] \in Nodes
        BY <1>1, Graph DEF TypeOK
      <4>3. Dominates(cfg.edges, StartNode, d, e[1])
        BY <1>8, <2>2, <4>1, <4>2, DominatesPredecessor
      <4>4. QED
        BY <1>1, <4>1, <4>2, <4>3, Zenon DEF DominatorsInv, NoDominatorLost
    <3>2. d \in TempSet
      BY <3>1 DEF TempSet, Intersection
    <3>3. QED
      BY <1>1, <1>2, <1>4, <2>1, <2>2, <3>2 DEF TypeOK
  <2>3. CASE n = bb /\ d = bb
    <3>1. d \in TempSet
      BY <2>3 DEF TempSet
    <3>2. QED
      BY <1>1, <1>2, <1>4, <2>1, <2>3, <3>1 DEF TypeOK
  <2>4. CASE n # bb \/ bb = StartNode
    BY <1>1, <1>2, <1>4, <2>1, <2>4 DEF TypeOK
  <2>5. QED
    BY <2>2, <2>3, <2>4
<1>9. DominatorsInv'
  <2>1. dominators'[StartNode] = {StartNode}
    BY <1>1, <1>2, <1>4, Graph DEF TypeOK, DominatorsInv
  <2>2. ASSUME NEW n \in Nodes
        PROVE  n \in dominators'[n]
    <3>1. Dominates(cfg.edges, StartNode, n, n)
      BY DEF Dominates
    <3>2. QED
      BY <1>8, <3>1
  <2>3. NoDominatorLost'
    BY <1>3, <1>8 DEF NoDominatorLost
  <2>4. QED
    BY <1>3, <2>1, <2>2, <2>3 DEF DominatorsInv
<1>10. PassInv'
  <2>1. SUFFICES ASSUME ~ change', NEW i \in 1 .. next' - 1
                 PROVE  Solved(cfg.nodes[i])'
    BY <1>1, <1>3 DEF PassInv
  <2>2. UNCHANGED <<dominators, change>> /\ Solved(bb)
    BY <1>4, <2>1
  <2>3. Solved(cfg.nodes[i])
    BY <1>1, <1>3, <2>1, <2>2 DEF PassInv, bb, Current, TypeOK
  <2>4. QED
    BY <1>3, <2>2, <2>3 DEF Solved, Intersection
<1>11. HeadsInv' /\ WalkInv'
  BY <1>1, <1>3 DEF HeadsInv, WalkInv
<1>12. QED
  BY <1>7, <1>9, <1>10, <1>11 DEF IInv
(* EndPass starts over: the passes end with all nodes solved, or run out. *)
LEMMA EndPassIInv ==
  ASSUME IInv, EndPass
  PROVE  IInv'
<1>1. /\ TypeOK /\ DominatorsInv /\ PassInv /\ HeadsInv /\ WalkInv
      /\ phase = "dominators" /\ next = Len(cfg.nodes) + 1
  BY Graph DEF IInv, EndPass, TypeOK
<1>2. UNCHANGED <<cfg, dominators, loops, todo, Nodes, StartNode>>
  BY DEF EndPass, Nodes, StartNode
<1>3. /\ next' = 1 /\ change' = FALSE /\ steps' = steps - 1
      /\ phase' = IF change /\ steps > 1 THEN "dominators" ELSE "loops"
  BY DEF EndPass
<1>4. TypeOK' /\ PassInv'
  <2>1. steps \in Nat \ {0}
    BY <1>1 DEF TypeOK, PassInv
  <2>2. TypeOK'
    <3>1. next' \in 1 .. Len(cfg.nodes) + 1 /\ steps' \in Nat
      BY <1>1, <1>3, <2>1, Graph DEF TypeOK
    <3>2. Loop' = Loop
      BY <1>2 DEF Loop
    <3>3. QED
      BY <1>1, <1>2, <1>3, <3>1, <3>2 DEF TypeOK
  <2>3. ASSUME phase' # "dominators", steps' > 0, NEW n \in Nodes
        PROVE  Solved(n)'
    <3>1. ~ change
      BY <1>3, <2>1, <2>3
    <3>2. \A i \in 1 .. Len(cfg.nodes) : Solved(cfg.nodes[i])
      BY <1>1, <3>1, Graph DEF PassInv, TypeOK
    <3>3. Solved(n)
      BY <1>1, <3>2, Graph DEF TypeOK
    <3>4. QED
      BY <1>2, <3>3 DEF Solved, Intersection
  <2>4. PassInv'
    BY <1>2, <1>3, <2>1, <2>3 DEF PassInv
  <2>5. QED
    BY <2>2, <2>4
<1>5. DominatorsInv'
  BY <1>1, <1>2 DEF DominatorsInv, NoDominatorLost
<1>6. HeadsInv' /\ WalkInv'
  <2>1. loops = <<>> /\ todo = {} /\ Len(loops) = 0
    BY <1>1 DEF HeadsInv
  <2>2. QED
    BY <1>2, <1>3, <2>1 DEF HeadsInv, WalkInv
<1>7. QED
  BY <1>4, <1>5, <1>6 DEF IInv

(* Outside the passes the dominators do not change. *)
LEMMA SettledInv ==
  ASSUME DominatorsInv, PassInv, phase # "dominators", phase' # "dominators",
         UNCHANGED <<cfg, dominators, steps>>
  PROVE  DominatorsInv' /\ PassInv'
<1>1. UNCHANGED <<Nodes, StartNode>>
  BY DEF Nodes, StartNode
<1>2. DominatorsInv'
  BY <1>1 DEF DominatorsInv, NoDominatorLost
<1>3. PassInv'
  BY <1>1 DEF PassInv, Solved, Intersection
<1>4. QED
  BY <1>2, <1>3

(* Detect adds the loop of a head that no loop has, with nothing walked. *)
LEMMA DetectIInv ==
  ASSUME IInv, Detect
  PROVE  IInv'
<1> DEFINE h == Current
           l == [head |-> h, nodes |-> {h}, backedges |-> Sources(h) \X {h}]
<1>1. /\ TypeOK /\ DominatorsInv /\ PassInv /\ HeadsInv /\ WalkInv
      /\ phase = "loops" /\ todo = {} /\ next \in 1 .. Len(cfg.nodes)
  BY Graph DEF IInv, Detect, TypeOK
<1>2. UNCHANGED <<cfg, phase, dominators, change, steps, Nodes, StartNode, Loop>> /\ next' = next + 1
  BY DEF Detect, Nodes, StartNode, Loop
<1>3. h = cfg.nodes[next] /\ h \in Nodes
  BY <1>1, Graph DEF Current, TypeOK
<1>4. backEdgeSources = Sources(h)
  BY DEF backEdgeSources, Sources
<1>5. Sources(h) \in SUBSET Nodes
  BY <1>1, Graph DEF Sources, Predecessors, TypeOK
<1>6. l \in Loop
  BY <1>3, <1>5 DEF Loop
<1>7. \A n : (Sources(n))' = Sources(n) /\ (Body(n))' = Body(n)
  BY <1>2 DEF Sources, Body
<1>8. DominatorsInv' /\ PassInv'
  BY <1>1, <1>2, SettledInv
<1>9. next' \in 1 .. Len(cfg.nodes) + 1
  BY <1>1, <1>2, Graph DEF TypeOK
<1>10. loops \in Seq(Loop) /\ Len(loops) \in Nat
  BY <1>1 DEF TypeOK
<1>11. CASE Sources(h) = {} /\ UNCHANGED <<loops, todo>>
  <2>1. TypeOK'
    BY <1>1, <1>2, <1>9, <1>11 DEF TypeOK
  <2>2. HeadsInv'
    <3> HIDE DEF h, l
    <3>1. \A k \in 1 .. next - 1 : k \in 1 .. next' - 1
      BY <1>1, <1>2
    <3>2. \A k \in 1 .. next' - 1 : k \in 1 .. next - 1 \/ k = next
      BY <1>1, <1>2
    <3>3. \A i \in 1 .. Len(loops) :
             Headed(loops[i])' /\ \E k \in 1 .. next' - 1 : loops[i].head = cfg.nodes[k]
      BY <1>1, <1>2, <1>7, <1>11, <3>1 DEF HeadsInv, Headed
    <3>4. \A k \in 1 .. next' - 1 :
             Sources(cfg.nodes[k]) # {} => \E i \in 1 .. Len(loops) : loops[i].head = cfg.nodes[k]
      BY <1>1, <1>3, <1>11, <3>2 DEF HeadsInv
    <3>5. \A k : (Sources(cfg.nodes[k]))' = Sources(cfg.nodes[k])
      BY <1>2, <1>7
    <3>6. QED
      BY <1>1, <1>2, <1>11, <3>3, <3>4, <3>5 DEF HeadsInv
  <2>3. WalkInv'
    BY <1>1, <1>2, <1>7, <1>11 DEF WalkInv, Walked
  <2>4. QED
    BY <1>8, <2>1, <2>2, <2>3 DEF IInv
<1>12. CASE Sources(h) # {} /\ loops' = Append(loops, l) /\ todo' = Sources(h)
  <2> HIDE DEF l, h
  <2>1. /\ loops' \in Seq(Loop) /\ Len(loops') = Len(loops) + 1
        /\ \A i \in 1 .. Len(loops) : loops'[i] = loops[i]
        /\ loops'[Len(loops) + 1] = l
    BY <1>6, <1>10, <1>12
  <2>2. TypeOK'
    BY <1>1, <1>2, <1>5, <1>9, <1>12, <2>1 DEF TypeOK
  <2>3. l.head = h /\ l.nodes = {h} /\ l.backedges = Sources(h) \X {h}
    BY DEF l
  <2>4. \A i \in 1 .. Len(loops) : loops[i].head # h
    BY <1>1, <1>3, Graph DEF HeadsInv, TypeOK
  <2>5. HeadsInv'
    <3>1. loops' # <<>>
      BY <1>10, <2>1
    <3>2. ASSUME NEW i \in 1 .. Len(loops')
          PROVE  Headed(loops'[i]) /\ \E k \in 1 .. next' - 1 : loops'[i].head = cfg.nodes[k]
      <4>1. CASE i \in 1 .. Len(loops)
        <5>1. PICK k \in 1 .. next - 1 : Headed(loops[i]) /\ loops[i].head = cfg.nodes[k]
          BY <1>1, <4>1 DEF HeadsInv
        <5>2. k \in 1 .. next' - 1
          BY <1>1, <1>2
        <5>3. QED
          BY <2>1, <4>1, <5>1, <5>2
      <4>2. CASE i = Len(loops) + 1
        <5>1. Headed(l)
          BY <1>12, <2>3 DEF Headed
        <5>2. next \in 1 .. next' - 1
          BY <1>1, <1>2
        <5>3. QED
          BY <1>3, <2>1, <2>3, <4>2, <5>1, <5>2
      <4>3. QED
        BY <1>10, <2>1, <4>1, <4>2
    <3>3. ASSUME NEW i \in 1 .. Len(loops'), NEW j \in 1 .. Len(loops'),
                 loops'[i].head = loops'[j].head
          PROVE  i = j
      <4>1. CASE i \in 1 .. Len(loops) /\ j \in 1 .. Len(loops)
        BY <1>1, <2>1, <3>3, <4>1 DEF HeadsInv
      <4>2. CASE i = Len(loops) + 1 \/ j = Len(loops) + 1
        BY <1>10, <2>1, <2>3, <2>4, <3>3, <4>2
      <4>3. QED
        BY <1>10, <2>1, <4>1, <4>2
    <3>4. ASSUME NEW k \in 1 .. next' - 1, Sources(cfg.nodes[k]) # {}
          PROVE  \E i \in 1 .. Len(loops') : loops'[i].head = cfg.nodes[k]
      <4>1. CASE k = next
        BY <1>3, <1>10, <2>1, <2>3, <4>1
      <4>2. CASE k \in 1 .. next - 1
        <5>1. PICK i \in 1 .. Len(loops) : loops[i].head = cfg.nodes[k]
          BY <1>1, <3>4, <4>2 DEF HeadsInv
        <5>2. QED
          BY <1>10, <2>1, <5>1
      <4>3. QED
        BY <1>1, <1>2, <4>1, <4>2
    <3>5. QED
      <4>1. \A x : Headed(x)' <=> Headed(x)
        BY <1>7, Zenon DEF Headed
      <4>2. QED
        BY <1>1, <1>2, <1>7, <3>1, <3>2, <3>3, <3>4, <4>1 DEF HeadsInv
  <2>6. WalkInv'
    <3>1. ASSUME NEW i \in 1 .. Len(loops)
          PROVE  Walked(loops[i], {})
      BY <1>1 DEF WalkInv
    <3>2. Walked(l, Sources(h))
      <4>1. IsFiniteSet(Reversed(Without(cfg.edges, h)))
        BY <1>1, WithoutFinite, ReversedFinite, Graph DEF TypeOK
      <4>2. Sources(h) \ {h} \subseteq Body(h)
        BY <4>1, ReachableStart DEF Body
      <4>3. QED
        BY <2>3, <4>2 DEF Walked, Body
    <3>3. ASSUME NEW i \in 1 .. Len(loops')
          PROVE  Walked(loops'[i], IF i = Len(loops') THEN todo' ELSE {})
      <4>1. CASE i = Len(loops) + 1
        BY <1>10, <1>12, <2>1, <3>2, <4>1
      <4>2. CASE i \in 1 .. Len(loops)
        BY <1>10, <2>1, <3>1, <4>2
      <4>3. QED
        BY <1>10, <2>1, <4>1, <4>2
    <3>4. QED
      BY <1>2, <1>7, <3>3 DEF WalkInv, Walked
  <2>7. QED
    BY <1>8, <2>2, <2>5, <2>6 DEF IInv
<1>13. QED
  BY <1>4, <1>11, <1>12 DEF Detect
(* AddNode: the predecessors of a node of the body are of the body. *)
LEMMA AddNodeIInv ==
  ASSUME IInv, NEW current \in todo, AddNode(current)
  PROVE  IInv'
<1> DEFINE last == Len(loops)
           h == loop.head
<1>1. TypeOK /\ DominatorsInv /\ PassInv /\ HeadsInv /\ WalkInv
  BY DEF IInv
<1>2. UNCHANGED <<cfg, phase, next, dominators, change, steps, Nodes, StartNode, Loop>>
  BY DEF AddNode, Nodes, StartNode, Loop
<1>3. loops \in Seq(Loop) /\ Len(loops) \in Nat \ {0} /\ phase # "dominators" /\ phase # "done"
  BY <1>1 DEF TypeOK, HeadsInv
<1>4. loop \in Loop /\ loop = loops[last] /\ last \in 1 .. Len(loops)
  BY <1>3 DEF loop
<1>5. current \in Nodes /\ Predecessors(cfg.edges, current) \in SUBSET Nodes
  BY <1>1, Graph DEF Predecessors, TypeOK
<1>6. \A n : (Sources(n))' = Sources(n) /\ (Body(n))' = Body(n)
  BY <1>2 DEF Sources, Body
<1>7. DominatorsInv' /\ PassInv'
  BY <1>1, <1>2, <1>3, SettledInv
<1>8. Walked(loop, todo)
  BY <1>1, <1>4 DEF WalkInv
<1>9. \A i \in 1 .. Len(loops) : i # last => Walked(loops[i], {})
  BY <1>1 DEF WalkInv
<1>10. CASE current \in loop.nodes /\ todo' = todo \ {current} /\ UNCHANGED loops
  <2>1. Walked(loop, todo')
    <3>1. loop.nodes \cup todo' = loop.nodes \cup todo
      BY <1>10
    <3>2. QED
      BY <1>8, <3>1, Zenon DEF Walked
  <2>2. WalkInv'
    <3> HIDE DEF last
    <3>1. \A i \in 1 .. Len(loops) : Walked(loops[i], IF i = Len(loops) THEN todo' ELSE {})
      BY <1>4, <1>9, <2>1 DEF last
    <3>2. \A l, left : Walked(l, left)' <=> Walked(l, left')
      BY <1>2, <1>6 DEF Walked
    <3>3. QED
      BY <1>2, <1>6, <1>10, <3>1 DEF WalkInv, Walked
  <2>3. TypeOK'
    BY <1>1, <1>2, <1>10 DEF TypeOK
  <2>4. HeadsInv'
    <3>1. \A l : Headed(l)' <=> Headed(l)
      BY <1>6, Zenon DEF Headed
    <3>2. \A k : (Sources(cfg.nodes[k]))' = Sources(cfg.nodes[k])
      BY <1>2, <1>6
    <3>3. QED
      BY <1>1, <1>2, <1>3, <1>10, <3>1, <3>2 DEF HeadsInv
  <2>5. QED
    BY <1>7, <2>2, <2>3, <2>4 DEF IInv
<1>11. CASE /\ current \notin loop.nodes
            /\ loops' = WithNode(current)
            /\ todo' = (todo \ {current}) \cup Predecessors(cfg.edges, current)
  <2> DEFINE l == [loop EXCEPT !.nodes = @ \cup {current}]
  <2>1. l \in Loop /\ l.head = h /\ l.nodes = loop.nodes \cup {current} /\ l.backedges = loop.backedges
    BY <1>4, <1>5 DEF Loop
  <2> HIDE DEF l
  <2>2. /\ loops' \in Seq(Loop) /\ Len(loops') = Len(loops)
        /\ loops'[last] = l
        /\ \A i \in 1 .. Len(loops) : i # last => loops'[i] = loops[i]
    <3>1. loops' = [loops EXCEPT ![last] = l]
      BY <1>4, <1>11 DEF WithNode, l
    <3>2. QED
      BY <1>3, <1>4, <2>1, <3>1
  <2>3. \A i \in 1 .. Len(loops) :
          loops'[i].head = loops[i].head /\ loops'[i].backedges = loops[i].backedges
    BY <1>4, <2>1, <2>2
  <2>4. TypeOK'
    BY <1>1, <1>2, <1>5, <1>11, <2>2 DEF TypeOK
  <2>5. HeadsInv'
    <3>1. ASSUME NEW i \in 1 .. Len(loops')
          PROVE  Headed(loops'[i]) /\ \E k \in 1 .. next - 1 : loops'[i].head = cfg.nodes[k]
      <4>1. loops[i].head = loops'[i].head /\ loops[i].backedges = loops'[i].backedges
        BY <2>2, <2>3
      <4>2. Headed(loops[i]) /\ \E k \in 1 .. next - 1 : loops[i].head = cfg.nodes[k]
        BY <1>1, <2>2 DEF HeadsInv
      <4>3. Headed(loops'[i])
        BY <4>1, <4>2, Zenon DEF Headed
      <4>4. QED
        BY <4>1, <4>2, <4>3
    <3>2. ASSUME NEW i \in 1 .. Len(loops'), NEW j \in 1 .. Len(loops'), loops'[i].head = loops'[j].head
          PROVE  i = j
      BY <1>1, <2>2, <2>3, <3>2 DEF HeadsInv
    <3>3. ASSUME NEW k \in 1 .. next - 1, Sources(cfg.nodes[k]) # {}
          PROVE  \E i \in 1 .. Len(loops') : loops'[i].head = cfg.nodes[k]
      BY <1>1, <1>3, <2>2, <2>3, <3>3 DEF HeadsInv
    <3>4. (\A x : Headed(x)' <=> Headed(x)) /\ \A k : (Sources(cfg.nodes[k]))' = Sources(cfg.nodes[k])
      BY <1>2, <1>6, Zenon DEF Headed
    <3>5. loops' # <<>>
      BY <1>3, <2>2
    <3>6. QED
      BY <1>1, <1>2, <1>3, <3>1, <3>2, <3>3, <3>4, <3>5 DEF HeadsInv
  <2>6. Walked(l, todo')
    <3>1. loop.nodes \cup todo \subseteq l.nodes \cup todo'
      BY <1>11, <2>1
    <3>2. current # h
      BY <1>8, <1>11 DEF Walked
    <3>3. Predecessors(cfg.edges, current) \subseteq Body(h)
      <4> DEFINE edges == Reversed(Without(cfg.edges, h))
      <4>1. current \in Body(h)
        BY <1>8 DEF Walked
      <4>2. current \in Reachable(edges, Sources(h) \ {h})
        BY <3>2, <4>1 DEF Body
      <4>3. IsFiniteSet(edges)
        BY <1>1, WithoutFinite, ReversedFinite, Graph DEF TypeOK
      <4>4. ASSUME NEW e \in cfg.edges, e[2] = current, e[1] # h
            PROVE  e[1] \in Reachable(edges, Sources(h) \ {h})
        <5>1. e \in Without(cfg.edges, h)
          BY <3>2, <4>4 DEF Without
        <5>2. <<e[2], e[1]>> \in edges
          BY <5>1 DEF Reversed
        <5> HIDE DEF edges
        <5>3. <<e[2], e[1]>>[1] \in Reachable(edges, Sources(h) \ {h})
          BY <4>2, <4>4
        <5>4. <<e[2], e[1]>>[2] \in Reachable(edges, Sources(h) \ {h})
          BY <4>3, <5>2, <5>3, ReachableClosed, Zenon
        <5>5. QED
          BY <5>4
      <4>5. QED
        BY <4>4 DEF Body, Predecessors
    <3>4. l.nodes \cup todo' \subseteq Body(h)
      BY <1>8, <1>11, <2>1, <3>3 DEF Walked
    <3>5. \A n \in l.nodes \ {h} : Predecessors(cfg.edges, n) \subseteq l.nodes \cup todo'
      BY <1>8, <1>11, <2>1, <3>1 DEF Walked
    <3>6. QED
      BY <1>8, <2>1, <3>1, <3>4, <3>5 DEF Walked
  <2>7. WalkInv'
    <3>1. \A i \in 1 .. Len(loops') :
             Walked(loops'[i], IF i = Len(loops') THEN todo' ELSE {})
      BY <1>9, <2>2, <2>6
    <3>2. QED
      BY <1>2, <1>6, <3>1 DEF WalkInv, Walked
  <2>8. QED
    BY <1>7, <2>4, <2>5, <2>7 DEF IInv
<1>12. QED
  BY <1>10, <1>11 DEF AddNode

LEMMA FinishIInv ==
  ASSUME IInv, Finish
  PROVE  IInv'
<1>1. /\ TypeOK /\ DominatorsInv /\ PassInv /\ HeadsInv /\ WalkInv
      /\ phase = "loops" /\ phase' = "done" /\ todo = {} /\ next > Len(cfg.nodes)
  BY DEF IInv, Finish
<1>2. UNCHANGED <<cfg, next, dominators, change, steps, loops, todo, Nodes, Loop>>
  BY DEF Finish, Nodes, Loop
<1>3. TypeOK'
  BY <1>1, <1>2 DEF TypeOK
<1>4. DominatorsInv' /\ PassInv'
  BY <1>1, <1>2, SettledInv
<1>5. HeadsInv'
  BY <1>1, <1>2 DEF HeadsInv, Headed, Sources
<1>6. WalkInv'
  BY <1>1, <1>2 DEF WalkInv, Walked, Sources, Body
<1>7. QED
  BY <1>3, <1>4, <1>5, <1>6 DEF IInv

LEMMA StutterIInv ==
  ASSUME IInv, UNCHANGED vars
  PROVE  IInv'
<1>1. UNCHANGED <<cfg, phase, next, dominators, change, steps, loops, todo, Nodes, StartNode, Loop>>
  BY DEF vars, Nodes, StartNode, Loop
<1>2. TypeOK'
  BY <1>1 DEF IInv, TypeOK
<1>3. DominatorsInv' /\ PassInv'
  BY <1>1 DEF IInv, DominatorsInv, NoDominatorLost, PassInv, Solved, Intersection
<1>4. HeadsInv'
  BY <1>1 DEF IInv, HeadsInv, Headed, Sources
<1>5. WalkInv'
  <2>1. \A n : (Sources(n))' = Sources(n) /\ (Body(n))' = Body(n)
    BY <1>1 DEF Sources, Body
  <2>2. QED
    BY <1>1, <2>1 DEF IInv, WalkInv, Walked
<1>6. QED
  BY <1>2, <1>3, <1>4, <1>5 DEF IInv

THEOREM Invariance == Spec => []IInv
<1>1. Init => IInv
  BY InitIInv
<1>2. IInv /\ [Next]_vars => IInv'
  BY VisitIInv, EndPassIInv, DetectIInv, AddNodeIInv, FinishIInv, StutterIInv DEF Next
<1>3. QED
  BY <1>1, <1>2, PTL DEF Spec
-----------------------------------------------------------------------------
(* At no moment of the passes is a dominator missing, however many passes  *)
(* there are and in whatever order computeDominator takes the nodes: if it *)
(* runs out of passes, it finds too many back edges and never too few.     *)
THEOREM DominatorsKept == Spec => []NoDominatorLost
<1>1. IInv => NoDominatorLost
  BY DEF IInv, DominatorsInv
<1>2. QED
  BY <1>1, Invariance, PTL

(* The last pass changed nothing unless the passes ran out. *)
LEMMA Exact ==
  ASSUME IInv, phase # "dominators", steps > 0
  PROVE  /\ \A n \in Nodes :
              dominators[n] = {d \in Nodes : Dominates(cfg.edges, StartNode, d, n)}
         /\ \A h \in Nodes :
              Sources(h) = {e[1] : e \in {x \in BackEdges(cfg.edges, StartNode) : x[2] = h}}
<1>1. \A n \in Nodes :
        dominators[n] = {d \in Nodes : Dominates(cfg.edges, StartNode, d, n)}
  BY SolutionsExact DEF IInv, PassInv
<1>2. ASSUME NEW h \in Nodes
      PROVE  Sources(h) = {e[1] : e \in {x \in BackEdges(cfg.edges, StartNode) : x[2] = h}}
  <2>1. \A e \in cfg.edges : e[1] \in Nodes
    BY Graph DEF IInv, TypeOK
  <2>2. \A e \in cfg.edges :
          e[2] = h => (h \in dominators[e[1]] <=> e \in BackEdges(cfg.edges, StartNode))
    BY <1>1, <2>1 DEF BackEdges
  <2>3. QED
    BY <2>2 DEF Sources, Predecessors, BackEdges
<1>3. QED
  BY <1>1, <1>2

(* When the passes end before MAX_PASSES, the sets are the dominators of   *)
(* the definition, for every graph and order of its nodes.                 *)
THEOREM DominatorsAreExact == Spec => [](steps > 0 => DominatorsExact)
<1>1. ASSUME IInv, steps > 0
      PROVE  DominatorsExact
  <2>1. NoDominatorLost
    BY <1>1 DEF IInv, DominatorsInv
  <2>2. ASSUME phase # "dominators", NEW n \in Live
        PROVE  dominators[n] = {d \in Nodes : Dominates(cfg.edges, StartNode, d, n)}
    <3>1. Live \subseteq Nodes
      <4>1. cfg.edges \subseteq Nodes \X Nodes /\ StartNode \in Nodes /\ IsFiniteSet(cfg.edges)
        BY <1>1, Graph DEF IInv, TypeOK
      <4>2. {StartNode} \subseteq Nodes /\ \A e \in cfg.edges : e[1] \in Nodes => e[2] \in Nodes
        BY <4>1
      <4>3. QED
        BY <4>1, <4>2, ReachableLeast DEF Live
    <3>2. QED
      BY <1>1, <2>2, <3>1, Exact
  <2>3. QED
    BY <2>1, <2>2 DEF DominatorsExact
<1>2. QED
  BY <1>1, Invariance, PTL

(* The loops of the heads of all back edges, those of nodes that cannot be *)
(* executed included: any node dominates such a node.                      *)
AllLoopsFound ==
  phase = "done" =>
     /\ Len(loops) = Cardinality(LoopHeads(cfg.edges, StartNode))
     /\ \A h \in LoopHeads(cfg.edges, StartNode) : \E i \in DOMAIN loops :
          /\ loops[i].head = h
          /\ loops[i].nodes = LoopOf(cfg.edges, StartNode, h)
          /\ loops[i].backedges = {e \in BackEdges(cfg.edges, StartNode) : e[2] = h}

LEMMA LoopsFoundInDone ==
  ASSUME IInv, steps > 0
  PROVE  AllLoopsFound
<1> SUFFICES ASSUME phase = "done"
             PROVE  /\ Len(loops) = Cardinality(LoopHeads(cfg.edges, StartNode))
                    /\ \A h \in LoopHeads(cfg.edges, StartNode) : \E i \in DOMAIN loops :
                          /\ loops[i].head = h
                          /\ loops[i].nodes = LoopOf(cfg.edges, StartNode, h)
                          /\ loops[i].backedges =
                                {e \in BackEdges(cfg.edges, StartNode) : e[2] = h}
  BY DEF AllLoopsFound
<1> DEFINE Heads == LoopHeads(cfg.edges, StartNode)
<1>1. TypeOK /\ HeadsInv /\ WalkInv /\ todo = {} /\ next = Len(cfg.nodes) + 1
  <2>1. TypeOK /\ HeadsInv /\ WalkInv
    BY DEF IInv
  <2>2. next > Len(cfg.nodes) /\ todo = {}
    BY <2>1 DEF HeadsInv
  <2>3. QED
    BY <2>1, <2>2, Graph DEF TypeOK
<1>2. loops \in Seq(Loop) /\ Len(loops) \in Nat /\ DOMAIN loops = 1 .. Len(loops)
  BY <1>1 DEF TypeOK
<1>3. \A h \in Nodes :
        Sources(h) = {e[1] : e \in {x \in BackEdges(cfg.edges, StartNode) : x[2] = h}}
  BY Exact
<1>4. BackEdges(cfg.edges, StartNode) \subseteq Nodes \X Nodes
  BY <1>1, Graph DEF BackEdges, TypeOK
<1>5. \A h : h \in Heads <=> h \in Nodes /\ Sources(h) # {}
  BY <1>3, <1>4 DEF LoopHeads
<1>6. ASSUME NEW h \in Heads
      PROVE  \E i \in 1 .. Len(loops) : loops[i].head = h
  <2>1. h \in Nodes /\ Sources(h) # {}
    BY <1>5
  <2>2. PICK k \in 1 .. Len(cfg.nodes) : h = cfg.nodes[k]
    BY <1>1, <2>1, Graph DEF TypeOK
  <2>3. k \in 1 .. next - 1
    BY <1>1, <2>2, Graph DEF TypeOK
  <2>4. QED
    BY <1>1, <2>1, <2>2, <2>3 DEF HeadsInv
<1>7. ASSUME NEW i \in 1 .. Len(loops)
      PROVE  /\ loops[i].head \in Heads
             /\ loops[i].nodes = LoopOf(cfg.edges, StartNode, loops[i].head)
             /\ loops[i].backedges =
                   {e \in BackEdges(cfg.edges, StartNode) : e[2] = loops[i].head}
  <2> DEFINE h == loops[i].head
  <2>1. h \in Nodes
    <3>1. loops[i] \in Loop
      BY <1>2
    <3>2. QED
      BY <3>1 DEF Loop
  <2>2. Headed(loops[i])
    BY <1>1 DEF HeadsInv
  <2>3. h \in Heads
    BY <1>5, <2>1, <2>2 DEF Headed
  <2>4. loops[i].nodes = Body(h)
    <3>1. Walked(loops[i], {})
      BY <1>1 DEF WalkInv
    <3>2. QED
      BY <1>1, <3>1, WalkComplete
  <2>5. loops[i].nodes = LoopOf(cfg.edges, StartNode, h)
    BY <1>3, <2>1, <2>4 DEF LoopOf, Body
  <2>6. loops[i].backedges = {e \in BackEdges(cfg.edges, StartNode) : e[2] = h}
    <3>1. loops[i].backedges = Sources(h) \X {h}
      BY <2>2 DEF Headed
    <3> HIDE DEF h
    <3>2. Sources(h) = {e[1] : e \in {x \in BackEdges(cfg.edges, StartNode) : x[2] = h}}
      BY <1>3, <2>1
    <3>3. QED
      BY <1>4, <3>1, <3>2
  <2>7. QED
    BY <2>3, <2>5, <2>6
<1>8. Len(loops) = Cardinality(Heads)
  <2> DEFINE f == [i \in 1 .. Len(loops) |-> loops[i].head]
  <2> HIDE DEF Heads
  <2>1. f \in Surjection(1 .. Len(loops), Heads)
    BY <1>6, <1>7 DEF Surjection
  <2>2. f \in Injection(1 .. Len(loops), Heads)
    BY <1>1, <1>7 DEF Injection, IsInjective, HeadsInv
  <2>3. ExistsBijection(1 .. Len(loops), Heads)
    BY <2>1, <2>2 DEF ExistsBijection, Bijection
  <2>4. IsFiniteSet(1 .. Len(loops)) /\ Cardinality(1 .. Len(loops)) = Len(loops)
    BY <1>2, FS_Interval
  <2>5. QED
    BY <2>3, <2>4, FS_Bijection
<1>9. ASSUME NEW h \in Heads
      PROVE  \E i \in DOMAIN loops :
               /\ loops[i].head = h
               /\ loops[i].nodes = LoopOf(cfg.edges, StartNode, h)
               /\ loops[i].backedges = {e \in BackEdges(cfg.edges, StartNode) : e[2] = h}
  <2>1. PICK i \in 1 .. Len(loops) : loops[i].head = h
    BY <1>6
  <2>2. /\ loops[i].nodes = LoopOf(cfg.edges, StartNode, h)
        /\ loops[i].backedges = {e \in BackEdges(cfg.edges, StartNode) : e[2] = h}
    BY <1>7, <2>1
  <2>3. QED
    BY <1>2, <2>1, <2>2
<1>10. QED
  BY <1>8, <1>9

(* The loops found are the natural loops of the graph, one per head, if    *)
(* the passes did not run out.                                             *)
THEOREM AllLoopsAreFound == Spec => [](steps > 0 => AllLoopsFound)
<1>1. IInv => (steps > 0 => AllLoopsFound)
  BY LoopsFoundInDone
<1>2. QED
  BY <1>1, Invariance, PTL

(* ... and, where every node can be executed, those of the definition that *)
(* looks at such nodes only.                                               *)
THEOREM LoopsAreNatural == Spec => [](steps > 0 /\ Live = Nodes => LoopsNatural)
<1>1. ASSUME IInv, steps > 0, Live = Nodes
      PROVE  LoopsNatural
  <2>1. LiveBackEdges = BackEdges(cfg.edges, StartNode)
    BY <1>1, Graph DEF LiveBackEdges, BackEdges, IInv, TypeOK
  <2>2. AllLoopsFound
    BY <1>1, LoopsFoundInDone
  <2>3. QED
    BY <2>1, <2>2 DEF AllLoopsFound, LoopsNatural, LoopHeads
<1>2. IInv => (steps > 0 /\ Live = Nodes => LoopsNatural)
  BY <1>1
<1>3. QED
  BY <1>2, Invariance, PTL

-----------------------------------------------------------------------------
(* One set of a cache: t[j] is its way j, of ways 0 .. w - 1. *)
WayRecord == [valid : BOOLEAN, physaddress : Nat, lastUse : Nat]

SetType(w) == [0 .. w - 1 -> WayRecord]

(* The ways are used one at a time, before date n, and hold different lines. *)
SetInv(w, t, n) ==
  /\ t \in SetType(w)
  /\ \A j \in 0 .. w - 1 : t[j].valid => t[j].lastUse < n
  /\ \A j, k \in 0 .. w - 1 :
        j # k /\ t[j].valid /\ t[k].valid =>
          t[j].physaddress # t[k].physaddress /\ t[j].lastUse # t[k].lastUse

Holds(w, t, line) == {j \in 0 .. w - 1 : t[j].valid /\ t[j].physaddress = line}

Newer(w, t, j) == {k \in 0 .. w - 1 : t[k].valid /\ t[k].lastUse > t[j].lastUse}

AgeIn(w, t, line) ==
  IF Holds(w, t, line) = {} THEN w
  ELSE Cardinality({k \in 0 .. w - 1 : /\ t[k].valid
                                      /\ \E j \in Holds(w, t, line) : t[k].lastUse > t[j].lastUse})

LEMMA AgeOfWay ==
  ASSUME NEW w \in Nat \ {0}, NEW n \in Nat, NEW t, SetInv(w, t, n),
         NEW j \in 0 .. w - 1, t[j].valid
  PROVE  /\ Holds(w, t, t[j].physaddress) = {j}
         /\ AgeIn(w, t, t[j].physaddress) = Cardinality(Newer(w, t, j))
<1>1. Holds(w, t, t[j].physaddress) = {j}
  BY DEF Holds, SetInv
<1>2. QED
  BY <1>1 DEF AgeIn, Newer

LEMMA AgeOfMissing ==
  ASSUME NEW w \in Nat \ {0}, NEW t, NEW line, \A j \in 0 .. w - 1 : ~ (t[j].valid /\ t[j].physaddress = line)
  PROVE  Holds(w, t, line) = {} /\ AgeIn(w, t, line) = w
BY DEF Holds, AgeIn

LEMMA NewerBound ==
  ASSUME NEW w \in Nat \ {0}, NEW t \in SetType(w), NEW j \in 0 .. w - 1
  PROVE  /\ IsFiniteSet(Newer(w, t, j))
         /\ Cardinality(Newer(w, t, j)) \in 0 .. w - 1
         /\ (\A k \in (0 .. w - 1) \ {j} : k \in Newer(w, t, j))
              => Cardinality(Newer(w, t, j)) = w - 1
<1> DEFINE ways == 0 .. w - 1
           others == ways \ {j}
<1>1. IsFiniteSet(ways) /\ Cardinality(ways) = w /\ j \in ways
  BY FS_Interval
<1>2. IsFiniteSet(others) /\ Cardinality(others) = w - 1
  <2> HIDE DEF ways
  <2>1. QED
    BY <1>1, FS_RemoveElement
<1>3. Newer(w, t, j) \subseteq others
  BY DEF Newer, SetType, WayRecord
<1>4. IsFiniteSet(Newer(w, t, j)) /\ Cardinality(Newer(w, t, j)) <= w - 1
  BY <1>2, <1>3, FS_Subset
<1>5. Cardinality(Newer(w, t, j)) \in Nat
  BY <1>4, FS_CardinalityType
<1>6. ASSUME \A k \in (0 .. w - 1) \ {j} : k \in Newer(w, t, j)
      PROVE  Cardinality(Newer(w, t, j)) = w - 1
  <2>1. Newer(w, t, j) = others
    BY <1>3, <1>6
  <2>2. QED
    BY <1>2, <2>1
<1>7. Cardinality(Newer(w, t, j)) \in 0 .. w - 1
  BY <1>4, <1>5
<1>8. QED
  BY <1>4, <1>6, <1>7

(* A line is held exactly if its age is less than the number of ways. *)
LEMMA HeldIsYoung ==
  ASSUME NEW w \in Nat \ {0}, NEW n \in Nat, NEW t, SetInv(w, t, n), NEW line
  PROVE  /\ AgeIn(w, t, line) \in 0 .. w
         /\ Holds(w, t, line) # {} <=> AgeIn(w, t, line) < w
<1>1. CASE Holds(w, t, line) = {}
  BY <1>1 DEF AgeIn
<1>2. CASE Holds(w, t, line) # {}
  <2>1. PICK j \in 0 .. w - 1 : t[j].valid /\ t[j].physaddress = line
    BY <1>2 DEF Holds
  <2>2. AgeIn(w, t, line) = Cardinality(Newer(w, t, j))
    BY <2>1, AgeOfWay
  <2>3. QED
    BY <1>2, <2>2, NewerBound DEF SetInv
<1>3. QED
  BY <1>1, <1>2

(* The use of way v at date n, for a line: the way that holds it, or an    *)
(* invalid one, or the one used least recently.                            *)
Use(t, v, line, n) ==
  [t EXCEPT ![v] = [valid |-> TRUE, physaddress |-> line, lastUse |-> n]]

Chosen(w, t, v, line) ==
  \/ v \in Holds(w, t, line)
  \/ /\ Holds(w, t, line) = {}
     /\ \/ ~ t[v].valid
        \/ \A k \in 0 .. w - 1 : t[k].valid /\ t[v].lastUse <= t[k].lastUse

LEMMA UseInv ==
  ASSUME NEW w \in Nat \ {0}, NEW n \in Nat, NEW t, SetInv(w, t, n), NEW line \in Nat,
         NEW v \in 0 .. w - 1, Chosen(w, t, v, line)
  PROVE  SetInv(w, Use(t, v, line, n), n + 1)
<1> DEFINE u == Use(t, v, line, n)
<1>1. t \in SetType(w)
  BY DEF SetInv
<1>2. u \in SetType(w)
  BY <1>1 DEF Use, SetType, WayRecord
<1>3. /\ u[v].valid /\ u[v].physaddress = line /\ u[v].lastUse = n
      /\ \A k \in 0 .. w - 1 : k # v => u[k] = t[k]
  BY <1>1 DEF Use, SetType
<1>4. \A k \in 0 .. w - 1 : k # v /\ t[k].valid => t[k].physaddress # line
  BY DEF Chosen, Holds, SetInv
<1>5. \A k \in 0 .. w - 1 : t[k].lastUse \in Nat
  BY <1>1 DEF SetType, WayRecord
<1> HIDE DEF u
<1>6. \A k \in 0 .. w - 1 : u[k].valid => u[k].lastUse < n + 1
  BY <1>3, <1>5 DEF SetInv
<1>7. \A j, k \in 0 .. w - 1 :
        j # k /\ u[j].valid /\ u[k].valid =>
          u[j].physaddress # u[k].physaddress /\ u[j].lastUse # u[k].lastUse
  BY <1>3, <1>4, <1>5 DEF SetInv
<1>8. QED
  BY <1>2, <1>6, <1>7 DEF SetInv, u

(* The line used becomes the youngest, and those younger than it age. *)
LEMMA UseAges ==
  ASSUME NEW w \in Nat \ {0}, NEW n \in Nat, NEW t, SetInv(w, t, n), NEW line \in Nat,
         NEW v \in 0 .. w - 1, Chosen(w, t, v, line), NEW b
  PROVE  AgeIn(w, Use(t, v, line, n), b) =
           IF b = line THEN 0
           ELSE IF AgeIn(w, t, b) < AgeIn(w, t, line) THEN AgeIn(w, t, b) + 1
           ELSE AgeIn(w, t, b)
<1> DEFINE u == Use(t, v, line, n)
<1>1. t \in SetType(w) /\ SetInv(w, u, n + 1)
  BY UseInv DEF SetInv
<1>2. /\ u[v].valid /\ u[v].physaddress = line /\ u[v].lastUse = n
      /\ \A k \in 0 .. w - 1 : k # v => u[k] = t[k]
  BY <1>1 DEF Use, SetType
<1>3. \A k \in 0 .. w - 1 : t[k].lastUse \in Nat /\ (t[k].valid => t[k].lastUse < n)
  BY <1>1 DEF SetType, WayRecord, SetInv
<1> HIDE DEF u
<1>4. CASE b = line
  <2>1. Newer(w, u, v) = {}
    BY <1>2, <1>3 DEF Newer
  <2>2. AgeIn(w, u, line) = Cardinality(Newer(w, u, v))
    BY <1>1, <1>2, AgeOfWay
  <2>3. QED
    BY <1>4, <2>1, <2>2, FS_EmptySet DEF u
<1>5. CASE b # line /\ Holds(w, u, b) = {}
  <2>1. AgeIn(w, u, b) = w
    BY <1>5 DEF AgeIn
  <2>2. CASE Holds(w, t, b) = {}
    <3>1. AgeIn(w, t, b) = w
      BY <2>2 DEF AgeIn
    <3>2. AgeIn(w, t, line) \in 0 .. w
      BY HeldIsYoung
    <3>3. QED
      BY <1>5, <2>1, <3>1, <3>2 DEF u
  <2>3. CASE Holds(w, t, b) # {}
    <3>1. PICK j \in 0 .. w - 1 : t[j].valid /\ t[j].physaddress = b
      BY <2>3 DEF Holds
    <3>2. j = v
      BY <1>2, <1>5, <3>1 DEF Holds
    <3>3. Holds(w, t, line) = {} /\ \A k \in 0 .. w - 1 : t[k].valid /\ t[v].lastUse <= t[k].lastUse
      BY <1>5, <3>1, <3>2 DEF Chosen, Holds
    <3>4. \A k \in (0 .. w - 1) \ {v} : k \in Newer(w, t, v)
      BY <1>3, <3>3 DEF Newer, SetInv
    <3>5. AgeIn(w, t, b) = w - 1
      BY <1>1, <3>1, <3>2, <3>4, AgeOfWay, NewerBound
    <3>6. AgeIn(w, t, line) = w
      BY <3>3 DEF AgeIn
    <3>7. QED
      BY <1>5, <2>1, <3>5, <3>6 DEF u
  <2>4. QED
    BY <2>2, <2>3
<1>6. CASE b # line /\ Holds(w, u, b) # {}
  <2>1. PICK j \in 0 .. w - 1 : u[j].valid /\ u[j].physaddress = b
    BY <1>6 DEF Holds
  <2>2. j # v /\ t[j] = u[j]
    BY <1>2, <1>6, <2>1
  <2>3. AgeIn(w, u, b) = Cardinality(Newer(w, u, j)) /\ AgeIn(w, t, b) = Cardinality(Newer(w, t, j))
    BY <1>1, <2>1, <2>2, AgeOfWay
  <2>4. IsFiniteSet(Newer(w, t, j)) /\ Cardinality(Newer(w, t, j)) \in 0 .. w - 1
    BY <1>1, NewerBound
  <2>5. Newer(w, u, j) = Newer(w, t, j) \cup {v}
    BY <1>2, <1>3, <2>1, <2>2 DEF Newer
  <2>6. Cardinality(Newer(w, u, j)) = IF v \in Newer(w, t, j) THEN Cardinality(Newer(w, t, j))
                                      ELSE Cardinality(Newer(w, t, j)) + 1
    BY <2>4, <2>5, FS_AddElement
  <2>7. v \in Newer(w, t, j) <=> AgeIn(w, t, line) <= Cardinality(Newer(w, t, j))
    <3>1. CASE v \in Holds(w, t, line)
      <4>1. t[v].valid /\ t[v].physaddress = line
        BY <3>1 DEF Holds
      <4>2. AgeIn(w, t, line) = Cardinality(Newer(w, t, v))
        BY <4>1, AgeOfWay
      <4>3. IsFiniteSet(Newer(w, t, v)) /\ Cardinality(Newer(w, t, v)) \in 0 .. w - 1
        BY <1>1, NewerBound
      <4>4. CASE t[v].lastUse > t[j].lastUse
        <5>1. v \in Newer(w, t, j) /\ Newer(w, t, v) \subseteq Newer(w, t, j)
          BY <1>3, <4>1, <4>4 DEF Newer
        <5>2. QED
          BY <2>4, <4>2, <5>1, FS_Subset
      <4>5. CASE t[v].lastUse < t[j].lastUse
        <5>1. v \notin Newer(w, t, j) /\ j \in Newer(w, t, v) /\ j \notin Newer(w, t, j)
              /\ Newer(w, t, j) \subseteq Newer(w, t, v)
          BY <1>3, <2>1, <2>2, <4>1, <4>5 DEF Newer
        <5>2. Cardinality(Newer(w, t, j)) <= Cardinality(Newer(w, t, v))
          BY <4>3, <5>1, FS_Subset
        <5>3. Cardinality(Newer(w, t, j)) # Cardinality(Newer(w, t, v))
          BY <4>3, <5>1, FS_Subset
        <5>4. QED
          BY <2>4, <4>2, <4>3, <5>1, <5>2, <5>3
      <4>6. t[v].lastUse # t[j].lastUse
        BY <2>1, <2>2, <4>1 DEF SetInv
      <4>7. QED
        BY <1>3, <4>4, <4>5, <4>6
    <3>2. CASE Holds(w, t, line) = {}
      <4>1. AgeIn(w, t, line) = w
        BY <3>2 DEF AgeIn
      <4>2. v \notin Newer(w, t, j)
        BY <1>3, <2>1, <2>2, <3>2 DEF Chosen, Newer
      <4>3. QED
        BY <2>4, <4>1, <4>2
    <3>3. QED
      BY <3>1, <3>2 DEF Chosen
  <2>8. AgeIn(w, t, line) \in 0 .. w
    BY HeldIsYoung
  <2>9. QED
    BY <1>6, <2>3, <2>4, <2>6, <2>7, <2>8 DEF u
<1>7. QED
  BY <1>4, <1>5, <1>6
-----------------------------------------------------------------------------
(* A whole cache. *)
CacheInv(l, c) ==
  /\ c \in [cacheLines : [0 .. nb_sets[l] - 1 -> SetType(nb_ways[l])], lastUse : Nat]
  /\ \A s \in 0 .. nb_sets[l] - 1 : SetInv(nb_ways[l], c.cacheLines[s], c.lastUse)

Line(l, pa) == (pa \div cacheline_size[l]) * cacheline_size[l]
SetOf(l, pa) == (pa \div cacheline_size[l]) % nb_sets[l]

LEMMA Division ==
  ASSUME NEW n \in Nat \ {0}, NEW x \in Nat
  PROVE  /\ x % n \in 0 .. n - 1
         /\ x \div n \in Nat
         /\ x = n * (x \div n) + (x % n)
  OBVIOUS

LEMMA Multiple ==
  ASSUME NEW n \in Nat \ {0}, NEW q \in Nat
  PROVE  n * q \in Nat /\ (n * q) \div n = q /\ (n * q) % n = 0
  OBVIOUS

LEMMA Geometry ==
  ASSUME NEW l \in {1, 2}
  PROVE  nb_sets[l] \in Nat \ {0} /\ nb_ways[l] \in Nat \ {0} /\ cacheline_size[l] \in Nat \ {0}
BY MachineAssumption

(* Both sides compute the same lines and sets. *)
LEMMA Lines ==
  ASSUME NEW l \in {1, 2}, NEW pa \in Nat
  PROVE  /\ Line(l, pa) \in Nat
         /\ Cache(l)!baseAddress(pa) = Line(l, pa)
         /\ Cache(l)!setNb(pa) = SetOf(l, pa)
         /\ pa - (pa % cacheline_size[l]) = Line(l, pa)
         /\ Line(l, Line(l, pa)) = Line(l, pa)
         /\ SetOf(l, Line(l, pa)) = SetOf(l, pa)
         /\ SetOf(l, pa) \in 0 .. nb_sets[l] - 1
         /\ Hierarchy!Cache(l)!computeStartLine(pa) = Line(l, pa)
         /\ Hierarchy!Cache(l)!computeSet(pa) = SetOf(l, pa)
<1> DEFINE z == cacheline_size[l]
           q == pa \div z
<1>1. z \in Nat \ {0} /\ nb_sets[l] \in Nat \ {0}
  BY Geometry
<1>2. q \in Nat /\ pa = z * q + (pa % z) /\ pa % z \in 0 .. z - 1
  BY <1>1, Division
<1>3. z * q \in Nat /\ (z * q) \div z = q /\ (z * q) % z = 0 /\ z * q = q * z
  <2> HIDE DEF z, q
  <2>1. z * q \in Nat /\ (z * q) \div z = q /\ (z * q) % z = 0
    BY <1>1, <1>2, Multiple
  <2>2. z * q = q * z
    BY <1>1, <1>2
  <2>3. QED
    BY <2>1, <2>2
<1>4. q % nb_sets[l] \in 0 .. nb_sets[l] - 1
  BY <1>1, <1>2, Division
<1>5. pa - (pa % z) = z * q
  BY <1>2, <1>3
<1>6. Line(l, pa) = z * q /\ SetOf(l, pa) = q % nb_sets[l]
  BY <1>3 DEF Line, SetOf
<1>7. Line(l, z * q) = z * q /\ SetOf(l, z * q) = q % nb_sets[l]
  BY <1>3 DEF Line, SetOf
<1>8. Cache(l)!baseAddress(pa) = Line(l, pa) /\ Cache(l)!setNb(pa) = SetOf(l, pa)
  BY DEF Cache!baseAddress, Cache!setNb, Line, SetOf
<1>9. Hierarchy!Cache(l)!computeStartLine(pa) = Line(l, pa)
  BY <1>5, <1>6 DEF Hierarchy!Cache!computeStartLine
<1>10. Hierarchy!Cache(l)!computeSet(pa) = SetOf(l, pa)
  BY <1>3, <1>6, <1>9 DEF Hierarchy!Cache!computeSet
<1>11. QED
  BY <1>3, <1>4, <1>5, <1>6, <1>7, <1>8, <1>9, <1>10

(* Age, of a line: its age in its set. *)
LEMMA AgeOfLine ==
  ASSUME NEW l \in {1, 2}, NEW c, NEW line
  PROVE  Age(c, l, line) = AgeIn(nb_ways[l], c.cacheLines[SetOf(l, line)], line)
BY DEF Age, AgeIn, Holds, SetOf

LEMMA EmptyInv ==
  ASSUME NEW l \in {1, 2}
  PROVE  /\ CacheInv(l, Cache(l)!Empty)
         /\ Cache(l)!Empty.lastUse = 0
         /\ \A pa \in Nat : Age(Cache(l)!Empty, l, Line(l, pa)) = nb_ways[l]
<1> DEFINE c == Cache(l)!Empty
           empty == [j \in 0 .. nb_ways[l] - 1 |-> [valid |-> FALSE, physaddress |-> 0, lastUse |-> 0]]
<1>1. c = [cacheLines |-> [s \in 0 .. nb_sets[l] - 1 |-> empty], lastUse |-> 0]
  BY DEF Cache!Empty, Cache!Way
<1>2. nb_ways[l] \in Nat \ {0}
  BY Geometry
<1>3. SetInv(nb_ways[l], empty, 0)
  BY DEF SetInv, SetType, WayRecord
<1>4. empty \in SetType(nb_ways[l])
  BY DEF SetType, WayRecord
<1>5. CacheInv(l, c) /\ c.lastUse = 0
  <2> HIDE DEF empty, c
  <2>1. QED
    BY <1>1, <1>3, <1>4 DEF CacheInv
<1>6. ASSUME NEW pa \in Nat
      PROVE  Age(c, l, Line(l, pa)) = nb_ways[l]
  <2>1. SetOf(l, Line(l, pa)) \in 0 .. nb_sets[l] - 1
    BY Lines
  <2>2. c.cacheLines[SetOf(l, Line(l, pa))] = empty
    BY <1>1, <2>1
  <2>3. AgeIn(nb_ways[l], empty, Line(l, pa)) = nb_ways[l]
    BY <1>2, AgeOfMissing
  <2>4. QED
    BY <2>2, <2>3, AgeOfLine
<1>7. QED
  BY <1>5, <1>6

(* The victim is an invalid way, or the one used least recently. *)
LEMMA VictimChosen ==
  ASSUME NEW l \in {1, 2}, NEW t \in SetType(nb_ways[l])
  PROVE  LET v == Cache(l)!Victim(t) IN
         /\ v \in 0 .. nb_ways[l] - 1
         /\ \/ ~ t[v].valid
            \/ \A k \in 0 .. nb_ways[l] - 1 : t[k].valid /\ t[v].lastUse <= t[k].lastUse
<1> DEFINE ways == 0 .. nb_ways[l] - 1
           invalid == {j \in ways : ~ t[j].valid}
           oldest == {j \in ways : \A k \in ways : t[j].lastUse <= t[k].lastUse}
           choice == IF invalid # {} THEN invalid ELSE oldest
<1>1. nb_ways[l] \in Nat \ {0} /\ 0 \in ways /\ \A k \in ways : t[k].lastUse \in Nat
  BY Geometry DEF SetType, WayRecord
<1>2. Cache(l)!Victim(t) = CHOOSE j \in choice : \A k \in choice : j <= k
  BY DEF Cache!Victim, Cache!Way
<1>3. oldest # {}
  <2> DEFINE uses == {t[k].lastUse : k \in ways}
  <2>1. uses \in SUBSET Nat /\ uses # {}
    BY <1>1
  <2>2. PICK n \in uses : \A m \in uses : n <= m
    BY <2>1, LeastElement, Zenon
  <2>3. QED
    BY <2>2
<1>4. choice \in SUBSET Nat /\ choice # {}
  BY <1>1, <1>3
<1>5. \E j \in choice : \A k \in choice : j <= k
  <2> HIDE DEF choice
  <2>1. QED
    BY <1>4, LeastElement
<1>6. Cache(l)!Victim(t) \in choice
  <2> HIDE DEF choice
  <2>1. QED
    BY <1>2, <1>5
<1>7. QED
  BY <1>6
(* LoadLine: the ages are those of LRU, and it hits when the line is       *)
(* young enough.                                                           *)
AgeAfter(l, c, pa, pb) ==
  IF Line(l, pb) = Line(l, pa) THEN 0
  ELSE IF SetOf(l, pb) = SetOf(l, pa) /\ Age(c, l, Line(l, pb)) < Age(c, l, Line(l, pa))
       THEN Age(c, l, Line(l, pb)) + 1
  ELSE Age(c, l, Line(l, pb))

LEMMA LoadLineImplementsLru ==
  ASSUME NEW l \in {1, 2}, NEW c, CacheInv(l, c), NEW pa \in Nat
  PROVE  /\ CacheInv(l, Cache(l)!LoadLine(c, pa))
         /\ Cache(l)!LoadLine(c, pa).lastUse = c.lastUse + 1
         /\ Cache(l)!Hit(c, pa) <=> Age(c, l, Line(l, pa)) < nb_ways[l]
         /\ \A pb \in Nat : Age(Cache(l)!LoadLine(c, pa), l, Line(l, pb)) = AgeAfter(l, c, pa, pb)
<1> DEFINE w == nb_ways[l]
           n == c.lastUse
           line == Line(l, pa)
           s == SetOf(l, pa)
           t == c.cacheLines[s]
           v == IF Cache(l)!Hit(c, pa) THEN CHOOSE j \in Cache(l)!Holding(c, pa) : TRUE
                ELSE Cache(l)!Victim(Cache(l)!Ways(c, pa))
           d == Cache(l)!LoadLine(c, pa)
<1>1. w \in Nat \ {0} /\ s \in 0 .. nb_sets[l] - 1 /\ line \in Nat /\ n \in Nat
  BY Geometry, Lines DEF CacheInv
<1>2. t \in SetType(w) /\ SetInv(w, t, n)
  BY <1>1 DEF CacheInv
<1>3. Cache(l)!baseAddress(pa) = line /\ Cache(l)!setNb(pa) = s
  BY Lines
<1>4. Cache(l)!Ways(c, pa) = t
  BY <1>3 DEF Cache!Ways
<1>5. Cache(l)!Holding(c, pa) = Holds(w, t, line)
  BY <1>3, <1>4 DEF Cache!Holding, Cache!Way, Holds
<1>6. Cache(l)!Hit(c, pa) <=> Holds(w, t, line) # {}
  BY <1>5 DEF Cache!Hit
<1>7. v \in 0 .. w - 1 /\ Chosen(w, t, v, line)
  <2>1. CASE Cache(l)!Hit(c, pa)
    <3>1. v \in Holds(w, t, line)
      BY <1>5, <1>6, <2>1
    <3>2. QED
      BY <3>1 DEF Chosen, Holds
  <2>2. CASE ~ Cache(l)!Hit(c, pa)
    <3>1. v = Cache(l)!Victim(t) /\ Holds(w, t, line) = {}
      BY <1>4, <1>6, <2>2
    <3>2. QED
      BY <1>2, <3>1, VictimChosen DEF Chosen
  <2>3. QED
    BY <2>1, <2>2
<1>8. d = [cacheLines |-> [c.cacheLines EXCEPT ![s] = Use(t, v, line, n)], lastUse |-> n + 1]
  BY <1>3 DEF Cache!LoadLine, Cache!Used, Use
<1>9. SetInv(w, Use(t, v, line, n), n + 1)
  <2> HIDE DEF w, n, line, s, t, v
  <2>1. QED
    BY <1>1, <1>2, <1>7, UseInv
<1>10. \A b : AgeIn(w, Use(t, v, line, n), b) =
             IF b = line THEN 0
             ELSE IF AgeIn(w, t, b) < AgeIn(w, t, line) THEN AgeIn(w, t, b) + 1
             ELSE AgeIn(w, t, b)
  <2> HIDE DEF w, n, line, s, t, v
  <2>1. QED
    BY <1>1, <1>2, <1>7, UseAges
<1> HIDE DEF w, v, d, t
<1>11. /\ d.lastUse = n + 1
       /\ d.cacheLines[s] = Use(t, v, line, n)
       /\ \A x \in 0 .. nb_sets[l] - 1 : x # s => d.cacheLines[x] = c.cacheLines[x]
  BY <1>1, <1>8 DEF CacheInv
<1>12. CacheInv(l, d)
  <2>1. Use(t, v, line, n) \in SetType(w)
    BY <1>9 DEF SetInv
  <2>2. d \in [cacheLines : [0 .. nb_sets[l] - 1 -> SetType(w)], lastUse : Nat]
    BY <1>1, <1>8, <2>1 DEF CacheInv, w
  <2>3. ASSUME NEW x \in 0 .. nb_sets[l] - 1
        PROVE  SetInv(w, d.cacheLines[x], d.lastUse)
    <3>1. CASE x = s
      BY <1>9, <1>11, <3>1
    <3>2. CASE x # s
      <4>1. d.cacheLines[x] = c.cacheLines[x] /\ SetInv(w, c.cacheLines[x], n)
        BY <1>11, <3>2 DEF CacheInv, w
      <4>2. \A j \in 0 .. w - 1 : c.cacheLines[x][j].lastUse \in Nat
        BY <4>1 DEF SetInv, SetType, WayRecord
      <4>3. SetInv(w, c.cacheLines[x], n + 1)
        BY <1>1, <4>1, <4>2 DEF SetInv
      <4>4. QED
        BY <1>11, <4>1, <4>3
    <3>3. QED
      BY <3>1, <3>2
  <2>4. QED
    BY <2>2, <2>3 DEF CacheInv, w
<1>13. \A pb \in Nat : /\ Age(d, l, Line(l, pb)) = AgeIn(w, d.cacheLines[SetOf(l, pb)], Line(l, pb))
                       /\ Age(c, l, Line(l, pb)) = AgeIn(w, c.cacheLines[SetOf(l, pb)], Line(l, pb))
                       /\ SetOf(l, pb) \in 0 .. nb_sets[l] - 1
  BY AgeOfLine, Lines DEF w
<1>14. Cache(l)!Hit(c, pa) <=> Age(c, l, line) < w
  <2>1. Age(c, l, line) = AgeIn(w, t, line)
    BY <1>13 DEF t
  <2>2. QED
    BY <1>1, <1>2, <1>6, <2>1, HeldIsYoung
<1>15. ASSUME NEW pb \in Nat
       PROVE  Age(d, l, Line(l, pb)) =
                IF Line(l, pb) = line THEN 0
                ELSE IF SetOf(l, pb) = s /\ Age(c, l, Line(l, pb)) < Age(c, l, line)
                     THEN Age(c, l, Line(l, pb)) + 1
                ELSE Age(c, l, Line(l, pb))
  <2>1. CASE SetOf(l, pb) = s
    <3>1. /\ Age(d, l, Line(l, pb)) = AgeIn(w, Use(t, v, line, n), Line(l, pb))
          /\ Age(c, l, Line(l, pb)) = AgeIn(w, t, Line(l, pb))
          /\ Age(c, l, line) = AgeIn(w, t, line)
      BY <1>11, <1>13, <2>1 DEF t
    <3>2. QED
      BY <1>10, <2>1, <3>1
  <2>2. CASE SetOf(l, pb) # s
    <3>1. d.cacheLines[SetOf(l, pb)] = c.cacheLines[SetOf(l, pb)]
      BY <1>11, <1>13, <2>2
    <3>2. Line(l, pb) # line
      BY <2>2, Lines
    <3>3. QED
      BY <1>13, <2>2, <3>1, <3>2
  <2>3. QED
    BY <2>1, <2>2
<1>16. \A pb \in Nat : Age(d, l, Line(l, pb)) = AgeAfter(l, c, pa, pb)
  BY <1>15 DEF AgeAfter, line, s
<1>17. QED
  BY <1>11, <1>12, <1>14, <1>16 DEF d, w
-----------------------------------------------------------------------------
(* Total, of any statistics. *)
TotalOf(st, counter) == MapThenSumSet(LAMBDA va : st[va][counter], VirtAddr)

LEMMA TotalIsSum ==
  ASSUME NEW st, NEW counter
  PROVE  \E w : IsSum(w, VirtAddr, [va \in VirtAddr |-> st[va][counter]]) /\ TotalOf(st, counter) = w[VirtAddr]
<1> DEFINE f == [va \in VirtAddr |-> st[va][counter]]
           Iter(w) == w = [s \in SUBSET VirtAddr |->
                             IF s = {} THEN 0
                             ELSE st[CHOOSE x \in s : TRUE][counter] + w[s \ {CHOOSE x \in s : TRUE}]]
           total == CHOOSE w : Iter(w)
<1>1. IsFiniteSet(VirtAddr)
  BY MachineAssumption
<1>2. \A s \in SUBSET VirtAddr : s # {} => f[Some(s)] = st[CHOOSE x \in s : TRUE][counter]
  BY DEF Some
<1>3. \A x : IsSum(x, VirtAddr, f) <=> Iter(x)
  BY <1>2 DEF IsSum, Some
<1>4. Iter(total)
  <2>1. PICK x : IsSum(x, VirtAddr, f)
    <3> HIDE DEF f
    <3>1. QED
      BY <1>1, SumExists
  <2>2. Iter(x)
    BY <1>3, <2>1
  <2> HIDE DEF Iter
  <2>3. QED
    BY <2>2, Zenon
<1>5. TotalOf(st, counter) = total[VirtAddr]
  BY DEF TotalOf, MapThenSumSet, MapThenFoldSet
<1>6. QED
  <2>1. IsSum(total, VirtAddr, f)
    BY <1>3, <1>4
  <2> HIDE DEF total, Iter
  <2>2. QED
    BY <1>5, <2>1, Zenon

LEMMA TotalChange ==
  ASSUME NEW st, NEW su, NEW counter, NEW a \in VirtAddr, NEW k \in Int,
         \A x \in VirtAddr : /\ st[x][counter] \in Int
                             /\ su[x][counter] = st[x][counter] + (IF x = a THEN k ELSE 0)
  PROVE  TotalOf(st, counter) \in Int /\ TotalOf(su, counter) = TotalOf(st, counter) + k
<1> DEFINE f == [x \in VirtAddr |-> st[x][counter]]
           g == [x \in VirtAddr |-> su[x][counter]]
<1>1. PICK w : IsSum(w, VirtAddr, f) /\ TotalOf(st, counter) = w[VirtAddr]
  BY TotalIsSum
<1>2. PICK u : IsSum(u, VirtAddr, g) /\ TotalOf(su, counter) = u[VirtAddr]
  BY TotalIsSum
<1>3. \A x \in VirtAddr : f[x] \in Int /\ g[x] = f[x] + (IF x = a THEN k ELSE 0)
  OBVIOUS
<1>4. w[VirtAddr] \in Int /\ u[VirtAddr] = w[VirtAddr] + k
  <2> HIDE DEF f, g
  <2>1. IsFiniteSet(VirtAddr)
    BY MachineAssumption
  <2>2. QED
    BY <1>1, <1>2, <1>3, <2>1, SumChange
<1>5. QED
  BY <1>1, <1>2, <1>4

LEMMA TotalOfNothing ==
  ASSUME NEW st, NEW counter, \A x \in VirtAddr : st[x][counter] = 0
  PROVE  TotalOf(st, counter) = 0
<1> DEFINE f == [x \in VirtAddr |-> st[x][counter]]
<1>1. PICK w : IsSum(w, VirtAddr, f) /\ TotalOf(st, counter) = w[VirtAddr]
  BY TotalIsSum
<1> DEFINE Q == {s \in SUBSET VirtAddr : w[s] = 0}
<1>2. \A s \in SUBSET VirtAddr : w[s] = IF s = {} THEN 0 ELSE f[Some(s)] + w[s \ {Some(s)}]
  <2> HIDE DEF f
  <2>1. QED
    BY <1>1 DEF IsSum
<1>3. {} \in Q
  BY <1>2
<1>4. ASSUME NEW s \in SUBSET VirtAddr, s # {}, s \ {Some(s)} \in Q
      PROVE  s \in Q
  <2>1. Some(s) \in s
    BY <1>4 DEF Some
  <2>2. f[Some(s)] = 0
    BY <2>1
  <2>3. QED
    BY <1>2, <1>4, <2>2
<1>5. SUBSET VirtAddr \subseteq Q
  <2> HIDE DEF Q
  <2>1. QED
    BY <1>3, <1>4, SubsetInduction, MachineAssumption
<1>6. QED
  BY <1>1, <1>5
-----------------------------------------------------------------------------
(* A fetch that raises no exception is from a mapped page, at a word of a  *)
(* physical page.                                                          *)
LEMMA PhysicalWord ==
  ASSUME NEW va \in VirtAddr, page_table \in PageTables, Exception(va, 4, FALSE) = "NoException"
  PROVE  physAddr(va) \in PhysAddr
<1> DEFINE vpn == va \div PageSize
           p == page_table[vpn].physicalPage
           q == PageSize \div 4
           r == va % PageSize
<1>1. va \in Nat /\ PageSize \in Nat \ {0} /\ NumPhysPages \in Nat
  BY MachineAssumption
<1>2. va % 4 = 0 /\ Mapped(vpn)
  BY DEF Exception
<1>3. p \in 0 .. NumPhysPages - 1
  <2>1. page_table[vpn] \in {Unmapped} \cup [readAllowed : {TRUE}, writeAllowed : BOOLEAN,
                                            physicalPage : 0 .. NumPhysPages - 1]
    BY DEF PageTables, Vpn
  <2>2. page_table[vpn] # Unmapped
    BY <1>2 DEF Mapped, Unmapped
  <2>3. QED
    BY <2>1, <2>2
<1>4. q \in Nat /\ PageSize = 4 * q
  BY <1>1, Division, MachineAssumption
<1>5. r \in 0 .. PageSize - 1 /\ vpn \in Nat /\ va = PageSize * vpn + r
  BY <1>1, Division
<1>6. q * vpn \in Int /\ PageSize * vpn = 4 * (q * vpn)
  <2> HIDE DEF vpn, q
  <2>1. QED
    BY <1>4, <1>5
<1>7. r % 4 = 0
  <2> DEFINE h == q * vpn
             v == PageSize * vpn
  <2>1. h \in Int /\ v = 4 * h /\ va = v + r /\ r \in Nat
    BY <1>5, <1>6
  <2> HIDE DEF h, v, r
  <2>2. QED
    BY <1>1, <1>2, <2>1
<1>8. PICK m \in Nat : r = 4 * m
  <2> HIDE DEF r
  <2>1. r = 4 * (r \div 4) /\ r \div 4 \in Nat
    BY <1>5, <1>7
  <2>2. QED
    BY <2>1
<1>9. m \in 0 .. q - 1
  <2> HIDE DEF q, r
  <2>1. QED
    BY <1>4, <1>5, <1>8
<1>10. /\ p * q \in Nat /\ p * PageSize = 4 * (p * q)
       /\ NumPhysPages * q \in Nat /\ NumPhysPages * PageSize = 4 * (NumPhysPages * q)
       /\ p * q + q <= NumPhysPages * q
  <2> HIDE DEF p, q
  <2>1. p * q \in Nat /\ p * PageSize = 4 * (p * q)
    BY <1>3, <1>4
  <2>2. NumPhysPages * q \in Nat /\ NumPhysPages * PageSize = 4 * (NumPhysPages * q)
    BY <1>1, <1>4
  <2>3. p * q + q <= NumPhysPages * q
    <3>1. PICK d \in Nat : NumPhysPages = p + 1 + d
      <4>1. NumPhysPages - p - 1 \in Nat /\ NumPhysPages = p + 1 + (NumPhysPages - p - 1)
        BY <1>1, <1>3
      <4>2. QED
        BY <4>1
    <3>2. NumPhysPages * q = p * q + q + d * q /\ d * q \in Nat
      BY <1>3, <1>4, <3>1
    <3>3. QED
      BY <1>4, <2>1, <3>2
  <2>4. QED
    BY <2>1, <2>2, <2>3
<1>11. physAddr(va) = 4 * (p * q + m)
  <2>1. physAddr(va) = p * PageSize + r
    BY DEF physAddr
  <2> HIDE DEF p, q, r
  <2>2. QED
    BY <1>8, <1>10, <2>1
<1>12. p * q + m \in 0 .. (NumPhysPages * PageSize) \div 4 - 1
  <2> DEFINE a == p * q
             b == NumPhysPages * q
             c == NumPhysPages * PageSize
  <2>1. a \in Nat /\ b \in Nat /\ c = 4 * b /\ a + q <= b
    BY <1>10
  <2> HIDE DEF a, b, c, q
  <2>2. c \div 4 = b
    BY <2>1
  <2>3. a + m \in 0 .. c \div 4 - 1
    BY <1>4, <1>9, <2>1, <2>2
  <2>4. QED
    BY <2>3 DEF a, c
<1>13. QED
  BY <1>11, <1>12 DEF PhysAddr
LEMMA PhysAddrNat == PhysAddr \subseteq Nat
BY DEF PhysAddr
-----------------------------------------------------------------------------
Counters == [hitL1 : Nat, missL1 : Nat, hitL2 : Nat, missL2 : Nat]

(* Inductive invariant: the caches are well formed, every address counts   *)
(* the accesses of level 2 as the misses of level 1, and the counters of a *)
(* level add up to its date.                                               *)
MmuInv ==
  /\ page_table \in PageTables
  /\ CacheInv(1, icache) /\ CacheInv(2, icacheL2)
  /\ stats \in [VirtAddr -> Counters]
  /\ \A va \in VirtAddr : stats[va].missL1 = stats[va].hitL2 + stats[va].missL2
  /\ TotalOf(stats, "hitL1") + TotalOf(stats, "missL1") = icache.lastUse
  /\ TotalOf(stats, "hitL2") + TotalOf(stats, "missL2") = icacheL2.lastUse

LEMMA InitMmuInv ==
  ASSUME page_table \in PageTables, MmuInit
  PROVE  MmuInv
<1>1. CacheInv(1, icache) /\ CacheInv(2, icacheL2) /\ icache.lastUse = 0 /\ icacheL2.lastUse = 0
  <2>1. /\ CacheInv(1, Cache(1)!Empty) /\ Cache(1)!Empty.lastUse = 0
        /\ CacheInv(2, Cache(2)!Empty) /\ Cache(2)!Empty.lastUse = 0
    BY EmptyInv
  <2>2. QED
    BY <2>1 DEF MmuInit
<1>2. \A va \in VirtAddr : /\ stats[va].hitL1 = 0 /\ stats[va].missL1 = 0
                           /\ stats[va].hitL2 = 0 /\ stats[va].missL2 = 0
  BY DEF MmuInit
<1>3. stats \in [VirtAddr -> Counters]
  BY DEF MmuInit, Counters
<1>4. /\ TotalOf(stats, "hitL1") = 0 /\ TotalOf(stats, "missL1") = 0
      /\ TotalOf(stats, "hitL2") = 0 /\ TotalOf(stats, "missL2") = 0
  <2>1. TotalOf(stats, "hitL1") = 0
    BY <1>2, TotalOfNothing
  <2>2. TotalOf(stats, "missL1") = 0
    BY <1>2, TotalOfNothing
  <2>3. TotalOf(stats, "hitL2") = 0
    BY <1>2, TotalOfNothing
  <2>4. TotalOf(stats, "missL2") = 0
    BY <1>2, TotalOfNothing
  <2>5. QED
    BY <2>1, <2>2, <2>3, <2>4
<1>5. QED
  BY <1>1, <1>2, <1>3, <1>4 DEF MmuInv

(* What a fetch adds to the counters of its address. *)
LEMMA CountedOnce ==
  ASSUME NEW va \in VirtAddr, NEW hit \in BOOLEAN, NEW hitL2 \in BOOLEAN,
         stats \in [VirtAddr -> Counters]
  PROVE  /\ Counted(va, hit, hitL2) \in [VirtAddr -> Counters]
         /\ \A x \in VirtAddr \ {va} : Counted(va, hit, hitL2)[x] = stats[x]
         /\ Counted(va, hit, hitL2)[va].hitL1 = stats[va].hitL1 + One(hit)
         /\ Counted(va, hit, hitL2)[va].missL1 = stats[va].missL1 + One(~ hit)
         /\ Counted(va, hit, hitL2)[va].hitL2 = stats[va].hitL2 + One(~ hit /\ hitL2)
         /\ Counted(va, hit, hitL2)[va].missL2 = stats[va].missL2 + One(~ hit /\ ~ hitL2)
<1> DEFINE r == stats[va]
           u == [hitL1  |-> r.hitL1 + One(hit),
                 missL1 |-> r.missL1 + One(~ hit),
                 hitL2  |-> r.hitL2 + One(~ hit /\ hitL2),
                 missL2 |-> r.missL2 + One(~ hit /\ ~ hitL2)]
<1>1. u \in Counters
  BY DEF Counters, One
<1>2. Counted(va, hit, hitL2) = [stats EXCEPT ![va] = u]
  BY DEF Counted
<1>3. /\ u.hitL1 = r.hitL1 + One(hit)
      /\ u.missL1 = r.missL1 + One(~ hit)
      /\ u.hitL2 = r.hitL2 + One(~ hit /\ hitL2)
      /\ u.missL2 = r.missL2 + One(~ hit /\ ~ hitL2)
  OBVIOUS
<1> HIDE DEF u
<1>4. /\ [stats EXCEPT ![va] = u] \in [VirtAddr -> Counters]
      /\ \A x \in VirtAddr \ {va} : [stats EXCEPT ![va] = u][x] = stats[x]
      /\ [stats EXCEPT ![va] = u][va] = u
  BY <1>1
<1>5. QED
  BY <1>2, <1>3, <1>4

LEMMA FetchTotals ==
  ASSUME NEW va \in VirtAddr, NEW hit \in BOOLEAN, NEW hitL2 \in BOOLEAN,
         stats \in [VirtAddr -> Counters]
  PROVE  /\ \A counter \in {"hitL1", "missL1", "hitL2", "missL2"} : TotalOf(stats, counter) \in Int
         /\ TotalOf(Counted(va, hit, hitL2), "hitL1") = TotalOf(stats, "hitL1") + One(hit)
         /\ TotalOf(Counted(va, hit, hitL2), "missL1") = TotalOf(stats, "missL1") + One(~ hit)
         /\ TotalOf(Counted(va, hit, hitL2), "hitL2") = TotalOf(stats, "hitL2") + One(~ hit /\ hitL2)
         /\ TotalOf(Counted(va, hit, hitL2), "missL2") = TotalOf(stats, "missL2") + One(~ hit /\ ~ hitL2)
<1> DEFINE u == Counted(va, hit, hitL2)
<1>1. /\ \A x \in VirtAddr \ {va} : u[x] = stats[x]
      /\ u[va].hitL1 = stats[va].hitL1 + One(hit)
      /\ u[va].missL1 = stats[va].missL1 + One(~ hit)
      /\ u[va].hitL2 = stats[va].hitL2 + One(~ hit /\ hitL2)
      /\ u[va].missL2 = stats[va].missL2 + One(~ hit /\ ~ hitL2)
  BY CountedOnce
<1>2. \A x \in VirtAddr : stats[x].hitL1 \in Int /\ stats[x].missL1 \in Int
                          /\ stats[x].hitL2 \in Int /\ stats[x].missL2 \in Int
  BY DEF Counters
<1>3. /\ One(hit) \in Int /\ One(~ hit) \in Int
      /\ One(~ hit /\ hitL2) \in Int /\ One(~ hit /\ ~ hitL2) \in Int
  BY DEF One
<1> HIDE DEF u
<1>4. TotalOf(stats, "hitL1") \in Int /\ TotalOf(u, "hitL1") = TotalOf(stats, "hitL1") + One(hit)
  <2> DEFINE k == One(hit)
  <2>1. \A x \in VirtAddr : stats[x]["hitL1"] \in Int
            /\ u[x]["hitL1"] = stats[x]["hitL1"] + (IF x = va THEN k ELSE 0)
    BY <1>1, <1>2
  <2>2. k \in Int
    BY <1>3
  <2> HIDE DEF k
  <2>3. TotalOf(stats, "hitL1") \in Int /\ TotalOf(u, "hitL1") = TotalOf(stats, "hitL1") + k
    BY <2>1, <2>2, TotalChange
  <2>4. QED
    BY <2>3 DEF k
<1>5. TotalOf(stats, "missL1") \in Int /\ TotalOf(u, "missL1") = TotalOf(stats, "missL1") + One(~ hit)
  <2> DEFINE k == One(~ hit)
  <2>1. \A x \in VirtAddr : stats[x]["missL1"] \in Int
            /\ u[x]["missL1"] = stats[x]["missL1"] + (IF x = va THEN k ELSE 0)
    BY <1>1, <1>2
  <2>2. k \in Int
    BY <1>3
  <2> HIDE DEF k
  <2>3. TotalOf(stats, "missL1") \in Int /\ TotalOf(u, "missL1") = TotalOf(stats, "missL1") + k
    BY <2>1, <2>2, TotalChange
  <2>4. QED
    BY <2>3 DEF k
<1>6. /\ TotalOf(stats, "hitL2") \in Int
      /\ TotalOf(u, "hitL2") = TotalOf(stats, "hitL2") + One(~ hit /\ hitL2)
  <2> DEFINE k == One(~ hit /\ hitL2)
  <2>1. \A x \in VirtAddr : stats[x]["hitL2"] \in Int
            /\ u[x]["hitL2"] = stats[x]["hitL2"] + (IF x = va THEN k ELSE 0)
    BY <1>1, <1>2
  <2>2. k \in Int
    BY <1>3
  <2> HIDE DEF k
  <2>3. TotalOf(stats, "hitL2") \in Int /\ TotalOf(u, "hitL2") = TotalOf(stats, "hitL2") + k
    BY <2>1, <2>2, TotalChange
  <2>4. QED
    BY <2>3 DEF k
<1>7. /\ TotalOf(stats, "missL2") \in Int
      /\ TotalOf(u, "missL2") = TotalOf(stats, "missL2") + One(~ hit /\ ~ hitL2)
  <2> DEFINE k == One(~ hit /\ ~ hitL2)
  <2>1. \A x \in VirtAddr : stats[x]["missL2"] \in Int
            /\ u[x]["missL2"] = stats[x]["missL2"] + (IF x = va THEN k ELSE 0)
    BY <1>1, <1>2
  <2>2. k \in Int
    BY <1>3
  <2> HIDE DEF k
  <2>3. TotalOf(stats, "missL2") \in Int /\ TotalOf(u, "missL2") = TotalOf(stats, "missL2") + k
    BY <2>1, <2>2, TotalChange
  <2>4. QED
    BY <2>3 DEF k
<1>8. QED
  BY <1>4, <1>5, <1>6, <1>7 DEF u
-----------------------------------------------------------------------------
(* Two sums, of which a term grows each. *)
LEMMA BothGrow ==
  ASSUME NEW a \in Int, NEW b \in Int, NEW i \in Int, NEW j \in Int
  PROVE  (a + i) + (b + j) = (a + b) + (i + j)
OBVIOUS

(* A fetch of the MMU, and what it leaves. *)
LEMMA FetchMmuInv ==
  ASSUME MmuInv, MmuNext
  PROVE  MmuInv'
<1>1. PICK va \in VirtAddr : /\ Exception(va, 4, FALSE) = "NoException"
                             /\ Fetch(va) /\ page_table' = page_table
  BY DEF MmuNext, FetchInstruction
<1> DEFINE pa == physAddr(va)
           hit == Cache(1)!Hit(icache, pa)
           hitL2 == Cache(2)!Hit(icacheL2, pa)
<1>2. pa \in Nat
  <2>1. pa \in PhysAddr
    BY <1>1, PhysicalWord DEF MmuInv
  <2>2. QED
    BY <2>1, PhysAddrNat
<1>3. /\ icache' = Cache(1)!LoadLine(icache, pa)
      /\ icacheL2' = IF hit THEN icacheL2 ELSE Cache(2)!LoadLine(icacheL2, pa)
      /\ stats' = Counted(va, hit, hitL2)
  BY <1>1 DEF Fetch
<1>4. hit \in BOOLEAN /\ hitL2 \in BOOLEAN
  BY DEF Cache!Hit
<1>5. CacheInv(1, Cache(1)!LoadLine(icache, pa)) /\ Cache(1)!LoadLine(icache, pa).lastUse = icache.lastUse + 1
  BY <1>2, LoadLineImplementsLru DEF MmuInv
<1>6. CacheInv(2, Cache(2)!LoadLine(icacheL2, pa)) /\ Cache(2)!LoadLine(icacheL2, pa).lastUse = icacheL2.lastUse + 1
  BY <1>2, LoadLineImplementsLru DEF MmuInv
<1> HIDE DEF pa, hit, hitL2
<1>7. icache'.lastUse = icache.lastUse + 1 /\ icacheL2'.lastUse = icacheL2.lastUse + One(~ hit)
  <2>1. icache.lastUse \in Nat /\ icacheL2.lastUse \in Nat
    BY DEF MmuInv, CacheInv
  <2>2. QED
    BY <1>3, <1>5, <1>6, <2>1 DEF One
<1>8. /\ stats' \in [VirtAddr -> Counters]
      /\ \A x \in VirtAddr \ {va} : stats'[x] = stats[x]
      /\ stats'[va].missL1 = stats[va].missL1 + One(~ hit)
      /\ stats'[va].hitL2 = stats[va].hitL2 + One(~ hit /\ hitL2)
      /\ stats'[va].missL2 = stats[va].missL2 + One(~ hit /\ ~ hitL2)
  BY <1>3, <1>4, CountedOnce DEF MmuInv
<1>9. /\ \A counter \in {"hitL1", "missL1", "hitL2", "missL2"} : TotalOf(stats, counter) \in Int
      /\ TotalOf(stats', "hitL1") = TotalOf(stats, "hitL1") + One(hit)
      /\ TotalOf(stats', "missL1") = TotalOf(stats, "missL1") + One(~ hit)
      /\ TotalOf(stats', "hitL2") = TotalOf(stats, "hitL2") + One(~ hit /\ hitL2)
      /\ TotalOf(stats', "missL2") = TotalOf(stats, "missL2") + One(~ hit /\ ~ hitL2)
  <2>1. stats \in [VirtAddr -> Counters]
    BY DEF MmuInv
  <2>2. QED
    BY <1>3, <1>4, <2>1, FetchTotals
<1>10. One(hit) + One(~ hit) = 1 /\ One(~ hit /\ hitL2) + One(~ hit /\ ~ hitL2) = One(~ hit)
  BY DEF One
<1>11. page_table' \in PageTables
  BY <1>1 DEF MmuInv
<1>12. CacheInv(1, icache') /\ CacheInv(2, icacheL2')
  BY <1>3, <1>5, <1>6 DEF MmuInv
<1>13. \A x \in VirtAddr : stats'[x].missL1 = stats'[x].hitL2 + stats'[x].missL2
  <2>1. \A x \in VirtAddr \ {va} : stats'[x].missL1 = stats'[x].hitL2 + stats'[x].missL2
    BY <1>8 DEF MmuInv
  <2>2. stats'[va].missL1 = stats'[va].hitL2 + stats'[va].missL2
    <3>1. stats[va].missL1 = stats[va].hitL2 + stats[va].missL2 /\ stats[va] \in Counters
      BY DEF MmuInv
    <3>2. stats[va].hitL2 \in Nat /\ stats[va].missL2 \in Nat
      BY <3>1 DEF Counters
    <3>3. QED
      BY <1>8, <1>10, <3>1, <3>2 DEF One
  <2>3. QED
    BY <2>1, <2>2
<1>14. /\ TotalOf(stats', "hitL1") + TotalOf(stats', "missL1") = icache'.lastUse
       /\ TotalOf(stats', "hitL2") + TotalOf(stats', "missL2") = icacheL2'.lastUse
  <2>1. /\ TotalOf(stats, "hitL1") \in Int /\ TotalOf(stats, "missL1") \in Int
        /\ TotalOf(stats, "hitL2") \in Int /\ TotalOf(stats, "missL2") \in Int
    BY <1>9
  <2>2. /\ TotalOf(stats, "hitL1") + TotalOf(stats, "missL1") = icache.lastUse
        /\ TotalOf(stats, "hitL2") + TotalOf(stats, "missL2") = icacheL2.lastUse
    BY DEF MmuInv
  <2>3. One(hit) \in Int /\ One(~ hit) \in Int /\ One(~ hit /\ hitL2) \in Int /\ One(~ hit /\ ~ hitL2) \in Int
    BY DEF One
  <2>4. TotalOf(stats', "hitL1") + TotalOf(stats', "missL1") = icache.lastUse + (One(hit) + One(~ hit))
    BY <1>9, <2>1, <2>2, <2>3, BothGrow
  <2>5. TotalOf(stats', "hitL2") + TotalOf(stats', "missL2")
          = icacheL2.lastUse + (One(~ hit /\ hitL2) + One(~ hit /\ ~ hitL2))
    BY <1>9, <2>1, <2>2, <2>3, BothGrow
  <2>6. QED
    BY <1>7, <1>10, <2>4, <2>5
<1>15. PageTables' = PageTables
  BY DEF PageTables, Vpn, Unmapped
<1>16. (/\ TotalOf(stats, "hitL1") + TotalOf(stats, "missL1") = icache.lastUse
        /\ TotalOf(stats, "hitL2") + TotalOf(stats, "missL2") = icacheL2.lastUse)'
  BY <1>14 DEF TotalOf, MapThenSumSet, MapThenFoldSet
<1>17. CacheInv(1, icache)' /\ CacheInv(2, icacheL2)'
  BY <1>12 DEF CacheInv, SetInv, SetType, WayRecord
<1>18. QED
  BY <1>8, <1>11, <1>13, <1>15, <1>16, <1>17 DEF MmuInv, Counters

LEMMA SameMmuInv ==
  ASSUME MmuInv, UNCHANGED mmuVars
  PROVE  MmuInv'
<1>1. page_table' = page_table /\ icache' = icache /\ icacheL2' = icacheL2 /\ stats' = stats
  BY DEF mmuVars
<1>2. PageTables' = PageTables
  BY DEF PageTables, Vpn, Unmapped
<1>3. CacheInv(1, icache)' /\ CacheInv(2, icacheL2)'
  BY <1>1 DEF MmuInv, CacheInv, SetInv, SetType, WayRecord
<1>4. (/\ TotalOf(stats, "hitL1") + TotalOf(stats, "missL1") = icache.lastUse
       /\ TotalOf(stats, "hitL2") + TotalOf(stats, "missL2") = icacheL2.lastUse)'
  BY <1>1 DEF MmuInv, TotalOf, MapThenSumSet, MapThenFoldSet
<1>5. (/\ stats \in [VirtAddr -> Counters]
       /\ \A va \in VirtAddr : stats[va].missL1 = stats[va].hitL2 + stats[va].missL2)'
  BY <1>1 DEF MmuInv, Counters
<1>6. QED
  BY <1>1, <1>2, <1>3, <1>4, <1>5 DEF MmuInv

LEMMA TotalIsTotalOf ==
  ASSUME NEW counter
  PROVE  Total(counter) = TotalOf(stats, counter)
BY DEF Total, TotalOf, MapThenSumSet, MapThenFoldSet

(* Whatever program is run, the statistics account for every access, and   *)
(* level 2 is accessed once for every miss of level 1 (MMU::ReadMem).      *)
THEOREM CountsAreExact == MmuSpec => []StatisticsExact
<1>1. page_table \in PageTables /\ MmuInit => MmuInv
  BY InitMmuInv
<1>2. MmuInv /\ [MmuNext]_mmuVars => MmuInv'
  BY FetchMmuInv, SameMmuInv
<1>3. MmuInv => StatisticsExact
  BY TotalIsTotalOf DEF MmuInv, StatisticsExact
<1>4. QED
  BY <1>1, <1>2, <1>3, PTL DEF MmuSpec
-----------------------------------------------------------------------------
(* The ages of the lines of a cache of level l. *)
AgesOf(l, c) == [b \in LinesOf(l) |-> Age(c, l, b)]

LEMMA HierarchyLines ==
  ASSUME NEW l \in {1, 2}
  PROVE  /\ Hierarchy!Cache(l)!Line = LinesOf(l)
         /\ \A b \in LinesOf(l) : \E pa \in PhysAddr : b = Line(l, pa)
         /\ \A pa \in PhysAddr : Line(l, pa) \in LinesOf(l)
<1>1. \A pa \in PhysAddr : pa - (pa % cacheline_size[l]) = Line(l, pa)
  BY PhysAddrNat, Lines
<1>2. Hierarchy!Cache(l)!Line = LinesOf(l)
  BY DEF Hierarchy!Cache!Line, Hierarchy!Cache!computeStartLine, LinesOf
<1>3. QED
  BY <1>1, <1>2 DEF LinesOf

LEMMA HitIsCached ==
  ASSUME NEW l \in {1, 2}, NEW c, CacheInv(l, c), NEW pa \in PhysAddr
  PROVE  Hierarchy!Lru(l)!Cached(AgesOf(l, c), Hierarchy!Cache(l)!computeStartLine(pa))
           <=> Cache(l)!Hit(c, pa)
<1>1. pa \in Nat /\ Line(l, pa) \in LinesOf(l)
  BY PhysAddrNat, HierarchyLines
<1>2. Hierarchy!Cache(l)!computeStartLine(pa) = Line(l, pa)
  BY <1>1, Lines
<1>3. Cache(l)!Hit(c, pa) <=> Age(c, l, Line(l, pa)) < nb_ways[l]
  BY <1>1, LoadLineImplementsLru
<1>4. AgesOf(l, c)[Line(l, pa)] = Age(c, l, Line(l, pa))
  BY <1>1 DEF AgesOf
<1>5. QED
  BY <1>2, <1>3, <1>4 DEF Hierarchy!Lru!Cached

LEMMA LoadIsAccess ==
  ASSUME NEW l \in {1, 2}, NEW c, CacheInv(l, c), NEW pa \in PhysAddr
  PROVE  AgesOf(l, Cache(l)!LoadLine(c, pa)) =
           Hierarchy!Lru(l)!Access(AgesOf(l, c), Hierarchy!Cache(l)!computeStartLine(pa))
<1> DEFINE d == Cache(l)!LoadLine(c, pa)
           line == Line(l, pa)
           After(b) == IF b = line THEN 0
                       ELSE IF SetOf(l, b) = SetOf(l, line) /\ Age(c, l, b) < Age(c, l, line)
                            THEN Age(c, l, b) + 1
                       ELSE Age(c, l, b)
<1>1. pa \in Nat /\ line \in LinesOf(l) /\ SetOf(l, line) = SetOf(l, pa)
  BY PhysAddrNat, HierarchyLines, Lines
<1>2. Hierarchy!Cache(l)!computeStartLine(pa) = line
  BY <1>1, Lines
<1>3. ASSUME NEW b \in LinesOf(l)
      PROVE  Hierarchy!Cache(l)!computeSet(b) = SetOf(l, b) /\ Age(d, l, b) = After(b)
  <2>1. PICK pb \in PhysAddr : b = Line(l, pb)
    BY HierarchyLines
  <2>2. pb \in Nat /\ b \in Nat /\ SetOf(l, b) = SetOf(l, pb)
    BY <2>1, PhysAddrNat, Lines
  <2>3. Hierarchy!Cache(l)!computeSet(b) = SetOf(l, b)
    BY <2>2, Lines
  <2>4. Age(d, l, Line(l, pb)) =
          IF Line(l, pb) = line THEN 0
          ELSE IF SetOf(l, pb) = SetOf(l, pa) /\ Age(c, l, Line(l, pb)) < Age(c, l, line)
               THEN Age(c, l, Line(l, pb)) + 1
          ELSE Age(c, l, Line(l, pb))
    <3> HIDE DEF line, After
    <3>1. Age(d, l, Line(l, pb)) = AgeAfter(l, c, pa, pb)
      BY <1>1, <2>2, LoadLineImplementsLru
    <3> HIDE DEF d
    <3>2. QED
      BY <3>1 DEF AgeAfter, line
  <2>5. QED
    BY <1>1, <2>1, <2>2, <2>3, <2>4
<1>4. AgesOf(l, d) = [b \in LinesOf(l) |-> After(b)]
  BY <1>3 DEF AgesOf
<1> DEFINE Accessed(b) ==
             IF b = line THEN 0
             ELSE IF /\ Hierarchy!Cache(l)!computeSet(b) = Hierarchy!Cache(l)!computeSet(line)
                     /\ AgesOf(l, c)[b] < AgesOf(l, c)[line]
                  THEN AgesOf(l, c)[b] + 1
             ELSE AgesOf(l, c)[b]
<1>5. Hierarchy!Lru(l)!Access(AgesOf(l, c), line) = [b \in LinesOf(l) |-> Accessed(b)]
  BY HierarchyLines DEF Hierarchy!Lru!Access
<1>6. \A b \in LinesOf(l) : AgesOf(l, c)[b] = Age(c, l, b)
  BY DEF AgesOf
<1>7. QED
  <2>1. ASSUME NEW b \in LinesOf(l)
        PROVE  Accessed(b) = After(b)
    <3> HIDE DEF line
    <3>1. QED
      BY <1>1, <1>3, <1>6
  <2> HIDE DEF Accessed, After, d, line
  <2>2. [b \in LinesOf(l) |-> Accessed(b)] = [b \in LinesOf(l) |-> After(b)]
    BY <2>1
  <2>3. QED
    BY <1>2, <1>4, <1>5, <2>2 DEF d
-----------------------------------------------------------------------------
(* The mapping: a fetch of the simulator is one of the hierarchy, of the   *)
(* physical address.                                                       *)
LEMMA FetchRefines ==
  ASSUME MmuInv, MmuNext
  PROVE  \E addr \in PhysAddr : Hierarchy!Fetch(addr)
<1>1. PICK va \in VirtAddr : Exception(va, 4, FALSE) = "NoException" /\ Fetch(va)
  BY DEF MmuNext, FetchInstruction
<1> DEFINE pa == physAddr(va)
           hit == Cache(1)!Hit(icache, pa)
           hitL2 == Cache(2)!Hit(icacheL2, pa)
           line(l) == Hierarchy!Cache(l)!computeStartLine(pa)
<1>2. pa \in PhysAddr
  BY <1>1, PhysicalWord DEF MmuInv
<1>3. /\ icache' = Cache(1)!LoadLine(icache, pa)
      /\ icacheL2' = IF hit THEN icacheL2 ELSE Cache(2)!LoadLine(icacheL2, pa)
      /\ stats' = Counted(va, hit, hitL2)
  BY <1>1 DEF Fetch
<1>4. hit \in BOOLEAN /\ hitL2 \in BOOLEAN
  BY DEF Cache!Hit
<1>5. /\ Hierarchy!Hit(1, pa) <=> hit
      /\ Hierarchy!Hit(2, pa) <=> hitL2
  <2>1. Hierarchy!Lru(1)!Cached(AgesOf(1, icache), line(1)) <=> hit
    BY <1>2, HitIsCached DEF MmuInv
  <2>2. Hierarchy!Lru(2)!Cached(AgesOf(2, icacheL2), line(2)) <=> hitL2
    BY <1>2, HitIsCached DEF MmuInv
  <2>3. Hierarchy!Hit(1, pa) <=> Hierarchy!Lru(1)!Cached(AgesOf(1, icache), line(1))
    BY DEF Hierarchy!Hit, AgesOf
  <2>4. Hierarchy!Hit(2, pa) <=> Hierarchy!Lru(2)!Cached(AgesOf(2, icacheL2), line(2))
    BY DEF Hierarchy!Hit, AgesOf
  <2>5. QED
    BY <2>1, <2>2, <2>3, <2>4
<1>6. /\ AgesOf(1, icache') = Hierarchy!Lru(1)!Access(AgesOf(1, icache), line(1))
      /\ AgesOf(2, icacheL2') = IF hit THEN AgesOf(2, icacheL2)
                                ELSE Hierarchy!Lru(2)!Access(AgesOf(2, icacheL2), line(2))
  BY <1>2, <1>3, LoadIsAccess DEF MmuInv
<1>7. /\ TotalOf(stats, "missL1") \in Int /\ TotalOf(stats, "missL2") \in Int
      /\ TotalOf(stats', "missL1") = TotalOf(stats, "missL1") + One(~ hit)
      /\ TotalOf(stats', "missL2") = TotalOf(stats, "missL2") + One(~ hit /\ ~ hitL2)
  <2>1. stats \in [VirtAddr -> Counters]
    BY DEF MmuInv
  <2>2. QED
    BY <1>3, <1>4, <2>1, FetchTotals
<1>8. \A counter : Total(counter) = TotalOf(stats, counter) /\ Total(counter)' = TotalOf(stats', counter)
  BY DEF Total, TotalOf, MapThenSumSet, MapThenFoldSet
<1>9. Hierarchy!Fetch(pa)
  <2> DEFINE ages == <<AgesOf(1, icache), AgesOf(2, icacheL2)>>
             agesNew == <<AgesOf(1, icache'), AgesOf(2, icacheL2')>>
             counts == <<Total("missL1"), Total("missL2")>>
             countsNew == <<Total("missL1")', Total("missL2")'>>
  <2> HIDE DEF pa, hit, hitL2, line
  <2>1. agesNew = [l \in {1, 2} |-> IF l = 1 \/ ~ hit THEN Hierarchy!Lru(l)!Access(ages[l], line(l)) ELSE ages[l]]
    BY <1>6
  <2>2. countsNew = [l \in {1, 2} |->
                       IF (l = 1 \/ ~ hit) /\ ~ (IF l = 1 THEN hit ELSE hitL2) THEN counts[l] + 1 ELSE counts[l]]
    BY <1>7, <1>8 DEF One
  <2>3. QED
    BY <1>5, <2>1, <2>2 DEF Hierarchy!Fetch, Hierarchy!Level, Hierarchy!Reached, AgesOf, line
<1>10. QED
  BY <1>2, <1>9

LEMMA InitRefines ==
  ASSUME MmuInit
  PROVE  Hierarchy!Init
<1>1. Total("missL1") = 0 /\ Total("missL2") = 0
  <2>1. TotalOf(stats, "missL1") = 0
    BY TotalOfNothing DEF MmuInit
  <2>2. TotalOf(stats, "missL2") = 0
    BY TotalOfNothing DEF MmuInit
  <2>3. QED
    BY <2>1, <2>2, TotalIsTotalOf
<1>2. ASSUME NEW l \in {1, 2}
      PROVE  AgesOf(l, Cache(l)!Empty) = Hierarchy!Lru(l)!Cold
  <2>1. \A b \in LinesOf(l) : Age(Cache(l)!Empty, l, b) = nb_ways[l]
    BY EmptyInv, HierarchyLines, PhysAddrNat
  <2>2. Hierarchy!Lru(l)!Cold = [b \in LinesOf(l) |-> nb_ways[l]]
    BY HierarchyLines DEF Hierarchy!Lru!Cold
  <2>3. QED
    BY <2>1, <2>2 DEF AgesOf
<1>3. <<AgesOf(1, icache), AgesOf(2, icacheL2)>> = [l \in {1, 2} |-> Hierarchy!Lru(l)!Cold]
  BY <1>2 DEF MmuInit
<1>4. QED
  BY <1>1, <1>3 DEF Hierarchy!Init, Hierarchy!Level, AgesOf

(* The two caches of the simulator, with their dates of use, implement the *)
(* hierarchy of LRU caches that the analyses reason about: every fetch     *)
(* hits and misses where the abstract one does (ICache::LoadLine,          *)
(* MMU::ReadMem).                                                          *)
THEOREM SimulatorIsLru == MmuSpec => ImplementsLru
<1>1. page_table \in PageTables /\ MmuInit => MmuInv
  BY InitMmuInv
<1>2. MmuInv /\ [MmuNext]_mmuVars => MmuInv'
  BY FetchMmuInv, SameMmuInv
<1>3. page_table \in PageTables /\ MmuInit => Hierarchy!Init
  BY InitRefines
<1>4. MmuInv /\ [MmuNext]_mmuVars
        => [\E addr \in PhysAddr : Hierarchy!Fetch(addr)]_<<
              <<[b \in LinesOf(1) |-> Age(icache, 1, b)], [b \in LinesOf(2) |-> Age(icacheL2, 2, b)]>>,
              <<Total("missL1"), Total("missL2")>>>>
  <2>1. ASSUME MmuInv, MmuNext
        PROVE  \E addr \in PhysAddr : Hierarchy!Fetch(addr)
    BY <2>1, FetchRefines
  <2>2. ASSUME UNCHANGED mmuVars
        PROVE  UNCHANGED <<
                 <<[b \in LinesOf(1) |-> Age(icache, 1, b)], [b \in LinesOf(2) |-> Age(icacheL2, 2, b)]>>,
                 <<Total("missL1"), Total("missL2")>>>>
    BY <2>2 DEF mmuVars, Age, LinesOf, PhysAddr, Total, MapThenSumSet, MapThenFoldSet
  <2>3. QED
    BY <2>1, <2>2
<1>5. QED
  BY <1>1, <1>2, <1>3, <1>4, PTL DEF MmuSpec, ImplementsLru, Hierarchy!Spec
=============================================================================
