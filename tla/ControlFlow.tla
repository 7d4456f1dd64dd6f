----------------------------- MODULE ControlFlow -----------------------------
(***************************************************************************)
(* Control-flow graphs by their definitions: reachability, domination,     *)
(* back edges and natural loops.  A graph is a set of nodes, a set of      *)
(* edges (pairs of nodes) and an entry node.                               *)
(***************************************************************************)
EXTENDS Integers, FiniteSets

Successors(edges, n) == {e[2] : e \in {x \in edges : x[1] = n}}

Predecessors(edges, n) == {e[1] : e \in {x \in edges : x[2] = n}}

(* The nodes reachable from the nodes of start, those of start included. *)
Reachable(edges, start) ==
  LET within[k \in Nat] ==
        IF k = 0 THEN start
        ELSE LET closer == within[k - 1]
             IN  closer \cup {e[2] : e \in {x \in edges : x[1] \in closer}}
  IN  within[Cardinality(edges)]

Reversed(edges) == {<<e[2], e[1]>> : e \in edges}

Without(edges, n) == {e \in edges : e[1] # n /\ e[2] # n}

(* Every path from the entry to m goes through d. *)
Dominates(edges, entry, d, m) ==
  d = m \/ d = entry \/ m \notin Reachable(Without(edges, d), {entry})

(* The edges to a node that dominates their source. *)
BackEdges(edges, entry) ==
  {e \in edges : Dominates(edges, entry, e[2], e[1])}

LoopHeads(edges, entry) == {e[2] : e \in BackEdges(edges, entry)}

(* The natural loop of head h: h and the nodes that reach one of its back  *)
(* edges without going through h.                                          *)
LoopOf(edges, entry, h) ==
  {h} \cup
  Reachable(Reversed(Without(edges, h)),
            {e[1] : e \in {x \in BackEdges(edges, entry) : x[2] = h}} \ {h})

(* The heads of the loops nested in no other. *)
OuterHeads(edges, entry) ==
  {h \in LoopHeads(edges, entry) :
     \A g \in LoopHeads(edges, entry) \ {h} :
        ~ LoopOf(edges, entry, h) \subseteq LoopOf(edges, entry, g)}

(* Without its back edges the graph has no cycle. *)
Reducible(edges, entry) ==
  LET forward == edges \ BackEdges(edges, entry)
  IN  \A e \in forward : e[1] \notin Reachable(forward, {e[2]})
=============================================================================
