--------------------------- MODULE MCLoopDetection ---------------------------
EXTENDS LoopDetection

(* Blocks have at most two successors; every node can be executed. *)
Order == <<1, 2, 3, 4>>

Targets == {s \in SUBSET (1 .. 4) : Cardinality(s) <= 2}

SmallGraphs ==
  {g \in {[nodes |-> Order, edges |-> {<<n, m>> \in (1 .. 4) \X (1 .. 4) : m \in succ[n]}] :
             succ \in [1 .. 4 -> Targets]} :
     Reachable(g.edges, {1}) = 1 .. 4}
=============================================================================
