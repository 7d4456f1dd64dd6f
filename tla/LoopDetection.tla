---------------------------- MODULE LoopDetection ----------------------------
(***************************************************************************)
(* The loops HeptaneExtract finds in a control-flow graph: the dominators  *)
(* by passes over the nodes (dominatorAnalysis.cc), then for every node    *)
(* that dominates a predecessor its natural loop (loopAnalysis.cc).  The   *)
(* analyses rely on these loops: they ask for a bound per loop, cut cycles *)
(* at back edges and unroll contexts and persistence from the heads.       *)
(***************************************************************************)
EXTENDS Integers, Sequences, Functions, ControlFlow

CONSTANTS
  Graphs,      \* the graphs to analyse: [nodes, edges], nodes a sequence
               \* in the order of GetAllNodes, the start node first
  MAX_PASSES

(* The nodes of a graph are distinct, and its edges are between them. *)
ASSUME GraphsAssumption ==
  \A g \in Graphs :
     /\ g.nodes \in Seq(Range(g.nodes)) /\ g.nodes # <<>>
     /\ IsInjective(g.nodes)
     /\ g.edges \subseteq Range(g.nodes) \X Range(g.nodes)

ASSUME PassesAssumption == MAX_PASSES \in Nat \ {0}

VARIABLES
  cfg,         \* the graph under analysis
  phase,       \* "dominators", "loops" or "done"
  next,        \* index of the next node to look at
  dominators,  \* the dominators computed so far
  change,      \* has the pass changed anything?
  steps,       \* passes left
  loops,       \* the loops created: [head, nodes, backedges]
  todo         \* the nodes computeLoop is still called for, in the last loop

vars == <<cfg, phase, next, dominators, change, steps, loops, todo>>

Nodes == Range(cfg.nodes)
StartNode == cfg.nodes[1]
Current == cfg.nodes[next]
-----------------------------------------------------------------------------
(* The nodes that dominate every predecessor; all of them if there is none. *)
Intersection(bb) ==
  {d \in Nodes : \A pred \in Predecessors(cfg.edges, bb) : d \in dominators[pred]}

(* One node of a pass of computeDominator.  The start node is left alone,  *)
(* the dominators of the others are replaced in place.                     *)
Visit ==
  /\ phase = "dominators" /\ next <= Len(cfg.nodes)
  /\ LET TempSet == Intersection(Current) \cup {Current}
     IN  IF Current = StartNode \/ TempSet = dominators[Current]
           THEN UNCHANGED <<dominators, change>>
           ELSE /\ dominators' = [dominators EXCEPT ![Current] = TempSet]
                /\ change' = TRUE
  /\ next' = next + 1
  /\ UNCHANGED <<cfg, phase, steps, loops, todo>>

(* Mutant of EndPass: one pass is enough. *)
EndPassFirst ==
  /\ phase = "dominators" /\ next > Len(cfg.nodes)
  /\ next' = 1 /\ change' = FALSE /\ steps' = steps - 1
  /\ phase' = "loops"
  /\ UNCHANGED <<cfg, dominators, loops, todo>>

(* Another pass if something changed and passes are left. *)
EndPass ==
  /\ phase = "dominators" /\ next > Len(cfg.nodes)
  /\ next' = 1 /\ change' = FALSE /\ steps' = steps - 1
  /\ phase' = IF change /\ steps > 1 THEN "dominators" ELSE "loops"
  /\ UNCHANGED <<cfg, dominators, loops, todo>>

(* The predecessors the current node dominates. *)
backEdgeSources == {pred \in Predecessors(cfg.edges, Current) : Current \in dominators[pred]}

(* computeLoop(cfg): the next node, with a new loop if it is a head. *)
Detect ==
  /\ phase = "loops" /\ todo = {} /\ next <= Len(cfg.nodes)
  /\ IF backEdgeSources = {} THEN UNCHANGED <<loops, todo>>
     ELSE /\ loops' = Append(loops, [head |-> Current, nodes |-> {Current},
                                     backedges |-> backEdgeSources \X {Current}])
          /\ todo' = backEdgeSources
  /\ next' = next + 1
  /\ UNCHANGED <<cfg, phase, dominators, change, steps>>

loop == loops[Len(loops)]
WithNode(n) == [loops EXCEPT ![Len(loops)].nodes = @ \cup {n}]

(* Mutant of AddNode: the walk goes through the nodes of the loop. *)
AddNodeOnly(current) ==
  /\ current \in todo
  /\ loops' = WithNode(current)
  /\ todo' = todo \ {current}
  /\ UNCHANGED <<cfg, phase, next, dominators, change, steps>>

(* Mutant of AddNode: a node already in the loop is walked again. *)
AddNodeAgain(current) ==
  /\ current \in todo
  /\ loops' = WithNode(current)
  /\ todo' = (todo \ {current}) \cup {p \in Predecessors(cfg.edges, current) :
                                        loop.head \notin {p, current}}
  /\ UNCHANGED <<cfg, phase, next, dominators, change, steps>>

(* computeLoop(loop, cfg, current): a node not yet in the loop enters it   *)
(* and the walk goes on with its predecessors.  The order of the edges,    *)
(* and so of the walk, is any order.                                       *)
AddNode(current) ==
  /\ current \in todo
  /\ IF current \in loop.nodes
       THEN /\ todo' = todo \ {current}
            /\ UNCHANGED loops
       ELSE /\ loops' = WithNode(current)
            /\ todo' = (todo \ {current}) \cup Predecessors(cfg.edges, current)
  /\ UNCHANGED <<cfg, phase, next, dominators, change, steps>>

Finish ==
  /\ phase = "loops" /\ todo = {} /\ next > Len(cfg.nodes)
  /\ phase' = "done"
  /\ UNCHANGED <<cfg, next, dominators, change, steps, loops, todo>>

Init ==
  /\ cfg \in Graphs
  /\ phase = "dominators" /\ next = 1
  /\ dominators = [n \in Nodes |-> IF n = StartNode THEN {n} ELSE Nodes]
  /\ change = FALSE /\ steps = MAX_PASSES
  /\ loops = <<>> /\ todo = {}

Next ==
  \/ Visit \/ EndPass \/ Detect \/ Finish
  \/ \E current \in todo : AddNode(current)

Spec == Init /\ [][Next]_vars /\ WF_vars(Next)
-----------------------------------------------------------------------------
Live == Reachable(cfg.edges, {StartNode})

(* At any moment of the passes the sets contain every dominator, so that   *)
(* an early stop can only invent dominators, never overlook a back edge.   *)
NoDominatorLost ==
  \A n \in Nodes, d \in Nodes :
     Dominates(cfg.edges, StartNode, d, n) => d \in dominators[n]

(* No dominator is ever lost and, when the passes end, the sets of the     *)
(* nodes that can be executed are the dominators of the definition,        *)
(* however the nodes are ordered.  dominatorAnalysis.cc                    *)
DominatorsExact ==
  /\ NoDominatorLost
  /\ phase # "dominators" =>
       \A n \in Live : dominators[n] = {d \in Nodes : Dominates(cfg.edges, StartNode, d, n)}

LiveBackEdges == {e \in BackEdges(cfg.edges, StartNode) : e[1] \in Live}

(* The loops found are the natural loops of the graph, one per head.       *)
LoopsNatural ==
  phase = "done" =>
     /\ Len(loops) = Cardinality({e[2] : e \in LiveBackEdges})
     /\ \A h \in {e[2] : e \in LiveBackEdges} : \E i \in DOMAIN loops :
          /\ loops[i].head = h
          /\ loops[i].nodes = LoopOf(cfg.edges, StartNode, h)
          /\ loops[i].backedges = {e \in LiveBackEdges : e[2] = h}

(* The passes and the walks end. *)
Termination == <>(phase = "done")
=============================================================================
