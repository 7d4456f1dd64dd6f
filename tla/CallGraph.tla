------------------------------ MODULE CallGraph ------------------------------
(***************************************************************************)
(* The call graph of a program: which functions the entry point reaches,   *)
(* and whether they call each other in a cycle.                            *)
(*                                                                         *)
(* A program is its entry function and the graphs of its functions; a node *)
(* belongs to one function, a call node names its callee.  A function that *)
(* is only declared has no node, so nothing is scanned in it.              *)
(***************************************************************************)
EXTENDS ControlFlow, Sequences, SequencesExt

CONSTANT Programs     \* the programs analysed

ASSUME ProgramsAssumption ==
  \A p \in Programs :
     /\ p.entry \in DOMAIN p.cfg /\ IsFiniteSet(DOMAIN p.cfg)
     /\ \A f \in DOMAIN p.cfg : \A n \in DOMAIN p.cfg[f].callee :
          p.cfg[f].callee[n] \in DOMAIN p.cfg

VARIABLES
  program,            \* the program analysed
  phase,              \* the part of the analysis under way
  heap,               \* every CallGraphElem, in the order of allocation
  elems,              \* those of the graph: one for each function reached
  building,           \* the recursion: elements, with the calls left to scan
  tested,             \* how many elements were tested for a cycle
  cyclic

callVars == <<heap, elems, building, tested, cyclic>>

Functions == DOMAIN program.cfg
IsCall(f, n) == n \in DOMAIN program.cfg[f].callee
GetCallee(f, n) == program.cfg[f].callee[n]
GetCallNodes(f) ==
  LET nodes == program.cfg[f].nodes
      calls[i \in 0 .. Len(nodes)] ==
        IF i = 0 THEN <<>>
        ELSE IF IsCall(f, nodes[i]) THEN Append(calls[i - 1], nodes[i])
        ELSE calls[i - 1]
  IN  calls[Len(nodes)]

(* A call of BuildFromCallGraphElem for the element e of f. *)
Building(e, f) == [elem |-> e, calls |-> DOMAIN program.cfg[f].callee]

CallGraphElem(f) == [cfg |-> f, callees |-> {}, visited |-> FALSE]

findInElems(es, f) == \E e \in es : heap[e].cfg = f

Init ==
  /\ program \in Programs
  /\ phase = "calls"
  /\ heap = <<CallGraphElem(program.entry)>>
  /\ elems = <<1>>
  /\ building = <<Building(1, program.entry)>>
  /\ tested = 0
  /\ cyclic = FALSE

(* The innermost BuildFromCallGraphElem, and the calls it has left.  The   *)
(* code takes them in the order of the nodes, here it is any order.        *)
Frame == Last(building)
Caller == heap[Frame.elem]
CallsLeft == IF phase = "calls" /\ building # <<>> THEN Frame.calls ELSE {}
Callee(n) == GetCallee(Caller.cfg, n)
Scanned(n) == [building EXCEPT ![Len(building)].calls = @ \ {n}]

ScanKnownCall(n) ==
  /\ findInElems(Caller.callees, Callee(n))
  /\ building' = Scanned(n)
  /\ UNCHANGED <<program, phase, heap, elems, tested, cyclic>>

AddCalleeNew(n) ==
  LET new == Len(heap) + 1
      known == findInElems(ToSet(elems), Callee(n))
  IN  /\ ~ findInElems(Caller.callees, Callee(n))
      /\ heap' = IF known THEN heap
                 ELSE Append([heap EXCEPT ![Frame.elem].callees = @ \cup {new}],
                             CallGraphElem(Callee(n)))
      /\ elems' = IF known THEN elems ELSE Append(elems, new)
      /\ building' = IF known THEN Scanned(n)
                     ELSE Append(Scanned(n), Building(new, Callee(n)))
      /\ UNCHANGED <<program, phase, tested, cyclic>>

(* An element for the callee, below its caller; the graph keeps one for    *)
(* each function, any other stays without callees.                         *)
AddCallee(n) ==
  LET new == Len(heap) + 1
  IN  /\ ~ findInElems(Caller.callees, Callee(n))
      /\ heap' = Append([heap EXCEPT ![Frame.elem].callees = @ \cup {new}],
                        CallGraphElem(Callee(n)))
      /\ IF findInElems(ToSet(elems), Callee(n))
         THEN elems' = elems /\ building' = Scanned(n)
         ELSE /\ elems' = Append(elems, new)
              /\ building' = Append(Scanned(n), Building(new, Callee(n)))
      /\ UNCHANGED <<program, phase, tested, cyclic>>

EndBuild ==
  /\ phase = "calls" /\ building # <<>> /\ CallsLeft = {}
  /\ building' = Front(building)
  /\ phase' = IF Len(building) = 1 THEN "cycles" ELSE phase
  /\ UNCHANGED <<program, heap, elems, tested, cyclic>>

(* The elements below e, e included. *)
Below(e) == Reachable({x \in (DOMAIN heap) \X (DOMAIN heap) : x[2] \in heap[x[1]].callees}, {e})

(* A search from e marks every element below it.  The searches before left *)
(* their marks only on the elements outside of the graph: those of the     *)
(* graph were reset.                                                       *)
Searched(e) ==
  [d \in DOMAIN heap |->
     [heap[d] EXCEPT !.visited =
        d \in Below(e) \/ (@ /\ d \notin ToSet(elems))]]

detectCycles(e, f) ==
  \E d \in Below(e) \ ToSet(elems) : heap[d].visited /\ heap[d].cfg = f

TestCycles ==
  LET e == elems[tested + 1]
      found == detectCycles(e, heap[e].cfg)
  IN  /\ phase = "cycles"
      /\ cyclic' = found
      /\ heap' = IF found THEN heap ELSE Searched(e)
      /\ tested' = tested + 1
      /\ phase' = IF found THEN "rejected"
                  ELSE IF tested' = Len(elems) THEN "contexts" ELSE phase
      /\ UNCHANGED <<program, elems, building>>

Calls(e, f) == \E d \in Below(e) \ {e} : heap[d].cfg = f

isDeadCode(f) ==
  f # program.entry /\ \A e \in ToSet(elems) : ~ Calls(e, f)

BuildCallGraph ==
  \/ \E n \in CallsLeft : ScanKnownCall(n) \/ AddCallee(n)
  \/ EndBuild
  \/ TestCycles

-----------------------------------------------------------------------------
(* Which function calls which, by the graphs of the functions.             *)
Calling == UNION {{<<f, GetCallee(f, n)>> : n \in DOMAIN program.cfg[f].callee}
                    : f \in Functions}
Live == Reachable(Calling, {program.entry})

(* Every recursion among the functions that are executed is detected,      *)
(* save one that goes through the entry point, and nothing else is         *)
(* rejected; the functions that are never called, and only those, are      *)
(* dead: the guards of every analysis that follows.  CallGraph.cc          *)
CallGraphExact ==
  /\ phase \notin {"calls", "cycles"} =>
       cyclic = \E f \in Live \ {program.entry} :
                   LET inner == Without(Calling, program.entry)
                   IN  f \in Reachable(inner, Successors(inner, f))
  /\ phase \notin {"calls", "cycles", "rejected"} =>
       \A f \in Functions : isDeadCode(f) = (f \notin Live)
=============================================================================
