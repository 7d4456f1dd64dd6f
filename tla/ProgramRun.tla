------------------------------ MODULE ProgramRun ------------------------------
(***************************************************************************)
(* The contexts of a program, one for each way to reach a function by      *)
(* calls from the entry point, and its executions within its annotations.  *)
(* Context c is the c-th created, the entry point's is the first; the code *)
(* counts them from 0.  Analyses move between contextual nodes, pairs of a *)
(* context and a node.  An execution goes a node at a time, with the stack *)
(* of the calls under way and, for every loop under way, how often it was  *)
(* iterated.  Nothing of the executions is an analysis's.                  *)
(***************************************************************************)
EXTENDS CallGraph

VARIABLES
  contexts,           \* the contexts, in the order of creation
  explored,           \* how many had their call nodes scanned
  stack,              \* the call nodes of the calls under way, innermost first
  node,               \* the node under execution, or None
  iterations          \* [<<stack, loop head>> -> iterations begun]

contextVars == <<contexts, explored>>

None == 0             \* the caller of the entry point: no context, no node

(* A node belongs to one function; a function starts, ends and calls at    *)
(* nodes of its own.                                                       *)
ASSUME FunctionsAssumption ==
  \A p \in Programs : \A f \in DOMAIN p.cfg :
     LET nodes == ToSet(p.cfg[f].nodes)
     IN  /\ p.cfg[f].nodes \in Seq(nodes) /\ IsInjective(p.cfg[f].nodes)
         /\ p.cfg[f].edges \subseteq nodes \X nodes
         /\ p.cfg[f].start \in nodes /\ p.cfg[f].ends \subseteq nodes
         /\ DOMAIN p.cfg[f].callee \subseteq nodes
         /\ None \notin nodes
         /\ \A g \in (DOMAIN p.cfg) \ {f} : nodes \cap ToSet(p.cfg[g].nodes) = {}

Context(caller, call, f) == [caller |-> caller, node |-> call, function |-> f]

InitContexts ==
  /\ contexts = <<Context(None, None, program.entry)>>
  /\ explored = 0

(* The contexts reached from the oldest one not yet scanned, one for each  *)
(* of its call nodes.  Those of an entry point that calls itself are       *)
(* without end.                                                            *)
Explore ==
  LET c == explored + 1
      f == contexts[c].function
      calls == GetCallNodes(f)
  IN  /\ phase = "contexts" /\ explored < Len(contexts)
      /\ contexts' = contexts \o
           [i \in DOMAIN calls |-> Context(c, calls[i], GetCallee(f, calls[i]))]
      /\ explored' = c
      /\ UNCHANGED <<program, phase, callVars>>

initialise ==
  /\ phase = "contexts" /\ explored = Len(contexts)
  /\ phase' = "execution"
  /\ UNCHANGED <<program, callVars, contextVars>>

-----------------------------------------------------------------------------
(* Moving through the tree of contexts *)

getCurrentFunction(c) == contexts[c].function
ContextList(f) == {c \in DOMAIN contexts : getCurrentFunction(c) = f}
getCalleeContext(c, call) ==
  CHOOSE d \in DOMAIN contexts : contexts[d].caller = c /\ contexts[d].node = call

Cfg(c) == program.cfg[getCurrentFunction(c)]

(* A node that ends its function; a call node never does.                  *)
IsReturn(c, n) == n \in Cfg(c).ends /\ ~ IsCall(getCurrentFunction(c), n)

GetContextualSuccessors(c, n) ==
  LET f == getCurrentFunction(c)
      caller == contexts[c].caller
  IN  IF IsCall(f, n)
      THEN {<<getCalleeContext(c, n), program.cfg[GetCallee(f, n)].start>>}
      ELSE IF IsReturn(c, n)
      THEN IF caller = None THEN {}
           ELSE {<<caller, s>> : s \in Successors(Cfg(caller).edges, contexts[c].node)}
      ELSE {<<c, s>> : s \in Successors(Cfg(c).edges, n)}

(* Mutant of GetContextualPredecessors: after a call comes the call.       *)
GetPredecessorsInContext(c, n) ==
  {<<c, p>> : p \in Predecessors(Cfg(c).edges, n)}
  \cup (IF n = Cfg(c).start /\ contexts[c].caller # None
        THEN {<<contexts[c].caller, contexts[c].node>>} ELSE {})

GetContextualPredecessors(c, n) ==
  LET f == getCurrentFunction(c)
      from(p) == IF IsCall(f, p)
                 THEN {getCalleeContext(c, p)} \X program.cfg[GetCallee(f, p)].ends
                 ELSE {<<c, p>>}
  IN  (UNION {from(p) : p \in Predecessors(Cfg(c).edges, n)})
      \cup (IF n = Cfg(c).start /\ contexts[c].caller # None
            THEN {<<contexts[c].caller, contexts[c].node>>} ELSE {})

(* The contexts from c up to the entry point's, c included.                *)
Ancestors(c) ==
  Reachable({<<d, contexts[d].caller>> : d \in DOMAIN contexts}, {c}) \ {None}
IsAncestorContextOf(a, c) == a \in Ancestors(c)

(* The call nodes that lead to c, the innermost first.                     *)
GetCallerNodeStack(c) ==
  LET nodes[d \in DOMAIN contexts] ==
        IF contexts[d].caller = None THEN <<>>
        ELSE <<contexts[d].node>> \o nodes[contexts[d].caller]
  IN  nodes[c]
-----------------------------------------------------------------------------
(* The executions *)

runVars == <<stack, node, iterations>>

InitRun == stack = <<>> /\ node = None /\ iterations = <<>>

FunctionOn(st) ==
  IF st = <<>> THEN program.entry
  ELSE CHOOSE g \in Functions :
         \E f \in Functions : IsCall(f, Head(st)) /\ g = GetCallee(f, Head(st))

-----------------------------------------------------------------------------
(* The loops of a function, and what an iteration of one is: a pass        *)
(* through its head, or, when the head is the test of a while loop, a pass *)
(* from its tests into its body.                                           *)
Loops(g) == {[head |-> h, maxiter |-> g.maxiter[h], nodes |-> LoopOf(g.edges, g.start, h)]
               : h \in DOMAIN g.maxiter}

CanLeave(g, l, n) == ~ Successors(g.edges, n) \subseteq l.nodes
IsLatch(g, l, n) == <<n, l.head>> \in g.edges
Tests(g, l) ==
  LET tests == {n \in l.nodes : CanLeave(g, l, n) /\ (n = l.head \/ ~ IsLatch(g, l, n))}
  IN  IF l.nodes = {l.head} \/ l.head \notin tests THEN {}
      ELSE Reachable({e \in g.edges : e[1] \in tests /\ e[2] \in tests}, {l.head})
Begins(g, l, u, v) ==
  IF Tests(g, l) = {} THEN v = l.head
  ELSE u \in Tests(g, l) /\ v \in l.nodes \ Tests(g, l)

(* The iterations of the loops under way after the edge from u to v.       *)
Iterated(st, u, v) ==
  LET g == program.cfg[FunctionOn(st)]
      before(l) == IF u \in l.nodes THEN iterations[<<st, l.head>>] ELSE 0
      after(l) == before(l) + (IF Begins(g, l, u, v) THEN 1 ELSE 0)
      inner == {l \in Loops(g) : v \in l.nodes}
  IN  [k \in {k \in DOMAIN iterations : k[1] # st} \cup {<<st, l.head>> : l \in inner} |->
         IF k[1] # st THEN iterations[k]
         ELSE after(CHOOSE l \in inner : l.head = k[2])]

WithinBounds(st, its) ==
  \A l \in Loops(program.cfg[FunctionOn(st)]) :
     <<st, l.head>> \in DOMAIN its => its[<<st, l.head>>] <= l.maxiter

-----------------------------------------------------------------------------
Running == phase = "execution" /\ node # None
AtCall == IsCall(FunctionOn(stack), node)
AtReturn == node \in program.cfg[FunctionOn(stack)].ends /\ ~ AtCall

Begin ==
  /\ phase = "execution" /\ node = None
  /\ node' = program.cfg[program.entry].start
  /\ UNCHANGED <<stack, iterations>>

(* Along an edge of the function on top of st.                             *)
Follow(st, u, v) ==
  /\ v \in Successors(program.cfg[FunctionOn(st)].edges, u)
  /\ iterations' = Iterated(st, u, v)
  /\ WithinBounds(st, iterations')
  /\ stack' = st
  /\ node' = v

Branch(v) == Running /\ ~ AtCall /\ ~ AtReturn /\ Follow(stack, node, v)

Return(v) == Running /\ AtReturn /\ stack # <<>> /\ Follow(Tail(stack), Head(stack), v)

Call ==
  /\ Running /\ AtCall
  /\ stack' = <<node>> \o stack
  /\ node' = program.cfg[GetCallee(FunctionOn(stack), node)].start
  /\ UNCHANGED iterations

-----------------------------------------------------------------------------
(* The contexts of the calls under way.                                    *)
ContextsOf(st) == {c \in DOMAIN contexts : GetCallerNodeStack(c) = st}
CurrentContext(st) == CHOOSE c \in ContextsOf(st) : TRUE

(* Wherever an execution is, exactly one context has its calls; where it   *)
(* goes is a contextual successor of where it was, and where it was a      *)
(* contextual predecessor: the two directions in which the analyses        *)
(* propagate.  Context.cc, ContextHelper.cc                                *)
ContextualStep(c, n, d, m) ==
  /\ <<d, m>> \in GetContextualSuccessors(c, n)
  /\ <<c, n>> \in GetContextualPredecessors(d, m)

ContextualPath ==
  [][node # None /\ node' # None =>
       /\ Cardinality(ContextsOf(stack)) = 1
       /\ Cardinality(ContextsOf(stack')) = 1
       /\ ContextualStep(CurrentContext(stack), node, CurrentContext(stack'), node')
    ]_<<stack, node>>
=============================================================================
