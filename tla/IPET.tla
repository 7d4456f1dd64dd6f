--------------------------------- MODULE IPET ---------------------------------
(***************************************************************************)
(* The integer linear program whose optimum is the WCET, beside the        *)
(* executions it has to bound: an execution counts what the variables of   *)
(* the linear program stand for, and takes the time its caches give it.    *)
(* A cache answers as any cache may for which the classifications are      *)
(* right; that they are is the business of the cache analyses.             *)
(***************************************************************************)
EXTENDS NodeTimes

CONSTANT CacheConfigurations(_)   \* which caches are perfect, and the pipeline, if any

VARIABLES
  nodeCount,          \* executions of each contextual node (n_)
  edgeCount,          \* traversals of each edge in each context, by whether its source
                      \* and its target are executed for the first time (eff_ .. enn_)
  externalCount,      \* calls of annotated functions, by context (ex_)
  missed,             \* the first-miss accesses that missed
  uses,               \* references and misses of each cache
  inFlight,           \* what a pipeline has been fed so far
  elapsed             \* the time so far

ipetVars == <<nodeCount, edgeCount, externalCount, missed, uses, inFlight, elapsed>>
vars == <<program, phase, caches, callVars, contextVars, runVars, ipetVars>>

Count(f, k) == IF k \in DOMAIN f THEN f[k] ELSE 0
Incremented(f, k) == [j \in DOMAIN f \cup {k} |-> Count(f, j) + (IF j = k THEN 1 ELSE 0)]

n_(c, n) == Count(nodeCount, <<c, n>>)
HasExternalWCET(f) == f \in DOMAIN program.wcet

(* No call on the way to c is to an annotated function.                    *)
isReachableState(c) ==
  \A d \in Ancestors(c) : ~ HasExternalWCET(getCurrentFunction(d))

(* A pipeline needs an instruction cache, but the one of FLEXPRET.         *)
HasIPETMethodToApply(c) == c.pipeline = "MIPS" => ~ c.perfectIcache

IPETInit ==
  /\ Init /\ InitContexts /\ InitRun
  /\ caches \in {c \in CacheConfigurations(program) : HasIPETMethodToApply(c)}
  /\ nodeCount = <<>> /\ edgeCount = <<>> /\ externalCount = <<>>
  /\ missed = {}
  /\ uses = [tl \in {"code", "data"} \X (1 .. NbLevels) |-> [references |-> 0, misses |-> 0]]
  /\ inFlight = <<>>
  /\ elapsed = 0

-----------------------------------------------------------------------------
(* The answers of the caches *)

(* The levels that may serve an access of these classifications, the       *)
(* memory being one more.                                                  *)
MayServe(classes, loaded) ==
  {s \in 1 .. NbLevels + 1 :
     /\ s <= NbLevels => classes[s] \notin {"AM", "AU"}
     /\ \A l \in 1 .. s - 1 : classes[l] \notin {"AH", "AU"} /\ l \notin loaded}

AccessTime(latency, s) ==
  MapThenSumSet(LAMBDA l : latency[l], 1 .. Lesser(s, NbLevels))
  + (IF s > NbLevels THEN MemoryLoadLatency ELSE 0)

(* The block of level l that holds block b of the first level.             *)
BlockAt(i, b, l) == ((b - 1) * i.blocks[l]) \div i.blocks[1] + 1

Loaded(c, n, i, type, b) ==
  LET ins == Instructions(c, n)[i]
  IN  {l \in 1 .. NbLevels :
         <<c, n, i, type, l, IF type = "code" THEN 1 ELSE BlockAt(ins, b, l)>> \in missed}

(* What an instruction may do: the level that serves its fetch, the block  *)
(* it loads and the level that serves the load.                            *)
Outcomes(c, n, i) ==
  LET ins == Instructions(c, n)[i]
      fetches == IF caches.perfectIcache THEN {1}
                 ELSE MayServe(ins.code, Loaded(c, n, i, "code", 1))
      loads == IF ins.kind # "load" \/ caches.perfectDcache THEN {<<1, 0>>}
               ELSE UNION {{b} \X MayServe(ins.data, Loaded(c, n, i, "data", b))
                             : b \in 1 .. ins.blocks[1]}
  IN  fetches \X loads

FetchLatency(o) ==
  IF caches.perfectIcache THEN PerfectICacheLatency ELSE AccessTime(levelAccessCostInstr, o[1])

OutcomeTime(ins, o) ==
  IF caches.perfectIcache /\ caches.perfectDcache THEN PerfectICacheLatency
  ELSE FetchLatency(o)
     + (IF caches.perfectDcache THEN PerfectDCacheLatency
        ELSE IF ins.kind = "store" THEN MemoryStoreLatency
        ELSE IF ins.kind = "load" THEN AccessTime(levelAccessCostData, o[2][2])
        ELSE 0)

(* The accesses of an outcome: the type of cache, the block and the level  *)
(* that serves it.                                                         *)
Accesses(ins, o) ==
  (IF caches.perfectIcache THEN {} ELSE {<<"code", 1, o[1]>>})
  \cup (IF ins.kind = "load" /\ ~ caches.perfectDcache
        THEN {<<"data", o[2][1], o[2][2]>>} ELSE {})

(* A pipeline is one from the start of the execution to its end: it is fed *)
(* the instructions of every node, at the time their fetch takes.          *)
Pipelined == caches.pipeline # "off"
Fed(is, o) ==
  FoldLeft(LAMBDA ip, i : scheduleInst(ip, is[i], FetchLatency(o[i])), inFlight,
           [i \in DOMAIN is |-> i])

(* The execution of node n in context c, with one outcome for each of its  *)
(* instructions.                                                           *)
Visit(c, n) ==
  LET is == Instructions(c, n)
      all(o) == UNION {{i} \X Accesses(is[i], o[i]) : i \in DOMAIN is}
  IN  /\ nodeCount' = Incremented(nodeCount, <<c, n>>)
      /\ \E o \in [DOMAIN is -> UNION {Outcomes(c, n, i) : i \in DOMAIN is}] :
           /\ \A i \in DOMAIN is : o[i] \in Outcomes(c, n, i)
           /\ inFlight' = IF Pipelined THEN Fed(is, o) ELSE inFlight
           /\ elapsed' = IF Pipelined THEN Last(inFlight').wb
                ELSE elapsed + MapThenSumSet(LAMBDA i : OutcomeTime(is[i], o[i]), DOMAIN is)
           /\ missed' = missed \cup UNION
                {{<<c, n, x[1], x[2][1], l,
                    IF x[2][1] = "code" THEN 1 ELSE BlockAt(is[x[1]], x[2][2], l)>>
                    : l \in {k \in 1 .. NbLevels :
                              k < x[2][3] /\ getCHMC(is[x[1]], x[2][1], k) = "FM"}}
                   : x \in all(o)}
           /\ uses' = [tl \in DOMAIN uses |->
                [references |-> uses[tl].references
                   + Cardinality({x \in all(o) : x[2][1] = tl[1] /\ tl[2] <= x[2][3]}),
                 misses |-> uses[tl].misses
                   + Cardinality({x \in all(o) : x[2][1] = tl[1] /\ tl[2] < x[2][3]})]]

(* Within an annotated function nothing is counted, its call takes the     *)
(* annotated time.                                                         *)
Unseen == UNCHANGED <<nodeCount, missed, uses, inFlight, elapsed>>
Arrive == LET c == CurrentContext(stack')
          IN  IF isReachableState(c) THEN Visit(c, node') ELSE Unseen

Traverse(st, u, v) ==
  LET c == CurrentContext(st)
  IN  edgeCount' = IF isReachableState(c) THEN Incremented(edgeCount, <<c, u, v, n_(c, u) = 1, n_(c, v) = 0>>)
                   ELSE edgeCount

-----------------------------------------------------------------------------
Unanalysed == UNCHANGED <<program, caches, callVars, contextVars>>

Analyse ==
  /\ (BuildCallGraph /\ UNCHANGED contextVars) \/ Explore \/ initialise
  /\ UNCHANGED <<caches, runVars, ipetVars>>

Enter == Begin /\ Arrive /\ Unanalysed /\ UNCHANGED <<phase, edgeCount, externalCount>>

Step ==
  /\ \E v \in Successors(program.cfg[FunctionOn(stack)].edges, node) :
       Branch(v) /\ Traverse(stack, node, v)
  /\ Arrive /\ Unanalysed /\ UNCHANGED <<phase, externalCount>>

CallFunction ==
  LET f == GetCallee(FunctionOn(stack), node)
      c == CurrentContext(stack)
  IN  /\ Call /\ Unanalysed /\ UNCHANGED <<phase, edgeCount>>
      /\ IF isReachableState(c) /\ HasExternalWCET(f)
         THEN /\ externalCount' = Incremented(externalCount, getCalleeContext(c, node))
              /\ elapsed' = elapsed + program.wcet[f]
              /\ UNCHANGED <<nodeCount, missed, uses, inFlight>>
         ELSE Arrive /\ UNCHANGED externalCount

ReturnToCaller ==
  /\ stack # <<>>
  /\ \E v \in Successors(program.cfg[FunctionOn(Tail(stack))].edges, Head(stack)) :
       Return(v) /\ Traverse(Tail(stack), Head(stack), v)
  /\ Arrive /\ Unanalysed /\ UNCHANGED <<phase, externalCount>>

Stop ==
  /\ Running /\ AtReturn /\ stack = <<>>
  /\ phase' = "done"
  /\ Unanalysed /\ UNCHANGED <<runVars, ipetVars>>

Done == phase \in {"done", "rejected"} /\ UNCHANGED vars

IPETNext == Analyse \/ Enter \/ Step \/ CallFunction \/ ReturnToCaller \/ Stop \/ Done

Spec == IPETInit /\ [][IPETNext]_vars

-----------------------------------------------------------------------------
(* The linear program, its variables having the values of the execution *)

Nodes(f) == ToSet(program.cfg[f].nodes)
nf_(c, n) == Lesser(n_(c, n), 1)
efn_(c, e, first, targetFirst) == Count(edgeCount, <<c, e[1], e[2], first, targetFirst>>)
e_(c, edges) ==
  MapThenSumSet(LAMBDA x : efn_(c, x[1], x[2], x[3]), edges \X BOOLEAN \X BOOLEAN)
ex_(c) == Count(externalCount, c)

(* Dead to the analysis: never called, or only from annotated functions.   *)
isUnused(f) ==
  \/ isDeadCode(f)
  \/ f \notin Reachable({x \in Calling : ~ HasExternalWCET(x[1])}, {program.entry})
Used == {f \in Functions : ~ isUnused(f)}
Counted == {f \in Used : ~ HasExternalWCET(f)}

(* A node is executed as often as it is entered and as it is left.         *)
FlowConstraints(f, c) ==
  \A n \in Nodes(f) :
     LET into == {e \in program.cfg[f].edges : e[2] = n}
         from == {e \in program.cfg[f].edges : e[1] = n}
     IN  /\ into # {} => n_(c, n) = e_(c, into)
         /\ from # {} => n_(c, n) = e_(c, from)

(* In a pipeline, an edge has a first source once and a first target once. *)
EdgeConstraints(f, c) ==
  Pipelined => \A e \in program.cfg[f].edges :
    /\ efn_(c, e, TRUE, TRUE) + efn_(c, e, TRUE, FALSE) <= 1
    /\ efn_(c, e, TRUE, TRUE) + efn_(c, e, FALSE, TRUE) <= 1

GetAllNodesNotNested(g, l) ==
  {n \in l.nodes : ~ \E k \in Loops(g) \ {l} : n \in k.nodes /\ k.nodes \subseteq l.nodes}

(* Mutant of BBLoopMustBeConstrained: a node that leaves the loop too.     *)
BBLoopAlwaysConstrained(g, l, n) == n # l.head

BBLoopMustBeConstrained(g, l, n) ==
  n # l.head /\ (IsLatch(g, l, n) \/ ~ CanLeave(g, l, n))

LoopConstraints(f, c) ==
  LET g == program.cfg[f]
  IN  \A l \in Loops(g) :
        LET entries == {e \in g.edges : e[2] = l.head /\ e[1] \notin l.nodes}
            own == GetAllNodesNotNested(g, l)
        IN  \A n \in own :
              BBLoopMustBeConstrained(g, l, n) \/ own = {l.head}
                => n_(c, n) <= l.maxiter * e_(c, entries)

(* A function is executed as often as it is called, not at all below an    *)
(* annotated one.                                                          *)
CallConstraints(f, c) ==
  LET calls == n_(contexts[c].caller, contexts[c].node)
  IN  contexts[c].caller # None =>
        IF HasExternalWCET(f) THEN ex_(c) = calls
        ELSE n_(c, program.cfg[f].start) = (IF isReachableState(c) THEN calls ELSE 0)

EntryConstraint == n_(1, program.cfg[program.entry].start) = 1

(* The sum that the solver maximises.  In a pipeline, what a call and its  *)
(* return take more counts at the call node, what any other edge takes     *)
(* more at the edge.                                                       *)
PipelineTime(c, n) ==
  LET time(first) == computeBB(c, n, first)
        + (IF IsCall(getCurrentFunction(c), n)
           THEN computeCallDelta(c, n, first) + computeReturnDelta(c, n, first) ELSE 0)
  IN  Time(time(TRUE), time(FALSE))

EdgeCost(c) ==
  LET edges == {e \in Cfg(c).edges : ~ IsCall(getCurrentFunction(c), e[1])}
  IN  MapThenSumSet(LAMBDA x : efn_(c, x[1], x[2], x[3])
                                 * Delta(c, x[1][1], x[2], c, x[1][2], x[3]),
                    edges \X BOOLEAN \X BOOLEAN)

NodeCost(c, n) ==
  LET t == IF Pipelined THEN PipelineTime(c, n) ELSE NodeExecutionTime(c, n)
  IN  IF ~ Pipelined /\ caches.perfectIcache /\ caches.perfectDcache THEN n_(c, n) * t.first
      ELSE nf_(c, n) * t.first + (n_(c, n) - nf_(c, n)) * t.next

ExternalCost(f) ==
  MapThenSumSet(LAMBDA c : ex_(c) * program.wcet[f],
    {c \in ContextList(f) : /\ contexts[c].caller # None
                            /\ ~ HasExternalWCET(getCurrentFunction(contexts[c].caller))})

ContextualNodes == UNION {ContextList(f) \X Nodes(f) : f \in Counted}

Objective ==
  MapThenSumSet(LAMBDA cn : NodeCost(cn[1], cn[2]), ContextualNodes)
  + (IF Pipelined THEN MapThenSumSet(EdgeCost, UNION {ContextList(f) : f \in Counted}) ELSE 0)
  + MapThenSumSet(ExternalCost, {f \in Used : HasExternalWCET(f)})

-----------------------------------------------------------------------------
(* What an execution counts is as the graphs and the calls allow: the      *)
(* constraints but those of the loops.                                     *)
FlowHolds ==
  /\ EntryConstraint
  /\ \A f \in Counted : \A c \in ContextList(f) : FlowConstraints(f, c) /\ EdgeConstraints(f, c)
  /\ \A f \in Used : \A c \in ContextList(f) : CallConstraints(f, c)

(* What an execution within the annotated bounds counts is a solution of   *)
(* the linear program: no execution is excluded from the maximum.          *)
(* IPETAnalysis.cc                                                         *)
ConstraintsHold ==
  phase = "done" =>
    /\ FlowHolds
    /\ \A f \in Counted : \A c \in ContextList(f) : LoopConstraints(f, c)

(* A function is entered by calls and left by returns alone, the program   *)
(* is not annotated as a whole.                                            *)
EnteredByCalls(p) ==
  /\ p.entry \notin DOMAIN p.wcet
  /\ \A f \in DOMAIN p.cfg :
       /\ \A e \in p.cfg[f].edges : e[2] # p.cfg[f].start
       /\ \A e \in p.cfg[f].edges :
            e[1] \in p.cfg[f].ends => e[1] \in DOMAIN p.cfg[f].callee

(* The loops of every function are those of its graph, each with a bound,  *)
(* every cycle goes through the head of one, and none that tests before    *)
(* its body has nothing of its own but the test.                           *)
LoopsBounded(p) ==
  \A f \in DOMAIN p.cfg :
     LET g == p.cfg[f]
     IN  /\ Reducible(g.edges, g.start)
         /\ g.maxiter \in [LoopHeads(g.edges, g.start) -> Nat]
         /\ \A l \in Loops(g) : GetAllNodesNotNested(g, l) = {l.head} => Tests(g, l) = {}

(* The loads whose classifications the times of the nodes name in full:    *)
(* those that are all first misses at the first level are of one block,    *)
(* and a level has no more blocks than the one before.                     *)
LoadNamed(ins) ==
  /\ ins.data[1] = "FM" => ins.blocks[1] = 1
  /\ \A l \in 2 .. NbLevels : ins.blocks[l] <= ins.blocks[l - 1]
LoadsNamed(p) ==
  \A f \in DOMAIN p.cfg : \A n \in ToSet(p.cfg[f].nodes) :
     LET is == p.cfg[f].instructions[n]
     IN  \A i \in DOMAIN is : is[i].kind = "load" => LoadNamed(is[i])

(* No node with a load was executed more often than the product of the     *)
(* bounds of the loops around it, as the head of a while loop may be.      *)
LoadsWithinBounds ==
  ~ caches.perfectDcache =>
    \A y \in ContextualNodes :
       (\E i \in DOMAIN Instructions(y[1], y[2]) : Instructions(y[1], y[2])[i].kind = "load")
         => /\ ComputeNodeFrequencyBound(y[1], y[2]) \in Nat
            /\ n_(y[1], y[2]) <= ComputeNodeFrequencyBound(y[1], y[2])

(* The value the linear program gives an execution, whatever its caches    *)
(* answer within their classifications, is at least the time it takes;     *)
(* with ConstraintsHold, so is the WCET.  IPETAnalysis.cc                  *)
TimeBounded == phase = "done" => elapsed <= Objective

(* What the statistics print for the frequencies of an execution.          *)
PerformStatistics(type, l) ==
  LET counted == UNION {{cn} \X DOMAIN Instructions(cn[1], cn[2]) :
                          cn \in {x \in ContextualNodes : n_(x[1], x[2]) > 0}}
      instruction(x) == Instructions(x[1][1], x[1][2])[x[2]]
      frequency(x) == n_(x[1][1], x[1][2])
      referring == {x \in counted : type = "data" => instruction(x).kind = "load"}
  IN  [references |-> MapThenSumSet(LAMBDA x : getOccurrencesCount(
                        frequency(x), instruction(x), type, l), referring),
       misses |-> MapThenSumSet(LAMBDA x : MissesCount(
                        frequency(x), instruction(x), type, l), referring)]

(* The statistics of a cache count at least its references and its misses  *)
(* in the execution they are computed for.  CacheStatistics.cc             *)
StatisticsBound ==
  phase = "done" =>
    \A type \in {"code", "data"}, l \in 1 .. NbLevels :
       LET analysed == PerformStatistics(type, l)
       IN  ~ (IF type = "code" THEN caches.perfectIcache ELSE caches.perfectDcache) =>
             /\ uses[<<type, l>>].references <= analysed.references
             /\ uses[<<type, l>>].misses <= analysed.misses
=============================================================================
