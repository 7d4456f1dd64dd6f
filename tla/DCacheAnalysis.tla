--------------------------- MODULE DCacheAnalysis ---------------------------
(***************************************************************************)
(* The data cache analysis (DCacheAnalysis.cc), level after level,         *)
(* followed by any run of the program it analysed on the cache hierarchy.  *)
(*                                                                         *)
(* A program is the graph of its contextual nodes.  Every node has the     *)
(* sequence of its loads, a load the address ranges it may read: an        *)
(* execution of it reads one address of one of them.  Stores do not go     *)
(* through the caches.                                                     *)
(***************************************************************************)
EXTENDS Integers, Sequences, FiniteSetsExt, ControlFlow, TLC

CONSTANTS
  Programs,         \* the programs to analyse (see Program below)
  Address,          \* the addresses they read
  NbLevels,         \* cache levels
  nb_sets,          \* geometry of each level
  nb_ways,
  cacheline_size

(* The nodes and the edges of a program are finitely many.                 *)
ASSUME ProgramsAssumption ==
  \A p \in Programs :
     /\ IsFiniteSet(p.edges) /\ p.edges \subseteq (DOMAIN p.loads) \X (DOMAIN p.loads)
     /\ p.entry \in DOMAIN p.loads
     /\ p.loopsOuter \subseteq p.inLoop /\ p.inLoop \subseteq DOMAIN p.loads

Level == 1 .. NbLevels

Cache(l) == INSTANCE AbstractCache WITH nb_sets <- nb_sets[l],
                nb_ways <- nb_ways[l], cacheline_size <- cacheline_size[l]

VARIABLES
  prog,             \* the program analysed
  perfectDcache,    \* are the caches assumed to always hit?
  levelAnalysis,    \* the level under analysis; NbLevels + 1 when done
  phase,            \* the fixed point under way, or the next step
  half,             \* the half of its round to do next: "out" or "in"
  acs_in,           \* the abstract cache states of the nodes
  acs_out,
  work,             \* the contextual nodes to compute
  visited,
  cac,              \* cac[l][n][i]: does load i of node n access level l?
  chmc,             \* chmc[l][n][i]: its classification at level l
  blocks,           \* blocks[l][n][i]: how many lines it may read
  pc,               \* execution: a node and the index of its next load
  age,              \* execution: age[l], the cache of level l
  missed            \* execution: the <<l, n, i, line>> that missed already

acsVars == <<half, acs_in, acs_out, work, visited>>
classVars == <<cac, chmc, blocks>>
executionVars == <<pc, age, missed>>
vars == <<prog, perfectDcache, levelAnalysis, phase, acsVars, classVars, executionVars>>

Must(l) == INSTANCE MUST WITH Line <- Cache(l)!Line, nb_ways <- nb_ways[l],
                              nb_ways_removed <- 0
May(l) == INSTANCE MAY WITH Line <- Cache(l)!Line, nb_ways <- nb_ways[l]
Ps(l) == INSTANCE PS WITH Line <- Cache(l)!Line, nb_ways <- nb_ways[l],
                          nb_ways_removed <- 0
Lru(l) == INSTANCE LRU WITH Line <- Cache(l)!Line, Ways <- nb_ways[l],
                            SetOf <- LAMBDA a : Cache(l)!computeSet(a)

Program(entry, edges, loads) ==
  [entry |-> entry, edges |-> edges, loads |-> loads,
   backedges |-> BackEdges(edges, entry),
   loopsOuter |-> OuterHeads(edges, entry),
   inLoop |-> UNION {LoopOf(edges, entry, h) : h \in OuterHeads(edges, entry)}]

Node == DOMAIN prog.loads
Loads(n) == DOMAIN prog.loads[n]
OnLoads(class(_, _)) == [n \in Node |-> [i \in Loads(n) |-> class(n, i)]]

(* The addresses of the ranges <<first address, size>> of a load, and the  *)
(* lines of level l they are in.                                           *)
AddressesOf(load) == UNION {r[1] .. r[1] + r[2] - 1 : r \in load}
(* Mutant of getDataAddress: the first line of each range only.            *)
getFirstDataAddress(l, load) == {Cache(l)!computeStartLine(r[1]) : r \in load}

getDataAddress(l, load) == {Cache(l)!computeStartLine(a) : a \in AddressesOf(load)}

-----------------------------------------------------------------------------
(* The template methods, for analysis t at level l. *)

Factory(t, l) ==
  Cache(l)!EmptyCache(CASE t = "MUST" -> Must(l)!Empty
                        [] t = "MAY" -> May(l)!Empty
                        [] t = "PS" -> Ps(l)!Empty)

JoinSet(t, l, c, d) ==
  CASE t = "MUST" -> Must(l)!Join(c, d)
    [] t = "MAY" -> May(l)!Join(c, d)
    [] t = "PS" -> Ps(l)!Join(c, d)

UpdateSet(t, l, c, a) ==
  CASE t = "MUST" -> Must(l)!Update(c, a)
    [] t = "MAY" -> May(l)!Update(c, a)
    [] t = "PS" -> Ps(l)!Update(c, a)

UpdateUnpredictable(t, l, c, A) ==
  CASE t = "MUST" -> Must(l)!UpdateSet(c, A)
    [] t = "MAY" -> May(l)!UpdateSet(c, A)
    [] t = "PS" -> Ps(l)!UpdateSet(c, A)

AbsentSet(t, l, c, a) ==
  CASE t = "MUST" -> Must(l)!Absent(c, a)
    [] t = "MAY" -> May(l)!Absent(c, a)
    [] t = "PS" -> Ps(l)!Absent(c, a)

Present(t, l, c, line) ==
  ~ Cache(l)!AbsentLine(c, line, LAMBDA s, a : AbsentSet(t, l, s, a))
AllPresent(t, l, c, lines) == \A line \in lines : Present(t, l, c, line)
OnePresent(t, l, c, lines) == \E line \in lines : Present(t, l, c, line)

Join(t, l, c, d) == Cache(l)!JoinCaches(c, d, LAMBDA s, u : JoinSet(t, l, s, u))

Update(t, l, c, lines, access) ==
  Cache(l)!UpdateLines(c, lines, access, LAMBDA s, a : UpdateSet(t, l, s, a),
      LAMBDA s, A : UpdateUnpredictable(t, l, s, A), LAMBDA s, d : JoinSet(t, l, s, d))

-----------------------------------------------------------------------------
(* The fixed points *)

(* The ACS before each of the loads of a block, then after them all, from  *)
(* acs before the first: a load in skipped is not simulated.               *)
Simulated(t, l, acs, loads, access, skipped) ==
  LET before[i \in 1 .. Len(loads) + 1] ==
        IF i = 1 THEN acs
        ELSE IF i - 1 \in skipped THEN before[i - 1]
        ELSE Update(t, l, before[i - 1], getDataAddress(l, loads[i - 1]), access[i - 1])
  IN  before

(* The ACS of node n at the level under analysis.                          *)
Before(t, n, skipped) ==
  Simulated(t, levelAnalysis, acs_in[n], prog.loads[n], cac[levelAnalysis][n], skipped)

compute_ACS_out(t, n) == Before(t, n, {})[Len(prog.loads[n]) + 1]

(* First half of a round: the ACS_out of the nodes to compute; what they   *)
(* change reaches the successors along the edges the analysis follows.     *)
ACS_out(t, edges, force) ==
  LET out == [n \in work |-> compute_ACS_out(t, n)]
      changed == {n \in work : out[n] # acs_out[n] \/ (force /\ n \notin visited)}
  IN  /\ half = "out" /\ work # {}
      /\ acs_out' = [n \in DOMAIN acs_out |-> IF n \in work THEN out[n] ELSE acs_out[n]]
      /\ visited' = IF force THEN visited \cup work ELSE visited
      /\ work' = UNION {Successors(edges, n) : n \in changed}
      /\ half' = "in"
      /\ UNCHANGED acs_in

(* The ACS in acs of the nodes of preds, joined in some order.             *)
JoinOf(t, l, preds, acs) ==
  LET first == CHOOSE p \in preds : TRUE
  IN  FoldSet(LAMBDA p, c : Join(t, l, c, acs[p]), acs[first], preds \ {first})

JoinOfPredecessors(t, edges, n) ==
  LET preds == Predecessors(edges, n)
  IN  JoinOf(t, levelAnalysis, preds, [p \in preds |-> acs_out[p]])

(* Second half: the ACS_in of those successors. *)
ACS_in(t, edges, force) ==
  LET in == [n \in work |-> JoinOfPredecessors(t, edges, n)]
  IN  /\ half = "in"
      /\ acs_in' = [n \in DOMAIN acs_in |-> IF n \in work THEN in[n] ELSE acs_in[n]]
      /\ work' = {n \in work : in[n] # acs_in[n] \/ (force /\ n \notin visited)}
      /\ half' = "out"
      /\ UNCHANGED <<acs_out, visited>>

Round(t, edges, force) ==
  /\ ACS_out(t, edges, force) \/ ACS_in(t, edges, force)
  /\ UNCHANGED <<prog, perfectDcache, levelAnalysis, phase, classVars, executionVars>>

(* A round ended with no node left to compute. *)
Stable == half = "out" /\ work = {}

(* Every node of the analysis has the ACS of the factory.                  *)
Start(t, nodes, first) ==
  /\ acs_in' = [n \in nodes |-> Factory(t, levelAnalysis)] /\ acs_out' = acs_in'
  /\ half' = "out" /\ work' = first /\ visited' = {}
  /\ UNCHANGED <<prog, perfectDcache, levelAnalysis, classVars, executionVars>>

initACSMUST ==
  phase = "MUST" /\ phase' = "FixPointMust1stStep" /\ Start("MUST", Node, {prog.entry})

(* Without the back edges. *)
FixPointMust1stStep ==
  phase = "FixPointMust1stStep" /\ Round("MUST", prog.edges \ prog.backedges, FALSE)

(* The analysis goes on from the ACS of its first step. *)
EndFixPointMust1stStep ==
  /\ phase = "FixPointMust1stStep" /\ Stable
  /\ phase' = "MustAnalysis" /\ work' = {prog.entry}
  /\ UNCHANGED <<prog, perfectDcache, levelAnalysis, half, acs_in, acs_out, visited,
                 classVars, executionVars>>

(* Mutant of MustAnalysis: a node is not visited unless something changed. *)
MustAnalysisUnforced == phase = "MustAnalysis" /\ Round("MUST", prog.edges, FALSE)

MustAnalysis == phase = "MustAnalysis" /\ Round("MUST", prog.edges, TRUE)

(* Only the nodes of the loops have an ACS. *)
initACSPS ==
  phase = "PS" /\ phase' = "PSAnalysis" /\ Start("PS", prog.inLoop, prog.loopsOuter)

PSAnalysis ==
  phase = "PSAnalysis"
  /\ Round("PS", prog.edges \cap (prog.inLoop \X prog.inLoop), TRUE)

initACSMAY ==
  phase = "MAY" /\ phase' = "MayAnalysis" /\ Start("MAY", Node, {prog.entry})

MayAnalysis == phase = "MayAnalysis" /\ Round("MAY", prog.edges, TRUE)

-----------------------------------------------------------------------------
(* The classifications *)

Accessed(n, i) == cac[levelAnalysis][n][i] # "N"
Lines(n, i) == getDataAddress(levelAnalysis, prog.loads[n][i])
Classified(n) == {i \in Loads(n) : chmc[levelAnalysis][n][i] # "none"}

(* The end of an analysis, whose ACS are removed. *)
Classify(class(_, _), next) ==
  /\ Stable
  /\ chmc' = [chmc EXCEPT ![levelAnalysis] = OnLoads(class)]
  /\ phase' = next
  /\ acs_in' = <<>> /\ acs_out' = <<>> /\ visited' = {}
  /\ UNCHANGED <<prog, perfectDcache, levelAnalysis, half, work, cac, blocks, executionVars>>

(* Every load is simulated for the next one. *)
ClassifCHMCMust ==
  /\ phase = "MustAnalysis"
  /\ Classify(LAMBDA n, i :
       IF ~ Accessed(n, i) THEN "AU"
       ELSE IF AllPresent("MUST", levelAnalysis, Before("MUST", n, {})[i], Lines(n, i)) THEN "AH"
       ELSE "none", "PS")

(* Mutant of ClassifCHMCPS: one persistent line is enough. *)
ClassifCHMCPSOne ==
  /\ phase = "PSAnalysis"
  /\ Classify(LAMBDA n, i :
       IF i \in Classified(n) \/ n \notin prog.inLoop THEN chmc[levelAnalysis][n][i]
       ELSE IF OnePresent("PS", levelAnalysis, Before("PS", n, Classified(n))[i], Lines(n, i)) THEN "FM"
       ELSE "none", "MAY")

(* The loads MUST classified are not simulated. *)
ClassifCHMCPS ==
  /\ phase = "PSAnalysis"
  /\ Classify(LAMBDA n, i :
       IF i \in Classified(n) \/ n \notin prog.inLoop THEN chmc[levelAnalysis][n][i]
       ELSE IF AllPresent("PS", levelAnalysis, Before("PS", n, Classified(n))[i], Lines(n, i)) THEN "FM"
       ELSE "none", "MAY")

(* Nor are those MUST and PS classified. *)
ClassifCHMCMay ==
  /\ phase = "MayAnalysis"
  /\ Classify(LAMBDA n, i :
       IF i \in Classified(n) THEN chmc[levelAnalysis][n][i]
       ELSE IF ~ OnePresent("MAY", levelAnalysis, Before("MAY", n, Classified(n))[i], Lines(n, i)) THEN "AM"
       ELSE "none", "end")

(* The map cac_computation: the access to the next level. *)
cac_computation(class, access) ==
  CASE class = "AM" -> access
    [] class \in {"AH", "AU"} -> "N"
    [] class = "FM" -> "UN"
    [] class = "NC" -> IF access = "UN" THEN "UN" ELSE "U"

(* The rest of PerformAnalysis: the loads not classified, the numbers of   *)
(* lines, the accesses to the next level.                                  *)
EndLevel ==
  LET l == levelAnalysis
      rest == IF perfectDcache THEN "AH" ELSE "NC"
      final == OnLoads(LAMBDA n, i : IF i \in Classified(n) THEN chmc[l][n][i] ELSE rest)
  IN  /\ phase = "end"
      /\ chmc' = [chmc EXCEPT ![l] = final]
      /\ blocks' = [blocks EXCEPT ![l] = OnLoads(LAMBDA n, i : Cardinality(Lines(n, i)))]
      /\ cac' = IF l = NbLevels THEN cac
                ELSE [cac EXCEPT ![l + 1] =
                        OnLoads(LAMBDA n, i : cac_computation(final[n][i], cac[l][n][i]))]
      /\ levelAnalysis' = l + 1
      /\ phase' = IF l = NbLevels THEN "execution" ELSE IF perfectDcache THEN "end" ELSE "MUST"
      /\ UNCHANGED <<prog, perfectDcache, acsVars, executionVars>>

-----------------------------------------------------------------------------
(* The execution of the analysed program: level l + 1 is accessed when     *)
(* level l misses.  There is nothing to compare perfect caches with.       *)

Executing == phase = "execution" /\ ~ perfectDcache
Loading == Executing /\ pc[2] \in Loads(pc[1])

LineOf(l, a) == Cache(l)!computeStartLine(a)
Hit(l, a) == Lru(l)!Cached(age[l], LineOf(l, a))
Reached(l, a) == \A k \in 1 .. l - 1 : ~ Hit(k, a)

Load ==
  /\ Loading
  /\ \E a \in AddressesOf(prog.loads[pc[1]][pc[2]]) :
       /\ age' = [l \in Level |-> IF Reached(l, a) THEN Lru(l)!Access(age[l], LineOf(l, a))
                                                   ELSE age[l]]
       /\ missed' = missed \cup {<<l, pc[1], pc[2], LineOf(l, a)>> :
                                   l \in {k \in Level : Reached(k, a) /\ ~ Hit(k, a)}}
  /\ pc' = <<pc[1], pc[2] + 1>>
  /\ UNCHANGED <<prog, perfectDcache, levelAnalysis, phase, acsVars, classVars>>

Branch ==
  /\ Executing /\ pc[2] > Len(prog.loads[pc[1]])
  /\ \E n \in Successors(prog.edges, pc[1]) : pc' = <<n, 1>>
  /\ UNCHANGED <<prog, perfectDcache, levelAnalysis, phase, acsVars, classVars, age, missed>>

-----------------------------------------------------------------------------
(* initL1AccessAttributeForData: L1 is always accessed. *)
Init ==
  /\ prog \in Programs /\ perfectDcache \in BOOLEAN
  /\ levelAnalysis = 1
  /\ phase = IF perfectDcache THEN "end" ELSE "MUST"
  /\ half = "out" /\ acs_in = <<>> /\ acs_out = <<>> /\ work = {} /\ visited = {}
  /\ chmc = [l \in Level |-> OnLoads(LAMBDA n, i : "none")]
  /\ cac = [chmc EXCEPT ![1] = OnLoads(LAMBDA n, i : "A")]
  /\ blocks = [l \in Level |-> OnLoads(LAMBDA n, i : 0)]
  /\ pc = <<prog.entry, 1>>
  /\ age = [l \in Level |-> Lru(l)!Cold]
  /\ missed = {}

PerformAnalysis ==
  \/ initACSMUST \/ FixPointMust1stStep \/ EndFixPointMust1stStep \/ MustAnalysis
  \/ ClassifCHMCMust
  \/ initACSPS \/ PSAnalysis \/ ClassifCHMCPS
  \/ initACSMAY \/ MayAnalysis \/ ClassifCHMCMay
  \/ EndLevel

Next == PerformAnalysis \/ Load \/ Branch

Spec == Init /\ [][Next]_vars

-----------------------------------------------------------------------------
(* Whatever address of its ranges a load reads, a level it is said to      *)
(* reach always ("A") or never ("N") is reached so; there it hits when it  *)
(* is classified always-hit and misses when it is classified always-miss.  *)
(* DCacheAnalysis.cc                                                       *)
LoadsClassified ==
  Loading => \A a \in AddressesOf(prog.loads[pc[1]][pc[2]]), l \in Level :
    LET class == chmc[l][pc[1]][pc[2]]
        access == cac[l][pc[1]][pc[2]]
    IN  /\ access = "A" => Reached(l, a)
        /\ access = "N" => ~ Reached(l, a)
        /\ Reached(l, a) => (class = "AH" => Hit(l, a)) /\ (class = "AM" => ~ Hit(l, a))

(* A load classified first-miss misses at most as often as it has memory   *)
(* blocks: what the WCET charges it for.  DCacheAnalysis.cc                *)
BlocksMissOnce ==
  Loading =>
    /\ \A a \in AddressesOf(prog.loads[pc[1]][pc[2]]), l \in Level :
         /\ chmc[l][pc[1]][pc[2]] = "FM" /\ Reached(l, a)
         /\ <<l, pc[1], pc[2], LineOf(l, a)>> \in missed
         => Hit(l, a)
    /\ \A l \in Level : Cardinality({m \in missed : m[1] = l /\ m[2] = pc[1] /\ m[3] = pc[2]})
                          <= blocks[l][pc[1]][pc[2]]

(* When an analysis ends, its ACS are a fixed point on every node it       *)
(* reaches along the edges it follows, whatever the order of the rounds,   *)
(* the persistence analysis of the next levels included, where some loads  *)
(* are known not to access the level.  DCacheAnalysis.cc                   *)
Solves(t, edges, starts) ==
  LET nodes == Reachable(edges, starts)
  IN  \A n \in nodes :
         /\ acs_out[n] = compute_ACS_out(t, n)
         /\ Predecessors(edges, n) \cap nodes # {} =>
               acs_in[n] = JoinOfPredecessors(t, edges, n)
FixedPoint ==
  Stable =>
    /\ phase = "MustAnalysis" => Solves("MUST", prog.edges, {prog.entry})
    /\ phase = "PSAnalysis" =>
         Solves("PS", prog.edges \cap (prog.inLoop \X prog.inLoop), prog.loopsOuter)
    /\ phase = "MayAnalysis" => Solves("MAY", prog.edges, {prog.entry})
=============================================================================
