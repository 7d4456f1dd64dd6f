--------------------------- MODULE ICacheAnalysis ---------------------------
(***************************************************************************)
(* The instruction cache analysis of one cache level (ICacheAnalysis.cc),  *)
(* followed by any run of the program it analysed on that cache.           *)
(*                                                                         *)
(* A program is the graph of its contextual nodes, a node standing for a   *)
(* pair of a context and a basic block.  Every node has the sequence of    *)
(* the addresses its instructions are fetched from, and "access" tells for *)
(* each of them whether it accesses this level: always at level 1, as the  *)
(* analysis of the level before found at the next ones.  What this level   *)
(* tells the next one is sound when what it was told is, so the analyses   *)
(* of a hierarchy are as many instances of this module.                    *)
(***************************************************************************)
EXTENDS Caches, ControlFlow, SequencesExt

CONSTANTS
  Programs,         \* the programs to analyse (see Program below)
  Options           \* the sets of analyses a configuration may ask for

Analysis == {"MUST", "PS", "MAY"}

ASSUME OptionsAssumption == Options \subseteq SUBSET Analysis

(* Nothing jumps to the first node of a program, which fetches at least    *)
(* its first instruction from this level; the instructions of a node are   *)
(* consecutive.                                                            *)
ASSUME ProgramsAssumption ==
  \A p \in Programs :
     /\ IsFiniteSet(DOMAIN p.code) /\ p.entry \in DOMAIN p.code
     /\ p.edges \subseteq (DOMAIN p.code) \X ((DOMAIN p.code) \ {p.entry})
     /\ p.inLoop \subseteq DOMAIN p.code /\ p.heads \subseteq p.inLoop
     /\ \A n \in DOMAIN p.code :
          /\ p.code[n] \in Seq(Address) /\ p.code[n] # <<>>
          /\ \A i, j \in DOMAIN p.code[n] : i < j => p.code[n][i] <= p.code[n][j]
          /\ p.access[n] \in [DOMAIN p.code[n] -> CAC]
     /\ p.access[p.entry][1] \in {"A", "U"}

VARIABLES
  prog,       \* the program analysed
  todo,       \* the analyses still to perform
  phase,      \* the fixed point under way, "idle" or "done"
  half,       \* the half of its round to do next: "ACS_out" or "ACS_in"
  acs_in,     \* the abstract cache states of the nodes
  acs_out,
  work,       \* the contextual nodes to compute
  visited,
  chmc,       \* chmc[n][i]: the classification of instruction i of node n
  next,       \* next[n][i]: does it access the next level?
  pc,         \* execution: a node and the index of the next instruction
  age,        \* execution: the cache
  missed      \* execution: the <<n, i>> that missed already

fixPointVars == <<half, acs_in, acs_out, work, visited>>
executionVars == <<pc, age, missed>>
vars == <<prog, todo, phase, fixPointVars, chmc, next, executionVars>>

(* A program with its back edges and its outermost loops. *)
Program(entry, edges, code, access) ==
  [entry |-> entry, edges |-> edges, code |-> code, access |-> access,
   backedges |-> BackEdges(edges, entry),
   heads |-> OuterHeads(edges, entry),
   inLoop |-> UNION {LoopOf(edges, entry, h) : h \in OuterHeads(edges, entry)}]

Node == DOMAIN prog.code
Accesses(n) == DOMAIN prog.code[n]
cac(n, i) == prog.access[n][i]
-----------------------------------------------------------------------------
(* The template methods, for analysis t. *)

EmptyACS(t) ==
  EmptyCache(CASE t = "MUST" -> Must!Empty
               [] t = "MAY" -> May!Empty
               [] t = "PS" -> Ps!Empty)

Join(t, c, d) ==
  CASE t = "MUST" -> JoinCaches(c, d, Must!Join)
    [] t = "MAY" -> JoinCaches(c, d, May!Join)
    [] t = "PS" -> JoinCaches(c, d, Ps!Join)

Update(t, c, addr, access) ==
  CASE t = "MUST" -> UpdateLine(c, addr, access, Must!Update, Must!Join)
    [] t = "MAY" -> UpdateLine(c, addr, access, May!Update, May!Join)
    [] t = "PS" -> UpdateLine(c, addr, access, Ps!Update, Ps!Join)

Absent(t, c, addr) ==
  CASE t = "MUST" -> AbsentLine(c, addr, Must!Absent)
    [] t = "MAY" -> AbsentLine(c, addr, May!Absent)
    [] t = "PS" -> AbsentLine(c, addr, Ps!Absent)
-----------------------------------------------------------------------------
(* The fixed points. *)

(* The ACS after each of the accesses of a block, from acs before them;    *)
(* the accesses in skipped are not simulated.                              *)
Simulated(t, acs, code, access, skipped) ==
  LET after[i \in 0 .. Len(code)] ==
        IF i = 0 THEN acs
        ELSE IF i \in skipped THEN after[i - 1]
        ELSE Update(t, after[i - 1], code[i], access[i])
  IN  after

(* The ACS of node n after its accesses, from its ACS_in. *)
compute_ACS_out(t, n) ==
  Simulated(t, acs_in[n], prog.code[n], prog.access[n], {})[Len(prog.code[n])]

(* Mutant of ComputeOut: the visits are not recorded. *)
ComputeOutUnrecorded(t, edges, visitAll) ==
  LET out == [n \in work |-> compute_ACS_out(t, n)]
      changed == {n \in work : out[n] # acs_out[n] \/ visitAll}
  IN  /\ half = "ACS_out" /\ work # {}
      /\ acs_out' = [n \in DOMAIN acs_out |-> IF n \in work THEN out[n]
                                                            ELSE acs_out[n]]
      /\ work' = UNION {Successors(edges, n) : n \in changed}
      /\ half' = "ACS_in"
      /\ UNCHANGED <<acs_in, visited>>

(* First half of a round: the ACS_out of the nodes to compute; what they   *)
(* change reaches the successors along the edges the analysis follows.     *)
ComputeOut(t, edges, visitAll) ==
  LET out == [n \in work |-> compute_ACS_out(t, n)]
      changed == {n \in work : \/ out[n] # acs_out[n]
                               \/ visitAll /\ n \notin visited}
  IN  /\ half = "ACS_out" /\ work # {}
      /\ acs_out' = [n \in DOMAIN acs_out |-> IF n \in work THEN out[n]
                                                            ELSE acs_out[n]]
      /\ visited' = IF visitAll THEN visited \cup work ELSE visited
      /\ work' = UNION {Successors(edges, n) : n \in changed}
      /\ half' = "ACS_in"
      /\ UNCHANGED acs_in

(* The ACS in acs of the nodes of preds, joined one after the other. *)
JoinOf(t, preds, acs) ==
  LET joined[i \in 1 .. Len(preds)] ==
        IF i = 1 THEN acs[preds[1]] ELSE Join(t, joined[i - 1], acs[preds[i]])
  IN  joined[Len(preds)]

(* Mutant of JoinOfPredecessors: the join is left out. *)
JoinOfFirst(t, edges, n) == acs_out[CHOOSE p \in Predecessors(edges, n) : TRUE]

JoinOfPredecessors(t, edges, n) ==
  LET preds == Predecessors(edges, n)
  IN  JoinOf(t, SetToSeq(preds), [p \in preds |-> acs_out[p]])

(* Second half: the ACS_in of those successors. *)
ComputeIn(t, edges, visitAll) ==
  LET in == [n \in work |-> JoinOfPredecessors(t, edges, n)]
  IN  /\ half = "ACS_in"
      /\ acs_in' = [n \in DOMAIN acs_in |-> IF n \in work THEN in[n]
                                                          ELSE acs_in[n]]
      /\ work' = {n \in work : in[n] # acs_in[n] \/ (visitAll /\ n \notin visited)}
      /\ half' = "ACS_out"
      /\ UNCHANGED <<acs_out, visited>>

(* A round ended with no node left to compute. *)
Stable == half = "ACS_out" /\ work = {}

(* The edges along which each fixed point propagates: the first step of    *)
(* MUST ignores the back edges, PS only looks at the nodes of the loops.   *)
Followed(fixPoint) ==
  CASE fixPoint = "FixPointMust1stStep" -> prog.edges \ prog.backedges
    [] fixPoint = "PS" -> prog.edges \cap (prog.inLoop \X prog.inLoop)
    [] OTHER -> prog.edges

Round(fixPoint, t, visitAll) ==
  /\ phase = fixPoint
  /\ ComputeOut(t, Followed(fixPoint), visitAll) \/ ComputeIn(t, Followed(fixPoint), visitAll)
  /\ UNCHANGED <<prog, todo, phase, chmc, next, executionVars>>

FixPointMust1stStep == Round("FixPointMust1stStep", "MUST", FALSE)

(* Mutant of MustAnalysis: a node is not visited unless something changed. *)
MustAnalysisUnforced == Round("MUST", "MUST", FALSE)

(* Every node is visited at least once. *)
MustAnalysis == Round("MUST", "MUST", TRUE)

PSAnalysis == Round("PS", "PS", FALSE)

MayAnalysis == Round("MAY", "MAY", FALSE)

(* The nodes an analysis starts from. *)
Starts(t) == IF t = "PS" THEN prog.heads ELSE {prog.entry}

(* The analyses are performed in this order. *)
Earlier(t) ==
  CASE t = "MUST" -> {}
    [] t = "PS" -> {"MUST"}
    [] t = "MAY" -> {"MUST", "PS"}

(* initACSMUST, initACSPS, initACSMAY and the first work list. *)
StartAnalysis ==
  \E t \in todo :
     /\ phase = "idle" /\ Earlier(t) \cap todo = {}
     /\ todo' = todo \ {t}
     /\ phase' = IF t = "MUST" THEN "FixPointMust1stStep" ELSE t
     /\ half' = "ACS_out"
     /\ acs_in' = [n \in IF t = "PS" THEN prog.inLoop ELSE Node |-> EmptyACS(t)]
     /\ acs_out' = acs_in'
     /\ work' = Starts(t)
     /\ visited' = {}
     /\ UNCHANGED <<prog, chmc, next, executionVars>>

(* MustAnalysis goes on from the ACS of its first step. *)
EndFixPointMust1stStep ==
  /\ phase = "FixPointMust1stStep" /\ Stable
  /\ phase' = "MUST"
  /\ work' = {prog.entry}
  /\ UNCHANGED <<prog, todo, half, acs_in, acs_out, visited, chmc, next, executionVars>>
-----------------------------------------------------------------------------
(* The classifications. *)

Verdict(t, present) ==
  CASE t = "MUST" /\ present -> "AH"
    [] t = "PS" /\ present -> "FM"
    [] t = "MAY" /\ ~ present -> "AM"
    [] OTHER -> "none"

Classified(n) == {i \in Accesses(n) : chmc[n][i] # "none"}

(* ClassifCHMCMust, ClassifCHMCPS, ClassifCHMCMay: the accesses of a node  *)
(* in order, each simulated for the next; those an earlier analysis        *)
(* classified are neither classified nor simulated.                        *)
ClassifyNode(t, n) ==
  LET after == Simulated(t, acs_in[n], prog.code[n], prog.access[n], Classified(n))
  IN  [i \in Accesses(n) |->
         IF i \in Classified(n) THEN chmc[n][i]
         ELSE IF cac(n, i) = "N" THEN "AU"
         ELSE Verdict(t, ~ Absent(t, after[i - 1], prog.code[n][i]))]

(* The end of an analysis; its ACS are removed. *)
Classify ==
  /\ phase \in Analysis /\ Stable
  /\ chmc' = [n \in Node |-> IF n \in DOMAIN acs_in THEN ClassifyNode(phase, n)
                                                    ELSE chmc[n]]
  /\ phase' = "idle"
  /\ acs_in' = <<>> /\ acs_out' = <<>> /\ visited' = {}
  /\ UNCHANGED <<prog, todo, half, work, next, executionVars>>

(* Mutant of cac_computation: an unclassified access goes through. *)
cac_computationCertain(class, access) ==
  CASE class \in {"AM", "NC"} -> access
    [] class \in {"AH", "AU"} -> "N"
    [] class = "FM" -> "UN"

(* The map cac_computation: the access to the next level. *)
cac_computation(class, access) ==
  CASE class = "AM" -> access
    [] class \in {"AH", "AU"} -> "N"
    [] class = "FM" -> "UN"
    [] class = "NC" -> IF access = "UN" THEN "UN" ELSE "U"

(* ClassifCHMCNC and ClassifCACNext: the end of the analysis. *)
EndAnalysis ==
  LET final == [n \in Node |-> [i \in Accesses(n) |->
                  IF chmc[n][i] = "none" THEN "NC" ELSE chmc[n][i]]]
  IN  /\ phase = "idle" /\ todo = {}
      /\ chmc' = final
      /\ next' = [n \in Node |-> [i \in Accesses(n) |->
                    cac_computation(final[n][i], cac(n, i))]]
      /\ phase' = "done"
      /\ UNCHANGED <<prog, todo, fixPointVars, executionVars>>
-----------------------------------------------------------------------------
(* The execution of the analysed program.  Whether an access reaches this  *)
(* level is up to the level before, as long as "access" is right.          *)

Reaching(access) ==
  CASE access = "A" -> {TRUE}
    [] access = "N" -> {FALSE}
    [] OTHER -> BOOLEAN

Running == phase = "done" /\ pc[2] \in Accesses(pc[1])

LineAt(n, i) == computeStartLine(prog.code[n][i])
Hit == Lru!Cached(age, LineAt(pc[1], pc[2]))

Fetch ==
  /\ Running
  /\ \E reached \in Reaching(cac(pc[1], pc[2])) :
       /\ age' = IF reached THEN Lru!Access(age, LineAt(pc[1], pc[2])) ELSE age
       /\ missed' = IF reached /\ ~ Hit THEN missed \cup {pc} ELSE missed
  /\ pc' = <<pc[1], pc[2] + 1>>
  /\ UNCHANGED <<prog, todo, phase, fixPointVars, chmc, next>>

Branch ==
  /\ phase = "done" /\ pc[2] > Len(prog.code[pc[1]])
  /\ \E n \in Successors(prog.edges, pc[1]) : pc' = <<n, 1>>
  /\ UNCHANGED <<prog, todo, phase, fixPointVars, chmc, next, age, missed>>
-----------------------------------------------------------------------------
Init ==
  /\ prog \in Programs
  /\ todo \in Options
  /\ phase = "idle" /\ half = "ACS_out"
  /\ acs_in = <<>> /\ acs_out = <<>> /\ work = {} /\ visited = {}
  /\ chmc = [n \in Node |-> [i \in Accesses(n) |-> "none"]]
  /\ next = <<>>
  /\ pc = <<prog.entry, 1>>
  /\ age = Lru!Cold
  /\ missed = {}

Analyse ==
  \/ StartAnalysis
  \/ FixPointMust1stStep \/ EndFixPointMust1stStep
  \/ MustAnalysis \/ PSAnalysis \/ MayAnalysis
  \/ Classify
  \/ EndAnalysis

Next == Analyse \/ Fetch \/ Branch

Spec == Init /\ [][Next]_vars /\ WF_vars(Analyse)
-----------------------------------------------------------------------------
Class == chmc[pc[1]][pc[2]]

(* Whatever path the program takes, an access classified "always hit" hits *)
(* whenever it reaches this level, and one classified "always miss"        *)
(* misses: otherwise the computed time is no bound, and the next level is  *)
(* analysed with wrong accesses.  ICacheAnalysis.cc                        *)
VerdictsHold ==
  Running /\ TRUE \in Reaching(cac(pc[1], pc[2])) =>
    /\ Class = "AH" => Hit
    /\ Class = "AM" => ~ Hit

(* An access classified "first miss" that missed once always hits.         *)
(* ICacheAnalysis.cc                                                       *)
FirstMissHitsLater == Running /\ Class = "FM" /\ pc \in missed => Hit

(* When this is so.  The loops hold all that is executed between two       *)
(* executions of one of their nodes, and are entered at their heads;       *)
LoopsClosed(p) ==
  /\ p.inLoop \subseteq Reachable(p.edges \cap (p.inLoop \X p.inLoop), p.heads)
  /\ \A m \in p.inLoop : \A n \in Reachable(p.edges, {m}) :
       m \in Reachable(p.edges, {n}) => n \in p.inLoop

(* the outermost heads access the level, for the persistence analysis      *)
(* starts there and stops at a state that does not change;                 *)
HeadsAccess(p) == \A n \in p.heads : \E i \in DOMAIN p.code[n] : p.access[n][i] # "N"

(* a line whose always-hit access the classification does not simulate was *)
(* simulated before, at an earlier access of the node to the line.         *)
Simulates(n, k) ==
  \E j \in Accesses(n) :
     /\ j < k /\ LineAt(n, j) = LineAt(n, k)
     /\ cac(n, j) # "N" /\ chmc[n][j] # "AH"
SimulatedUpTo(n, i) ==
  \A k \in Accesses(n) : k < i /\ chmc[n][k] = "AH" => Simulates(n, k)
HitsSimulated ==
  \A n \in Node : \A i \in Accesses(n) : chmc[n][i] = "FM" => SimulatedUpTo(n, i)

(* The accesses the next level is told of are those it gets, always for    *)
(* "A", never for "N", and the program's first is one of them: what every  *)
(* level takes for granted.  ICacheAnalysis.cc                             *)
AccessClassificationSound ==
  Running =>
    /\ \A reached \in Reaching(cac(pc[1], pc[2])) :
          (reached /\ ~ Hit) \in Reaching(next[pc[1]][pc[2]])
    /\ next[prog.entry][1] \in {"A", "U"}

(* The ACS satisfy the equations of a fixed point: the ACS_in of a node is *)
(* the join of the ACS_out before it, its ACS_out what it makes of it.     *)
Equations(t, nodes) ==
  \A n \in nodes :
     /\ acs_out[n] = compute_ACS_out(t, n)
     /\ Predecessors(Followed(t), n) # {} =>
           acs_in[n] = JoinOfPredecessors(t, Followed(t), n)

(* When the work list of an analysis runs empty, its ACS are a fixed point *)
(* on all the nodes, whatever the order of the rounds left unvisited: the  *)
(* classification reads no ACS that a later round would have lowered.  The *)
(* persistence analysis needs accesses to this level in the heads of the   *)
(* loops: it starts there, and a head without an access changes nothing,   *)
(* so that the loop keeps the initial ACS.  ICacheAnalysis.cc              *)
FixedPoint ==
  /\ phase \in {"MUST", "MAY"} \/ (phase = "PS" /\ HeadsAccess(prog))
  /\ Stable
  => Equations(phase, Reachable(Followed(phase), Starts(phase)))

(* The work lists run empty: the analysis ends. *)
Termination == <>(phase = "done")
=============================================================================
