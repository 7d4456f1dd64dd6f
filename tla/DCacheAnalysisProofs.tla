------------------------ MODULE DCacheAnalysisProofs ------------------------
(***************************************************************************)
(* The abstract cache states of the data cache analysis are a fixed point  *)
(* when a work list runs empty, at every level and for every program.  The *)
(* nodes visited are closed under the edges up to the work list; they      *)
(* satisfy their equations up to the work list too.                        *)
(***************************************************************************)
EXTENDS DCacheAnalysis, Lemmas

(* The fixed points that visit every node they reach.                      *)
Forced == {"MustAnalysis", "PSAnalysis", "MayAnalysis"}

(* The analysis of a fixed point, the nodes it looks at, the edges it      *)
(* follows and the nodes it starts from.                                   *)
AnalysisOf(p) ==
  CASE p = "PSAnalysis" -> "PS"
    [] p = "MayAnalysis" -> "MAY"
    [] OTHER -> "MUST"
Nodes(p) == IF p = "PSAnalysis" THEN prog.inLoop ELSE Node
Followed(p) ==
  IF p = "PSAnalysis" THEN prog.edges \cap (prog.inLoop \X prog.inLoop) ELSE prog.edges
Starts(p) == IF p = "PSAnalysis" THEN prog.loopsOuter ELSE {prog.entry}

TypeInv ==
  /\ prog \in Programs
  /\ half \in {"out", "in"}
  /\ phase \in Forced \cup {"FixPointMust1stStep"} =>
        /\ DOMAIN acs_in = Nodes(phase) /\ DOMAIN acs_out = Nodes(phase)
        /\ work \subseteq Nodes(phase) /\ visited \subseteq Nodes(phase)
  /\ phase = "FixPointMust1stStep" => visited = {}

(* The equations of a node: the second once a node before it was visited.  *)
Solved(p, n) == acs_out[n] = compute_ACS_out(AnalysisOf(p), n)
Joined(p, n) ==
  Predecessors(Followed(p), n) \cap visited # {} =>
    acs_in[n] = JoinOfPredecessors(AnalysisOf(p), Followed(p), n)

RoundInv(p) ==
  /\ \A e \in Followed(p) : e[1] \in visited => e[2] \in visited \cup work
  /\ half = "out" =>
        /\ Starts(p) \subseteq visited \cup work
        /\ \A n \in visited \ work : Solved(p, n)
        /\ \A n \in Nodes(p) : Joined(p, n)
  /\ half = "in" =>
        /\ Starts(p) \subseteq visited
        /\ \A n \in visited : Solved(p, n)
        /\ \A n \in Nodes(p) \ work : Joined(p, n)

FixInv == phase \in Forced => RoundInv(phase)

LEMMA FollowedFacts ==
  ASSUME prog \in Programs, NEW p
  PROVE  /\ IsFiniteSet(Followed(p)) /\ Followed(p) \subseteq Nodes(p) \X Nodes(p)
         /\ Starts(p) \subseteq Nodes(p)
<1>1. /\ IsFiniteSet(prog.edges) /\ prog.edges \subseteq Node \X Node
      /\ prog.entry \in Node /\ prog.loopsOuter \subseteq prog.inLoop
      /\ prog.inLoop \subseteq Node
  BY ProgramsAssumption DEF Node
<1>2. IsFiniteSet(Followed(p))
  BY <1>1, FS_Subset DEF Followed
<1>3. QED
  BY <1>1, <1>2 DEF Followed, Nodes, Starts

-----------------------------------------------------------------------------
(* What each half of a round does to the types and to the equations.       *)

LEMMA OutTypes ==
  ASSUME TypeInv, phase \in Forced \cup {"FixPointMust1stStep"}, NEW t, NEW edges,
         edges \subseteq Nodes(phase) \X Nodes(phase), NEW force \in BOOLEAN,
         ACS_out(t, edges, force), prog' = prog, phase' = phase
  PROVE  /\ half' = "in" /\ DOMAIN acs_in' = Nodes(phase) /\ DOMAIN acs_out' = Nodes(phase)
         /\ work' \subseteq Nodes(phase) /\ visited' \subseteq Nodes(phase)
         /\ ~ force => visited' = visited
<1>1. /\ DOMAIN acs_out = Nodes(phase) /\ DOMAIN acs_in = Nodes(phase)
      /\ work \subseteq Nodes(phase) /\ visited \subseteq Nodes(phase)
  BY DEF TypeInv
<1>2. DOMAIN acs_out' = Nodes(phase)
  BY <1>1 DEF ACS_out
<1>3. PICK changed : work' = UNION {Successors(edges, n) : n \in changed}
  BY DEF ACS_out
<1>4. work' \subseteq Nodes(phase)
  BY <1>3 DEF Successors
<1>5. QED
  BY <1>1, <1>2, <1>4 DEF ACS_out

LEMMA InTypes ==
  ASSUME TypeInv, phase \in Forced \cup {"FixPointMust1stStep"}, NEW t, NEW edges,
         NEW force \in BOOLEAN, ACS_in(t, edges, force), prog' = prog, phase' = phase
  PROVE  /\ half' = "out" /\ DOMAIN acs_in' = Nodes(phase) /\ DOMAIN acs_out' = Nodes(phase)
         /\ work' \subseteq Nodes(phase) /\ visited' = visited
<1>1. /\ DOMAIN acs_out = Nodes(phase) /\ DOMAIN acs_in = Nodes(phase)
      /\ work \subseteq Nodes(phase)
  BY DEF TypeInv
<1>2. DOMAIN acs_in' = Nodes(phase)
  BY <1>1 DEF ACS_in
<1>3. work' \subseteq work
  BY DEF ACS_in
<1>4. QED
  BY <1>1, <1>2, <1>3 DEF ACS_in

(* Nothing is left out of the work list that a new state could change.     *)
LEMMA OutStep ==
  ASSUME TypeInv, NEW p \in Forced, phase = p, ACS_out(AnalysisOf(p), Followed(p), TRUE),
         UNCHANGED <<prog, phase, levelAnalysis, cac>>, RoundInv(p)
  PROVE  RoundInv(p)'
<1> DEFINE t == AnalysisOf(p)
           edges == Followed(p)
           changed == {n \in work : compute_ACS_out(t, n) # acs_out[n] \/ n \notin visited}
<1>1. /\ DOMAIN acs_out = Nodes(p) /\ work \subseteq Nodes(p) /\ visited \subseteq Nodes(p)
      /\ prog \in Programs
  BY DEF TypeInv
<1>2. half = "out" /\ half' = "in" /\ acs_in' = acs_in /\ visited' = visited \cup work
  BY DEF ACS_out
<1>3. /\ \A n \in work : acs_out'[n] = compute_ACS_out(t, n)
      /\ \A n \in Nodes(p) \ work : acs_out'[n] = acs_out[n]
  BY <1>1 DEF ACS_out
<1>4. work' = UNION {Successors(edges, n) : n \in changed}
  <2> DEFINE out == [n \in work |-> compute_ACS_out(t, n)]
  <2>1. {n \in work : out[n] # acs_out[n] \/ (TRUE /\ n \notin visited)} = changed
    OBVIOUS
  <2>2. QED
    BY <2>1 DEF ACS_out
<1> HIDE DEF changed
<1>5. \A e \in edges : e[1] \in changed => e[2] \in work'
  BY <1>4 DEF Successors
<1>6. /\ \A n \in Nodes(p) : acs_out'[n] # acs_out[n] => n \in changed
      /\ work \ visited \subseteq changed
  BY <1>3 DEF changed
<1>7. Nodes(p)' = Nodes(p) /\ Followed(p)' = edges /\ Starts(p)' = Starts(p)
  BY DEF Nodes, Node, Followed, Starts
<1>8. \A n : compute_ACS_out(t, n)' = compute_ACS_out(t, n)
  BY <1>2 DEF compute_ACS_out, Before
<1>9. \A n \in visited' : Solved(p, n)'
  BY <1>1, <1>2, <1>3, <1>8 DEF RoundInv, Solved
<1>10. \A e \in edges : e[1] \in visited' => e[2] \in visited' \cup work'
  BY <1>2, <1>5, <1>6 DEF RoundInv
<1>11. ASSUME NEW n \in Nodes(p) \ work'
       PROVE  Joined(p, n)'
  <2> DEFINE preds == Predecessors(edges, n)
  <2>1. \A m \in preds : m \in Nodes(p) /\ m \notin changed
    <3>1. SUFFICES ASSUME NEW e \in edges, e[2] = n
                   PROVE  e[1] \in Nodes(p) /\ e[1] \notin changed
      BY DEF Predecessors
    <3>2. QED
      BY <1>1, <1>5, <1>11, <3>1, FollowedFacts
  <2>2. [m \in preds |-> acs_out'[m]] = [m \in preds |-> acs_out[m]]
    BY <1>6, <2>1
  <2>3. preds \cap visited' = preds \cap visited
    BY <1>2, <1>6, <2>1
  <2>4. JoinOfPredecessors(t, edges, n)
          = JoinOf(t, levelAnalysis, preds, [m \in preds |-> acs_out[m]])
    BY DEF JoinOfPredecessors
  <2>5. JoinOfPredecessors(t, Followed(p), n)'
          = JoinOf(t, levelAnalysis, preds, [m \in preds |-> acs_out'[m]])
    BY <1>7 DEF JoinOfPredecessors
  <2>6. Joined(p, n)
    <3>1. CASE preds \cap visited = {}
      BY <3>1 DEF Joined
    <3>2. CASE preds \cap visited # {}
      BY <1>2, <1>11 DEF RoundInv
    <3>3. QED
      BY <3>1, <3>2
  <2>7. Predecessors(Followed(p), n)' = preds
    BY <1>7
  <2>8. QED
    BY <1>2, <2>2, <2>3, <2>4, <2>5, <2>6, <2>7 DEF Joined
<1>12. Starts(p) \subseteq visited'
  BY <1>2 DEF RoundInv
<1>13. QED
  BY <1>2, <1>7, <1>9, <1>10, <1>11, <1>12 DEF RoundInv

LEMMA InStep ==
  ASSUME TypeInv, NEW p \in Forced, phase = p, ACS_in(AnalysisOf(p), Followed(p), TRUE),
         UNCHANGED <<prog, phase, levelAnalysis, cac>>, RoundInv(p)
  PROVE  RoundInv(p)'
<1> DEFINE t == AnalysisOf(p)
           edges == Followed(p)
<1>1. /\ DOMAIN acs_in = Nodes(p) /\ work \subseteq Nodes(p) /\ visited \subseteq Nodes(p)
      /\ prog \in Programs
  BY DEF TypeInv
<1>2. half = "in" /\ half' = "out" /\ acs_out' = acs_out /\ visited' = visited
  BY DEF ACS_in
<1>3. /\ \A n \in work : acs_in'[n] = JoinOfPredecessors(t, edges, n)
      /\ \A n \in Nodes(p) \ work : acs_in'[n] = acs_in[n]
  BY <1>1 DEF ACS_in
<1>4. work' = {n \in work : JoinOfPredecessors(t, edges, n) # acs_in[n] \/ n \notin visited}
  BY DEF ACS_in
<1>5. Nodes(p)' = Nodes(p) /\ Followed(p)' = edges /\ Starts(p)' = Starts(p)
  BY DEF Nodes, Node, Followed, Starts
<1>6. \A n \in visited \ work' : acs_in'[n] = acs_in[n]
  BY <1>1, <1>3, <1>4
<1>7. \A n \in visited' \ work' : Solved(p, n)'
  <2>1. ASSUME NEW n \in visited \ work'
        PROVE  compute_ACS_out(t, n)' = compute_ACS_out(t, n)
    BY <1>6 DEF compute_ACS_out, Before
  <2>2. QED
    BY <1>2, <2>1 DEF RoundInv, Solved
<1>8. \A e \in edges : e[1] \in visited' => e[2] \in visited' \cup work'
  BY <1>2, <1>4 DEF RoundInv
<1>9. ASSUME NEW n \in Nodes(p)
      PROVE  Joined(p, n)'
  <2>1. JoinOfPredecessors(t, Followed(p), n)' = JoinOfPredecessors(t, edges, n)
    BY <1>2, <1>5 DEF JoinOfPredecessors
  <2>2. Predecessors(Followed(p), n)' = Predecessors(edges, n)
    BY <1>5
  <2>3. n \notin work => Joined(p, n)
    BY <1>2 DEF RoundInv
  <2>4. QED
    BY <1>2, <1>3, <2>1, <2>2, <2>3 DEF Joined
<1>10. Starts(p) \subseteq visited' \cup work'
  BY <1>2 DEF RoundInv
<1>11. QED
  BY <1>2, <1>5, <1>7, <1>8, <1>9, <1>10 DEF RoundInv

(* A fixed point starts with nothing visited.                              *)
LEMMA StartInv ==
  ASSUME NEW p, half' = "out", visited' = {}, Starts(p)' \subseteq work'
  PROVE  RoundInv(p)'
BY DEF RoundInv, Joined

-----------------------------------------------------------------------------
(* The steps of the analysis that are halves of rounds, and the others.    *)

LEMMA RoundTypes ==
  ASSUME TypeInv, phase \in Forced \cup {"FixPointMust1stStep"}, NEW t, NEW edges,
         edges \subseteq Nodes(phase) \X Nodes(phase), NEW force \in BOOLEAN,
         phase = "FixPointMust1stStep" => ~ force, Round(t, edges, force)
  PROVE  TypeInv'
<1>1. prog' = prog /\ phase' = phase /\ (ACS_out(t, edges, force) \/ ACS_in(t, edges, force))
  BY DEF Round
<1>2. /\ half' \in {"out", "in"} /\ DOMAIN acs_in' = Nodes(phase)
      /\ DOMAIN acs_out' = Nodes(phase) /\ work' \subseteq Nodes(phase)
      /\ visited' \subseteq Nodes(phase) /\ (~ force => visited' = visited)
  <2>1. CASE ACS_out(t, edges, force)
    BY <1>1, <2>1, OutTypes
  <2>2. CASE ACS_in(t, edges, force)
    BY <1>1, <2>2, InTypes DEF TypeInv
  <2>3. QED
    BY <1>1, <2>1, <2>2
<1>3. Nodes(phase)' = Nodes(phase)
  BY <1>1 DEF Nodes, Node
<1>4. QED
  BY <1>1, <1>2, <1>3 DEF TypeInv

(* The rounds of the four fixed points.                                    *)
LEMMA Rounds ==
  ASSUME TypeInv,
         \/ FixPointMust1stStep \/ MustAnalysis \/ PSAnalysis \/ MayAnalysis
  PROVE  /\ TypeInv'
         /\ phase \in Forced =>
              /\ Round(AnalysisOf(phase), Followed(phase), TRUE) /\ phase' = phase
         /\ phase \notin Forced => phase' \notin Forced
<1>1. prog \in Programs
  BY DEF TypeInv
<1>2. CASE FixPointMust1stStep
  <2>1. /\ phase = "FixPointMust1stStep" /\ phase' = phase
        /\ Round("MUST", prog.edges \ prog.backedges, FALSE)
    BY <1>2 DEF FixPointMust1stStep, Round
  <2>2. prog.edges \ prog.backedges \subseteq Nodes(phase) \X Nodes(phase)
    BY <1>1, <2>1, FollowedFacts DEF Followed
  <2>3. TypeInv'
    BY <2>1, <2>2, RoundTypes
  <2>4. QED
    BY <2>1, <2>3 DEF Forced
<1>3. CASE MustAnalysis \/ PSAnalysis \/ MayAnalysis
  <2>1. /\ phase \in Forced /\ phase' = phase
        /\ Round(AnalysisOf(phase), Followed(phase), TRUE)
    BY <1>3 DEF MustAnalysis, PSAnalysis, MayAnalysis, Round, Forced, AnalysisOf, Followed
  <2>2. phase # "FixPointMust1stStep"
    BY <2>1 DEF Forced
  <2>3. TypeInv'
    BY <1>1, <2>1, <2>2, FollowedFacts, RoundTypes
  <2>4. QED
    BY <2>1, <2>3
<1>4. QED
  BY <1>2, <1>3

LEMMA ForcedStep ==
  ASSUME TypeInv, NEW p \in Forced, phase = p, RoundInv(p),
         Round(AnalysisOf(p), Followed(p), TRUE)
  PROVE  RoundInv(p)'
<1>1. /\ UNCHANGED <<prog, phase, levelAnalysis, cac>>
      /\ \/ ACS_out(AnalysisOf(p), Followed(p), TRUE)
         \/ ACS_in(AnalysisOf(p), Followed(p), TRUE)
  BY DEF Round, classVars
<1>2. QED
  BY <1>1, OutStep, InStep

(* The first work lists.                                                   *)
LEMMA Starting ==
  ASSUME TypeInv, initACSMUST \/ initACSPS \/ initACSMAY
  PROVE  TypeInv' /\ FixInv'
<1>1. prog \in Programs /\ half \in {"out", "in"}
  BY DEF TypeInv
<1>2. PICK q \in Forced \cup {"FixPointMust1stStep"} :
         /\ phase' = q /\ half' = "out" /\ visited' = {} /\ work' = Starts(q) /\ prog' = prog
         /\ DOMAIN acs_in' = Nodes(q) /\ DOMAIN acs_out' = Nodes(q)
  <2>1. CASE initACSMUST
    <3>1. DOMAIN acs_in' = Node /\ acs_out' = acs_in'
      BY <2>1 DEF initACSMUST, Start
    <3>2. WITNESS "FixPointMust1stStep" \in Forced \cup {"FixPointMust1stStep"}
    <3>3. QED
      BY <2>1, <3>1 DEF initACSMUST, Start, Starts, Nodes
  <2>2. CASE initACSPS
    <3>1. DOMAIN acs_in' = prog.inLoop /\ acs_out' = acs_in'
      BY <2>2 DEF initACSPS, Start
    <3>2. "PSAnalysis" \in Forced \cup {"FixPointMust1stStep"}
      BY DEF Forced
    <3>3. WITNESS "PSAnalysis" \in Forced \cup {"FixPointMust1stStep"}
    <3>4. QED
      BY <2>2, <3>1 DEF initACSPS, Start, Starts, Nodes
  <2>3. CASE initACSMAY
    <3>1. DOMAIN acs_in' = Node /\ acs_out' = acs_in'
      BY <2>3 DEF initACSMAY, Start
    <3>2. "MayAnalysis" \in Forced \cup {"FixPointMust1stStep"}
      BY DEF Forced
    <3>3. WITNESS "MayAnalysis" \in Forced \cup {"FixPointMust1stStep"}
    <3>4. QED
      BY <2>3, <3>1 DEF initACSMAY, Start, Starts, Nodes
  <2>4. QED
    BY <2>1, <2>2, <2>3
<1>3. Starts(q)' = Starts(q) /\ Nodes(q)' = Nodes(q)
  BY <1>2 DEF Starts, Nodes, Node
<1>4. TypeInv'
  BY <1>1, <1>2, <1>3, FollowedFacts DEF TypeInv
<1>5. RoundInv(q)'
  BY <1>2, <1>3, StartInv
<1>6. QED
  BY <1>2, <1>4, <1>5 DEF FixInv

(* The steps outside of the fixed points.                                  *)
LEMMA OtherSteps ==
  ASSUME TypeInv,
         \/ ClassifCHMCMust \/ ClassifCHMCPS \/ ClassifCHMCMay \/ EndLevel \/ Load \/ Branch
  PROVE  TypeInv' /\ phase' \notin Forced
<1>1. /\ prog' = prog /\ half' = half
      /\ phase' \in {"PS", "MAY", "end", "MUST", "execution"}
  <2>1. CASE ClassifCHMCMust
    BY <2>1 DEF ClassifCHMCMust, Classify
  <2>2. CASE ClassifCHMCPS
    BY <2>2 DEF ClassifCHMCPS, Classify
  <2>3. CASE ClassifCHMCMay
    BY <2>3 DEF ClassifCHMCMay, Classify
  <2>4. CASE EndLevel
    BY <2>4 DEF EndLevel, acsVars
  <2>5. CASE Load
    BY <2>5 DEF Load, Loading, Executing, acsVars
  <2>6. CASE Branch
    BY <2>6 DEF Branch, Executing, acsVars
  <2>7. QED
    BY <2>1, <2>2, <2>3, <2>4, <2>5, <2>6
<1>2. QED
  BY <1>1 DEF TypeInv, Forced

(* The second step of MUST starts from the entry again.                    *)
LEMMA SecondStep ==
  ASSUME TypeInv, EndFixPointMust1stStep
  PROVE  TypeInv' /\ FixInv'
<1>1. /\ phase = "FixPointMust1stStep" /\ phase' = "MustAnalysis" /\ half = "out"
      /\ UNCHANGED <<prog, half, acs_in, acs_out, visited>> /\ work' = {prog.entry}
  BY DEF EndFixPointMust1stStep, Stable
<1>2. visited = {} /\ DOMAIN acs_in = Node /\ DOMAIN acs_out = Node /\ prog \in Programs
  BY <1>1 DEF TypeInv, Nodes
<1>3. Starts("MustAnalysis")' = {prog.entry} /\ Nodes("MustAnalysis")' = Node
  BY <1>1 DEF Starts, Nodes, Node
<1>4. RoundInv("MustAnalysis")'
  BY <1>1, <1>2, <1>3, StartInv
<1>5. {prog.entry} \subseteq Node
  BY <1>2, ProgramsAssumption DEF Node
<1>6. TypeInv'
  BY <1>1, <1>2, <1>3, <1>5 DEF TypeInv
<1>7. QED
  BY <1>1, <1>4, <1>6 DEF FixInv

LEMMA InvInit == Init => TypeInv /\ FixInv
<1>1. SUFFICES ASSUME Init
               PROVE  TypeInv /\ FixInv
  OBVIOUS
<1>2. prog \in Programs /\ half = "out" /\ phase \in {"end", "MUST"}
  BY <1>1 DEF Init
<1>3. QED
  BY <1>2 DEF TypeInv, FixInv, Forced

LEMMA InvNext == TypeInv /\ FixInv /\ [Next]_vars => TypeInv' /\ FixInv'
<1>1. SUFFICES ASSUME TypeInv, FixInv, [Next]_vars
               PROVE  TypeInv' /\ FixInv'
  OBVIOUS
<1>2. CASE initACSMUST \/ initACSPS \/ initACSMAY
  BY <1>1, <1>2, Starting
<1>3. CASE FixPointMust1stStep \/ MustAnalysis \/ PSAnalysis \/ MayAnalysis
  <2>1. TypeInv'
    BY <1>1, <1>3, Rounds
  <2>2. CASE phase \in Forced
    <3>1. Round(AnalysisOf(phase), Followed(phase), TRUE) /\ phase' = phase /\ RoundInv(phase)
      BY <1>1, <1>3, <2>2, Rounds DEF FixInv
    <3>2. PICK p \in Forced : p = phase
      BY <2>2
    <3>3. RoundInv(p)'
      BY <1>1, <3>1, <3>2, ForcedStep
    <3>4. QED
      BY <2>1, <3>1, <3>2, <3>3 DEF FixInv
  <2>3. CASE phase \notin Forced
    BY <1>1, <1>3, <2>1, <2>3, Rounds DEF FixInv
  <2>4. QED
    BY <2>2, <2>3
<1>4. CASE EndFixPointMust1stStep
  BY <1>1, <1>4, SecondStep
<1>5. CASE \/ ClassifCHMCMust \/ ClassifCHMCPS \/ ClassifCHMCMay \/ EndLevel \/ Load \/ Branch
  BY <1>1, <1>5, OtherSteps DEF FixInv
<1>6. CASE UNCHANGED vars
  <2>1. UNCHANGED <<prog, phase, half, acs_in, acs_out, work, visited, levelAnalysis, cac>>
    BY <1>6 DEF vars, acsVars, classVars
  <2>2. \A p, n : /\ (Solved(p, n)' <=> Solved(p, n)) /\ (Joined(p, n)' <=> Joined(p, n))
                  /\ Nodes(p)' = Nodes(p) /\ Followed(p)' = Followed(p)
                  /\ Starts(p)' = Starts(p)
    BY <2>1 DEF Solved, Joined, compute_ACS_out, Before, JoinOfPredecessors, Nodes, Node,
                Followed, Starts
  <2>3. (TypeInv' <=> TypeInv) /\ \A p : (RoundInv(p)' <=> RoundInv(p))
    BY <2>1, <2>2 DEF TypeInv, RoundInv
  <2>4. QED
    BY <1>1, <2>1, <2>3 DEF FixInv
<1>7. QED
  BY <1>1, <1>2, <1>3, <1>4, <1>5, <1>6 DEF Next, PerformAnalysis

(* What is visited in the end is what the edges reach from the start.      *)
LEMMA Visited ==
  ASSUME TypeInv, NEW p \in Forced, RoundInv(p), Stable
  PROVE  Solves(AnalysisOf(p), Followed(p), Starts(p))
<1> DEFINE nodes == Reachable(Followed(p), Starts(p))
<1>1. /\ half = "out" /\ work = {} /\ prog \in Programs
      /\ IsFiniteSet(Followed(p)) /\ Followed(p) \subseteq Nodes(p) \X Nodes(p)
      /\ Starts(p) \subseteq Nodes(p)
  BY FollowedFacts DEF Stable, TypeInv
<1>2. /\ Starts(p) \subseteq visited
      /\ \A e \in Followed(p) : e[1] \in visited => e[2] \in visited
      /\ \A n \in visited : Solved(p, n)
      /\ \A n \in Nodes(p) : Joined(p, n)
  BY <1>1 DEF RoundInv
<1>3. nodes \subseteq visited
  BY <1>1, <1>2, ReachableLeast
<1>4. nodes \subseteq Nodes(p)
  BY <1>1, ReachableLeast
<1>5. QED
  BY <1>2, <1>3, <1>4 DEF Solves, Solved, Joined

LEMMA FixedPointHolds == TypeInv /\ FixInv => FixedPoint
<1>1. SUFFICES ASSUME TypeInv, FixInv, Stable
               PROVE  /\ phase = "MustAnalysis" => Solves("MUST", prog.edges, {prog.entry})
                      /\ phase = "PSAnalysis" =>
                           Solves("PS", prog.edges \cap (prog.inLoop \X prog.inLoop), prog.loopsOuter)
                      /\ phase = "MayAnalysis" => Solves("MAY", prog.edges, {prog.entry})
  BY DEF FixedPoint
<1>2. \A p \in Forced : phase = p => Solves(AnalysisOf(p), Followed(p), Starts(p))
  BY <1>1, Visited DEF FixInv
<1>3. QED
  BY <1>2 DEF Forced, AnalysisOf, Followed, Starts

(* When a work list of the data cache analysis runs empty, the abstract    *)
(* cache states are a fixed point on the nodes that the edges reach, for   *)
(* every geometry, number of levels and program, and whatever the levels   *)
(* before found of its loads.  DCacheAnalysis.cc                           *)
THEOREM DataStatesAreFixedPoint == Spec => []FixedPoint
<1>1. TypeInv /\ FixInv /\ [Next]_vars => (TypeInv /\ FixInv)'
  BY InvNext
<1>2. QED
  BY <1>1, InvInit, FixedPointHolds, PTL DEF Spec
=============================================================================
