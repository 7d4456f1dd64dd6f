-------------------------------- MODULE MCIPET --------------------------------
EXTENDS IPET

Fetch(code) == [kind |-> "other", code |-> code, data |-> <<>>, blocks |-> <<>>,
                lat |-> 1, in |-> {}, out |-> {}]
Hit == Fetch(<<"AH", "AU">>)
Load(data, blocks) == [Hit EXCEPT !.kind = "load", !.data = data, !.blocks = blocks]
Store == [Hit EXCEPT !.kind = "store"]
Codes == {Fetch(c) : c \in {<<"AM", "FM">>, <<"FM", "AM">>, <<"FM", "FM">>, <<"NC", "NC">>,
                            <<"NC", "FM">>, <<"AM", "AH">>}}
OneBlock == {Load(d, <<1, 1>>) : d \in {<<"AH", "AU">>, <<"FM", "AM">>, <<"FM", "NC">>, <<"FM", "FM">>}}
Blocks == {Load(<<"AM", "FM">>, <<2, 2>>), Load(<<"NC", "FM">>, <<2, 1>>), Load(<<"AM", "NC">>, <<2, 2>>)}
Instrs == Codes \cup OneBlock \cup Blocks \cup {Store}

Function(nodes, edges, ends, callee, maxiter, special) ==
  [nodes |-> nodes, edges |-> edges, start |-> nodes[1], ends |-> ends, callee |-> callee,
   maxiter |-> maxiter,
   instructions |-> [n \in ToSet(nodes) |-> IF n \in DOMAIN special THEN special[n] ELSE <<Hit>>]]
Leaf(n, is) == Function(<<n>>, {}, {n}, <<>>, <<>>, n :> is)
Program(cfg, wcet) == [entry |-> "main", cfg |-> cfg, wcet |-> wcet]

(* Two calls of a function with a branch; a function never called.         *)
TwoCalls(i) == Program(
  [main |-> Function(<<1, 2, 3>>, {<<1, 2>>, <<2, 3>>}, {3}, 1 :> "f" @@ 2 :> "f", <<>>, <<>>),
   f |-> Function(<<4, 5, 6>>, {<<4, 5>>, <<4, 6>>, <<5, 6>>}, {6}, <<>>, <<>>, 5 :> <<i, i>>),
   dead |-> Function(<<7, 8>>, {<<7, 8>>}, {8}, 7 :> "f", <<>>, <<>>)], <<>>)

(* A while loop that calls a function with a do-while loop.                *)
CallInLoop(i) == Program(
  [main |-> Function(<<1, 2, 3, 4>>, {<<1, 2>>, <<2, 3>>, <<3, 2>>, <<2, 4>>}, {4},
                     3 :> "f", 2 :> 2, 2 :> <<Hit, Store>>),
   f |-> Function(<<5, 6, 7>>, {<<5, 6>>, <<6, 6>>, <<6, 7>>}, {7}, <<>>, 6 :> 2, 6 :> <<i>>)], <<>>)

(* A loop with two tests around a loop.                                    *)
NestedLoops(i) == Program(
  [main |-> Function(<<1, 2, 3, 4, 5, 6>>,
                     {<<1, 2>>, <<2, 3>>, <<3, 4>>, <<4, 5>>, <<5, 4>>, <<4, 2>>, <<2, 6>>, <<3, 6>>},
                     {6}, <<>>, 2 :> 2 @@ 4 :> 1, 5 :> <<i>>)], <<>>)

(* An annotated function, and one it shares with the others.               *)
Annotated(i) == Program(
  [main |-> Function(<<1, 2, 3, 4>>, {<<1, 2>>, <<1, 3>>, <<2, 4>>, <<3, 4>>}, {4},
                     2 :> "a" @@ 3 :> "g", <<>>, <<>>),
   a |-> Function(<<5, 6>>, {<<5, 6>>}, {6}, 5 :> "g", <<>>, <<>>),
   g |-> Leaf(7, <<i, i>>)], "a" :> 5)

(* A function that calls itself through another.                           *)
Recursive(i) == Program(
  [main |-> Function(<<1, 2, 3>>, {<<1, 2>>, <<2, 3>>}, {3}, 1 :> "f" @@ 2 :> "g", <<>>, <<>>),
   f |-> Function(<<4, 5>>, {<<4, 5>>}, {5}, 4 :> "g", <<>>, <<>>),
   g |-> Function(<<6, 7, 8>>, {<<6, 8>>, <<6, 7>>, <<7, 8>>}, {8}, 7 :> "f", <<>>, <<>>)], <<>>)

(* In a pipeline: a while loop that calls a function with two ends.        *)
Operating(lat, in, out) == [Hit EXCEPT !.lat = lat, !.in = in, !.out = out]
LoadA == Operating(2, {}, {"a"})
UseA == Operating(1, {"a"}, {"b"})
BranchB == Operating(3, {"b"}, {})
Divide == Operating(5, {"a"}, {"a"})
BlocksInPipeline == {<<LoadA>>, <<UseA, BranchB>>, <<Divide>>}
TwoEnds(block) == Program(
  [main |-> Function(<<1, 2, 3, 4, 5>>, {<<1, 2>>, <<2, 3>>, <<3, 4>>, <<4, 2>>, <<2, 5>>}, {5},
                     3 :> "f", 2 :> 2, [n \in 2 .. 4 |-> block[n]]),
   f |-> Function(<<6, 7, 8>>, {<<6, 7>>, <<6, 8>>}, {7, 8}, <<>>, <<>>,
                  [n \in 6 .. 8 |-> block[n]])], <<>>)
PipelinePrograms == {TwoEnds(block) : block \in [{2, 3, 4, 6, 7, 8} -> BlocksInPipeline]}

MCPrograms ==
  UNION {{TwoCalls(i), CallInLoop(i), NestedLoops(i), Annotated(i)} : i \in Instrs}
  \cup {Recursive(Hit)} \cup PipelinePrograms

(* The theorems about the constraints and the times speak of all of these, *)
(* and so of programs that there are.                                      *)
ASSUME ProgramsAreEntered ==
  \A p \in MCPrograms : EnteredByCalls(p) /\ LoopsBounded(p) /\ LoadsNamed(p)

(* A while loop whose body is only another one.                            *)
NestedLoopPrograms == {Program(
  [main |-> Function(<<1, 2, 3, 4, 5>>,
                     {<<1, 2>>, <<2, 3>>, <<3, 4>>, <<4, 3>>, <<3, 2>>, <<2, 5>>},
                     {5}, <<>>, 2 :> 2 @@ 3 :> 1, <<>>)], <<>>)}

MCInstrLatency == <<1, 3>>
MCDataLatency == <<1, 4>>

Caches(perfectIcache, pipelines) ==
  [perfectIcache : perfectIcache, perfectDcache : {TRUE}, pipeline : pipelines]
MCCaches(p) ==
  IF p \in PipelinePrograms THEN Caches({TRUE}, {"FLEXPRET"})
  ELSE [perfectIcache : BOOLEAN, perfectDcache : BOOLEAN, pipeline : {"off"}]
       \cup (IF p.wcet = <<>> THEN Caches(BOOLEAN, {"MIPS"}) ELSE {})
=============================================================================
