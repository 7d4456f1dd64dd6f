--------------------------- MODULE MCDCacheAnalysis ---------------------------
EXTENDS DCacheAnalysis, TLC

(* A loop with a branch; a loop in a loop. *)
Branching == {<<1, 2>>, <<2, 3>>, <<2, 4>>, <<3, 2>>, <<4, 2>>}
Nested == {<<1, 2>>, <<2, 3>>, <<3, 3>>, <<3, 2>>, <<2, 4>>}

(* One address, an array, two variables, or no load. *)
OneLoad == {<<>>, <<{<<0, 1>>}>>, <<{<<2, 1>>}>>, <<{<<1, 2>>}>>, <<{<<0, 1>>, <<2, 1>>}>>}

Variable == <<{<<0, 1>>}>>
Some == OneLoad \ {<<>>}

(* A load in each node, or two in a node of a loop. *)
MCPrograms ==
  {Program(1, Branching, loads) : loads \in [1 .. 4 -> OneLoad]}
  \cup {Program(1, Nested, <<<<>>, x, y, z>>) : x \in OneLoad, y \in OneLoad, z \in OneLoad}
  \cup {Program(1, Nested, <<Variable, x \o y, z, Variable>>) :
          x \in Some \ {Variable}, y \in Some, z \in {Variable, <<{<<2, 1>>}>>}}

LineSizes == <<1, 2>>
OneSet == [l \in Level |-> 1]
Sets == <<1, 2>>
TwoWays == [l \in Level |-> 2]
===============================================================================
