-------------------------- MODULE MCICacheAnalysis --------------------------
EXTENDS ICacheAnalysis

(* A loop; a diamond; a loop with a branch; a loop in a loop. *)
Shapes == {
  {<<1, 2>>, <<2, 3>>, <<3, 2>>, <<3, 4>>},
  {<<1, 2>>, <<1, 3>>, <<2, 4>>, <<3, 4>>},
  {<<1, 2>>, <<2, 3>>, <<2, 4>>, <<3, 2>>, <<4, 2>>},
  {<<1, 2>>, <<2, 3>>, <<3, 3>>, <<3, 2>>, <<2, 4>>}}

(* The instructions of a basic block are consecutive: its accesses are the *)
(* lines it spans, from first to last.                                     *)
Span(first, last) == [i \in 1 .. last - first + 1 |-> first + i - 1]

(* At most two lines; PersistencePrograms has a block of three. *)
Spans == {Span(first, last) : first \in Address, last \in Address}
           \cap UNION {[1 .. k -> Address] : k \in 1 .. 2}

(* What the level before may tell of the accesses of a block. *)
Always(code) == [n \in DOMAIN code |-> [i \in DOMAIN code[n] |-> "A"]]

(* Level 1: blocks of one or two lines in the loop and the branching loop, *)
(* of one line in all shapes.                                              *)
AlwaysAccessed ==
  {Program(1, edges, code, Always(code)) :
     edges \in {s \in Shapes : <<3, 2>> \in s /\ <<3, 3>> \notin s},
     code \in [1 .. 4 -> Spans]}
  \cup
  {Program(1, edges, code, Always(code)) :
     edges \in Shapes, code \in [1 .. 4 -> {<<a>> : a \in Address}]}

(* Two instructions in a line, alone or before the next line. *)
Pairs == {<<a, a>> : a \in Address} \cup {<<0, 0, 1>>, <<1, 1, 2>>}

Repeated ==
  {Program(1, edges, code, Always(code)) :
     edges \in {s \in Shapes : <<2, 4>> \in s /\ <<3, 2>> \in s /\ <<3, 3>> \notin s},
     code \in {f \in [1 .. 4 -> Pairs] : Len(f[1]) = 2 /\ Len(f[4]) = 2}}

(* The next levels: two lines, accessed or not; the loops end as they      *)
(* begin.                                                                  *)
Filtered ==
  {Program(1, edges, code, [n \in 1 .. 4 |-> <<access[n]>>]) :
     edges \in Shapes,
     code \in {f \in [1 .. 4 -> {<<0>>, <<1>>}] : f[1] = <<0>> /\ f[4] = <<0>>},
     access \in {f \in [1 .. 4 -> CAC] : f[1] \in {"A", "U"}}}

SmallPrograms == AlwaysAccessed \cup Repeated \cup Filtered

(* In the loop, blocks on lines 0, 2, then from 0 to 2. *)
PersistenceCode == <<Span(1, 1), Span(0, 0), Span(2, 2), Span(0, 2), Span(2, 2)>>

PersistencePrograms ==
  {Program(1, {<<1, 2>>, <<2, 3>>, <<3, 4>>, <<4, 2>>, <<4, 5>>},
           PersistenceCode, Always(PersistenceCode))}

(* The loops of all these programs are closed. *)
ASSUME LoopsAreClosed ==
  \A p \in SmallPrograms \cup PersistencePrograms : LoopsClosed(p)

(* A level that the head of the loop does not access: the analysis stops   *)
(* at the head, and FirstMissHitsLater is violated.                        *)
UnvisitedCode == <<<<1>>, <<0>>, <<0, 0>>, <<1, 2>>, <<2>>>>

UnvisitedPrograms ==
  {Program(1, {<<1, 2>>, <<2, 3>>, <<3, 4>>, <<4, 2>>, <<4, 5>>}, UnvisitedCode,
           [Always(UnvisitedCode) EXCEPT ![2] = <<"N">>, ![3] = <<"U", "U">>])}

AllAnalyses == {{"MUST", "PS", "MAY"}}
=============================================================================
