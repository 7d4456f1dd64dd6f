--------------------------------- MODULE MAY ---------------------------------
(***************************************************************************)
(* The abstract cache set of the MAY analysis (class MAY of Cache.cc).     *)
(*                                                                         *)
(* A line in way i may be in the concrete set, with an LRU age of at least *)
(* i; a line in no way is guaranteed not to be cached.                     *)
(***************************************************************************)
EXTENDS Integers

CONSTANTS
  Line,      \* the cache lines
  nb_ways    \* ways considered by the analysis

Way == 0 .. nb_ways - 1

Contents == [Way -> SUBSET Line]

(* The constructor: the program starts with none of its lines cached. *)
Empty == [i \in Way |-> {}]

Absent(c, a) == \A i \in Way : a \notin c[i]

FirstWay(c, a) ==
  CHOOSE i \in Way : a \in c[i] /\ \A j \in Way : j < i => a \notin c[j]

(* Mutant of Erase: the lines are left in their old ways. *)
EraseNothing(c, A) == c

(* erase() takes a line out of the first way that holds it. *)
Erase(c, A) ==
  [i \in Way |-> {b \in c[i] : b \in A => \E j \in Way : j < i /\ b \in c[j]}]

(* Mutant of AgeYoungest: way 1 is overwritten, not merged. *)
AgeYoungestOverwriting(c, a) ==
  [i \in Way |-> IF i = 0 THEN {a} ELSE IF i = 1 THEN c[0] ELSE c[i]]

(* The line was youngest: the other lines of way 0 join way 1. *)
AgeYoungest(c, a) ==
  [i \in Way |-> IF i = 0 THEN {a}
                 ELSE IF i = 1 THEN c[1] \cup c[0]
                 ELSE c[i]]

(* The ways below pos move up, way pos absorbing way pos - 1. *)
AgeBelow(c, pos, a) ==
  [i \in Way |-> IF i = 0 THEN {a}
                 ELSE IF i < pos THEN c[i - 1]
                 ELSE IF i = pos THEN c[i] \cup c[i - 1]
                 ELSE c[i]]

(* MAY::Update(t_address): a definite access to line a. *)
Update(c, a) ==
  IF a \in c[0]
    THEN AgeYoungest(Erase(c, {a}), a)
    ELSE AgeBelow(Erase(c, {a}),
                  IF Absent(c, a) THEN nb_ways ELSE FirstWay(c, a), a)

(* MAY::Update(set): the lines of A become possible at age 0, none ages. *)
UpdateSet(c, A) == [Erase(c, A) EXCEPT ![0] = @ \cup A]

(* MAY::Join: the lines of either set, at their smaller age. *)
Join(c, d) ==
  [i \in Way |->
      {a \in c[i] : \A j \in 0 .. i - 1 : a \notin d[j]}
        \cup {a \in d[i] : \A j \in 0 .. i - 1 : a \notin c[j]}]

(* A line is in at most one way: the erase loops stop at the first way     *)
(* that holds it, and the toggling of Join counts occurrences.             *)
WellFormed(c) == \A i, j \in Way : i # j => c[i] \cap c[j] = {}
=============================================================================
