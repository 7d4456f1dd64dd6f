-------------------------------- MODULE MUST --------------------------------
(***************************************************************************)
(* The abstract cache set of the MUST analysis (class MUST of Cache.cc).   *)
(*                                                                         *)
(* An abstract cache set is a function from ways to sets of cache lines:   *)
(* a line in way i is guaranteed to be in the concrete set, with an LRU    *)
(* age of at most i.  Lines are the start addresses of cache lines; the    *)
(* mapping from addresses to lines and sets belongs to AbstractCache.      *)
(***************************************************************************)
EXTENDS Integers

CONSTANTS
  Line,             \* the cache lines
  nb_ways,          \* ways considered by the analysis
  nb_ways_removed   \* hardware ways the analysis leaves out (non-LRU policies)

Way == 0 .. nb_ways - 1

Contents == [Way -> SUBSET Line]

(* The constructor: nothing is guaranteed to be cached. *)
Empty == [i \in Way |-> {}]

Holds(c, a) == \E i \in Way : a \in c[i]

(* The loops over the ways stop at the first one that holds the line. *)
FirstWay(c, a) ==
  CHOOSE i \in Way : a \in c[i] /\ \A j \in Way : j < i => a \notin c[j]

GetAge(c, a) ==
  IF Holds(c, a) THEN FirstWay(c, a) ELSE nb_ways + nb_ways_removed

Absent(c, a) == GetAge(c, a) >= nb_ways

(* The ageing loop: the ways below pos move one way up, way pos absorbs    *)
(* way pos - 1, older ways stay.  With pos = nb_ways the last way is lost. *)
Shift(c, pos, mru) ==
  [i \in Way |-> IF i = 0 THEN mru
                 ELSE IF i < pos THEN c[i - 1]
                 ELSE IF i = pos THEN c[i] \cup c[i - 1]
                 ELSE c[i]]

(* Mutant of Erase: the line is left in its old way. *)
EraseNothing(c, a) == c

(* erase() takes the line out of the first way that holds it. *)
Erase(c, a) ==
  [i \in Way |-> {b \in c[i] : b = a => \E j \in Way : j < i /\ a \in c[j]}]

(* MUST::Update(t_address): a definite access to line a. *)
Update(c, a) ==
  IF a \in c[0]
    THEN c
    ELSE Shift(Erase(c, a),
               IF Holds(c, a) THEN FirstWay(c, a) ELSE nb_ways,
               {a})

(* The age of the oldest accessed line, as far as the ways can tell. *)
MaxAge(c, A) ==
  IF \E a \in A : Absent(c, a)
    THEN nb_ways
    ELSE CHOOSE m \in Way : /\ \E a \in A : GetAge(c, a) = m
                            /\ \A a \in A : GetAge(c, a) <= m

(* MUST::Update(set): an access to one unknown line of A, or to none. *)
UpdateSet(c, A) ==
  IF MaxAge(c, A) = 0 THEN c ELSE Shift(c, MaxAge(c, A), {})

(* Mutant of Join: the lines of both sets, at their smaller age. *)
JoinYoungest(c, d) ==
  [i \in Way |->
      {a \in c[i] : \E j \in i .. nb_ways - 1 : a \in d[j]}
        \cup {a \in d[i] : \E j \in i .. nb_ways - 1 : a \in c[j]}]

(* MUST::Join: the lines of both sets, at their larger age. *)
Join(c, d) ==
  [i \in Way |->
      {a \in c[i] : \E j \in 0 .. i : a \in d[j]}
        \cup {a \in d[i] : \E j \in 0 .. i : a \in c[j]}]

(* What the operations rely on: a line is in at most one way (the toggling *)
(* of Join counts occurrences), and the assertion of the two updates,      *)
(* contents[0].size() <= 1.                                                *)
WellFormed(c) ==
  /\ \A i, j \in Way : i # j => c[i] \cap c[j] = {}
  /\ \A a, b \in c[0] : a = b
=============================================================================
