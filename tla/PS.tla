--------------------------------- MODULE PS ---------------------------------
(***************************************************************************)
(* The abstract cache set of the persistence analysis (class PS of         *)
(* Cache.cc).                                                              *)
(*                                                                         *)
(* For every line the analysis still believes persistent (the keys of the  *)
(* map "contents", here "present"), the set of lines that may have been    *)
(* accessed since its last access ("conflicts"); a line whose conflicts    *)
(* fill the ways moves to "evicted".                                       *)
(***************************************************************************)
EXTENDS Integers, FiniteSets

CONSTANTS
  Line,             \* the cache lines
  nb_ways,          \* ways considered by the analysis
  nb_ways_removed   \* hardware ways the analysis leaves out (non-LRU policies)

(* A key that is not in the map has no conflict set: {} stands for it. *)
Contents == [present : SUBSET Line,
             conflicts : [Line -> SUBSET Line],
             evicted : SUBSET Line]

PersistentSet(present, conflicts, evicted) ==
  [present   |-> present,
   conflicts |-> [b \in Line |-> IF b \in present THEN conflicts[b] ELSE {}],
   evicted   |-> evicted]

Empty == PersistentSet({}, [b \in Line |-> {}], {})

Absent(c, a) == a \notin c.present

GetAge(c, a) ==
  IF Absent(c, a) THEN nb_ways
                  ELSE Cardinality(c.conflicts[a]) + nb_ways_removed

(* Mutant of Update: a line survives its nb_ways-th conflict. *)
UpdateTooLate(c, a) ==
  LET touched  == [b \in Line |-> c.conflicts[b] \cup {a}]
      to_evict == {b \in c.present : Cardinality(touched[b]) > nb_ways}
  IN  PersistentSet((c.present \ to_evict) \cup {a},
                    [touched EXCEPT ![a] = {}],
                    (c.evicted \cup to_evict) \ {a})

(* PS::Update(t_address): a conflicts with every line present, the ones    *)
(* that reach nb_ways conflicts are evicted, a itself starts afresh.       *)
Update(c, a) ==
  LET touched  == [b \in Line |-> c.conflicts[b] \cup {a}]
      to_evict == {b \in c.present : Cardinality(touched[b]) = nb_ways}
  IN  PersistentSet((c.present \ to_evict) \cup {a},
                    [touched EXCEPT ![a] = {}],
                    (c.evicted \cup to_evict) \ {a})

(* Mutant of UpdateSet: evicted lines of A may enter again. *)
UpdateSetForgetting(c, A) ==
  LET absent   == A \ c.present
      touched  == [b \in Line |-> IF b \in A THEN (c.conflicts[b] \cup A) \ {b}
                                             ELSE c.conflicts[b] \cup A]
      to_evict == {b \in c.present \cup absent :
                      Cardinality(touched[b]) >= nb_ways}
  IN  PersistentSet((c.present \cup absent) \ to_evict,
                    touched,
                    (c.evicted \cup to_evict) \ absent)

(* PS::Update(set): any line of A may have been accessed; the ones neither *)
(* present nor evicted enter with the rest of A as conflicts.              *)
UpdateSet(c, A) ==
  LET absent   == (A \ c.present) \ c.evicted
      touched  == [b \in Line |-> IF b \in A THEN (c.conflicts[b] \cup A) \ {b}
                                             ELSE c.conflicts[b] \cup A]
      to_evict == {b \in c.present \cup absent :
                      Cardinality(touched[b]) >= nb_ways}
  IN  PersistentSet((c.present \cup absent) \ to_evict,
                    touched,
                    c.evicted \cup to_evict)

(* Mutant of Join: the conflicts of a line present in d replace c's. *)
JoinReplacing(c, d) ==
  LET added == d.present \ c.evicted
      union == [b \in Line |-> IF b \in added THEN d.conflicts[b]
                                              ELSE c.conflicts[b]]
  IN  PersistentSet((c.present \cup added) \ d.evicted,
                    union,
                    c.evicted \cup d.evicted)

(* PS::Join: the union of the conflicts; what one side evicted stays so. *)
Join(c, d) ==
  LET added == d.present \ c.evicted
      union == [b \in Line |-> c.conflicts[b] \cup d.conflicts[b]]
      full  == {b \in added : Cardinality(union[b]) >= nb_ways}
  IN  PersistentSet(((c.present \cup added) \ full) \ d.evicted,
                    union,
                    c.evicted \cup full \cup d.evicted)

(* The assertion of Absent and GetAge (a line present has fewer than       *)
(* nb_ways conflicts), with what keeps it true: no line is both present    *)
(* and evicted, none conflicts with itself.                                *)
WellFormed(c) ==
  /\ c.present \cap c.evicted = {}
  /\ \A a \in c.present : /\ Cardinality(c.conflicts[a]) < nb_ways
                          /\ a \notin c.conflicts[a]
=============================================================================
