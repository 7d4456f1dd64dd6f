-------------------------------- MODULE ICache --------------------------------
(***************************************************************************)
(* The instruction cache of the simulator (class ICache of icache.cc): an  *)
(* array of ways per set, each with the date of its last use.              *)
(***************************************************************************)
EXTENDS Integers

CONSTANTS
  nbSets,     \* cache geometry
  nbWays,
  lineSize

Way == 0 .. nbWays - 1

baseAddress(physaddress) == (physaddress \div lineSize) * lineSize

setNb(physaddress) == (physaddress \div lineSize) % nbSets

(* The constructor.  Only "valid" is initialised; the other fields are not *)
(* read before they are set.                                               *)
Empty ==
  [cacheLines |-> [s \in 0 .. nbSets - 1 |->
                     [j \in Way |-> [valid |-> FALSE, physaddress |-> 0, lastUse |-> 0]]],
   lastUse |-> 0]

Ways(c, physaddress) == c.cacheLines[setNb(physaddress)]

Holding(c, physaddress) ==
  {j \in Way : /\ Ways(c, physaddress)[j].valid
               /\ Ways(c, physaddress)[j].physaddress = baseAddress(physaddress)}

(* LoadLine returns CACHE_HIT. *)
Hit(c, physaddress) == Holding(c, physaddress) # {}

(* Mutant of Victim: the way used last is replaced. *)
VictimUsedLast(ways) ==
  IF \E j \in Way : ~ ways[j].valid
    THEN CHOOSE j \in Way : ~ ways[j].valid
    ELSE CHOOSE j \in Way : \A k \in Way : ways[k].lastUse <= ways[j].lastUse

(* The first invalid way, or the first of the ways used least recently. *)
Victim(ways) ==
  LET invalid == {j \in Way : ~ ways[j].valid}
      oldest  == {j \in Way : \A k \in Way : ways[j].lastUse <= ways[k].lastUse}
      choice  == IF invalid # {} THEN invalid ELSE oldest
  IN  CHOOSE j \in choice : \A k \in choice : j <= k

Used(c, physaddress, j) ==
  [cacheLines |-> [c.cacheLines EXCEPT ![setNb(physaddress)][j] =
                     [valid       |-> TRUE,
                      physaddress |-> baseAddress(physaddress),
                      lastUse     |-> c.lastUse]],
   lastUse |-> c.lastUse + 1]

(* LoadLine: the line is used, after it took the place of a victim if it   *)
(* was not there.                                                          *)
LoadLine(c, physaddress) ==
  Used(c, physaddress,
       IF Hit(c, physaddress) THEN CHOOSE j \in Holding(c, physaddress) : TRUE
                              ELSE Victim(Ways(c, physaddress)))

=============================================================================
