----------------------------- MODULE LruHierarchy -----------------------------
(***************************************************************************)
(* What the analyses assume of the hardware: two levels of LRU caches, the *)
(* second accessed when the first misses, and how often each one misses.   *)
(***************************************************************************)
EXTENDS Integers, FiniteSets

CONSTANTS
  Address,                              \* what is fetched
  nb_sets, nb_ways, cacheline_size      \* geometry of levels 1 and 2

VARIABLES
  age,       \* age[l]: the cache of level l
  misses     \* misses[l]: its misses so far

Level == {1, 2}

Cache(l) == INSTANCE AbstractCache WITH nb_sets <- nb_sets[l],
                nb_ways <- nb_ways[l], cacheline_size <- cacheline_size[l]

Lru(l) == INSTANCE LRU WITH Line <- Cache(l)!Line, Ways <- nb_ways[l],
                            SetOf <- LAMBDA a : Cache(l)!computeSet(a)

Hit(l, addr) == Lru(l)!Cached(age[l], Cache(l)!computeStartLine(addr))

Reached(l, addr) == l = 1 \/ ~ Hit(1, addr)

Fetch(addr) ==
  /\ age' = [l \in Level |->
               IF Reached(l, addr)
                 THEN Lru(l)!Access(age[l], Cache(l)!computeStartLine(addr))
                 ELSE age[l]]
  /\ misses' = [l \in Level |-> IF Reached(l, addr) /\ ~ Hit(l, addr)
                                  THEN misses[l] + 1 ELSE misses[l]]

Init ==
  /\ age = [l \in Level |-> Lru(l)!Cold]
  /\ misses = [l \in Level |-> 0]

Spec == Init /\ [][\E addr \in Address : Fetch(addr)]_<<age, misses>>
=============================================================================
