--------------------------------- MODULE LRU ---------------------------------
(***************************************************************************)
(* The concrete caches the analyses reason about, seen through ages: the   *)
(* number of distinct lines of the same set used more recently.  A line of *)
(* age Ways is not cached.  This is what the LRU cache of the simulator    *)
(* (ICache::LoadLine) promises; module ICache models its code.             *)
(***************************************************************************)
EXTENDS Integers

CONSTANTS
  Line,         \* all cache lines
  SetOf(_),     \* the cache set a line maps to
  Ways          \* associativity

Ages == [Line -> 0 .. Ways]

Cold == [b \in Line |-> Ways]

Cached(age, a) == age[a] < Ways

(* Line a becomes the youngest of its set; the lines that were younger     *)
(* than a age by one, the oldest of them leaving when a was not cached.    *)
Access(age, a) ==
  [b \in Line |->
     IF b = a THEN 0
     ELSE IF SetOf(b) = SetOf(a) /\ age[b] < age[a] THEN age[b] + 1
     ELSE age[b]]

(* Two lines of a set have different ages unless neither is cached. *)
Distinct(age) ==
  \A a, b \in Line : a # b /\ SetOf(a) = SetOf(b) /\ Cached(age, a)
                       => age[a] # age[b]
=============================================================================
