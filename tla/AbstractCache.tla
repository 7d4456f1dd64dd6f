---------------------------- MODULE AbstractCache ----------------------------
(***************************************************************************)
(* The template AbstractCache<T> of Cache.h: a cache as an array of        *)
(* abstract sets T (MUST, MAY or PS), with the mapping from addresses to   *)
(* lines and sets, and the lifting of T's updates, joins and queries.      *)
(* The methods of T are passed as operators.                               *)
(***************************************************************************)
EXTENDS Integers, FiniteSets

CONSTANTS
  Address,          \* the byte addresses accessed
  nb_sets,          \* cache geometry
  nb_ways,
  cacheline_size

ASSUME GeometryAssumption ==
  /\ nb_sets \in Nat \ {0}
  /\ nb_ways \in Nat \ {0}
  /\ cacheline_size \in Nat \ {0}
  /\ Address \subseteq Nat

(* A t_address is a machine integer. *)
ASSUME FiniteAddresses == IsFiniteSet(Address)

computeStartLine(addr) == addr - (addr % cacheline_size)

computeSet(addr) == (computeStartLine(addr) \div cacheline_size) % nb_sets

Line == {computeStartLine(addr) : addr \in Address}

CacheSet == 0 .. nb_sets - 1

(* Cache access classifications: always, uncertain, uncertain never,       *)
(* never.  An uncertain access reaches this level or not.                  *)
CAC == {"A", "U", "UN", "N"}

(* The constructors: every set starts as T's constructor makes it. *)
EmptyCache(empty) == [s \in CacheSet |-> empty]

(* AbstractCache::Update(addr, cac): an uncertain access is joined with    *)
(* the state before it.                                                    *)
UpdateLine(c, addr, cac, Update(_, _), Join(_, _)) ==
  LET line    == computeStartLine(addr)
      s       == computeSet(line)
      updated == Update(c[s], line)
  IN  IF cac = "N" THEN c
      ELSE IF cac = "A" THEN [c EXCEPT ![s] = updated]
      ELSE [c EXCEPT ![s] = Join(updated, @)]

(* The lines of a set of addresses that map to cache set s. *)
Inserted(addrs, s) ==
  {computeStartLine(addr) : addr \in {x \in addrs : computeSet(x) = s}}

(* AbstractCache::Update(addrs, cac): a single line is a precise access;   *)
(* otherwise every cache set concerned gets the unpredictable update.      *)
UpdateLines(c, addrs, cac, Update(_, _), UpdateSet(_, _), Join(_, _)) ==
  IF cac = "N" THEN c
  ELSE IF \A x, y \in addrs : computeStartLine(x) = computeStartLine(y)
    THEN UpdateLine(c, CHOOSE addr \in addrs : TRUE, cac, Update, Join)
    ELSE [s \in CacheSet |-> IF Inserted(addrs, s) = {} THEN c[s]
                             ELSE UpdateSet(c[s], Inserted(addrs, s))]

(* AbstractCache::Join: set by set. *)
JoinCaches(c, d, Join(_, _)) == [s \in CacheSet |-> Join(c[s], d[s])]

(* AbstractCache::Absent. *)
AbsentLine(c, addr, Absent(_, _)) ==
  Absent(c[computeSet(addr)], computeStartLine(addr))
=============================================================================
