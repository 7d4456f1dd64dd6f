------------------------------- MODULE Caches -------------------------------
(***************************************************************************)
(* One cache level, concrete and abstract: the LRU cache of the hardware   *)
(* and the three abstract caches that describe it, of the same geometry.   *)
(* With the LRU policy the analyses leave no way out.                      *)
(***************************************************************************)
EXTENDS AbstractCache

Lru == INSTANCE LRU WITH Ways <- nb_ways, SetOf <- computeSet

Must == INSTANCE MUST WITH nb_ways_removed <- 0

May == INSTANCE MAY

Ps == INSTANCE PS WITH nb_ways_removed <- 0
=============================================================================
