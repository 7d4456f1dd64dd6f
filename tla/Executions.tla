----------------------------- MODULE Executions -----------------------------
(***************************************************************************)
(* The concrete side of the abstract caches: the executions of the         *)
(* analysed program on the hardware cache.  Each path of Path is one       *)
(* execution, age[p] the LRU cache along it.  The modules that extend this *)
(* one run an abstract cache beside every path, and join the abstract      *)
(* caches of two paths where their control flow meets.                     *)
(***************************************************************************)
EXTENDS Caches

CONSTANT Path       \* the executions followed

VARIABLES
  analysis,         \* the analysis followed: "MUST", "MAY" or "PS"
  age               \* age[p]: the concrete cache of path p

(* The program starts with none of its lines cached... *)
ColdStart == age = [p \in Path |-> Lru!Cold]

(* ... or with whatever was left in the cache. *)
WarmStart == age \in [Path -> {f \in Lru!Ages : Lru!Distinct(f)}]

(* Path p accesses the line of addr. *)
Touch(p, addr) ==
  age' = [age EXCEPT ![p] = Lru!Access(@, computeStartLine(addr))]

(* An access classified cac at one of addrs reaches this cache, or not. *)
Reach(p, addrs, cac) ==
  \/ cac # "N" /\ \E addr \in addrs : Touch(p, addr)
  \/ cac # "A" /\ UNCHANGED age
=============================================================================
