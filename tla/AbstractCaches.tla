--------------------------- MODULE AbstractCaches ---------------------------
(***************************************************************************)
(* The three abstract caches, each beside the executions it describes.     *)
(* The cache analyses run one after the other and share nothing but the    *)
(* program: a behaviour follows one of them.                               *)
(*                                                                         *)
(* The persistence analysis starts at the entry of the loop whose          *)
(* persistent lines it looks for.  "loaded" and "since" remember the       *)
(* accesses of a path since then: they say what persistence promises and   *)
(* change nothing.                                                         *)
(***************************************************************************)
EXTENDS Executions, TLC

VARIABLES
  must,     \* must[p][s]: set s of the MUST cache where p is
  may,      \* may[p][s]: set s of the MAY cache
  ps,       \* ps[p][s]: set s of the persistence cache
  loaded,   \* loaded[p]: the lines path p has accessed
  since     \* since[p][b]: the lines of b's set accessed after b was last

(* Nothing is known of the cache the program starts with. *)
MustInit ==
  /\ analysis = "MUST"
  /\ WarmStart
  /\ must = [p \in Path |-> EmptyCache(Must!Empty)]

(* An instruction fetch, or a data access with one possible address. *)
MustAccess(p, addr, cac) ==
  /\ must' = [must EXCEPT ![p] =
                UpdateLine(@, addr, cac, Must!Update, Must!Join)]
  /\ Reach(p, {addr}, cac)

(* A data access somewhere in addrs. *)
MustAccessOneOf(p, addrs, cac) ==
  /\ must' = [must EXCEPT ![p] = UpdateLines(@, addrs, cac, Must!Update,
                                             Must!UpdateSet, Must!Join)]
  /\ Reach(p, addrs, cac)

(* The control flow of p and q meets. *)
MustMerge(p, q) ==
  LET joined == JoinCaches(must[p], must[q], Must!Join)
  IN  /\ p # q
      /\ must' = [must EXCEPT ![p] = joined, ![q] = joined]
      /\ UNCHANGED age

MustNext ==
  /\ analysis = "MUST" /\ UNCHANGED analysis
  /\ \/ \E p \in Path, addr \in Address, cac \in CAC : MustAccess(p, addr, cac)
     \/ \E p \in Path, addrs \in (SUBSET Address) \ {{}}, cac \in CAC :
           MustAccessOneOf(p, addrs, cac)
     \/ \E p, q \in Path : MustMerge(p, q)
-----------------------------------------------------------------------------
(* The analysis takes a line it has not seen to be uncached. *)
MayInit ==
  /\ analysis = "MAY"
  /\ ColdStart
  /\ may = [p \in Path |-> EmptyCache(May!Empty)]

(* An instruction fetch, or a data access with one possible address. *)
MayAccess(p, addr, cac) ==
  /\ may' = [may EXCEPT ![p] =
                UpdateLine(@, addr, cac, May!Update, May!Join)]
  /\ Reach(p, {addr}, cac)

(* A data access somewhere in addrs. *)
MayAccessOneOf(p, addrs, cac) ==
  /\ may' = [may EXCEPT ![p] = UpdateLines(@, addrs, cac, May!Update,
                                             May!UpdateSet, May!Join)]
  /\ Reach(p, addrs, cac)

(* The control flow of p and q meets. *)
MayMerge(p, q) ==
  LET joined == JoinCaches(may[p], may[q], May!Join)
  IN  /\ p # q
      /\ may' = [may EXCEPT ![p] = joined, ![q] = joined]
      /\ UNCHANGED age

MayNext ==
  /\ analysis = "MAY" /\ UNCHANGED analysis
  /\ \/ \E p \in Path, addr \in Address, cac \in CAC : MayAccess(p, addr, cac)
     \/ \E p \in Path, addrs \in (SUBSET Address) \ {{}}, cac \in CAC :
           MayAccessOneOf(p, addrs, cac)
     \/ \E p, q \in Path : MayMerge(p, q)
-----------------------------------------------------------------------------
(* What was cached when the loop is entered does not matter: the age of a  *)
(* line accessed since then only depends on the accesses since then.       *)
PsInit ==
  /\ analysis = "PS"
  /\ ColdStart
  /\ ps = [p \in Path |-> EmptyCache(Ps!Empty)]
  /\ loaded = [p \in Path |-> {}]
  /\ since = [p \in Path |-> [b \in Line |-> {}]]

Remember(p, addr) ==
  LET a == computeStartLine(addr)
  IN  /\ loaded' = [loaded EXCEPT ![p] = @ \cup {a}]
      /\ since' = [since EXCEPT ![p] =
            [b \in Line |->
               IF b = a THEN {}
               ELSE IF b \in loaded[p] /\ computeSet(b) = computeSet(a)
                 THEN since[p][b] \cup {a}
               ELSE since[p][b]]]

ReachAndRemember(p, addrs, cac) ==
  \/ /\ cac # "N"
     /\ \E addr \in addrs : Touch(p, addr) /\ Remember(p, addr)
  \/ cac # "A" /\ UNCHANGED <<age, loaded, since>>

(* An instruction fetch, or a data access with one possible address. *)
PsAccess(p, addr, cac) ==
  /\ ps' = [ps EXCEPT ![p] = UpdateLine(@, addr, cac, Ps!Update, Ps!Join)]
  /\ ReachAndRemember(p, {addr}, cac)

(* A data access somewhere in addrs. *)
PsAccessOneOf(p, addrs, cac) ==
  /\ ps' = [ps EXCEPT ![p] = UpdateLines(@, addrs, cac, Ps!Update,
                                         Ps!UpdateSet, Ps!Join)]
  /\ ReachAndRemember(p, addrs, cac)

(* The control flow of p and q meets. *)
PsMerge(p, q) ==
  LET joined == JoinCaches(ps[p], ps[q], Ps!Join)
  IN  /\ p # q
      /\ ps' = [ps EXCEPT ![p] = joined, ![q] = joined]
      /\ UNCHANGED <<age, loaded, since>>

PsNext ==
  /\ analysis = "PS" /\ UNCHANGED analysis
  /\ \/ \E p \in Path, addr \in Address, cac \in CAC : PsAccess(p, addr, cac)
     \/ \E p \in Path, addrs \in (SUBSET Address) \ {{}}, cac \in CAC :
           PsAccessOneOf(p, addrs, cac)
     \/ \E p, q \in Path : PsMerge(p, q)
-----------------------------------------------------------------------------
mustVars == must
mayVars == may
psVars == <<ps, loaded, since>>
vars == <<analysis, age, mustVars, mayVars, psVars>>

NoMust == must = <<>>
NoMay == may = <<>>
NoPs == ps = <<>> /\ loaded = <<>> /\ since = <<>>

Init ==
  \/ MustInit /\ NoMay /\ NoPs
  \/ MayInit /\ NoMust /\ NoPs
  \/ PsInit /\ NoMust /\ NoMay

Next ==
  \/ MustNext /\ UNCHANGED <<mayVars, psVars>>
  \/ MayNext /\ UNCHANGED <<mustVars, psVars>>
  \/ PsNext /\ UNCHANGED <<mustVars, mayVars>>

Spec == Init /\ [][Next]_vars

(* The executions play the same part: a symmetry for TLC. *)
PathSymmetry == Permutations(Path)
-----------------------------------------------------------------------------
(* Every variable has its type. *)
MustTypeOK ==
  /\ age \in [Path -> Lru!Ages]
  /\ must \in [Path -> [CacheSet -> Must!Contents]]

(* The assertions of MUST::Update (contents[0].size() <= 1), and the       *)
(* disjointness of the ways that the erase loops and the toggling of       *)
(* MUST::Join take for granted, hold in every MUST set the analyses build. *)
MustWellFormed ==
  analysis = "MUST" =>
    \A p \in Path, s \in CacheSet : Must!WellFormed(must[p][s])

(* On every path, a line that MUST::Absent denies being absent is cached,  *)
(* and at most as old as MUST::GetAge says: the accesses classified        *)
(* "always hit" hit, whatever path the program took.                       *)
MustSound ==
  analysis = "MUST" =>
    \A p \in Path, a \in Line :
       LET c == must[p][computeSet(a)]
       IN  ~ Must!Absent(c, a) => /\ Lru!Cached(age[p], a)
                                  /\ age[p][a] <= Must!GetAge(c, a)

(* Every variable has its type. *)
MayTypeOK ==
  /\ age \in [Path -> Lru!Ages]
  /\ may \in [Path -> [CacheSet -> May!Contents]]

(* The ways of a MAY set are disjoint: the erase loops of MAY::Update stop *)
(* at the first way that holds the line, and a line held twice would make  *)
(* the toggling of MAY::Join count it wrongly.                             *)
MayWellFormed ==
  analysis = "MAY" =>
    \A p \in Path, s \in CacheSet : May!WellFormed(may[p][s])

(* MUST and MAY sets stay well formed, whatever sequence of updates and    *)
(* joins has built them: the loops of Cache.cc never meet a set they were  *)
(* not written for.                                                        *)
SetsWellFormed == MustWellFormed /\ MayWellFormed

(* On every path, a line that MAY::Absent reports is not cached: the       *)
(* accesses classified "always miss" miss, whatever path the program took. *)
MaySound ==
  analysis = "MAY" =>
    \A p \in Path, a \in Line :
       May!Absent(may[p][computeSet(a)], a) => ~ Lru!Cached(age[p], a)

(* The assertions of PS::Absent and PS::GetAge ("check for evicted") hold  *)
(* in every persistence set the analyses build.                            *)
PsWellFormed ==
  \A p \in Path, s \in CacheSet : Ps!WellFormed(ps[p][s])

(* A line some path has accessed is in the map or evicted, and the map's   *)
(* conflicts cover every line accessed since.                              *)
NoAccessForgotten ==
  \A p \in Path : \A b \in loaded[p] :
     LET c == ps[p][computeSet(b)]
     IN  \/ b \in c.evicted
         \/ b \in c.present /\ since[p][b] \subseteq c.conflicts[b]

(* The persistence sets forget no access since the loop was entered, and   *)
(* the assertions of PS::Absent and PS::GetAge ("check for evicted") hold. *)
ConflictsCovered == analysis = "PS" => PsWellFormed /\ NoAccessForgotten

(* On every path, a line that PS::Absent denies being absent is still      *)
(* cached once it was accessed: an access classified "first miss" misses   *)
(* at most once.                                                           *)
PersistenceSound ==
  analysis = "PS" =>
    \A p \in Path : \A b \in loaded[p] :
       ~ Ps!Absent(ps[p][computeSet(b)], b) => Lru!Cached(age[p], b)
=============================================================================
