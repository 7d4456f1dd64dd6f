--------------------------------- MODULE MMU ---------------------------------
(***************************************************************************)
(* The memory accesses of the simulator (class MMU of mmu.cc) that replays *)
(* the analysed program: address translation through the page table, two   *)
(* levels of instruction caches, and the statistics the estimates are      *)
(* compared with.  The contents of the memory are left out.                *)
(***************************************************************************)
EXTENDS Integers, FiniteSetsExt

CONSTANTS
  VirtAddr,                         \* addresses the program uses
  PageSize, NumPhysPages,           \* of the simulated machine
  nb_sets, nb_ways, cacheline_size, \* geometry of the caches of levels 1, 2
  MaxUse                            \* bound on the fetches

ASSUME MachineAssumption ==
  /\ IsFiniteSet(VirtAddr) /\ VirtAddr \subseteq Nat
  /\ PageSize \in Nat \ {0} /\ PageSize % 4 = 0 /\ NumPhysPages \in Nat
  /\ \A l \in {1, 2} : {nb_sets[l], nb_ways[l], cacheline_size[l]} \subseteq Nat \ {0}

VARIABLES
  page_table,   \* entry of every virtual page
  dirty,        \* physical pages written to
  icache,       \* the two caches
  icacheL2,
  stats         \* per address: hits and misses of each level

mmuVars == <<page_table, dirty, icache, icacheL2, stats>>

Cache(l) == INSTANCE ICache WITH nbSets <- nb_sets[l], nbWays <- nb_ways[l],
                                lineSize <- cacheline_size[l]

Vpn == {va \div PageSize : va \in VirtAddr}

Unmapped == [readAllowed |-> FALSE, writeAllowed |-> FALSE, physicalPage |-> -1]

Mapped(vpn) ==
  vpn \in DOMAIN page_table /\ (page_table[vpn].readAllowed \/ page_table[vpn].writeAllowed)

(* AddrSpace::AddrSpace loads every section of the program into pages of   *)
(* its own; get_new_page takes them from the free list, first page first,  *)
(* in the order of the sections, which is any order of their addresses.    *)
PageTables ==
  {t \in [Vpn -> {Unmapped} \cup [readAllowed : {TRUE}, writeAllowed : BOOLEAN,
                                  physicalPage : 0 .. NumPhysPages - 1]] :
     LET mapped == {vpn \in Vpn : t[vpn] # Unmapped}
     IN  {t[vpn].physicalPage : vpn \in mapped} = 0 .. Cardinality(mapped) - 1}

Exception(va, size, writing) ==
  CASE va % size # 0 -> "BusErrorException"
    [] va % size = 0 /\ ~ Mapped(va \div PageSize) -> "AddressErrorException"
    [] va % size = 0 /\ Mapped(va \div PageSize)
         /\ writing /\ ~ page_table[va \div PageSize].writeAllowed -> "ReadOnlyException"
    [] OTHER -> "NoException"

physAddr(va) ==
  page_table[va \div PageSize].physicalPage * PageSize + (va % PageSize)

(* incrNbHits, incrNbMisses, incrNbHitsL2, incrNbMissesL2. *)
One(b) == IF b THEN 1 ELSE 0

Counted(va, hit, hitL2) ==
  [stats EXCEPT ![va] = [hitL1  |-> @.hitL1 + One(hit),
                         missL1 |-> @.missL1 + One(~ hit),
                         hitL2  |-> @.hitL2 + One(~ hit /\ hitL2),
                         missL2 |-> @.missL2 + One(~ hit /\ ~ hitL2)]]

(* Mutant of Fetch: the second level sees the hits of the first. *)
FetchBoth(va) ==
  LET pa == physAddr(va)
  IN  /\ icache' = Cache(1)!LoadLine(icache, pa)
      /\ icacheL2' = Cache(2)!LoadLine(icacheL2, pa)
      /\ stats' = Counted(va, Cache(1)!Hit(icache, pa), Cache(2)!Hit(icacheL2, pa))

(* Level 2 is looked up when level 1 misses. *)
Fetch(va) ==
  LET pa  == physAddr(va)
      hit == Cache(1)!Hit(icache, pa)
  IN  /\ icache' = Cache(1)!LoadLine(icache, pa)
      /\ icacheL2' = IF hit THEN icacheL2 ELSE Cache(2)!LoadLine(icacheL2, pa)
      /\ stats' = Counted(va, hit, Cache(2)!Hit(icacheL2, pa))

(* ReadMem of an instruction that raises no exception. *)
FetchInstruction(va) == icache.lastUse < MaxUse /\ Fetch(va)

(* What ReadMem and WriteMem leave of some accesses to data, one after the *)
(* other until an exception.  Reads leave the use bit of a page set, as    *)
(* get_new_page left it, and the cache alone.                              *)
Failing(accesses) ==
  {i \in DOMAIN accesses :
     Exception(accesses[i].va, accesses[i].size, accesses[i].writing) # "NoException"}

AccessData(accesses) ==
  dirty' = dirty \cup {physAddr(accesses[i].va) \div PageSize :
                        i \in {j \in DOMAIN accesses : /\ accesses[j].writing
                                                      /\ \A k \in Failing(accesses) : j < k}}

(* The statistics and the caches before the first instruction. *)
MmuInit ==
  /\ dirty = {}
  /\ icache = Cache(1)!Empty /\ icacheL2 = Cache(2)!Empty
  /\ stats = [va \in VirtAddr |-> [hitL1 |-> 0, missL1 |-> 0, hitL2 |-> 0, missL2 |-> 0]]

(* What the MMU does for a program, whatever the program is: it fetches an *)
(* instruction, and does what it does to data.                             *)
MmuNext ==
  \E va \in VirtAddr :
     /\ Exception(va, 4, FALSE) = "NoException"
     /\ FetchInstruction(va)
     /\ dirty' \in SUBSET (0 .. NumPhysPages - 1)
     /\ UNCHANGED page_table

MmuSpec == page_table \in PageTables /\ MmuInit /\ [][MmuNext]_mmuVars
-----------------------------------------------------------------------------
Total(counter) == MapThenSumSet(LAMBDA va : stats[va][counter], VirtAddr)

(* The statistics account for every access of both levels, and level 2 is  *)
(* accessed once for every miss of level 1.                                *)
StatisticsExact ==
  /\ Total("hitL1") + Total("missL1") = icache.lastUse
  /\ Total("hitL2") + Total("missL2") = icacheL2.lastUse
  /\ \A va \in VirtAddr : stats[va].missL1 = stats[va].hitL2 + stats[va].missL2

(* The age of a line: the lines of its set used since, or the number of    *)
(* ways when it is not cached.                                             *)
Age(c, l, line) ==
  LET set  == c.cacheLines[(line \div cacheline_size[l]) % nb_sets[l]]
      ways == 0 .. nb_ways[l] - 1
      in   == {j \in ways : set[j].valid /\ set[j].physaddress = line}
  IN  IF in = {} THEN nb_ways[l]
      ELSE Cardinality({k \in ways : /\ set[k].valid
                                     /\ \E j \in in : set[k].lastUse > set[j].lastUse})

(* Fetches are aligned on words. *)
PhysAddr == {4 * word : word \in 0 .. (NumPhysPages * PageSize) \div 4 - 1}

LinesOf(l) == {pa - (pa % cacheline_size[l]) : pa \in PhysAddr}

(* The dates of use implement LRU: the simulated hierarchy hits and misses *)
(* exactly when the one the analyses reason about does.                    *)
Hierarchy == INSTANCE LruHierarchy WITH
  Address <- PhysAddr,
  age     <- <<[b \in LinesOf(1) |-> Age(icache, 1, b)],
               [b \in LinesOf(2) |-> Age(icacheL2, 2, b)]>>,
  misses  <- <<Total("missL1"), Total("missL2")>>

ImplementsLru == Hierarchy!Spec
=============================================================================
