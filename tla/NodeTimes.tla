------------------------------ MODULE NodeTimes ------------------------------
(***************************************************************************)
(* The times of the nodes of a program: with caches alone, what the        *)
(* statistics count, and in a pipeline.                                    *)
(*                                                                         *)
(* The time of a node at its first and at its next executions, from the    *)
(* cache classifications of its instructions.  An instruction is a record: *)
(* what it does, its classification at each level of instruction cache     *)
(* and, for a load, its classification and the number of memory blocks it  *)
(* may access at each level of data cache.  In a pipeline it has a latency *)
(* and the operands it reads and writes.                                   *)
(***************************************************************************)
EXTENDS ProgramRun

CONSTANTS
  NbLevels,                       \* NbICacheLevels = NbDCacheLevels
  levelAccessCostInstr, levelAccessCostData,
  MemoryLoadLatency, MemoryStoreLatency,
  PerfectICacheLatency, PerfectDCacheLatency

VARIABLE caches                   \* [perfectIcache, perfectDcache, pipeline]

ASSUME LatenciesAssumption ==
  /\ NbLevels \in Nat \ {0}
  /\ levelAccessCostInstr \in [1 .. NbLevels -> Nat]
  /\ levelAccessCostData \in [1 .. NbLevels -> Nat]
  /\ {MemoryLoadLatency, MemoryStoreLatency, PerfectICacheLatency, PerfectDCacheLatency}
       \subseteq Nat

(* An instruction is classified at each level of instruction cache, and a  *)
(* load at each level of data cache, where it accesses some block.         *)
ASSUME InstructionsAssumption ==
  LET classifications == [1 .. NbLevels -> {"AH", "AM", "FM", "NC", "AU"}]
  IN  \A p \in Programs : \A f \in DOMAIN p.cfg : \A n \in ToSet(p.cfg[f].nodes) :
         LET is == p.cfg[f].instructions[n]
         IN  /\ is \in Seq(ToSet(is))
             /\ \A i \in DOMAIN is :
                  /\ is[i].code \in classifications
                  /\ is[i].kind = "load" => /\ is[i].data \in classifications
                                           /\ is[i].blocks \in [1 .. NbLevels -> Nat \ {0}]

(* The annotated times are numbers of cycles.                              *)
ASSUME TimesAssumption == \A p \in Programs : p.wcet \in [DOMAIN p.wcet -> Nat]

Levels == [l \in 1 .. NbLevels |-> l]
Instructions(c, n) == Cfg(c).instructions[n]
Lesser(i, j) == IF i < j THEN i ELSE j

(* Mutant of ComputeNodeFrequencyBound: the loops around the calls of the  *)
(* context are left out.                                                   *)
ComputeFrequencyInFunction(c, n) ==
  MapThenFoldSet(LAMBDA x, y : x * y, 1, LAMBDA l : l.maxiter,
                 LAMBDA S : CHOOSE x \in S : TRUE, {l \in Loops(Cfg(c)) : n \in l.nodes})

(* The product of the bounds of the loops around a node and around the     *)
(* calls of its context.                                                   *)
ComputeNodeFrequencyBound(c, n) ==
  LET around(d, m) == {<<d, l>> : l \in {k \in Loops(Cfg(d)) : m \in k.nodes}}
      loops == around(c, n) \cup
               UNION {around(contexts[d].caller, contexts[d].node) : d \in Ancestors(c) \ {1}}
  IN  MapThenFoldSet(LAMBDA x, y : x * y, 1, LAMBDA dl : dl[2].maxiter,
                     LAMBDA S : CHOOSE x \in S : TRUE, loops)

(* Mutant of InstructionCacheLevel: a first miss is taken for a hit at the *)
(* first execution too.                                                    *)
InstructionCacheLevelHit(code, t, l) ==
  LET if(b, cost) == IF b THEN cost ELSE 0
      memory(classes) == if(l = NbLevels /\ code[l] \in classes, MemoryLoadLatency)
  IN  [t EXCEPT
         !.first = @ + if(t.countFirst, levelAccessCostInstr[l] + memory({"AM", "NC", "FM"})),
         !.next = @ + if(t.countNext, levelAccessCostInstr[l] + memory({"AM", "NC"})),
         !.countFirst = @ /\ code[l] \notin {"AH", "FM"},
         !.countNext = @ /\ code[l] \notin {"AH", "FM"}]

(* One level of instruction cache: its latency is paid as long as no level *)
(* before it surely holds the line, at the next executions as long as none *)
(* keeps it after the first.                                               *)
InstructionCacheLevel(code, t, l) ==
  LET if(b, cost) == IF b THEN cost ELSE 0
      memory(classes) == if(l = NbLevels /\ code[l] \in classes, MemoryLoadLatency)
  IN  [t EXCEPT
         !.first = @ + if(t.countFirst, levelAccessCostInstr[l] + memory({"AM", "NC", "FM"})),
         !.next = @ + if(t.countNext, levelAccessCostInstr[l] + memory({"AM", "NC"})),
         !.countFirst = @ /\ code[l] # "AH",
         !.countNext = @ /\ code[l] \notin {"AH", "FM"}]

DataCacheLevel_latency(t, cost, updateNext) ==
  IF t.always
  THEN [t EXCEPT !.first = @ + cost, !.next = @ + (IF updateNext THEN cost ELSE 0)]
  ELSE IF t.never THEN t
  ELSE [t EXCEPT !.first = @ + cost * t.occurrences]

(* How a load uses the next level: never, always, or a bounded number of   *)
(* times.                                                                  *)
DataCacheLevel_NextLevel(t, class, memBlock, frequency) ==
  LET never == t.never \/ class = "AH"
      always == t.always /\ class \in {"AM", "NC"}
  IN  [t EXCEPT
         !.never = never,
         !.always = always,
         !.occurrences = IF never THEN 0
                         ELSE IF always THEN Lesser(memBlock, frequency)
                         ELSE IF class = "FM" THEN Lesser(memBlock, @)
                         ELSE @]

DataCacheLevel(i, t, l, frequency) ==
  LET class == i.data[l]
      accessed == DataCacheLevel_NextLevel(
                    DataCacheLevel_latency(t, levelAccessCostData[l], TRUE),
                    class, i.blocks[l], frequency)
  IN  IF class = "AU" THEN [t EXCEPT !.always = FALSE, !.never = TRUE]
      ELSE IF l < NbLevels THEN accessed
      ELSE DataCacheLevel_latency(accessed, MemoryLoadLatency, class \in {"AM", "NC"})

-----------------------------------------------------------------------------
Time(first, next) == [first |-> first, next |-> next]
Plus(s, t) == Time(s.first + t.first, s.next + t.next)

FetchTime(i) ==
  FoldLeft(LAMBDA t, l : InstructionCacheLevel(i.code, t, l),
           [first |-> 0, next |-> 0, countFirst |-> TRUE, countNext |-> TRUE], Levels)

StoreTime(i) ==
  IF i.kind = "store" THEN Time(MemoryStoreLatency, MemoryStoreLatency) ELSE Time(0, 0)

LoadTime(i, frequency) ==
  IF i.kind # "load" THEN Time(0, 0)
  ELSE FoldLeft(LAMBDA t, l : DataCacheLevel(i, t, l, frequency),
                [first |-> 0, next |-> 0, always |-> TRUE, never |-> FALSE,
                 occurrences |-> 1], Levels)

InstructionTime(i, frequency) ==
  LET perfect(latency) == Time(latency, latency)
  IN  IF caches.perfectIcache /\ caches.perfectDcache
      THEN perfect(PerfectICacheLatency)
      ELSE IF caches.perfectDcache
      THEN Plus(perfect(PerfectDCacheLatency), FetchTime(i))
      ELSE Plus(IF caches.perfectIcache THEN perfect(PerfectICacheLatency) ELSE FetchTime(i),
                Plus(StoreTime(i), LoadTime(i, frequency)))

NodeExecutionTime(c, n) ==
  FoldLeft(LAMBDA t, i : Plus(t, InstructionTime(i, ComputeNodeFrequencyBound(c, n))),
           Time(0, 0), Instructions(c, n))
-----------------------------------------------------------------------------
(* What the cache statistics count: the references to a cache and its      *)
(* misses, for an instruction whose node is executed frequency times.      *)
(* A cache is "code" or "data" with a level.                               *)
getCHMC(i, type, l) == IF type = "code" THEN i.code[l] ELSE i.data[l]

(* Mutant of countAccessedBlocks: the blocks of a load are not counted.    *)
countOneBlock(i, type, l) == 1

(* An instruction is in one memory block.                                  *)
countAccessedBlocks(i, type, l) == IF type = "code" THEN 1 ELSE i.blocks[l]

getOccurrencesCount(frequency, i, type, level) ==
  LET after(previous, l) ==
        CASE getCHMC(i, type, l) \in {"AM", "NC"} -> previous
          [] getCHMC(i, type, l) = "FM" -> Lesser(previous, countAccessedBlocks(i, type, l))
          [] OTHER -> 0
  IN  FoldLeft(after, frequency, [l \in 1 .. level - 1 |-> l])

MissesCount(frequency, i, type, l) ==
  LET occurrences == getOccurrencesCount(frequency, i, type, l)
  IN  CASE getCHMC(i, type, l) \in {"AM", "NC"} -> occurrences
        [] getCHMC(i, type, l) = "FM" -> Lesser(occurrences, countAccessedBlocks(i, type, l))
        [] OTHER -> 0
-----------------------------------------------------------------------------
(* The times of the nodes in an in-order pipeline, and how much of them    *)
(* consecutive nodes overlap.  A block is scheduled an instruction at a    *)
(* time; an instruction in the pipeline is a record of the ticks at which  *)
(* it is fetched, executed and written back, with its results.  There is   *)
(* one functional unit.  MIPS has four stages; FLEXPRET has one more       *)
(* between the execution and the write back, and its code in a scratchpad. *)

(* FLEXPRETPipelineAnalysis has every instruction hit at the first level.  *)
InitializeCHMCAttributesToAH(i) ==
  IF caches.pipeline = "FLEXPRET" THEN [i.code EXCEPT ![1] = "AH"] ELSE i.code

getICacheLatency(l) ==
  IF caches.perfectIcache THEN PerfectICacheLatency ELSE levelAccessCostInstr[l]

getFetchLatency(i, first) ==
  LET missing == {"AM", "NC"} \cup (IF first THEN {"FM"} ELSE {})
      code == InitializeCHMCAttributesToAH(i)
      reached == {l \in DOMAIN code : \A k \in 1 .. l - 1 : code[k] \in missing}
  IN  MapThenSumSet(getICacheLatency, reached)
      + (IF \A l \in DOMAIN code : code[l] \in missing THEN MemoryLoadLatency ELSE 0)

-----------------------------------------------------------------------------
Scheduled(i, fetch, exec, wb) == [fetch |-> fetch, exec |-> exec, wb |-> wb, out |-> i.out]
AfterExecution == IF caches.pipeline = "FLEXPRET" THEN 2 ELSE 1

scheduleFirstInst(i, latency) ==
  LET exec == latency + 1 + i.lat
  IN  <<Scheduled(i, latency, exec, exec + AfterExecution)>>

(* The operands of an instruction come from the last one that writes any   *)
(* of them, at its write back: a result that is bypassed is written then   *)
(* too, and the later tick counts.                                         *)
getDependencies(IP, inputs) ==
  LET sources == {k \in DOMAIN IP : IP[k].out \cap inputs # {}}
  IN  IF sources = {} THEN 0 ELSE IP[Max(sources)].wb

checkAvaliability(IP) == Max({IP[k].exec : k \in DOMAIN IP})

(* The cycles an instruction waits for its operands or for the unit: none  *)
(* if both are free at the same tick.                                      *)
execLat(IP, i, ready) ==
  LET depTick == getDependencies(IP, i.in)
      FUTick == checkAvaliability(IP)
  IN  IF depTick = FUTick THEN 0 ELSE Max({0, Max({depTick, FUTick}) - ready})

(* The latency of an instruction counts in the first place of a block only.*)
scheduleNextInstMIPS(IP, i, latency) ==
  LET fetch == Last(IP).fetch + latency
      exec == fetch + 1 + execLat(IP, i, fetch + 3) + 1
      next == Last(IP).wb + 1
  IN  Append(IP, Scheduled(i, fetch, exec, IF next < exec THEN exec + 1 ELSE next))

(* Waiting and executing overlap.                                          *)
scheduleNextInstFLEXPRET(IP, i, latency) ==
  LET fetch == Last(IP).fetch + latency
      exec == fetch + 1 + Max({i.lat, execLat(IP, i, fetch + 2) + 1})
  IN  Append(IP, Scheduled(i, fetch, exec, Max({exec + 2, Last(IP).wb + 1})))

scheduleInst(IP, i, latency) ==
  IF IP = <<>> THEN scheduleFirstInst(i, latency)
  ELSE IF caches.pipeline = "FLEXPRET" THEN scheduleNextInstFLEXPRET(IP, i, latency)
  ELSE scheduleNextInstMIPS(IP, i, latency)

scheduleNode(IP, c, n, first) ==
  FoldLeft(LAMBDA ip, i : scheduleInst(ip, i, getFetchLatency(i, first)), IP, Instructions(c, n))

-----------------------------------------------------------------------------
computeBB(c, n, first) == Last(scheduleNode(<<>>, c, n, first)).wb

(* What two nodes in a row take more than each of them alone.              *)
Delta(c, pred, predFirst, d, dest, destFirst) ==
  Last(scheduleNode(scheduleNode(<<>>, c, pred, predFirst), d, dest, destFirst)).wb
  - computeBB(c, pred, predFirst) - computeBB(d, dest, destFirst)

computeCallDelta(c, n, first) ==
  LET d == getCalleeContext(c, n)
  IN  Delta(c, n, first, d, Cfg(d).start, first)

(* Mutant of computeReturnDelta: the best of the ends of the callee.       *)
computeBestReturnDelta(c, n, first) ==
  LET d == getCalleeContext(c, n)
      return == CHOOSE m \in Successors(Cfg(c).edges, n) : TRUE
  IN  Min({Delta(d, e, first, c, return, first) : e \in Cfg(d).ends})

(* The worst of the ends of the callee.                                    *)
computeReturnDelta(c, n, first) ==
  LET d == getCalleeContext(c, n)
      return == CHOOSE m \in Successors(Cfg(c).edges, n) : TRUE
  IN  Max({Delta(d, e, first, c, return, first) : e \in Cfg(d).ends})
=============================================================================
