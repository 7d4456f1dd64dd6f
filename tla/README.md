# Verification of Heptane

Heptane bounds the worst-case execution time (WCET) of a program from its
binary. `HeptaneExtract` rebuilds the control-flow graphs from the
disassembly, with their loops; `HeptaneAnalysis` runs a sequence of analyses
on them (contexts, addresses, caches, pipeline, then an integer program for the
longest path); a simulator of a MIPS with two levels of instruction caches
replays the program to compare. Everything is sequential: what is hard here
is not concurrency but that every answer must hold for all the paths of the
analysed program, whatever order the fixed points, joins and updates come in.

This directory holds TLA+ models of the parts that decide whether the bound is
a bound, TLC configurations that check them on small instances, and proofs
(TLAPS) of the properties that matter most for all values of the parameters.

## 1. Inventory

| part | code | state | operations |
|---|---|---|---|
| abstract cache sets | `CacheAnalysis/Cache.{h,cc}` | per cache set: lines by age (MUST, MAY), or conflicts of the lines present and the lines evicted (PS) | Update (one address or several), Join, Absent, GetAge |
| instruction cache analysis | `CacheAnalysis/ICacheAnalysis.cc` | attributes of nodes and instructions: ACS_in, ACS_out, access classification, hit/miss classification | fixed points of MUST (two steps), PS, MAY; classification; next level |
| data cache analysis | `CacheAnalysis/DCacheAnalysis.cc` | the same, on loads | the same, with sets of addresses |
| copy-on-write pointers | `Generic/cow_ptr.h` | shared objects and their counters | copy, assign, write, reset, destroy |
| CFG extraction | `HeptaneExtract.cc`, `switchAnalysis.cc` | symbol table, instructions, words, starts of blocks, successors of the function being parsed | one step per line of the disassembly |
| dominators and loops | `dominatorAnalysis.cc`, `loopAnalysis.cc` | dominators per node, loops of a graph | passes, detection of heads, walk back from the back edges |
| call graph | `utl/CallGraph.cc` | elements and callees | construction, cyclicity, dead code |
| contexts | `Generic/Context*.cc`, `AnalysisHelper.cc` | tree of call contexts | contextual successors and predecessors |
| cache statistics | `CacheStatistics.cc` | counts per cache | occurrences of an access at a level |
| IPET | `IPETAnalysis/*.cc` | constraints | frequencies, latencies, the solver |
| pipeline | `PipelineAnalysis/*.cc` | reservation tables | insertion of an instruction, cost of a node and of an edge |
| data addresses | `DataAddressAnalysis/*.cc` | frame of each function, sp of each context, abstract registers and stack before and after each node | frames, one transfer function per mnemonic, joins, two fixed points, ranges of loads and stores |
| SESE regions | `SESEAnalysis/*.cc` | bracket lists | cycle equivalence |
| configuration | `Generic/Config.cc`, `main.cc` | architecture, list of analyses | read, execute |
| cfglib, attributes, utilities | `Common/*` | graphs with attributes | edit, (un)serialise |
| instruction sets | `Common/ArchitectureDependent` | one table of mnemonics and one of formats per architecture | match, type, registers read and written, memory access, target, words |
| simulator | `tools/cache_simulator/simul` | page table, caches, statistics, registers | fetch, read, write, execute |

How they interact. `HeptaneExtract` calls the dominators and the loops on every
graph and writes an XML file. `HeptaneAnalysis` reads it; each analysis checks
the attributes it needs, adds its own and removes its private ones
(`Analysis::CheckPerformCleanup`). The cache analyses read the contexts and the
loops, keep one `AbstractCache` per contextual node in attributes, and their
sets in copy-on-write pointers, so that thousands of states share most of their
sets. The classification of accesses at level *l* decides what level *l+1* is
told to expect. IPET and the statistics read the classifications.

What is hard, and what makes each part correct:

- *abstract sets*: MUST must never promise a line that is not cached, MAY never
  forget one that is, PS never call persistent a line that was evicted, after
  any sequence of certain, uncertain and imprecise accesses and joins;
- *the analysis*: its work lists must end, on a fixed point, and its
  classifications hold on every execution, at every level;
- *sharing*: a write through one pointer may not change another node's state;
- *loops*: dominators are computed by at most 20 passes in whatever order the
  nodes were created; the loops must be the natural loops;
- *simulator*: it must be the hardware the analyses reason about;
- *extraction*: every execution of a function is a path of its graph, whatever
  jumps, delay slots, switches and labels its text has, and the graph has no
  edge that the code cannot take;
- *contexts*: no execution without a context; one step of an execution is one
  step between contextual nodes, in both directions the analyses move;
- *data addresses*: every load and store accesses an address of the range it is
  given in its context, although the states of the nodes are shared objects that
  the analysis changes in place, and the rounds end;
- *IPET and statistics*: what any execution counts satisfies the linear
  constraints, and its time and its misses are at most what the objective and
  the statistics charge, whatever the caches answer.

`PROJECT.json` lists every component with its status, and under "hazards" the
places where the code can go wrong in ways a benchmark would hardly show.

## 2. Modules

| module | models | interface to the code |
|---|---|---|
| `MUST`, `MAY`, `PS` | the three abstract sets | one operator per method of `Cache.cc`; a set is a function from ways to sets of lines, or the records `present`, `conflicts`, `evicted` |
| `AbstractCache` | the template of `Cache.h` | address to line and set; the methods of `T` are operator parameters |
| `LRU`, `Caches` | the hardware cache; with the three abstract caches of the same geometry | ages of lines |
| `Executions`, `AbstractCaches` | paths with a cache each and one abstract cache per path, of the analysis chosen at the start | actions `...Access`, `...AccessOneOf`, `...Merge` = `Update` (one address, several), `Join` |
| `CacheLemmas`, `AbstractCacheProofs` | proofs about `AbstractCaches` and `CopyOnWrite` | |
| `ControlFlow`, `Lemmas` | reachability, dominators, back edges, natural loops; what is proved of them, and of sums | reference only |
| `ICacheAnalysis`, `ICacheAnalysisProofs` | `ICacheAnalysis.cc` at one level of the hierarchy, and the execution of the program it analysed | actions below |
| `DCacheAnalysis`, `DCacheAnalysisProofs` | `DCacheAnalysis.cc` and the same | actions below |
| `CopyOnWrite` | `cow_ptr.h` | one action per method that changes state |
| `Cells` | abstract: independent variables | refined by `CopyOnWrite` |
| `LoopDetection`, `ToolProofs` | `dominatorAnalysis.cc`, `loopAnalysis.cc` | `Visit`, `EndPass` (dominators), `Detect`, `AddNode`, `Finish` (loops) |
| `InstructionFormat` | `InstructionFormat.cc` | one operator per class of formats: the operands accepted, the resources read and written |
| `InstructionSets` | `MIPS.cc`, `ARM.cc`, `MSP430.cc`, `RISCV.cc`, `FLEXPRET.cc`, `InstructionType.cc`, `arch.cc` | the tables, the methods of ARM that look into operands, and the questions the other parts ask of any architecture |
| `ObjdumpParser` | what these files and `SymbolTableAttribute.cc` read in the output of readelf and objdump | one operator per method: sections, functions, variables |
| `ProgramXml` | `WriteXml` and `ReadXml` of cfglib, `Handle.cc` | a program as a file, and back |
| `CfgExtraction` | `HeptaneExtract.cc`, `switchAnalysis.cc`, and the execution of the code parsed | `ReadHeaders`, `FindWords`, `CreateCfgs`, `ParseFunction`, `ParseInstruction` (a line each), `Finish`, `exportCfg`; then `unserialise_program_file`, `Enter`, `Execute` |
| `ICache`, `MMU`, `ToolProofs` | the simulated caches and `mmu.cc` | operators: `FetchInstruction` and `AccessData` are `ReadMem` and `WriteMem` |
| `Processor` | `mipssim.cc`, `mipssim.h`, the start in `main.cc` | `Run` (one instruction: fetch, decoding, effect, delayed load), `RaiseException` |
| `LruHierarchy` | abstract: two levels of LRU caches | refined by `MMU`; built on the same `LRU` and `AbstractCache` as the analyses |
| `CallGraph` | `utl/CallGraph.cc` | `AddCallee`, `ScanKnownCall`, `EndBuild` (construction), `TestCycles` |
| `ProgramRun` | `Context.cc`, `ContextHelper.cc`, and the executions of a program within its loop bounds (external) | `Explore`, `initialise`; the queries are operators |
| `NodeTimes` | the times and the statistics computed from classifications; `PipelineAnalysis.cc`, its MIPS and FLEXPRET classes, `InstructionPipeline.cc` | operators: a schedule is a sequence of instructions with their ticks |
| `IPET`, `IPETProofs`, `IPETBoundsProofs` | `IPETAnalysis.cc`, and the cost of an execution | `FlowConstraints`, ... are sets of constraints; `Traverse` counts |
| `RegState` | `RegState.cc`, `MIPSRegState.cc`, `AbstractRegMem.h` | abstract values, joins, one case per kind of instruction (`simulate`) |
| `AddressAnalysis` | `StackAnalysis.cc`, `AddressAnalysis.cc`, `MIPSAddressAnalysis.cc`, and the processor that executes the program | `stackAnalysis`, `ComputeOut`, `updateRegistersAndStack_in`, `EndFixPoint`, `finalAddressAnalysis`; `ExecuteInstruction` |
| `MC*` | instances for TLC | |

`CallGraph`, `ProgramRun`, `NodeTimes` and `IPET` extend each other in this
order: one behaviour reads a program, builds its call graph, its contexts, and
then executes it beside the linear program. `AddressAnalysis` extends `ProgramRun`
likewise: it executes the instructions of the nodes as well.

**ICacheAnalysis.** `StartAnalysis` is initACSMUST / initACSPS / initACSMAY with
the first work list. A fixed point is rounds of two halves, as in the code:
`ComputeOut` (`..._ACS_out`, from the nodes to compute to the successors of
those that changed) and `ComputeIn` (`..._ACS_in`, back). The rounds follow all
edges (MUST, MAY), all but the back edges (first step of MUST) or those between
nodes of loops (PS). `Classify` is ClassifCHMCMust/PS/May for all nodes,
`EndAnalysis` is ClassifCHMCNC and ClassifCACNext. Then `Fetch` and `Branch` run
the program from its entry with a cold cache, along any path.
An instance is one level of the hierarchy. What the level before tells of each
access (always, never, perhaps, perhaps the first time only) is part of the program; an execution
decides within it which accesses arrive, and `AccessClassificationSound` says
that what the level tells the next one is as true as what it was told. The levels of a hierarchy
are a chain of instances. A perfect cache, which classifies without analysing, is left out.
A node stands for a contextual node, and a program for the graph of those; the
names and formats of attributes are left out. Only LRU is modelled: for other
policies the constructor passes another number of ways to the same classes.

**DCacheAnalysis** has the same rounds, on loads. A load has a sequence of ranges
of addresses, any of which an execution may read; `getDataAddress` gives the
lines, an update with several lines is the unpredictable one, and a line is
present only if all are. Stores do not touch the caches (write through, no
allocation). `BlocksMissOnce` states what IPET charges a first miss: each block
of the load misses at most once.

**InstructionFormat, InstructionSets.** A row of a table is a type,
a size of access, the formats and the mnemonics that match; regular expressions
over mnemonics are the sets they match (on ARM, a stem with suffixes and
conditions). An operand is a record with its form (word, number, bracket, list)
and its parts, never a string to parse. The order in which the code tries rows and
formats does not matter exactly when `Unambiguous` holds.

**CfgExtraction.** `ReadHeaders` reads the headers of the sections and the symbol
table; the variables and functions found in it are those of the sections that are
extracted. `FindWords` is the first reading (`getWordsFromInstr`): the words
after the code of an ARM function given to the loads that name them. Then a step
of the parser takes one line of the disassembly. A label (`ParseFunction`) builds the graph of the function before it (`build_heptane_cfg`), and the
parser's variables are emptied only if that function has a symbol, as in
the code. `Graph` is the two loops of `build_heptane_cfg`, blocks then edges, and
`cleanCfg`; `kernel` rewrites an access to several registers as one instruction for
each, at one address, of which the loop that adds the edges sees the first.
`Finish` builds the last function
and, if that succeeds, computes the switches given in the configuration.
Addresses count units of code, and a node is named by its first address; NULL
as the target of an edge is a jump out of the function. `Execute` is the
processor, delay slots included; calls return, and an execution that leaves the
function ends. `exportCfg` writes the program, whose loops are those of
`ControlFlow` (`LoopDetection` finds them), and `unserialise_program_file` reads what
the analyses are given: a file is the sequence of its tags, a pointer an identifier
that is looked up when everything is read. Left out: the command line, the disassembler, and
switches with an entry that leads straight to their end.

**LoopDetection.** The passes are one node at a time, in the order of
`GetAllNodes`, in place; the recursion of `computeLoop(loop, cfg, current)` is
the set of the nodes it is still called for (`todo`), walked in any order. Its
assumptions are what cfglib ensures: the nodes of a graph are distinct and its edges
are between them.

**MMU, Processor.** The page table is any the loader can build. A step is an
instruction: what it does is a record (`Effect`: the registers it writes, the
delayed load, the accesses, the next counter, an exception) computed from the
registers and the words it reads. Decoding follows the tables of `mipssim.h`; the
fields of an instruction have values of their own, though in a word they share
bits. Registers have `Width` bits. The contents of memory are left out, but for
the set of pages written: a load reads any of `Values`. What the floating-point
unit computes is a parameter: the flow of the words is what the model keeps. An
exception, or an assertion, ends the simulation. `MmuSpec` is what the MMU does for any
program: a step of `Processor` fetches an instruction and touches data, which is
a step of `MmuNext`, or leaves the MMU alone. TLC confirms it on the instance of
`simulator`; it is read off `Run` and `RaiseException`, not proved, as
`Processor` uses the operators on bits that the prover cannot take.

**CopyOnWrite.** A pointer holds an object or NULL; the heap maps the objects
allocated to their value and `ref_cnt_`. `Write` is a non-const dereference
(`copy()`) and the write the caller makes through it.

**CallGraph, ProgramRun.** A program is a set of functions with their graphs, the
functions they call and the bounds of their loops. The elements of the call
graph are built one call at a time; a callee already known gets an element
without callees, which `isCyclic` then does not follow. The code takes the calls of
a function in the order of its nodes, the model in any order, as nothing
depends on it. Contexts are explored in the order of creation.

**ProgramRun, NodeTimes, IPET.** An execution may take any path that respects `maxiter`:
passes through the head of a loop or, when the head is the test of a while
loop, entries from its tests into its body. `IPET` counts the nodes, the edges
and the calls it goes through, with its time when each access costs what the
caches may answer within its classification: always-hit hits, a first miss misses
once per block. The constraints and the objective are records and sums over
the same variables as the file given to the solver. The solver is
left out: `ConstraintsHold` and `TimeBounded` say that any
maximum it can return bounds the execution.

**Pipelines (NodeTimes).** The code schedules a node, or two nodes in a row, in an empty
pipeline, and the objective adds the times of the nodes and what two nodes take
more or less than each alone (the deltas of edges, calls and returns, split by
first and next executions). The reference is external: the same rule for the next
instruction, applied to everything the execution runs from its first
instruction to its last, with the fetch times its cache gives. That the first is
at least the second for every execution is `TimeBounded`. All latencies of
MIPS are 1 (`data/MIPSLatency.data`) and so they are in the programs; FLEXPRET has
latencies of 1 to 5 and its code in a scratchpad. The data cache is ignored in a
pipeline, as the tool says.

**RegState, AddressAnalysis.** The abstract value of a register is a base (number,
`lui`, `gp`, `sp`, unknown, another expression) with an offset, and whether it is
precise; words of the frame have one too. `MIPS_simulate` and `RISCV_simulate` are
the tables of instruction classes, over the operations of `DAAInstruction`; one that
loses `sp`, `gp` or `zero` ends the analysis, as the assertions of `simulate` do.
`stackAnalysis` is the whole of `StackAnalysis`: sizes of frames, the
stack pointer of each context, and what it refuses. The fixed points
alternate two halves like those of the caches, with the code's objects: a node is
run on its state before in place, a join is made in the state after the first
predecessor, and what `updateRegistersAndStack_in` returns is the answer of its
second loop. `finalAddressAnalysis` gives the ranges, contextual ones (the frame) in
their context, the others put together. The execution has values in registers and
in memory: what was not stored may hold any of `Inputs`, an unknown index any of
its results.

What the model has and the programs of the run leave out, because the code does not
follow it and the property would fail at once: on RISC-V an `addi` after an
unknown index was added to a page (`RISCV_add` calls the sum precise), a shift to
the right (`RISCV_SHIFT` shifts to the left), and a number added before a page.
A frame larger than an immediate (`RISCVAddressAnalysis.cc:34`) is not modelled. ARM and MSP430 are not modelled. On ARM
(`ARMRegState.cc`, `DAAInstruction_ARM.cc`) a literal load gets the range of the
variable its word points to instead of the word's, offsets below the frame pointer
are taken as offsets above it, and a load through a pointer leaves the old value in
its destination: the property of the run would say of nearly every program what
these lines say already.

## 3. Runs

| run | question | bounds |
|---|---|---|
| `abstract_caches` | are MUST and MAY well formed and sound, do the conflict sets of PS cover what happened, and is a persistent line still cached? | two paths, three addresses in three lines of one set of two ways; every sequence of accesses (certain, uncertain, imprecise) and merges, to the full state space, the paths being interchangeable |
| `icache` | does the analysis end, on a fixed point, with classifications that hold in every execution? | one set of two ways, lines of one byte; 3669 programs on four graphs (loop, diamond, branching loop, nested loops): at level 1, blocks of one or two lines out of three, and blocks with two instructions in a line; at the next levels, two lines and all that the level before may tell of each access |
| `dcache` | the same for loads; does a first miss miss once per block? | L1 and L2 of one set of two ways, lines of one and two bytes; 833 programs on a branching loop and nested loops; loads of one address, of an array, of two variables |
| `copy_on_write` | are counters exact and copies independent? | three pointers, four objects, three values |
| `simulator` | does the simulator implement the hierarchy the analyses assume; are the registers of an instruction those its format declares; is its arithmetic exact? | 252 programs: every operation of the tables on operands loaded from memory (the least, the largest, -1, 0 and 24), with two to four immediates; loops of four lines with every placement of their pages. Registers of 8 bits, pages of two lines, L1 of two direct-mapped sets, L2 of one set of two ways, `MaxUse` = 7 fetches |
| `loop_detection` | are dominators and loops those of the definitions? | all graphs of four reachable nodes with at most two successors each, nodes in every order of creation (by the symmetry of the set of graphs, the start node first) |
| `cfg_extraction` | has every instruction one format, with the registers and the accesses of the processor; are the words and the variables found; is every execution a path of the graph, and every edge a step of the code; do the analyses read the program that was extracted? | about 7700 texts: one instruction for each row of the tables of five architectures, each of its formats and each kind of operand; ARM, four instructions in one or two functions, with conditional calls and returns, or with words after the code; MIPS, six instructions with delay slots; MSP430 with its epilogs; four instructions of which the first label has no symbol; a switch of two cases; calls of functions with several names; symbol tables with sections of all kinds and variables of one name |
| `wcet` | is the call graph exact, is every step a contextual step, do the counts of every execution satisfy the constraints, and is its time at most the objective? | 57 programs: two calls, a call in a loop, a loop around a loop, an annotated function, a recursion; 13 kinds of instructions; with and without perfect caches, without pipeline and in the pipeline of MIPS. 729 more in the pipeline of FLEXPRET: a while loop that calls a function with two ends, each of six nodes one of three blocks of loads, uses, branches and divisions. Fetches of 1, 4 or 14 ticks |
| `addresses` | does every access fall in its range, and does the analysis end, whatever order its sets of nodes have? | 323 programs on MIPS and RISC-V: two calls of a function (leaf or with a frame) with a pointer to a local or a global, a call in a loop, a loop with a branch where blocks access locals, globals, arrays and what is below gp, compute differences, shifts and quotients, or where a pointer is set, advanced and used; six registers, frames of 8 and 16 bytes, a scalar and an array of two words |

The bounds are chosen so that sets overflow (more lines than ways), imprecise
accesses age several lines, blocks both share and evict lines, back edges carry information, loops nest, share heads or cross, and
functions are called in several contexts. The
blocks of `addresses` are those of a compiler told not to optimise, as the
configuration of the repository asks (`-O0 -fomit-frame-pointer`,
`src/src/templates/configExtract_MIPS.xml.template:15`). The
texts of several instructions are all those of the kinds listed in
`MCCfgExtraction` that keep what compilers ensure: no jump into a delay slot, no
function that runs into the next label.
`MaxUse` bounds the only counter of the models that grows for ever.

Some runs show that the code departs from what it says; they are expected to
end with a counterexample.

- `icache_persistence` (`FirstMissHitsLater`): `ClassifCHMCPS` does not replay
  an access that is already classified; a later access of the block is "first
  miss" and misses at every iteration. The passing run has blocks of at most two
  lines, too short for it: the access replayed too late needs an always-hit
  before it and a line evicted by it.
- `ipet_nested_loop` (`ConstraintsHold`): the head of a while loop is constrained
  by `maxiter` when it is the only node outside of the inner loops, although it
  runs once more: a feasible execution is excluded from the maximum.
- `address_in_place` (`RangesSound`): the final pass over a node starts from the
  state after it, since `compute_out` ran the node in place: a load whose address
  register the node advances later gets, as precise, the advanced address. The
  programs of `addresses` change a register after its last use in a loop only,
  where its value is unknown.


The passing runs leave exactly these cases out, by their set of programs.

Departures met while modelling that have no run of their own:

- when the entry node heads a loop, `MustAnalysis_ACS_in` recomputes its state
  from the back edges only, so the first access of the loop is "always hit"
  although it misses the first time (`ICacheAnalysis.cc:440`; the programs of
  `icache` and `dcache` have an entry that heads no loop);
- `PSAnalysis` starts from the heads of the outermost loops and goes on only where a state changes
  (`ICacheAnalysis.cc:805`): when a head has no access to the level, the loop keeps
  its initial states, and the second of two accesses to a line in a block is then "first miss" because
  of the first one alone, though both may miss at every iteration (`UnvisitedPrograms` of
  `MCICacheAnalysis` violates `FirstMissHitsLater`; below level 1, when the lines are longer than those of
  the level before; the loops of `icache` whose head has no access have blocks of one access);
- a first-miss load of several blocks is charged one miss at level 1
  (`IPETAnalysis.cc:829`; the loads of `wcet` that may read several blocks are
  not first misses at level 1);
- `ComputeNodeFrequencyBound` multiplies the `maxiter` of the loops of a node, but the test of a
  while loop runs once more than its body: a load in such a test that is "AM" at level 1 and "FM" of
  two blocks at level 2, in a loop of `maxiter` 1, may go to memory twice and is charged once
  (`IPETAnalysis.cc:506`; the loads of `wcet` are outside the tests of loops);
- the constraints give a node as many executions as its incoming edges when it
  has any, and the start of a function as many as its call
  (`IPETAnalysis.cc:1244`, `IPETAnalysis.cc:614`): when a branch of the function
  targets its start, its executions are excluded from the maximum
  (`EnteredByCalls`; the starts of `wcet` are entered by calls only);
- the classification does not replay an access that is already classified, and
  for loads this concerns always-miss too (`DCacheAnalysis.cc:861`): in a loop
  whose block loads [0], [1], one of [1] and [2], [0], [3] (one set of two ways), the second load of
  0 is "always miss" and may hit (the blocks of `dcache` have two loads at
  most). For instructions `ClassificationSound` proves that it cannot happen, because
  the instructions of a block are consecutive;
- the fixed point of the addresses does not end when the source of a back edge
  comes before the entry of the loop in the order of the predecessors, as in a
  leaf function that starts with the head of a loop (`AddressAnalysis.cc:486`;
  in `addresses` the entry edge comes first);
- a pointer `sp + k` given to a callee with a frame is resolved with the
  callee's sp, since `importCallerArguments` is never called; a pointer
  computed in the block of the prologue is off by the size of the frame; the words
  of the abstract stack of two functions have the same indices (the callee
  with a frame, in `addresses`, reads its argument in another block than the one
  that stores it, which makes it unknown);
- `addu` of a number and a `lui` in that order loses the offset; `mul` keeps the old
  value of its destination;
- a call finds the function it calls by name: a static function of the same name in
  another file takes its place (`Program.cc:126`; `CallsLinked` in `ReadBack` states what
  is found), and of two variables of one name only the second is known
  (`SymbolTableAttribute.cc:60`; `VariablesKnown` excepts the first);
- the file the extraction writes for a graph with an edge to NULL, a jump out of the
  function, is refused by the reader (`ReadBack` states it); after reading, every graph has
  address 0 and its names in reverse order, and none is external any more;
- a node nothing leads to keeps all nodes as dominators, and its successors
  become heads of loops that do not exist (`dominatorAnalysis.cc:90`; the
  graphs of `loop_detection` have no such node);
- on ARM, a pop of pc before the end of a function is rewritten by `kernel` as
  loads and an addition at one address; `build_heptane_cfg` looks at the first
  only and gives the block an edge to the next, which `ContextHelper.cc:119`
  asserts cannot be (`EdgesFeasible` excepts blocks that end with a pop, and
  those of a switch, all of which are taken to follow its jump);
- a conditional call (`bleq`) is a conditional jump to another function for the
  extraction, so its callee is in no call graph (`ARM.cc:382`; excepted in
  `EdgesFeasible`, with conditional returns);
- the inner registers of a range of floating-point registers (`{d8-d10}`) get the
  names of others, `kernel` does not expand ranges at all, drops the first register
  of a conditional pop, counts four bytes for a d register, reverses the order of
  `stmdb`, and loads a base that is in its own list before it has used it
  (`HeptaneExtract.cc:536`; `RegistersCovered` and `KernelAccesses` name these
  exceptions);
- `mla` and `mov lr, pc` of ARM fit no format, `cmp r1, #4` fits only one that
  reads nothing and writes r1, `ldm sp, {fp, sp, pc}` is not taken for a return, a
  `vldr` of a word pool gets the first of its two words;
- on MSP430 a base register of a destination in memory is read by nobody; on RISC-V
  `jal` reads ra and writes nothing;
- a recursion through the entry point is not detected, and its contexts have no
  end (`CallGraph.cc:102`; the programs of `wcet` do not call their entry point);
- an outer loop whose own nodes can all leave it and whose latch is the head of
  an inner loop has no constraint: the linear program is unbounded;
- the bound on the frequency of a node is a product in an unsigned int, which
  may wrap, and which the head of a while loop exceeds by one;
- in the pipeline of MIPS, an instruction may be written back in the tick of its
  execution, as nothing is added when the instruction before it is written back
  one tick earlier (`MIPSPipelineAnalysis.cc:148`): with fetches of 2 ticks the
  deltas take off too much, and the time of a path is more than the sum (in
  `wcet` no fetch takes 2 ticks); the latency of an instruction counts only in the
  first place of a node (all are 1 in the data of the repository);
- in both pipelines, an instruction whose operands and unit are free at the same
  later tick does not wait;
- in a pipeline, the deltas of a call to an annotated function, which are
  negative, are charged although its nodes are not (`IPETAnalysis.cc:1106`; the
  annotated programs of `wcet` run without pipeline);
- the simulator computes `or` from its first operand only (`mipssim.cc:446`) and
  shifts right with the sign where `srl` should not (`mipssim.cc:518`);
- the formats of MIPS swap the operands of `mtc1`, do not know the second register
  of a double, the condition of `bc1t`, the register `jal` writes and what `lwr` keeps of
  its register (`DependencesSeen` names them);
- `parse_output` reports an infeasible or unbounded program and nobody looks.


`StartsAtEntry` is
an equivalence: the graphs that do not start at the entry of their function are
those after a label without a symbol, whose instructions are kept. `CallGraphExact` says
likewise exactly which recursions `isCyclic` detects.

`FixedPoint` speaks of the persistence analysis of instructions only when the heads of the
outermost loops access the level (`HeadsAccess`): the analysis starts there and stops when a head
changes nothing. The programs of `icache` include loops without
such an access; their blocks have one access, and their first-miss classifications hold.

Liveness. `Termination` of `ICacheAnalysis`, `LoopDetection` and `AddressAnalysis` assumes weak
fairness of the analysis (`WF_vars(Analyse)` and the like): the code is one thread that runs until its loops
end, so a step that can be taken is taken. Nothing is assumed of the executions:
the analysed program may stop anywhere. The safety properties need no
fairness. Deadlock is not checked for `icache`, `dcache`, `loop_detection` and `addresses`, which stop when they are done
and when the program leaves its last node, nor for `simulator`, where the program returns or an exception ends the simulation; it is checked everywhere else.

## 4. Proofs

| theorem | says |
|---|---|
| `MustTypeCorrect`, `MustSetsWellFormed`, `MustSoundness` | for every geometry, set of addresses and number of executions: the types; the ways of a MUST set are disjoint and way 0 holds at most one line; what is not Absent is cached, at most as old as GetAge says |
| `MayTypeCorrect`, `MaySetsWellFormed`, `MaySoundness` | the same for MAY: a line sits in one way; a line that is Absent is not cached |
| `SetsAreWellFormed` | both together (`SetsWellFormed`) |
| `NoConflictForgotten`, `PersistenceSoundness` | the same for PS: the lines accessed since a line last was are among its conflicts, unless the set is at its bound; a line not called evicted is cached if it was ever accessed |
| `DominatorsKept`, `DominatorsAreExact` | for every graph, order of its nodes and number of passes: no dominator is ever missing; if the passes end before they run out, the sets are the dominators |
| `AllLoopsAreFound`, `LoopsAreNatural` | in the same case: one loop per head of a back edge, its natural loop with its back edges (of the nodes that can be executed, when all can be) |
| `TypeCorrectness`, `AcsAreFixedPoint` | (of `ICacheAnalysis`) for every program, geometry and choice of analyses: when a work list runs empty, the states of the nodes solve the equations of the fixed point (for PS, in programs that are `HeadsAccess`) |
| `DataStatesAreFixedPoint` | (of `DCacheAnalysis`) for every program, geometry, number of levels and range of blocks of a load: when a work list runs empty, the states of the nodes reached solve the equations at that level |
| `ClassificationSound` | in the same cases: in every execution an access classified always-hit hits, one classified always-miss misses |
| `NextLevelSound` | what the next level is told of the accesses is true of every execution, if what this level was told is |
| `FirstMissSound` | for the programs that are `LoopsClosed` and `HeadsAccess` and the classifications that are `HitsSimulated` (below): an access classified first-miss that missed once always hits |
| `CountsAreExact`, `SimulatorIsLru` | for every geometry, page table and program: hits and misses add up, level 2 is accessed at the misses of level 1, and the caches of the simulator implement `LruHierarchy` (refinement) |
| `CallGraphIsExact` | for every program and order of its calls: exactly the recursions among executed functions that avoid the entry point are detected, and exactly the functions never called are dead |
| `ContextsFollowExecutions` | for every program: wherever an execution is, one context has its stack; every step goes to a contextual successor, back from which it is a contextual predecessor |
| `ExecutionsAreFlows` | for every program whose functions are entered by calls alone: what an execution counts satisfies the linear program but for the loop bounds, whatever its loops |
| `ExecutionsAreSolutions` | for every such program that is `LoopsBounded` as well: what an execution counts is a solution of the linear program, with the loop bounds (`ConstraintsHold`) |
| `StatisticsAreBounds` | for every program, levels of caches and latencies, and whatever the caches answer within their classifications: the references to each cache and its misses are at most what the statistics count (`StatisticsBound`) |
| `TimeIsBounded` | in the same cases, without a pipeline and for loads that are `LoadsNamed` and `LoadsWithinBounds`: the time of an execution is at most the objective at what it counts (`TimeBounded`) |
| `PointersTypeCorrect`, `CountersExact`, `CopiesIndependent` | for any pointers, objects and values: types; `ref_cnt_` counts the owners; copy-on-write pointers implement independent variables (refinement of `Cells`) |

All but the last two are theorems of the specifications that TLC runs
(`Spec` of `AbstractCaches`, `ICacheAnalysis`, `DCacheAnalysis`, `LoopDetection` and `IPET`, `CowSpec` of `CopyOnWrite`); those of the
simulator are of `MmuSpec`, of which every behaviour of `Processor` is one
(section 2).

Assumptions: `GeometryAssumption` (at least one set and one way, lines of at
least one byte, natural addresses) and `FiniteAddresses` (an address is a machine
integer; used for PS only); `PointerAssumption` (finitely many
pointers; NULL and Nothing are neither objects nor values); `GraphsAssumption`
(the nodes of a graph are distinct, at least one, and its edges are between them)
and `PassesAssumption` (at least one pass); `MachineAssumption` (finitely many
addresses, pages of whole words, the geometry of each cache as above);
`ProgramsAssumption` of `CallGraph` (a program has finitely many functions; its entry point and
its callees are among them) and `FunctionsAssumption` of `ProgramRun` (a node belongs to one function, in
whose graph its edges, start, ends and calls are); `OptionsAssumption` and `ProgramsAssumption` of
`ICacheAnalysis` (a graph has finitely many nodes, its loops are among them, nothing jumps to its
entry, whose first access may arrive at the level; a block has instructions, at
addresses that do not descend); `ProgramsAssumption` of `DCacheAnalysis` (finitely many edges, between the nodes, among which
are the entry and the loops); and of `NodeTimes` `LatenciesAssumption` (at least one level of caches, natural latencies),
`InstructionsAssumption` (an instruction is classified at each level; a load has at least one
block at each) and `TimesAssumption` (annotated times are natural). TLC evaluates
them all.

*MUST.* `MustSound` is not inductive: it says nothing of how old a line really
is in the other ways. `IInv` adds `MustBounds`, a line in way *i* maps to the
set and is at most *i* old in the path's cache, and the disjointness of the
ways: an update ages a line in the abstract set whenever it can age in the
cache because the line accessed is in at most one way, and a join keeps the
larger of two bounds. *MAY.* The dual: `IInv` says that a line cached at age *i*
is in a way at most *i*, and that ages are distinct, without which two lines
could leave the cache together and the abstract set keep only room for one.
*PS.* `PsInv` relates the path to its sets in two steps. `History`: the lines
accessed since line *b* last was are no older than *b*, and *b* is no older than
their number; it is a fact about LRU alone. `Covers`: that history is among the
conflicts of *b*, or *b* is called evicted. A line that is not evicted has
fewer conflicts than ways, hence an age below them. The sizes of sets of conflicts
need finitely many lines.
*Instruction cache analysis.* `Inv` of `ICacheAnalysisProofs` has one part for each stage.
`FixInv`: before the first half of a round every node outside of the work list has the state after
it that its state before gives (`Solved`), before the second every node outside has the join of
the states before it (`Joined`). In the second step of MUST this is said of the nodes visited, which
are closed under the edges up to the work list. In PS and MAY nothing forces a first visit: a node is
solved or still has its empty states, and at the end the states of all
nodes that can be reached hold a line, so that none is empty. This gives `FixedPoint`. `VerdictInv` speaks of sets of execution states that are closed: the
start is in it, and so is what an execution does next. For MUST and MAY the
states that the fixed point describes (`Described`) are such a set. When a block is
classified, the accesses that an earlier analysis classified are not replayed: for MUST there are none; for
MAY the set is that of the caches described once the lines of the skipped accesses are
taken to be out (`Masked`), and it is closed because a line known to be present stays so to the end of
its instructions (`LinesInv` of `ClassInv`). `ExecutionInv`: an execution
stays in every closed set. `FirstMissHitsLater` is false of
the code in general; `FirstMissSound` says when it is true. `LoopsClosed`: the loops can be reached from their
heads without leaving them, and hold all that is executed between two executions of one of their nodes, as
the loops of a reducible graph do; TLC evaluates it on the programs of `icache`. `HeadsAccess`: the heads access the level, without which the
analysis stops there (section 3). `HitsSimulated`: before a first-miss access of a block, an access that MUST classified, and that the
classification does not replay, follows one to the same line that it replays; the
block of `icache_persistence` is one where this fails. The closed set (`Persisted`) is now one of
execution states with what missed so far: in a loop, the state of PS covers the `History` of the lines accessed since the
loop was entered, and what missed is among these lines unless it cannot be
executed again. An access that is not replayed changes nothing if its line was the last one replayed
(`RememberedTwice`), and the instructions of a block being consecutive it was. A loop entered from outside starts with no history; what missed in it
before is not executed again, or the node it is entered from would be in the loop.
*Data cache analysis.* The rounds are those of the instruction cache, on every level in turn. `RoundInv` of
`DCacheAnalysisProofs`: the nodes visited are the starts and what edges lead to from a node visited outside of the work
list; a node visited satisfies its equations up to the work list. A join is claimed of a node once a
node before it was visited: until then its state is the initial one, which is no join. Nothing of the
proof depends on what an update does, so it holds for any range of blocks of a load.
*Loops.* `Lemmas` proves what reachability is (closed, the least closed
set, transitive, cut at a node), and that the only solution of the
equations of the dominators that is above them on a graph is the dominators
themselves where a node can be reached. The
induction over lengths of paths is written out on sets of naturals, as the library's
theorems take an operator. `IInv` of `ToolProofs` says that the sets
are above the dominators, that a pass without a change leaves solved
equations behind it, that every head seen has one loop, and that the predecessors of the nodes
of a loop are in it or still to walk. `steps > 0` at the end is how the code tells
that a pass changed nothing before the passes ran out; nothing is said of a
graph that needs all `MAX_PASSES` of them, except that no back edge is overlooked.
*Simulator.* `MmuInv`: in every set of a cache the valid ways hold distinct lines with
distinct dates, none in the future; the counters of an address and of a level
agree. The age of a way is the number of ways used later: using a way moves it
to 0 and ages those that were younger, and the way that is replaced is an empty one or the
oldest. That is an access of the LRU hierarchy at the ages the
refinement mapping gives. Totals over the addresses are folds; an induction on
subsets shows that a step adds to a total what it adds to one address. Fetches that
raise no exception are of physical words, and this is where pages of
whole words are needed.
*Call graph.* The theorem is about the specification of `IPET`, which reads a program,
builds its call graph and goes on. `IInv` of `IPETProofs` has four parts.
`TreeOfCalls`: an element's callees are younger than it and stand for calls, one
element of each function is in the graph, no other has callees.
`DepthFirst`: the elements below one of the graph are consecutive in the order of
allocation. `UnderConstruction`: everything younger than an element whose calls are being
scanned is below it, and an element that is done has all its callees, those
that are not below it being older. `Searches`: the marks, and what the searches
have found. A recursion is then found below its oldest element: all of the recursion
is below it, and so is the second element of the call that closes it.
Conversely a path that leaves the element of a function and comes back to the function
without the entry point is a recursion.
*Contexts.* `Execution` of `IPETProofs`: the contexts are a tree in which a context and one of
its call nodes have one context below them (`ContextTree`), and once all are scanned an
execution stands at a node of the function of a context that has its stack. A function is
known by its nodes, hence a stack by its context (`StacksDiffer`, `StackOfContext`):
two contexts of one depth that differ have callers that differ, or call nodes that do.
*Flows.* `Tally` says of the counts more than the constraints do: it holds while the
execution runs. There is a map `at` from the contexts to the nodes
under execution (`Following`): a call node in every context above the one where the execution
stands, nothing elsewhere. A node was left as often as it was entered but for the execution under
way (`Balanced`), a call began the execution of its callee, or counted its annotated time,
but for the one that stands at the call (`CallsCounted`), an edge was taken at most once from a
first or to a first execution (`FirstOnce`), nothing was counted below an annotated function
(`Untouched`). A branch and a return are one move along an edge (`Moved`), a call is a
`Descent`. `EnteredByCalls`, the condition of the theorem, holds of the programs of `wcet` (TLC
evaluates it): a function whose start is the target of a branch is executed more
often than it is called, against `CallConstraints`, and its executions are
excluded from the maximum.
*Loop bounds.* The constraint bounds the executions of a node of the loop, the annotation the
iterations of the loop, and an iteration begins at its head or where it leaves its tests. `Paced`
relates the two while the execution runs: in a loop under way, the executions of a constrained node,
with the one that may be to come in this iteration, are at most `maxiter` for every entry before the
last and the iterations since (`InLoop`); in any other, at most `maxiter` for every entry
(`OutOfLoop`). A node is to come if it lies ahead of the execution on edges that begin no iteration
(`Ahead`). What is ahead gets less along such an edge (`AheadLess`); a constrained node is not ahead of itself
(`AheadOnce`): a cycle that begins no iteration has a loop nested in this one
(`CyclesHaveLoops` of `Lemmas`), whose nodes this loop does not constrain; and none is ahead of
the head of a loop that tests first (`AheadOfHead`).
`LoopsBounded`, the condition of the theorem, asks two things of a program. Its graphs are reducible
and every loop has a bound, for Heptane knows natural loops alone and reads their bounds from
annotations; and a loop whose only node of its own is its head does not test there, which is exactly what `ipet_nested_loop` lacks. TLC evaluates
both conditions on the programs of `wcet`, so the theorem covers what the run checks.
*Statistics and times.* `Account` of `IPETBoundsProofs` says that there is a count `w` of the
accesses of each instruction in each context that pass each level, for code and data, of which everything else
is made (`Accounts`). An access passes a level if it misses there, so `w` narrows from level to level; none passes where it
always hits, and at most as many as blocks were loaded where it is a first miss (`Accounted`). The
uses of the caches are the totals of `w`, and the time is what these accesses take with the
times of the annotated calls (`Timed`). At the end, each count is at most the occurrences or the misses
that the statistics give its instruction (`CountsBound`), which is `StatisticsBound` once the totals are
regrouped by node (`TotalParts`). For the times, what an instruction pays, level by level, is at most what the
first and the next executions of its node cost (`InstructionPays`, then `NodePays`), and the sums over contexts
and nodes are those of the objective. Totals over finite sets are again
written without induction over operators. The two conditions of `TimeIsBounded` are departures of the
code, listed in section 3: `LoadsNamed`, that a load of several blocks is no first
miss at level 1, where `IPETAnalysis.cc:829` charges one, and that a level has no more blocks of a load
than the one before; `LoadsWithinBounds`, that a node with a load is executed no
more often than `ComputeNodeFrequencyBound` says, which the test of a while loop is
(`IPETAnalysis.cc:506`). TLC evaluates the first on the programs of `wcet`. The second is a
condition on what the execution has counted, not on its program, and a property that `wcet` checks.
*Copy on write.* `CowIInv` is the types with `CountsOwners`: the owners of an
object after a pointer is redirected are counted by one lemma, and each method
is a composition of releases, allocations and redirections; a write in place is
harmless exactly because a counter of one means one owner.

Only model-checked: the classifications of the data cache analysis (`LoadsClassified`, `BlocksMissOnce`: the first is
false of nodes with more than two loads, section 3, the second, like that of
instructions, when a load is not replayed), that an execution is `LoadsWithinBounds`, the
extraction, the times in a pipeline (`TimeBounded` with one), the addresses of data, and the
instructions of the simulator. Liveness (`Termination`) is out of the prover's reach, and so
is what a definition by recursion over data computes for every input;
`Processor`, `CfgExtraction` and the formats of instructions also use operators on bits or on
texts that it cannot take.

## 5. Not modelled, and the plan

Left out for good: printers, the syntax of XML files and the attributes in them, the text of annotations, page replacement in the simulator
(never reached by a program that fits in memory), the replacement policies other than LRU (they are the same code
with fewer ways), the solver of linear programs.

The plan has been carried out up to these parts:

- of the data cache analysis the fixed points are proved, and what its classifications say of executions
  is checked by TLC only: they are false of longer nodes, and the condition under which they hold (no load
  left out of the replay matters to one that is not) is the classification itself;
- the times of executions in a pipeline are checked by TLC and not proved: the comparison of two schedules
  is an induction over sequences of instructions. That an execution is `LoadsWithinBounds` is not derived from its program;
- SESE regions and the order of analyses in `Config` are not modelled: the first is an optional analysis
  no other reads, the second follows the file of configuration.

The hazards without a property ("note" in `PROJECT.json`) belong to code that is not modelled.
