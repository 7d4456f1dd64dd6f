---------------------------- MODULE AddressAnalysis ----------------------------
(***************************************************************************)
(* Which addresses the loads and stores of a program may access, on MIPS   *)
(* and RISC-V: the frames and stack pointers of the contexts, then a data  *)
(* flow analysis of the registers over the contextual nodes; and the       *)
(* program that runs beside its analysis, an instruction at a time.        *)
(*                                                                         *)
(* The states of a node before and after it are objects that the code      *)
(* shares: compute_out runs a node on its state before, in place, and a    *)
(* join is made in the state after the first predecessor.                  *)
(***************************************************************************)
EXTENDS ProgramRun, RegState

CONSTANTS
  spinit,             \* the stack pointer of the entry point's caller
  CodeStart,          \* the first address of the code
  Gp,                 \* what gp holds
  Variables,          \* the variables of the symbol table, [start, size]
  Word,               \* the bytes an access reads or writes
  Inputs              \* what memory nothing was stored to may hold

VARIABLES
  step,               \* the part of the address analysis under way
  stacks,             \* StackInfoAttribute of each function, and sp by context
  backedges,          \* the back edges of the functions, from their loops
  addr_in, addr_out,  \* the registers before and after each contextual node
  half,               \* the half of the round under way
  work, work_in,      \* its nodes to compute, before and after
  visited,
  ranges              \* [<<context, node, i>> -> ranges of addresses]

analysisVars ==
  <<step, stacks, backedges, addr_in, addr_out, half, work, work_in, visited, ranges>>

VARIABLES
  registers, memory,  \* of the execution
  pc                  \* the next instruction of the node

machineVars == <<registers, memory, pc>>
vars == <<program, phase, callVars, contextVars, runVars, analysisVars, machineVars>>

Code(f, n) == program.cfg[f].code[n]
Nodes(f) == ToSet(program.cfg[f].nodes)
FunctionOf(cn) == getCurrentFunction(cn[1])
CodeOf(cn) == Code(FunctionOf(cn), cn[2])
ContextualNodes == UNION {{c} \X Nodes(getCurrentFunction(c)) : c \in DOMAIN contexts}
IsAccess(i) == i.op \in {"lw", "sw"}
AnalysedFunctions == {f \in Functions : ~ isDeadCode(f)}

AddressInit ==
  /\ Init /\ InitContexts /\ InitRun
  /\ step = "stack" /\ stacks = <<>> /\ backedges = {} /\ ranges = <<>>
  /\ addr_in = <<>> /\ addr_out = <<>>
  /\ half = "out" /\ work = {} /\ work_in = {} /\ visited = {}
  /\ registers = [r \in Register |-> IF r = "gp" THEN Gp ELSE 0] /\ memory = <<>> /\ pc = 1

-----------------------------------------------------------------------------
(* Stack frames *)

isStackModified(code, from) ==
  \E i \in from .. Len(code) : code[i].op # "sw" /\ code[i].d = "sp"

(* The frame is allocated by the first instruction of a function; a        *)
(* function without one has no frame and calls nothing.                    *)
AllocatesFrame(f) ==
  LET first == Code(f, program.cfg[f].start)[1]
  IN  first.op \in {"addiu", "addi"} /\ first.d = "sp" /\ first.s = "sp"
getStackSize(f) ==
  IF AllocatesFrame(f) THEN Abs(Code(f, program.cfg[f].start)[1].k) ELSE 0

StackInstructions(f) ==
  UNION {{i \in ToSet(Code(f, n)) : IsAccess(i) /\ i.s = "sp"} : n \in Nodes(f)}

getStackMaxOffset(f) == Max({getStackSize(f)} \cup {Abs(i.k) : i \in StackInstructions(f)})

StackRefused ==
  \E f \in AnalysedFunctions :
     LET g == program.cfg[f]
     IN  \/ \E n \in Nodes(f) \ ({g.start} \cup g.ends) : isStackModified(g.code[n], 1)
         \/ /\ ~ AllocatesFrame(f)
            /\ isStackModified(g.code[g.start], 2) \/ GetCallNodes(f) # <<>>

SpValues ==
  LET sp[c \in DOMAIN contexts] ==
        (IF contexts[c].caller = None THEN spinit ELSE sp[contexts[c].caller])
        - getStackSize(getCurrentFunction(c))
  IN  [c \in DOMAIN contexts |-> sp[c]]

GetRequiredStackSize == Max({Abs(SpValues[c] - spinit) : c \in DOMAIN contexts})

Starting == {<<1, program.cfg[program.entry].start>>}

compute_backedges ==
  UNION {BackEdges(program.cfg[f].edges, program.cfg[f].start) : f \in AnalysedFunctions}

stackAnalysis ==
  /\ phase = "execution" /\ step = "stack"
  /\ stacks' = [frameSizeWithoutCaller |-> [f \in AnalysedFunctions |-> getStackSize(f)],
                frameSizeWithCaller |-> [f \in AnalysedFunctions |-> getStackMaxOffset(f)],
                sp |-> SpValues]
  /\ step' = IF StackRefused THEN "refused" ELSE "init"
  /\ backedges' = compute_backedges
  /\ addr_in' = [cn \in ContextualNodes |-> NewRegState(GetRequiredStackSize)]
  /\ addr_out' = addr_in'
  /\ work' = Starting
  /\ UNCHANGED <<half, work_in, visited, ranges>>

-----------------------------------------------------------------------------
(* The fixed points: first without the back edges, then with them.         *)

(* Only the edges inside a function may be left out.                       *)
Excluded(u, v) ==
  step = "init" /\ FunctionOf(v) = FunctionOf(u) /\ <<u[2], v[2]>> \in backedges

SuccessorsOf(cn) ==
  {s \in GetContextualSuccessors(cn[1], cn[2]) : ~ Excluded(cn, s)}

(* In the order of the edges, that of the nodes; the caller comes last.    *)
PredecessorsOf(cn) ==
  LET source(p) == IF p[1] = cn[1] THEN p[2] ELSE contexts[p[1]].node
      before(p, q) == /\ p[1] # contexts[cn[1]].caller
                      /\ \/ q[1] = contexts[cn[1]].caller \/ source(p) < source(q)
                         \/ source(p) = source(q) /\ p[2] < q[2]
  IN  SetToSortSeq(GetContextualPredecessors(cn[1], cn[2]), before)

resetSPRegister(cn, st) ==
  LET g == program.cfg[FunctionOf(cn)]
  IN  IF cn[2] = g.start \/ cn[2] \in g.ends THEN reset_sp(st) ELSE st

(* A set of one state, so that TLC evaluates it once. *)
Simulated(st, code) ==
  LET after[n \in 0 .. Len(code)] ==
        IF n = 0 THEN {st} ELSE {simulate(program.arch, before, code[n]) : before \in after[n - 1]}
  IN  CHOOSE result \in after[Len(code)] : TRUE

compute_out(cn) ==
  LET st == Simulated(addr_in[cn], CodeOf(cn))
  IN  IF st = Aborted THEN st ELSE resetSPRegister(cn, st)

Differs(st, other) == ~ EqualsRegisters(st, other) \/ ~ EqualsStacks(st, other)

(* Mutant of ComputeOut: no node is remembered as visited.                 *)
ComputeOutUnvisited ==
  LET computed == [cn \in ContextualNodes |->
                     IF cn \in work THEN compute_out(cn) ELSE addr_in[cn]]
      changed == {cn \in work : Differs(computed[cn], addr_out[cn]) \/ cn \notin visited}
  IN  /\ step \in {"init", "fix"} /\ half = "out" /\ work # {}
      /\ addr_in' = computed
      /\ addr_out' = [cn \in ContextualNodes |-> IF cn \in work THEN computed[cn] ELSE addr_out[cn]]
      /\ work_in' = UNION {SuccessorsOf(cn) : cn \in changed}
      /\ half' = IF work_in' = {} THEN "out" ELSE "in"
      /\ work' = {}
      /\ step' = IF \E cn \in work : computed[cn] = Aborted THEN "refused" ELSE step
      /\ UNCHANGED <<stacks, backedges, visited, ranges>>

(* Each node of work is run on its state before, in place.                 *)
ComputeOut ==
  LET computed == [cn \in ContextualNodes |->
                     IF cn \in work THEN compute_out(cn) ELSE addr_in[cn]]
      changed == {cn \in work : Differs(computed[cn], addr_out[cn]) \/ cn \notin visited}
  IN  /\ step \in {"init", "fix"} /\ half = "out" /\ work # {}
      /\ addr_in' = computed
      /\ addr_out' = [cn \in ContextualNodes |-> IF cn \in work THEN computed[cn] ELSE addr_out[cn]]
      /\ work_in' = UNION {SuccessorsOf(cn) : cn \in changed}
      /\ half' = IF work_in' = {} THEN "out" ELSE "in"
      /\ work' = {}
      /\ visited' = visited \cup work
      /\ step' = IF \E cn \in work : computed[cn] = Aborted THEN "refused" ELSE step
      /\ UNCHANGED <<stacks, backedges, ranges>>

(* The nodes are taken in the order of their addresses in memory: any.  A  *)
(* node counts as changed when its stack did, or when its last predecessor *)
(* was not left out: the loop for the stack overwrites what the loop for   *)
(* the registers found.                                                    *)
updateRegistersAndStack_in(cn) ==
  LET all == PredecessorsOf(cn)
      preds == SelectSeq(all, LAMBDA p : ~ Excluded(p, cn))
      joined == FoldLeft(LAMBDA st, p : Join(st, addr_out[p]), addr_out[preds[1]], Tail(preds))
  IN  /\ step \in {"init", "fix"} /\ half = "in" /\ cn \in work_in
      /\ addr_out' = [addr_out EXCEPT ![preds[1]] = joined]
      /\ addr_in' = [addr_in EXCEPT ![cn] = joined]
      /\ work' = IF \/ addr_in[cn].vStack # joined.vStack
                    \/ ~ Excluded(Last(all), cn) \/ cn \notin visited
                 THEN work \cup {cn} ELSE work
      /\ work_in' = work_in \ {cn}
      /\ half' = IF work_in' = {} THEN "out" ELSE "in"
      /\ UNCHANGED <<step, stacks, backedges, visited, ranges>>

EndFixPoint ==
  /\ step \in {"init", "fix"} /\ half = "out" /\ work = {}
  /\ step' = IF step = "init" THEN "fix" ELSE "final"
  /\ work' = IF step = "init" THEN Starting ELSE {}
  /\ visited' = {}
  /\ UNCHANGED <<stacks, backedges, addr_in, addr_out, half, work_in, ranges>>

-----------------------------------------------------------------------------
(* The ranges of the loads and stores.  A contextual range holds in its    *)
(* context alone; the others of an instruction are put together.           *)

Accessible(contextual, from, size) == [contextual |-> contextual, from |-> from, size |-> size]
Refused == Accessible(FALSE, 0, 0)
Everywhere == Accessible(FALSE, CodeStart, spinit - CodeStart + 1)

analyzeStack(c, offset, precise) ==
  LET f == getCurrentFunction(c)
      caller == contexts[c].caller
      stack_size == stacks.frameSizeWithoutCaller[f]
      stack_maxoffset == stacks.frameSizeWithCaller[f]
      callerFrame == stacks.frameSizeWithCaller[getCurrentFunction(caller)]
  IN  IF stack_maxoffset < offset
      THEN IF caller = None THEN Refused ELSE Accessible(TRUE, stacks.sp[caller], callerFrame)
      ELSE IF stack_size = 0 /\ caller = None THEN Refused
      ELSE IF precise THEN Accessible(TRUE, stacks.sp[c] + offset, Word)
      ELSE Accessible(TRUE, stacks.sp[c], IF stack_size = 0 THEN callerFrame ELSE stack_maxoffset)

analyzeReg(addr, precise) ==
  LET holding == {v \in Variables : v.start <= addr /\ addr < v.start + v.size}
      v == CHOOSE v \in holding : TRUE
  IN  IF holding = {} THEN Refused
      ELSE IF precise THEN Accessible(FALSE, addr, Word) ELSE Accessible(FALSE, v.start, v.size)

(* On MIPS the page of a lui and what was added to it.                     *)
MIPS_isAccessAnalysisLui(x, k) == analyzeReg(DataPage + x.value.off + k, x.precise)

(* On RISC-V any number is an address, and nothing may follow a lui.       *)
RISCV_isAccessAnalysisLui(x, k) ==
  CASE IsNumber(x) -> analyzeReg(x.value.off + k, x.precise)
    [] x.value.off = 0 -> analyzeReg(DataPage + k, x.precise)
    [] OTHER -> Refused

(* Only below gp, and not what was loaded from there.                      *)
isAccessAnalysisGP(x, k) ==
  IF x.value.base = "gp" /\ IsNegative(x) THEN analyzeReg(Gp + x.value.off + k, x.precise) ELSE Refused

(* A copy of sp itself is taken for an array in the stack, and may not be  *)
(* precise.                                                                *)
isAccessAnalysisSP(c, x, k) ==
  IF x.value.off = 0 /\ x.precise THEN Refused ELSE analyzeStack(c, x.value.off + k, x.precise)

(* Nothing else may be precise.                                            *)
AccessAnalysisDefault(x) == IF x.precise THEN Refused ELSE Everywhere

HoldsAddress(x) == x.value.base = "lui" \/ (program.arch = "RISCV" /\ IsNumber(x))
accessAnalysis(c, x, k) ==
  CASE HoldsAddress(x) -> IF program.arch = "MIPS" THEN MIPS_isAccessAnalysisLui(x, k)
                          ELSE RISCV_isAccessAnalysisLui(x, k)
    [] x.value.base \in {"gp", "word"} -> isAccessAnalysisGP(x, k)
    [] x.value.base = "sp" -> isAccessAnalysisSP(c, x, k)
    [] OTHER -> AccessAnalysisDefault(x)

setLoadStoreAddressAttribute(c, st, i) ==
  CASE i.s = "gp" -> analyzeReg(Gp + i.k, TRUE)
    [] i.s = "sp" -> analyzeStack(c, i.k, TRUE)
    [] OTHER -> accessAnalysis(c, st.regs[i.s], i.k)

Instructions == UNION {{<<cn[1], cn[2], i>> : i \in {j \in DOMAIN CodeOf(cn) : IsAccess(CodeOf(cn)[j])}}
                         : cn \in ContextualNodes}

StateBefore(cn, i) == Simulated(addr_in[cn], SubSeq(CodeOf(cn), 1, i - 1))

finalAddressAnalysis ==
  LET range == [x \in Instructions |->
                  LET st == StateBefore(<<x[1], x[2]>>, x[3])
                  IN  IF st = Aborted THEN Refused
                      ELSE setLoadStoreAddressAttribute(x[1], st, CodeOf(<<x[1], x[2]>>)[x[3]])]
      shared(x) == {range[y] : y \in {z \in Instructions : z[2] = x[2] /\ z[3] = x[3]
                                                          /\ ~ range[z].contextual}}
  IN  /\ step = "final"
      /\ step' = IF \E x \in Instructions : range[x] = Refused THEN "refused" ELSE "done"
      /\ ranges' = [x \in Instructions |-> IF range[x].contextual THEN {range[x]} ELSE shared(x)]
      /\ UNCHANGED <<stacks, backedges, addr_in, addr_out, half, work, work_in, visited>>

AddressStep ==
  \/ stackAnalysis \/ ComputeOut \/ EndFixPoint \/ finalAddressAnalysis
  \/ \E cn \in work_in : updateRegistersAndStack_in(cn)

-----------------------------------------------------------------------------
(* The execution *)

Current == Code(FunctionOn(stack), node)
AddressOf(i) == registers[i.s] + i.k

(* What instruction i may write to its destination.                        *)
Results(i) ==
  LET x == registers[i.s]
      y == registers[i.t]
  IN  CASE i.op \in {"addiu", "addi"} -> {x + i.k}
        [] i.op \in {"addu", "add"} -> {x + y}
        [] i.op \in {"subu", "sub"} -> {x - y}
        [] i.op = "mul" -> {x * y}
        [] i.op = "div" -> {Truncated(x, y)}
        [] i.op = "rem" -> {x - y * Truncated(x, y)}
        [] i.op = "neg" -> {-x}
        [] i.op \in {"sll", "slli"} -> {x * 2 ^ i.k}
        [] i.op \in {"srl", "sra"} -> {x \div 2 ^ i.k}
        [] i.op \in {"move", "mv", "sext.w", "fcvt.d.w"} -> {x}
        [] i.op = "lui" -> {DataPage + i.k}
        [] i.op = "li" -> {i.k}
        [] i.op = "lw" -> IF AddressOf(i) \in DOMAIN memory THEN {memory[AddressOf(i)]} ELSE Inputs
        [] OTHER -> i.results

ExecuteInstruction ==
  /\ step = "done" /\ Running /\ pc <= Len(Current)
  /\ LET i == Current[pc]
     IN  IF i.op = "sw"
         THEN /\ memory' = [a \in DOMAIN memory \cup {AddressOf(i)} |->
                              IF a = AddressOf(i) THEN registers[i.d] ELSE memory[a]]
              /\ UNCHANGED registers
         ELSE /\ IF i.op \in {"nop", "branch", "jal"} THEN UNCHANGED registers
                 ELSE \E v \in Results(i) : registers' = [registers EXCEPT ![i.d] = v]
              /\ UNCHANGED memory
  /\ pc' = pc + 1
  /\ UNCHANGED <<program, phase, callVars, contextVars, runVars, analysisVars>>

Enter ==
  /\ step = "done" /\ Begin
  /\ registers' = [registers EXCEPT !["sp"] = spinit]
  /\ UNCHANGED <<program, phase, callVars, contextVars, analysisVars, memory, pc>>

Leave ==
  /\ Running /\ pc > Len(Current)
  /\ \/ Call
     \/ \E v \in Nodes(FunctionOn(stack)) : Branch(v)
     \/ stack # <<>> /\ \E v \in Nodes(FunctionOn(Tail(stack))) : Return(v)
  /\ pc' = 1
  /\ UNCHANGED <<program, phase, callVars, contextVars, analysisVars, registers, memory>>

-----------------------------------------------------------------------------
Analyse ==
  \/ /\ (BuildCallGraph /\ UNCHANGED contextVars) \/ Explore \/ initialise
     /\ UNCHANGED <<runVars, analysisVars, machineVars>>
  \/ AddressStep /\ UNCHANGED <<program, phase, callVars, contextVars, runVars, machineVars>>

Next == Analyse \/ Enter \/ ExecuteInstruction \/ Leave

(* The analysis runs until it ends; the program may stop anywhere.         *)
Spec == AddressInit /\ [][Next]_vars /\ WF_vars(Analyse)

-----------------------------------------------------------------------------
(* Every load and store accesses an address of the range the analysis      *)
(* gives it in that context: what the data caches are analysed with.       *)
(* MIPSAddressAnalysis.cc                                                  *)
RangesSound ==
  step = "done" /\ Running /\ pc <= Len(Current) /\ IsAccess(Current[pc]) =>
    \E r \in ranges[<<CurrentContext(stack), node, pc>>] :
       AddressOf(Current[pc]) \in r.from .. r.from + r.size - 1

(* The analysis ends, whatever order the nodes are taken in.               *)
(* AddressAnalysis.cc                                                      *)
Termination == <>(phase = "rejected" \/ step \in {"done", "refused"})
=============================================================================
