---------------------------- MODULE CfgExtraction ----------------------------
(***************************************************************************)
(* HeptaneExtract: the control-flow graphs built from a disassembly        *)
(* (BuildCfg, HeptaneExtract.cc), followed by any run of the code that was *)
(* disassembled.                                                           *)
(*                                                                         *)
(* A line of a text is the label of a function ("label") or an             *)
(* instruction: its mnemonic, its operands, its address, and extra, the    *)
(* words objdump adds in a comment: the function called, the address of    *)
(* the word loaded, or the distance from pc.  Addresses count              *)
(* instructions; those of MSP430, of size 1 or 2, count words of two       *)
(* bytes.  What an instruction really does is in does, target, callee and  *)
(* reads, that only the execution looks at: it is "plain" or a "nop"; a    *)
(* "call" of callee, a "return", a "jump" or a "branch" to target; a       *)
(* "conditional return" or a "conditional call"; an indirect jump through  *)
(* the "table" of a switch; and reads these words of the text.             *)
(***************************************************************************)
EXTENDS ObjdumpParser, ProgramXml, ControlFlow

CONSTANTS
  Texts,     \* sets of texts [arch, headers, symbols, lines, entry, switches,
             \* cases]: the architecture, the headers of the sections, the symbol
             \* table, the lines of .text, the name of the entry point, the
             \* switch addresses, the addresses their tables hold
  NULL       \* no node, no function, no instruction

VARIABLES
  text,           \* the program
  symbol_table,   \* the sections, functions and variables read
  instrWithWords, \* the words each instruction loads (ARM)
  pos,            \* the lines parsed
  function,       \* the function under construction
  instructions,   \* its instructions,
  bb_start_addr,  \*   the starts of its basic blocks
  succs,          \*   and the successors of its jumps: <<address, target>>
  cfgs,           \* the graphs of the functions of the symbol table
  finalized,      \* was finalize_program_construction called?
  output,         \* the file exported, and the program the analyses read in it
  running,        \* execution: the function that runs
  pc              \* execution: its next instruction

programVars == <<text, symbol_table, instrWithWords>>
parserVars == <<programVars, pos, function, instructions, bb_start_addr, succs, cfgs, finalized,
                output>>
vars == <<parserVars, running, pc>>

arch == text.arch
Line == text.lines[pos + 1]
Parsed == pos = Len(text.lines)

Labels == {i \in DOMAIN text.lines : isLabel(text.lines[i])}

functions == symbol_table.functions

(* The instruction of a line. *)
Parse(line) == parseInstruction(arch, line)
-----------------------------------------------------------------------------
(* The first step: the headers of the sections and the symbol table, with  *)
(* at least one section.                                                   *)
ReadHeaders ==
  LET table == parseHeaders(arch, text.headers, text.symbols)
  IN  /\ symbol_table = NULL
      /\ table.defined /\ table.sections # <<>>
      /\ symbol_table' = table
      /\ UNCHANGED <<text, instrWithWords, pos, function, instructions, bb_start_addr, succs, cfgs,
                     finalized, output, running, pc>>

(* An unconditional jump to an epilog ends the function (MSP430). *)
isMSP430EpilogFunction(a) ==
  a \in DOMAIN functions /\ Head(functions[a]) = "__mspabi_func_epilog_"

changeCodeMSP430(instr) ==
  /\ arch = "MSP430" /\ isUnconditionalJump(arch, instr)
  /\ isMSP430EpilogFunction(getJumpDestination(arch, instr))
-----------------------------------------------------------------------------
(* The words of a text that instructions load (ARM). *)

isPcInInputResources(instr)  == "pc" \in getResourceInputs(arch, instr)
isPcInOutputResources(instr) == "pc" \in getResourceOutputs(arch, instr)

(* The label a line follows, by its index. *)
LabelOf(i) == CHOOSE l \in 1 .. i : /\ isLabel(text.lines[l])
                                    /\ \A k \in l + 1 .. i : ~ isLabel(text.lines[k])

wordsPerFunction(l) ==
  {text.lines[i].addr : i \in {j \in l + 1 .. Len(text.lines) :
     ~ isLabel(text.lines[j]) /\ isWord(arch, text.lines[j]) /\ LabelOf(j) = l}}

getNumberOfLoads(instr) ==
  LET lists == {i \in DOMAIN instr.operands : instr.operands[i].form = "list"}
  IN  IF lists = {} THEN 1
      ELSE getSizeRegisterList(instr.operands[CHOOSE i \in lists : TRUE].elements)

(* Mutant of getWordsFromInstr: a load consumes the line after it too. *)
getWordsFromInstrConsuming(i) ==
  [words |-> {text.lines[i].extra[1]}, defined |-> TRUE, is_instr2_consumed |-> TRUE]

(* The words of instruction i, where pc is an input: the one in the        *)
(* comment of a load; or, for the addition of pc that computes the address *)
(* of the ldm that follows it, those of that ldm.  Anything else fails an  *)
(* assertion.                                                              *)
getWordsFromInstr(i) ==
  LET instr1 == text.lines[i]
      instr2 == text.lines[i + 1]
      first  == instr1.addr + 2 + instr1.extra[1]
      words  == IF TypeOf(arch, instr1) = "Load" THEN {instr1.extra[1]}
                ELSE {first + k : k \in 0 .. getNumberOfLoads(instr2) - 1}
  IN  [words |-> words,
       defined |-> /\ words \subseteq wordsPerFunction(LabelOf(i))
                   /\ \/ TypeOf(arch, instr1) = "Load"
                      \/ instr1.mnemonic = "add" /\ instr2.mnemonic = "ldm"
                                                 /\ getNumberOfLoads(instr2) > 1,
       is_instr2_consumed |-> TypeOf(arch, instr1) # "Load"]

(* The third step: the lines are read one after the other, and a line      *)
(* consumed with the one before it is not looked at again.                 *)
FindWords ==
  LET usesWord(i) ==
        /\ ~ isLabel(text.lines[i])
        /\ isPcInInputResources(text.lines[i]) /\ ~ isPcInOutputResources(text.lines[i])
      add(found, i) ==
        IF found.skip \/ ~ usesWord(i) THEN [found EXCEPT !.skip = FALSE]
        ELSE IF i = Len(text.lines) \/ isLabel(text.lines[i + 1])
               THEN [found EXCEPT !.defined = FALSE]
        ELSE LET new == getWordsFromInstr(i)
                 of  == {text.lines[i].addr} \cup
                        (IF new.is_instr2_consumed THEN {text.lines[i + 1].addr} ELSE {})
             IN  [words   |-> [a \in of |-> new.words] @@ found.words,
                  defined |-> found.defined /\ new.defined,
                  skip    |-> new.is_instr2_consumed]
      found == FoldLeft(add, [words |-> <<>>, defined |-> TRUE, skip |-> FALSE],
                        [i \in DOMAIN text.lines |-> i])
  IN  /\ symbol_table # NULL /\ instrWithWords = NULL
      /\ arch = "ARM" =>
           \A i \in DOMAIN text.lines \ Labels : isParsed(arch, Parse(text.lines[i]))
      /\ IF arch = "ARM" /\ \E l \in Labels : wordsPerFunction(l) # {}
           THEN found.defined /\ instrWithWords' = found.words
           ELSE instrWithWords' = <<>>
      /\ UNCHANGED <<text, symbol_table, pos, function, instructions, bb_start_addr, succs, cfgs,
                     finalized, output, running, pc>>
-----------------------------------------------------------------------------
isJump(instr) == isUnconditionalJump(arch, instr) \/ isConditionalJump(arch, instr)

(* Mutant of EndsBlock: returns are forgotten. *)
EndsBlockUnlessReturn(instr) == isCall(arch, instr) \/ isJump(instr)

EndsBlock(instr) == isCall(arch, instr) \/ isReturn(arch, instr) \/ isJump(instr)

-----------------------------------------------------------------------------
(* build_heptane_cfg.  The nodes are named by their first address; several *)
(* instructions share an address when kernel has rewritten one.            *)

isNew(i) == i = 1 \/ instructions[i].addr # instructions[i - 1].addr

StartsBlock(i) == i = 1 \/ (isNew(i) /\ instructions[i].addr \in bb_start_addr)

(* The node of instruction i. *)
curbb_start_addr(i) ==
  instructions[CHOOSE j \in 1 .. i : /\ StartsBlock(j)
                                     /\ \A k \in j + 1 .. i : ~ StartsBlock(k)].addr

Starts == {i \in DOMAIN instructions : StartsBlock(i)}

(* Mutant of address_to_node: the address of a block of another function. *)
address_to_nodeAny(a) == a

address_to_node(a) == IF \E i \in Starts : instructions[i].addr = a THEN a ELSE NULL

(* Of the instructions of one address only the first is looked at. *)
previous_block_has_jump(b) ==
  \E i \in DOMAIN instructions :
     curbb_start_addr(i) = b /\ isNew(i) /\ EndsBlock(instructions[i])

(* The edges from a block to the next, and those of the jumps. *)
Edges ==
  {<<curbb_start_addr(i - 1), instructions[i].addr>> :
     i \in {j \in Starts \ {1} : ~ previous_block_has_jump(curbb_start_addr(j - 1))}}
  \cup
  UNION {{<<curbb_start_addr(i), address_to_node(s[2])>> :
             s \in {x \in succs : x[1] = instructions[i].addr}} :
         i \in {j \in DOMAIN instructions : ~ changeCodeMSP430(instructions[j])}}

(* cleanCfg: on ARM, a nop alone in its block and without predecessor (it  *)
(* aligns a table of constants) loses its edges, the first node excepted.  *)
cleanCfg(nodes, code, edges) ==
  LET isolated(es, n) ==
        /\ Len(code[n]) = 1 /\ code[n][1].mnemonic = "nop"
        /\ \A e \in es : e[2] # n
  IN  IF arch # "ARM" THEN edges
      ELSE FoldLeft(LAMBDA es, n : IF isolated(es, n) THEN {e \in es : e[1] # n} ELSE es,
                    edges, Tail(nodes))

Graph ==
  LET nodes == SelectSeq([i \in DOMAIN instructions |->
                            IF StartsBlock(i) THEN instructions[i].addr ELSE NULL],
                         LAMBDA a : a # NULL)
      code  == [n \in ToSet(nodes) |->
                  LET of == {i \in DOMAIN instructions : curbb_start_addr(i) = n}
                  IN  SubSeq(instructions, CHOOSE i \in of : \A j \in of : i <= j,
                                           CHOOSE i \in of : \A j \in of : i >= j)]
  IN  [nodes    |-> nodes,
       code     |-> code,
       edges    |-> cleanCfg(nodes, code, Edges),
       endNodes |-> {n \in ToSet(nodes) : \E i \in DOMAIN code[n] :
                       changeCodeMSP430(code[n][i]) \/ isReturn(arch, code[n][i])},
       calls    |-> UNION {{<<n, getCalleeName(arch, code[n][i])>> :
                              i \in {j \in DOMAIN code[n] : isCall(arch, code[n][j])}} :
                           n \in ToSet(nodes)}]

NoGraph == [nodes |-> <<>>, code |-> <<>>, edges |-> {}, endNodes |-> {}, calls |-> {}]

(* One graph for each function of the symbol table.  *)
CreateCfgs ==
  /\ instrWithWords # NULL /\ cfgs = NULL
  /\ cfgs' = [f \in DOMAIN functions |-> NoGraph]
  /\ UNCHANGED <<programVars, pos, function, instructions, bb_start_addr, succs, finalized,
                 output, running, pc>>

(* Each call must name the function called. *)
hasCalleeNames ==
  \A i \in DOMAIN instructions : isCall(arch, instructions[i]) => hasCalleeName(instructions[i])

(* The function of a label that is not in the symbol table has no graph. *)
build_heptane_cfg ==
  IF function \in DOMAIN functions
    THEN hasCalleeNames /\ cfgs' = [cfgs EXCEPT ![function] = Graph]
  ELSE UNCHANGED cfgs
-----------------------------------------------------------------------------
(* kernel: the multiple loads and stores of ARM become single ones.  An    *)
(* instruction carries its rewritten code: NULL for its own.               *)

isPush(instr) == instr.mnemonic \in {"push", "vpush"}
isPop(instr)  == instr.mnemonic = "vpop" \/ instr.mnemonic \in ConditionalPops \cup {"pop"}

(* getMultipleLoadStoreARMInfos.  Ranges are not expanded, and the         *)
(* condition of a pop takes the place of its first register.               *)
regList(instr) ==
  LET elements == Last(instr.operands).elements
  IN  [i \in DOMAIN elements |->
         IF i = 1 /\ instr.mnemonic \in ConditionalPops THEN "condition"
         ELSE IF isRange(elements[i]) THEN First(elements[i]) \o "-" \o Final(elements[i])
         ELSE First(elements[i])]

oregister(instr) ==
  IF isPush(instr) \/ isPop(instr) THEN "sp"
  ELSE IF instr.operands[1].form = "banged" THEN instr.operands[1].base ELSE instr.operands[1].text

writeBack(instr) == isPush(instr) \/ isPop(instr) \/ instr.operands[1].form = "banged"

Code(op, reg, base, offset) == [op |-> op, reg |-> reg, base |-> base, offset |-> offset]

(* Mutant of accessOffset: the offsets of the ldm and stm without suffix.  *)
accessOffsetAfter(instr, i) == 4 * (i - 1)

(* The offset of the i-th access: the base is decremented (stmdb) or not,  *)
(* before or after.  The stores of a push come after the subtraction.      *)
accessOffset(instr, i) ==
  CASE instr.mnemonic = "stmdb" -> -4 * i
    [] instr.mnemonic = "stmib" -> 4 * i
    [] OTHER -> 4 * (i - 1)

(* The single accesses have the mnemonic ldr or str; the instruction that  *)
(* moves the base keeps that of the multiple access, and with it its type. *)
kernel(instr) ==
  LET list   == regList(instr)
      base   == oregister(instr)
      op     == IF isPop(instr) \/ instr.mnemonic = "ldm" THEN "ldr" ELSE "str"
      single == [i \in DOMAIN list |->
                   [instr EXCEPT !.mnemonic = op,
                                 !.code = Code(op, list[i], base, accessOffset(instr, i))]]
      moved(o) == <<[instr EXCEPT !.code = Code(o, base, base, 4 * Len(list))]>>
  IN  IF arch # "ARM" \/ ~ (isPush(instr) \/ isPop(instr)
                             \/ instr.mnemonic \in {"ldm", "stm", "stmdb", "stmib"})
        THEN <<instr>>
      ELSE IF isPush(instr) THEN moved("sub") \o single
      ELSE IF ~ writeBack(instr) THEN single
      ELSE single \o moved(IF instr.mnemonic = "stmdb" THEN "sub" ELSE "add")

(* Mutant of addr_next_bb: the delay slot starts a block. *)
addr_next_bbNoSlot(instr) == instr.addr + 1

(* The jumps of MSP430 are half as long as its calls. *)
addr_next_bb(instr) ==
  instr.addr + (IF arch = "MSP430" /\ ~ isJump(instr) THEN 2 ELSE 1) + getNBInstrInDelaySlot(arch)

(* Mutant of ParseFunction: a function built is not forgotten. *)
ParseFunctionKeeping ==
  /\ cfgs # NULL /\ ~ Parsed /\ isLabel(Line)
  /\ IF function = NULL THEN UNCHANGED cfgs ELSE build_heptane_cfg
  /\ function' = Line.addr
  /\ pos' = pos + 1
  /\ UNCHANGED <<programVars, instructions, bb_start_addr, succs, finalized, output, running, pc>>

(* A label: the previous function is built, and forgotten if it could be.  *)
ParseFunction ==
  /\ cfgs # NULL /\ ~ Parsed /\ isLabel(Line) /\ hasAddress(Line)
  /\ IF function = NULL THEN UNCHANGED <<instructions, bb_start_addr, succs, cfgs>>
     ELSE /\ build_heptane_cfg
          /\ IF function \in DOMAIN functions
               THEN instructions' = <<>> /\ bb_start_addr' = {} /\ succs' = {}
               ELSE UNCHANGED <<instructions, bb_start_addr, succs>>
  /\ function' = Line.addr
  /\ pos' = pos + 1
  /\ UNCHANGED <<programVars, finalized, output, running, pc>>

(* The words of ARM are left out.  A jump must have a destination, or an   *)
(* assertion fails.                                                        *)
ParseInstruction ==
  /\ cfgs # NULL /\ ~ Parsed /\ isInstruction(Line)
  /\ LET instr  == Parse(Line)
         next   == IF EndsBlock(instr) THEN {addr_next_bb(instr)} ELSE {}
         target == IF isJump(instr) THEN {getJumpDestination(arch, instr)} ELSE {}
         after  == IF isCall(arch, instr) \/ isConditionalJump(arch, instr) THEN next ELSE {}
     IN  /\ isParsed(arch, instr)
         /\ isJump(instr) => hasJumpDestination(instr)
         /\ IF isWord(arch, instr) THEN UNCHANGED <<instructions, bb_start_addr, succs>>
            ELSE /\ instructions' = instructions \o kernel(instr)
                 /\ bb_start_addr' = bb_start_addr \cup next \cup target
                 /\ succs' = succs \cup {<<instr.addr, a>> : a \in after \cup target}
  /\ pos' = pos + 1
  /\ UNCHANGED <<programVars, function, cfgs, finalized, output, running, pc>>

(* The index of the node with address a, 0 if there is none. *)
getIndexNodeWithFirstAddr(g, a) ==
  SelectInSeq(g.nodes, LAMBDA n : n <= a /\ a <= Last(g.code[n]).addr)

(* computeSwitch, for the switch at address a: an edge from the block of   *)
(* the indirect jump to each of the blocks before the end of the switch.   *)
computeSwitch(g, a) ==
  LET nn    == getIndexNodeWithFirstAddr(g, a)
      incr  == IF arch \in {"MIPS", "MSP430", "RISCV"} THEN 1 ELSE 0
      jumps == SelectSeq(Reverse(g.code[g.nodes[nn]]), isJump)
      m     == getIndexNodeWithFirstAddr(g, getJumpDestination(arch, Head(jumps)))
      n     == g.nodes[nn + incr]
  IN  IF nn = 0 \/ jumps = <<>> \/ m = 0 THEN g
      ELSE [g EXCEPT !.edges = @ \cup {<<n, g.nodes[j]>> : j \in nn + 1 + incr .. m - 1},
                     !.endNodes = @ \ {n}]

FunctionNames == UNION {ToSet(functions[f]) : f \in DOMAIN functions}

(* The graphs of all the functions, their switches computed; the loops are *)
(* those of Program.  There must be an entry point.                        *)
finalize_program_construction(built) ==
  /\ text.entry \in FunctionNames
  /\ cfgs' = [f \in DOMAIN built |->
                IF built[f].nodes = <<>> THEN built[f]
                ELSE FoldLeft(computeSwitch, built[f], text.switches)]

(* The end of the text: the last function is built; if it could be, the    *)
(* program is finalized.                                                   *)
Finish ==
  /\ Parsed /\ function # NULL
  /\ function' = NULL
  /\ IF function \in DOMAIN functions
       THEN hasCalleeNames /\ finalize_program_construction([cfgs EXCEPT ![function] = Graph])
       ELSE UNCHANGED cfgs
  /\ finalized' = (function \in DOMAIN functions)
  /\ UNCHANGED <<programVars, pos, instructions, bb_start_addr, succs, output, running, pc>>
-----------------------------------------------------------------------------
(* The program exported: the graphs of the functions, by increasing        *)
(* address, then those of the functions that are called and unknown.       *)

CallsOf(block) == SelectSeq(block, LAMBDA i : isCall(arch, i))

(* The last call of a block is the one its node makes. *)
SetCall(block) ==
  IF CallsOf(block) = <<>> THEN [type |-> "BasicBlock", callee_name |-> "", instructions |-> block]
  ELSE [type |-> "FunctionCall", callee_name |-> getCalleeName(arch, Last(CallsOf(block))),
        instructions |-> block]

(* The pairs of a set, in the order of a sequence, NULL last. *)
InOrder(pairs, nodes) ==
  LET ends == Append(nodes, NULL)
  IN  FlattenSeq([i \in DOMAIN nodes |->
        SelectSeq([j \in DOMAIN ends |-> <<nodes[i], ends[j]>>], LAMBDA e : e \in pairs)])

(* Of the c-th graph, in a program that is finalized or not: the loops are *)
(* created if it is (LoopDetection).                                       *)
CfgOf(g, c, names, addr) ==
  LET edges    == InOrder(g.edges, g.nodes)
      place(n) == IF n = NULL THEN Nowhere ELSE NodeAt(c, SelectInSeq(g.nodes, LAMBDA m : m = n))
      inside   == {e \in g.edges : e[2] # NULL}
      heads    == IF ~ finalized \/ g.nodes = <<>> THEN <<>>
                  ELSE SelectSeq(g.nodes, LAMBDA n : n \in LoopHeads(inside, g.nodes[1]))
      loop(h)  == [head      |-> place(h),
                   nodes     |-> {place(n) : n \in LoopOf(inside, g.nodes[1], h)},
                   backedges |-> {EdgeAt(c, e) : e \in {i \in DOMAIN edges :
                                    edges[i][2] = h /\ edges[i] \in BackEdges(inside, g.nodes[1])}}]
  IN  [FoldLeft(LAMBDA cfg, n : CreateNewNode(cfg, c, SetCall(g.code[n])), NewCfg(names, addr), g.nodes)
         EXCEPT !.endNodes = {place(n) : n \in g.endNodes},
                !.edges = [e \in DOMAIN edges |-> [origin      |-> place(edges[e][1]),
                                                   destination |-> place(edges[e][2])]],
                !.loops = [l \in DOMAIN heads |-> loop(heads[l])]]

(* The functions by increasing address. *)
FunctionsInOrder == SetToSortSeq(DOMAIN functions, <)

Program ==
  LET known   == [c \in DOMAIN FunctionsInOrder |->
                    LET f == FunctionsInOrder[c] IN CfgOf(cfgs[f], c, functions[f], f)]
      called  == FlattenSeq([c \in DOMAIN known |->
                   [n \in DOMAIN known[c].nodes |-> known[c].nodes[n].callee_name]])
      unknown == FoldLeft(LAMBDA s, name : IF name \in {""} \cup FunctionNames \cup ToSet(s) THEN s
                                           ELSE Append(s, name), <<>>, called)
      all     == known \o [u \in DOMAIN unknown |-> NewCfg(<<unknown[u]>>, 0)]
      entry   == GetCfgByName([cfgs |-> all], text.entry)
  IN  [cfgs |-> all, entry |-> IF finalized THEN PlaceOf(entry) ELSE PlaceOf(1)]

exportCfg ==
  /\ Parsed /\ function = NULL /\ output = NULL
  /\ output' = [file |-> Program_WriteXml(Program)]
  /\ UNCHANGED <<programVars, pos, function, instructions, bb_start_addr, succs, cfgs, finalized,
                 running, pc>>

(* The analyses read the file. *)
unserialise_program_file ==
  /\ output # NULL /\ DOMAIN output = {"file"}
  /\ output' = Program_ReadXml(output.file)
  /\ UNCHANGED <<programVars, pos, function, instructions, bb_start_addr, succs, cfgs, finalized,
                 running, pc>>
-----------------------------------------------------------------------------
(* The execution of one function after the other; calls return. *)

Done == output # NULL /\ DOMAIN output # {"file"}

Instr(a) == text.lines[CHOOSE i \in DOMAIN text.lines :
                          ~ isLabel(text.lines[i]) /\ text.lines[i].addr = a]

(* The addresses of the instructions of function f. *)
CodeOf(f) ==
  LET labels == Labels
      begin  == {l \in labels : text.lines[l].addr = f}
      inside == {i \in DOMAIN text.lines \ labels :
                   \E l \in begin : l < i /\ ~ \E k \in labels : l < k /\ k < i}
  IN  {text.lines[i].addr : i \in inside}

Transfers(a) == Instr(a).does \notin {"plain", "nop"}

(* The instruction after a, and its delay slot. *)
After(a) == a + Instr(a).size + getNBInstrInDelaySlot(arch)

(* Where instruction a sends control. *)
Targets(a) ==
  CASE Instr(a).does \in {"plain", "nop"} -> {a + Instr(a).size}
    [] Instr(a).does \in {"call", "conditional call", "conditional return"} -> {After(a)}
    [] Instr(a).does = "jump" -> {Instr(a).target}
    [] Instr(a).does = "branch" -> {Instr(a).target, After(a)}
    [] Instr(a).does = "table" -> text.cases \cup (IF arch = "ARM" THEN {a + 1} ELSE {})
    [] OTHER -> {}

(* The instructions executed after a: an instruction in a delay slot ends  *)
(* what the instruction before it has begun.                               *)
Follow(a) ==
  IF getNBInstrInDelaySlot(arch) = 0 THEN Targets(a)
  ELSE IF Transfers(a) THEN {a + 1}
  ELSE IF \E f \in DOMAIN functions : {a - 1, a} \subseteq CodeOf(f) /\ Transfers(a - 1)
         THEN Targets(a - 1)
  ELSE Targets(a)

Enter ==
  /\ Done /\ running = NULL
  /\ running' \in {f \in DOMAIN functions : CodeOf(f) # {}}
  /\ pc' = running'
  /\ UNCHANGED parserVars

Execute ==
  /\ running # NULL
  /\ \/ pc' \in Follow(pc) \cap CodeOf(running) /\ running' = running
     \/ /\ \/ Follow(pc) = {} \/ ~ Follow(pc) \subseteq CodeOf(running)
           \/ Instr(pc).does = "conditional return"
        /\ pc' = NULL /\ running' = NULL
  /\ UNCHANGED parserVars

Init ==
  /\ \E set \in Texts : text \in set
  /\ symbol_table = NULL /\ instrWithWords = NULL
  /\ pos = 0 /\ function = NULL
  /\ instructions = <<>> /\ bb_start_addr = {} /\ succs = {}
  /\ cfgs = NULL
  /\ finalized = FALSE
  /\ output = NULL
  /\ running = NULL /\ pc = NULL

Next ==
  \/ ReadHeaders \/ FindWords \/ CreateCfgs \/ ParseFunction \/ ParseInstruction \/ Finish
  \/ exportCfg \/ unserialise_program_file \/ Enter \/ Execute

Spec == Init /\ [][Next]_vars
-----------------------------------------------------------------------------
(* The instruction the parser has just read, if any. *)
JustRead == {Parse(text.lines[i]) : i \in {j \in {pos} \ Labels : pos > 0 /\ function # NULL}}

(* Never do the operands of an instruction have two of its formats: the    *)
(* assertions of getResourceInputs, getResourceOutputs and checkFormat.    *)
Unambiguous ==
  ~ Parsed /\ isInstruction(Line) => Cardinality(Formats(arch, Parse(Line))) <= 1

(* The registers an operand names: all those of the ranges of a list. *)
NamedIn(o) ==
  LET field(f) == IF f \in DOMAIN o THEN {o[f]} ELSE {}
      offset(f) == IF f \in DOMAIN o.offset THEN {o.offset[f]} ELSE {}
  IN  DOMAIN regsOf(arch) \cap
        CASE o.form \in {"word", "digits"} -> field("text")
          [] o.form = "bracket" -> field("base") \cup offset("reg") \cup offset("by")
          [] o.form = "list" ->
               UNION {IF isRange(e) THEN {e.prefix \o ToString(k) : k \in e.from .. e.to}
                      ELSE {e.name} : e \in ToSet(o.elements)}
          [] OTHER -> field("base") \cup field("by")

(* A range of registers of floating-point numbers: its inner registers get *)
(* the names of others.                                                    *)
FloatRange(o) == o.form = "list" /\ \E e \in ToSet(o.elements) : isRange(e) /\ e.prefix # "r"

(* Each register an instruction names is among the resources it reads or   *)
(* writes, and no other register is: what the pipeline analysis knows of   *)
(* the dependences.  The exceptions: the ranges above; a zero register; of *)
(* MSP430, an indirect (its resource has the name @r5) and the base of the *)
(* second operand when it is in memory, lost; and what rpt repeats.        *)
RegistersCovered ==
  \A instr \in JustRead :
    LET named(i) == NamedIn(instr.operands[i])
        lost(i)  == \/ FloatRange(instr.operands[i]) \/ instr.operands[i].form = "indirect"
                    \/ arch = "MSP430" /\ i = 2 /\ instr.operands[i].form = "offset"
                    \/ TypeOf(arch, instr) = "Repeat"
                    \/ named(i) # {} /\ \A r \in named(i) : regsOf(arch)[r] = Instances[arch].zero
        resources == getResourceInputs(arch, instr) \cup getResourceOutputs(arch, instr)
        implicit  == IF isPush(instr) \/ isPop(instr) THEN {"sp"} ELSE {}
    IN  /\ \A i \in DOMAIN instr.operands : ~ lost(i) => named(i) \subseteq resources
        /\ (\A i \in DOMAIN instr.operands : ~ lost(i)) =>
             resources \cap DOMAIN regsOf(arch) \subseteq
               UNION {named(i) : i \in DOMAIN instr.operands} \cup implicit

(* What a multiple access really does: the registers of the list, in the   *)
(* order of their numbers, at increasing addresses relative to the base,   *)
(* and the place the base is moved to.                                     *)
Accesses(instr) ==
  LET list == FlattenSeq([i \in DOMAIN Last(instr.operands).elements |->
                LET e == Last(instr.operands).elements[i]
                IN  IF isRange(e) THEN [k \in 1 .. e.to - e.from + 1 |->
                                          e.prefix \o ToString(e.from + k - 1)]
                    ELSE <<e.name>>])
      width == IF instr.mnemonic \in {"vpush", "vpop"} THEN 8 ELSE 4
      down  == isPush(instr) \/ instr.mnemonic = "stmdb"
      start == IF down THEN -width * Len(list) ELSE IF instr.mnemonic = "stmib" THEN 4 ELSE 0
      end   == IF ~ writeBack(instr) THEN 0 ELSE IF down THEN start ELSE width * Len(list)
  IN  {<<list[i], start + width * (i - 1)>> : i \in DOMAIN list} \cup {<<"base", end>>}

(* What the rewritten instructions do, one after the other: the registers  *)
(* with the addresses, relative to the base before the first of them.  It  *)
(* is lost when the base is one of the registers loaded.                   *)
AccessesOf(code) ==
  LET shift(i) == FoldLeft(LAMBDA d, c : IF c.op = "add" THEN d + c.offset
                                         ELSE IF c.op = "sub" THEN d - c.offset ELSE d,
                           0, SubSeq(code, 1, i - 1))
      loaded(i) == \E j \in 1 .. i - 1 : code[j].op = "ldr" /\ code[j].reg = code[i].base
  IN  {<<code[i].reg, shift(i) + code[i].offset>> :
         i \in {j \in DOMAIN code : code[j].op \in {"ldr", "str"} /\ ~ loaded(j)}}
      \cup {<<"base", shift(Len(code) + 1)>>}

(* A multiple load or store is rewritten into the same accesses.  The      *)
(* exceptions: a list with a range; a conditional pop, whose first         *)
(* register is lost; registers of eight bytes, given four; stmdb, whose    *)
(* registers are stored in the wrong order; and ldm when it loads its base *)
(* before other registers.                                                 *)
KernelAccesses ==
  \A instr \in JustRead :
    LET code    == [i \in DOMAIN kernel(instr) |-> kernel(instr)[i].code]
        list    == Last(instr.operands).elements
        ordered == /\ \A i \in DOMAIN list : ~ isRange(list[i])
                   /\ instr.mnemonic \notin ConditionalPops \cup {"vpush", "vpop"}
                   /\ instr.mnemonic = "stmdb" => Len(list) = 1
                   /\ instr.mnemonic = "ldm" =>
                        \A i \in 1 .. Len(list) - 1 : First(list[i]) # oregister(instr)
    IN  code[1] # NULL => (AccessesOf(code) = Accesses(instr) <=> ordered)

(* The words an instruction reads are those attached to it: the value they *)
(* give the loads of the address analysis.  The exception: the load of a   *)
(* register of eight bytes gets its first word only.                       *)
WordsFound ==
  instrWithWords # NULL /\ cfgs = NULL => \A i \in DOMAIN text.lines \ Labels :
    LET line == text.lines[i]
    IN  line.reads # {} /\ line.mnemonic # "vldr" =>
          line.addr \in DOMAIN instrWithWords /\ line.reads \subseteq instrWithWords[line.addr]

(* The variables of a text, by their places in its symbol table. *)
VariableSymbols == {i \in DOMAIN text.symbols : text.symbols[i].type = "O"}

(* The name a symbol is recorded with. *)
RecordedName(symbol) == IF arch \in {"ARM", "MSP430"} THEN symbol.name ELSE sixthField(symbol)

GpNames == [MIPS |-> "_gp", RISCV |-> "__global_pointer$", FLEXPRET |-> "__global_pointer$"]

(* The analyses know, for every address of a variable, its section and a   *)
(* range that holds all of the variable: that is what they take a load or  *)
(* a store at this address to access.  They know the global pointer.  The  *)
(* exceptions: a variable whose name is given to a later one (two static   *)
(* variables of two files, two hidden ones on MIPS and RISC-V) is found as *)
(* part of its section, or not at all, which stops the analysis; and the   *)
(* global pointer of FlexPRET, never set.                                  *)
VariablesKnown ==
  symbol_table # NULL /\ instrWithWords = NULL =>
    LET attribute == SymbolTableAttribute(arch, symbol_table)
        known(v) ==
          \A a \in v.addr .. v.addr + v.size - 1 :
            /\ getInfo(attribute, a) # {}
            /\ \A info \in getInfo(attribute, a) :
                 /\ info.section = v.section
                 /\ info.addr <= v.addr /\ v.addr + v.size <= info.addr + info.size
        shadowed(i) == \E j \in VariableSymbols :
                         j > i /\ RecordedName(text.symbols[i]) = RecordedName(text.symbols[j])
    IN  /\ \A i \in VariableSymbols :
             known(text.symbols[i]) <=> ~ shadowed(i) \/ text.symbols[i].section \in Anonymous
        /\ arch \in DOMAIN GpNames => \A s \in ToSet(text.symbols) :
             s.name = GpNames[arch] => (attribute.gp = s.addr <=> arch # "FLEXPRET")
-----------------------------------------------------------------------------
NodesOf(g) == ToSet(g.nodes)

NodeOf(g, a) == CHOOSE n \in NodesOf(g) : \E i \in DOMAIN g.code[n] : g.code[n][i].addr = a

InTable(block) == \E i \in DOMAIN block : block[i].does = "table"

(* Is the step of the execution a step in the graph g?  Within a block it  *)
(* goes on to the next instruction; it leaves a block after its last       *)
(* instruction (or an indirect jump), by an edge; it leaves the graph from *)
(* an end node, or by an edge to nowhere; the node of a call knows the     *)
(* function called.                                                        *)
StepIn(g) ==
  LET n     == NodeOf(g, pc)
      block == g.code[n]
  IN  /\ \/ pc' = pc + Instr(pc).size /\ \E i \in DOMAIN block : block[i].addr = pc'
         \/ <<n, pc'>> \in g.edges /\ (pc = Last(block).addr \/ InTable(block))
         \/ pc' = NULL /\ (n \in g.endNodes \/ \E a \in Follow(pc) : <<n, a>> \in g.edges)
      /\ Instr(pc).does \in {"call", "conditional call"} => <<n, Instr(pc).callee>> \in g.calls

(* The instructions whose type is not what they do: a conditional return   *)
(* (bxeq) is a return, after which nothing is executed; a conditional call *)
(* (bleq) is a branch; a ldm that loads pc is nothing but a load.          *)
Mistaken(instr) ==
  \/ instr.does = "conditional return" /\ TypeOf(arch, instr) = "Return"
  \/ instr.does = "conditional call"
  \/ instr.does = "return" /\ ~ isReturn(arch, instr)

(* What the analyses get of a graph: everything but its address, its names *)
(* in the other order, and that it is external.                            *)
Received(cfg) ==
  [cfg EXCEPT !.addr = 0, !.external = FALSE, !.names = <<"">> \o Reverse(@)]

(* The node of each call leads to the graph of the function called, the    *)
(* one at its address or one without nodes, unless a function before it    *)
(* has the same name.                                                      *)
CallsLinked(program) ==
  \A c \in DOMAIN FunctionsInOrder : \A node \in ToSet(program.cfgs[c].nodes) :
    \A i \in {j \in DOMAIN node.instructions : node.instructions[j].does = "call"} :
      LET callee == GetCallee(program, node)
          f      == node.instructions[i].target
          before == {g \in DOMAIN functions : g < f /\ node.instructions[i].callee \in ToSet(functions[g])}
      IN  IF f = 0 THEN callee > Len(FunctionsInOrder)
          ELSE callee > 0 /\ (FunctionsInOrder[callee] = f <=> before = {})

(* The analyses read the program that was built, every pointer to the same *)
(* object, if no edge leads out of its graph: the identifier NULL is       *)
(* nobody's, and an assertion stops them.                                  *)
ReadBack ==
  Done /\ running = NULL =>
    /\ output.defined <=> \A f \in DOMAIN functions : NULL \notin {e[2] : e \in cfgs[f].edges}
    /\ output.defined =>
         /\ output.program = [Program EXCEPT !.cfgs = [c \in DOMAIN @ |-> Received(@[c])]]
         /\ CallsLinked(output.program)

(* Every execution of a function is a path of its graph: a path the graph  *)
(* lacks is one the analyses do not bound.  The exceptions: a step after   *)
(* an instruction mistaken for another.                                    *)
ExecutionIsPath == [][Execute /\ ~ Mistaken(Instr(pc)) => StepIn(cfgs[running])]_vars

(* Does a label without a symbol precede function f? *)
AfterUnknown(f) ==
  \E l, k \in Labels : /\ k < l /\ text.lines[l].addr = f
                       /\ text.lines[k].addr \notin DOMAIN functions
                       /\ \A j \in Labels : j <= k \/ l <= j

(* The graph of a function starts at its entry, but for the functions that *)
(* follow a label without a symbol: the instructions of that label are     *)
(* kept, and become the start of the next graph.                           *)
StartsAtEntry ==
  Done /\ running = NULL => \A f \in DOMAIN functions :
             cfgs[f].nodes # <<>> => (cfgs[f].nodes[1] = f <=> ~ AfterUnknown(f))

(* The edges are steps of the code, so that the graph has no paths (and    *)
(* loops) of its own.  The exceptions: the blocks of a switch, all taken   *)
(* to follow its indirect jump; a conditional call, taken for a branch to  *)
(* the function called; and a pop of pc, rewritten by kernel: its block    *)
(* seems to continue with the next.                                        *)
EdgesFeasible ==
  Done /\ running = NULL => \A f \in DOMAIN functions : \A e \in cfgs[f].edges :
    LET block == cfgs[f].code[e[1]]
        after == Follow(Last(block).addr)
    IN  \/ e[2] \in after
        \/ e[2] = NULL /\ \E a \in after : \A n \in NodesOf(cfgs[f]) :
                             \A i \in DOMAIN cfgs[f].code[n] : cfgs[f].code[n][i].addr # a
        \/ InTable(block) \/ isPop(Last(block)) \/ Last(block).does = "conditional call"
=============================================================================
