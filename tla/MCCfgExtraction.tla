--------------------------- MODULE MCCfgExtraction ---------------------------
EXTENDS CfgExtraction

(* The operands, as objdump writes them. *)
Word(name)    == [form |-> "word", text |-> name]
Digits(name)  == [form |-> "digits", text |-> name, value |-> 33020]
Number(n)     == [form |-> "int", text |-> ToString(n), value |-> n]
Hex(n)        == [form |-> "hex", text |-> "0x" \o ToString(n), value |-> n]
RealNumber    == [form |-> "real", text |-> "0.0"]
Offset(n, base) ==
  [form |-> "offset", text |-> ToString(n) \o "(" \o base \o ")", base |-> base]
Indirect(base) == [form |-> "indirect", text |-> "@" \o base, base |-> base]
Bracket(base, offset, bang) ==
  [form |-> "bracket", text |-> "[]", base |-> base, offset |-> offset, bang |-> bang]
List(elements) == [form |-> "list", text |-> "{}", elements |-> elements]
Banged(base)   == [form |-> "banged", text |-> base \o "!", base |-> base]
Shift(by)      == [form |-> "shift", text |-> "lsl " \o by, by |-> by]

(* Those of MSP430 before the line is rewritten. *)
AbsoluteHex(n) == [Hex(n) EXCEPT !.form = "absolute hex"]
AbsoluteInt    == [form |-> "absolute int", text |-> "&82691"]
Distance       == [form |-> "distance", text |-> "$+8"]
Repeated(times, instr) == [form |-> "repeated", text |-> "4 {", times |-> times, instr |-> instr]

One(name) == [name |-> name]
To(prefix, from, to) == [prefix |-> prefix, from |-> from, to |-> to]

NoOffset     == [kind |-> "none"]
IntOffset    == [kind |-> "int"]
RegOffset(r) == [kind |-> "reg", reg |-> r]
ShiftOffset(r)       == [kind |-> "shift", reg |-> r]
ShiftByOffset(r, by) == [kind |-> "shift by register", reg |-> r, by |-> by]

(* An instruction that does something, on an architecture. *)
Instruction(mnemonic, operands, does) ==
  [mnemonic |-> mnemonic, operands |-> operands, does |-> does, size |-> 1, extra |-> <<>>,
   target |-> 0, callee |-> "", reads |-> {}, code |-> NULL]

Jump(instr, target) == [instr EXCEPT !.target = target]

(* Of the words of a comment the first is the name of the function called; *)
(* on MSP430 its address comes before.                                     *)
Calling(arch_, instr, f, name) ==
  [instr EXCEPT !.target = f, !.callee = name,
                !.extra = IF arch_ = "MSP430" THEN <<Hex(9), name>> ELSE <<name, "+0x4">>]

Compiled(arch_, does, target) ==
  CASE does = "nop" -> Instruction("nop", <<>>, "nop")
    [] does = "plain" ->
         (CASE arch_ = "ARM"    -> Instruction("add", <<Word("r1"), Word("r1"), Number(4)>>, does)
            [] arch_ = "MIPS"   -> Instruction("addiu", <<Word("sp"), Word("sp"), Number(-4)>>, does)
            [] arch_ = "MSP430" -> Instruction("clr", <<Word("r12")>>, does)
            [] OTHER            -> Instruction("addi", <<Word("sp"), Word("sp"), Number(-4)>>, does))
    [] does = "call" ->
         Calling(arch_,
           CASE arch_ = "ARM"    -> Instruction("bl", <<Digits("80fc")>>, does)
             [] arch_ = "MIPS"   -> Instruction("jal", <<Digits("80fc")>>, does)
             [] arch_ = "MSP430" -> [Instruction("call", <<Number(-15422)>>, does) EXCEPT !.size = 2]
             [] OTHER            -> Instruction("jal", <<Word("ra"), Digits("80fc")>>, does), 1, "f")
    [] does = "return" ->
         (CASE arch_ = "ARM"    -> Instruction("bx", <<Word("lr")>>, does)
            [] arch_ = "MIPS"   -> Instruction("jr", <<Word("ra")>>, does)
            [] OTHER            -> Instruction("ret", <<>>, does))
    [] does = "pop" -> Instruction("pop", <<List(<<One("r4"), One("pc")>>)>>, "return")
    [] does = "table" ->
         IF arch_ = "ARM"
           THEN Instruction("ldrls", <<Word("pc"), Bracket("pc", ShiftOffset("r3"), FALSE)>>, does)
         ELSE Instruction("jr", <<Word("v0")>>, does)
    [] does = "jump" ->
         Jump(IF arch_ = "MSP430"
                THEN [Instruction("jmp", <<Distance>>, does) EXCEPT !.extra = <<Hex(target), "f">>]
              ELSE Instruction(IF arch_ = "ARM" THEN "b" ELSE "j", <<Number(target)>>, does), target)
    [] does = "branch" ->
         Jump(CASE arch_ = "ARM"    -> Instruction("beq", <<Number(target)>>, does)
                [] arch_ = "MSP430" ->
                     [Instruction("jeq", <<Distance>>, does) EXCEPT !.extra = <<Hex(target), "f">>]
                [] arch_ = "MIPS"   ->
                     Instruction("bne", <<Word("v0"), Word("zero"), Number(target)>>, does)
                [] OTHER -> Instruction("bnez", <<Word("a0"), Number(target)>>, does), target)
    [] does = "conditional return" -> Instruction("bxeq", <<Word("lr")>>, does)
    [] does = "conditional pop" ->
         Instruction("pophi", <<List(<<One("r4"), One("pc")>>)>>, "conditional return")
    [] does = "conditional call" ->
         Calling(arch_, Instruction("bleq", <<Digits("80fc")>>, does), 1, "f")
    [] does = "far jump" ->
         Jump([Instruction("br", <<Number(target)>>, "jump") EXCEPT !.extra = <<Hex(target)>>], target)

Plain(kind) == [kind |-> kind, target |-> 0]
Jumps(kind, targets) == {[kind |-> kind, target |-> t] : t \in targets}

(* n instructions of a machine without delay slots. *)
Bodies(n, kinds) ==
  [1 .. n -> {Plain(k) : k \in kinds} \cup Jumps("jump", 1 .. n) \cup Jumps("branch", 1 .. n)]

(* The same with delay slots, each filled with a plain instruction. *)
SlotBodies(n, kinds) ==
  LET controls ==
        {Plain(k) : k \in kinds} \cup Jumps("jump", 1 .. n) \cup Jumps("branch", 1 .. n)
      bodies[k \in 0 .. n] ==
        IF k = 0 THEN {<<>>}
        ELSE {<<Plain("plain")>> \o b : b \in bodies[k - 1]} \cup
             (IF k = 1 THEN {}
              ELSE {<<c, Plain("plain")>> \o b : c \in controls, b \in bodies[k - 2]})
  IN  bodies[n]

Control(i) == i.kind \notin {"plain", "nop"}

(* What a compiler may write: no jump to a delay slot, no function that    *)
(* runs into the next label (a call or a nop may be last, of one that      *)
(* never returns).                                                         *)
WellMade(body, labels, delay) ==
  LET slots == {i \in 2 .. Len(body) : delay = 1 /\ Control(body[i - 1])}
      last(f) == IF \E l \in labels : l > f
                   THEN (CHOOSE l \in labels : l > f /\ \A k \in labels : k <= f \/ l <= k) - 1
                   ELSE Len(body)
  IN  /\ labels \cap slots = {}
      /\ \A i \in DOMAIN body : body[i].target \notin slots
      /\ \A f \in labels : body[last(f) - delay].kind \in {"return", "pop", "jump", "call"}

Label(a) ==
  [Instruction("label", <<>>, "label") EXCEPT !.size = 0] @@ [addr |-> a]

Header(name, a, size) == [name |-> name, addr |-> a, size |-> size]

(* Sections of which some are empty, or not extracted. *)
Headers ==
  <<Header(".reginfo", 0, 24), Header(".text", 1, 50), Header(".rodata", 100, 4),
    Header(".data", 110, 12), Header(".sdata", 130, 0), Header(".bss", 140, 8)>>

Symbol(a, type, location, name) ==
  [addr |-> a, type |-> type, location |-> location, section |-> ".text", size |-> 1,
   hidden |-> FALSE, name |-> name]

(* The text of instructions that follow each other from address 1 on, with *)
(* labels before some of them, whose symbols are given.                    *)
Text(arch_, instrs, labels, symbols) ==
  LET address[i \in 1 .. Len(instrs) + 1] ==
        IF i = 1 THEN 1 ELSE address[i - 1] + instrs[i - 1].size
      at(i) == [f \in DOMAIN instrs[i] \cup {"addr"} |-> IF f = "addr" THEN address[i] ELSE instrs[i][f]]
  IN  [arch |-> arch_, headers |-> Headers,
       lines |-> FlattenSeq([i \in DOMAIN instrs |->
                   (IF address[i] \in labels THEN <<Label(address[i])>> ELSE <<>>) \o <<at(i)>>]),
       symbols |-> symbols, entry |-> "f", switches |-> <<>>, cases |-> {}]

Functions(addresses) ==
  LET inOrder == SetToSortSeq(addresses, <)
  IN  [i \in DOMAIN inOrder |-> Symbol(inOrder[i], "F", "g", <<"f", "g">>[i])]

(* A text of a body, whose labels and targets are indices. *)
BodyText(arch_, body, labels, functions_) ==
  LET size(i) == Compiled(arch_, body[i].kind, 0).size
      address[i \in 1 .. Len(body) + 1] == IF i = 1 THEN 1 ELSE address[i - 1] + size(i - 1)
      target(i) == IF body[i].target \in 1 .. Len(body) THEN address[body[i].target]
                   ELSE body[i].target
  IN  Text(arch_, [i \in DOMAIN body |-> Compiled(arch_, body[i].kind, target(i))],
           {address[l] : l \in labels}, Functions({address[f] : f \in functions_}))

ArmTexts ==
  LET kinds(labels) == IF labels = {1} THEN {"nop", "return"} ELSE {"plain", "call", "pop"}
      made(b, labels) ==
        /\ \A i \in DOMAIN b : b[i].kind \in kinds(labels) \cup {"jump", "branch"}
        /\ WellMade(b, labels, 0)
        /\ b[1].kind \notin {"return", "pop", "jump"}
        /\ b[4].target <= 2
  IN  {BodyText("ARM", p[1], p[2], p[2]) :
         p \in {q \in Bodies(4, {"plain", "nop", "call", "return", "pop"}) \X {{1}, {1, 3}} :
                  made(q[1], q[2])}}

(* The conditional forms of returns, pops and calls. *)
ConditionalTexts ==
  {BodyText("ARM", b, {1}, {1}) :
     b \in {c \in [1 .. 4 -> {Plain("plain"), Plain("return"), Plain("conditional return"),
                              Plain("conditional pop"), Plain("conditional call"),
                              [kind |-> "branch", target |-> 3]}] : WellMade(c, {1}, 0)}}

(* The first label has no symbol; it may run into the function.  Or the    *)
(* last has none.                                                          *)
UnknownTexts ==
  {BodyText("RISCV", b, {1, 3}, {3}) :
     b \in {c \in Bodies(4, {"plain", "return"}) : WellMade(c, {3}, 0) /\ c[1].kind # "branch" /\ c[4].kind = "return"}}
  \cup
  {BodyText("RISCV", <<i, Plain("return"), Plain("plain"), Plain("return")>>, {1, 3}, {1}) :
     i \in {Plain("plain")} \cup Jumps("branch", 1 .. 2)}

(* Two functions, that call each other or one that is not in the text, and *)
(* may have the same name.                                                 *)
CallTexts ==
  LET name(a, second) == CASE a = 1 -> "f" [] a = 3 -> second [] OTHER -> "printf"
      call(a, second) == Calling("RISCV", Compiled("RISCV", "call", 0), a, name(a, second))
      return == Compiled("RISCV", "return", 0)
  IN  {[Text("RISCV", <<call(a, second), return, call(b, second), return>>, {1, 3}, Functions({1, 3}))
          EXCEPT !.symbols[2].name = second] : second \in {"f", "g"}, a \in {0, 1, 3}, b \in {0, 1, 3}}

MipsTexts ==
  {BodyText("MIPS", b, {1}, {1}) :
     b \in {c \in SlotBodies(6, {"call", "return"}) : WellMade(c, {1}, 1)}}
  \cup
  {BodyText("MIPS", b, {1, 4}, {1, 4}) :
     b \in {c \in SlotBodies(6, {"call", "return"}) : WellMade(c, {1, 4}, 1)}}

(* A switch with two cases, the second of which falls to the end. *)
SwitchTexts ==
  {[BodyText("MIPS", <<[kind |-> "branch", target |-> 8], Plain("plain"), Plain("table"), Plain("plain"),
           [kind |-> "jump", target |-> 8], Plain("plain"), Plain("plain"), Plain("return"),
           Plain("plain")>>, {1}, {1})
      EXCEPT !.switches = <<1>>, !.cases = {5, 7}],
   [BodyText("ARM", <<Plain("table"), [kind |-> "jump", target |-> 5], [kind |-> "jump", target |-> 5],
           Plain("plain"), Plain("return")>>, {1}, {1})
      EXCEPT !.switches = <<1>>, !.cases = {3, 4}]}

(* A jump to an epilog function, whose label hides among the symbols. *)
Epilog == [kind |-> "far jump", target |-> 20]

EpilogSymbols ==
  <<Symbol(1, "F", "g", "f"), Symbol(2, "UNDEF", "g", "__dtors_end"), Symbol(20, "UNDEF", "g", "epilog"),
    [Symbol(20, "UNDEF", "w", "__mspabi_func_epilog_") EXCEPT !.hidden = TRUE]>>

EpilogTexts ==
  {[BodyText("MSP430", b, {1}, {1}) EXCEPT !.symbols = EpilogSymbols] :
     b \in {c \in [1 .. 4 -> {Plain("plain"), Plain("call"), Plain("return"), Epilog} \cup
                             Jumps("branch", 1 .. 4)] : WellMade(c, {1}, 0)}}

(* Loads of the words of the text: one by one, two by one addition of pc   *)
(* (pc is two instructions ahead), the two halves of a number.             *)
Literal == Bracket("pc", IntOffset, FALSE)

WordLine == Instruction(".word", <<Hex(0)>>, "plain")

Reading(instr, extra, words) == [instr EXCEPT !.extra = <<extra>>, !.reads = words]

LoadsOf(i, word) ==
  {<<Reading(Instruction("ldr", <<Word("r3"), Literal>>, "plain"), word, {word}),
     Compiled("ARM", "plain", 0)>>,
   <<Reading(Instruction("add", <<Word("r3"), Word("pc"), Number(8)>>, "plain"), word - i - 2, {}),
     Reading(Instruction("ldm", <<Word("r3"), List(<<One("r4"), One("r5")>>)>>, "plain"), 0,
             {word, word + 1})>>,
   <<Reading(Instruction("vldr", <<Word("d7"), Literal>>, "plain"), word, {word, word + 1}),
     Compiled("ARM", "plain", 0)>>,
   <<Reading(Instruction("ldr", <<Word("r3"), Literal>>, "plain"), word, {word}),
     Reading(Instruction("ldr", <<Word("r4"), Literal>>, "plain"), word + 1, {word + 1})>>}

WordTexts ==
  {Text("ARM", first \o second \o <<Compiled("ARM", "return", 0), WordLine, WordLine, WordLine>>,
        {1}, Functions({1})) : first \in LoadsOf(1, 6), second \in LoadsOf(3, 7)}

(* One instruction of each line of the tables, for each format and some    *)
(* operands that have it; those that transfer control are above.           *)
RegisterAt(arch_, i) ==
  CASE arch_ = "ARM"    -> {Word(<<"r1", "r2", "r3", "d4">>[i])}
    [] arch_ = "MIPS"   -> {Word(<<"v0", "t1", "$f2">>[i])}
    [] arch_ = "MSP430" -> {Word(<<"r5", "r6">>[i]), Indirect(<<"r7", "r8">>[i])}
    [] OTHER            -> {Word(<<"s1", "ft2", "t3">>[i]), Digits(<<"a1", "a2", "a3">>[i])}

Memory(arch_) ==
  IF arch_ # "ARM" THEN {Offset(4, IF arch_ = "MSP430" THEN "r9" ELSE "sp")}
  ELSE {Bracket("fp", o, b) :
          o \in {IntOffset, RegOffset("r5"), ShiftOffset("r6"), ShiftByOffset("r7", "r8")},
          b \in BOOLEAN} \cup {Bracket("fp", NoOffset, FALSE)}

Lists ==
  {List(l) : l \in {<<One("r4")>>, <<One("r3"), One("r5")>>, <<To("r", 4, 7), One("lr")>>}}

FloatLists == {List(l) : l \in {<<One("d8")>>, <<To("d", 8, 9)>>, <<To("d", 8, 11)>>}}

Samples(arch_, class, i) ==
  CASE class = "register" -> RegisterAt(arch_, i)
    [] class = "zero"     -> {Word("zero")}
    [] class = "dec"      -> {Number(4)}
    [] class = "hex"      -> {Hex(4)}
    [] class = "addr"     -> IF arch_ # "MSP430" THEN {Number(4), Digits("80fc")}
                             ELSE {AbsoluteHex(4)} \cup (IF i = 1 THEN {} ELSE {AbsoluteInt})
    [] class = "fp"       -> {Number(4), RealNumber}
    [] class = "mem"      -> Memory(arch_)
    [] class = "list"     -> Lists \cup FloatLists
    [] class = "shifter"  -> {Shift("int"), Shift("r9"), Shift("rrx")}
    [] class = "written"  -> {Banged("r3"), Banged("r9")}
    [] class = "any"      -> {Word("rtz")}

OperandsOf(arch_, classes) ==
  LET lists[n \in 0 .. Len(classes)] ==
        IF n = 0 THEN {<<>>}
        ELSE {Append(l, o) : l \in lists[n - 1], o \in Samples(arch_, classes[n], n)}
  IN  lists[Len(classes)]

(* The lists of vpush and vpop, and no others, have the registers d0... *)
Listed(instr) ==
  \A i \in DOMAIN instr.operands : instr.operands[i].form = "list" =>
    (instr.operands[i] \in FloatLists <=> instr.mnemonic \in {"vpush", "vpop"})

(* An instruction with these operands, as objdump writes it. *)
Written(instr) ==
  [instr EXCEPT !.operands = IF instr.mnemonic = "rpt" THEN <<Repeated(@[1], @[2])>> ELSE @,
                !.extra = IF AbsoluteInt \in ToSet(instr.operands) THEN <<Hex(4)>> ELSE <<>>]

Lines(arch_) ==
  LET rows == {r \in {Instances[arch_].types[m] : m \in DOMAIN Instances[arch_].types} :
                 r.type \in {"Basic", "PredicatedBasic", "Load", "PredicatedLoad", "Store", "Repeat"}}
      some(row) == IF row.type \in {"Load", "Store"} THEN row.mnemonics
                   ELSE {CHOOSE m \in row.mnemonics : TRUE}
  IN  UNION {{i \in {Written(Instruction(m, o, "plain")) :
                        m \in some(row), o \in UNION {OperandsOf(arch_, f.classes) : f \in row.formats}} :
                Listed(i)} : row \in rows}

LineTexts ==
  UNION {{Text(a, <<l, Compiled(a, "return", 0), Compiled(a, "nop", 0)>>, {1}, Functions({1})) :
            l \in Lines(a)} : a \in Architectures}

(* The base of a multiple load among the registers loaded. *)
BaseTexts ==
  {Text("ARM", <<Instruction(m, <<b, List(l)>>, "plain"), Compiled("ARM", "return", 0)>>, {1},
        Functions({1})) :
     m \in {"ldm", "stm"}, b \in {Word("r4")},
     l \in {<<One("r4"), One("r5")>>, <<One("r3"), One("r4")>>}}

(* Symbol tables: two variables of one name, hidden ones, a constant, the  *)
(* symbol of a section, the global pointer.                                *)
Variable(name, section, a, size) ==
  [Symbol(a, "O", "l", name) EXCEPT !.section = section, !.size = size]

Symbols(arch_) ==
  <<Variable("a", ".data", 110, 4), Variable("a", ".bss", 140, 4),
    [Variable("b", ".data", 114, 4) EXCEPT !.hidden = TRUE],
    [Variable("c", ".data", 118, 2) EXCEPT !.hidden = TRUE],
    Variable("d", ".rodata", 100, 2),
    [Symbol(100, "d", "l", ".rodata") EXCEPT !.section = ".rodata"],
    [Symbol(130, "UNDEF", "g", IF arch_ \in DOMAIN GpNames THEN GpNames[arch_] ELSE "_gp")
       EXCEPT !.section = "*ABS*"],
    Symbol(1, "F", "g", "f")>>

SymbolTexts ==
  LET some(arch_, of) == FoldLeft(LAMBDA l, i : IF i \in of THEN Append(l, Symbols(arch_)[i]) ELSE l,
                                  <<>>, [i \in DOMAIN Symbols(arch_) |-> i])
      text_(arch_)    == BodyText(arch_, <<Plain("return"), Plain("nop")>>, {1}, {})
  IN  {[text_(p[1]) EXCEPT !.symbols = p[2]] :
         p \in UNION {{a} \X UNION {{some(a, of), Reverse(some(a, of))} : of \in {s \cup {8} : s \in SUBSET (1 .. 7)}} :
                         a \in Architectures}}

SmallTexts ==
  {ArmTexts, UnknownTexts, MipsTexts, SwitchTexts, ConditionalTexts, EpilogTexts, WordTexts,
   LineTexts, BaseTexts, SymbolTexts, CallTexts}
=============================================================================
