---------------------------- MODULE InstructionSets ----------------------------
(***************************************************************************)
(* The instruction sets (ARM.cc, MIPS.cc, RISCV.cc, FLEXPRET.cc,           *)
(* MSP430.cc): the mnemonics, with the type and the formats of each, the   *)
(* registers, and what the operands are.  Then what the other parts of the *)
(* program ask of the architecture (arch.cc, InstructionType.cc): what an  *)
(* operand is, the type of an instruction, its format, the resources it    *)
(* reads and writes.                                                       *)
(*                                                                         *)
(* An operand as objdump writes it is a record: its form, its text, and    *)
(* what its form has.  The forms of all the architectures:                 *)
(*   word      the name of a register, of a rounding mode...               *)
(*   digits    an address: hexadecimal digits, one a letter at least       *)
(*   int, hex, real   a number (#4, 0x4, #0.0)                             *)
(*   bracket   [base, offset]! (ARM), offset(base) (the others)            *)
(*   indirect  @base (MSP430)                                              *)
(*   list      {r4, d8-d11} (ARM); banged  r3! (ARM); shift  lsl #2 (ARM)  *)
(***************************************************************************)
EXTENDS InstructionFormat, SequencesExt

(* A line of the table of mnemonics: a type, the size of a memory access,  *)
(* the formats accepted.                                                   *)
Row(type, size, formats, mnemonics) ==
  [type |-> type, size |-> size, formats |-> formats, mnemonics |-> mnemonics]

Suffixed(mnemonic, suffixes) == {mnemonic \o s : s \in suffixes}

(* The registers prefix0, prefix1... numbered from a number on. *)
Numbered(prefix, range, first) ==
  [name \in {prefix \o ToString(i) : i \in range} |->
     first + CHOOSE i \in range : name = prefix \o ToString(i)]
-----------------------------------------------------------------------------
(* The formats that have alternatives. *)

arithm          == {rd_rs_int, rd_rs_rs, rd_rs_rs_shifter}
move            == {rd_int, rd_rs, rd_rs_shifter, rd_rs_rs}
load            == {rd_mem, rd_mem_int}
load_multiple   == {rs_rdlist, rds_rdlist}
pop             == {rdlist({"sp"}, {"sp"})}
store           == {rs_mem}
store_multiple  == {rs_rslist, rds_rslist}
push            == {rslist({"sp"}, {"sp"})}
shift_rotate    == {rd_rs_int, rd_rs_rs}

(* Mutant of compare: a number is a floating-point number too. *)
compareAmbiguous == {rs_int, rs_rs({}), rs_rs_shifter, rs_fp}

(* cmp with a number has the format of vcmp with a constant. *)
compare == {rs_rs({}), rs_rs_shifter, rs_fp}

logical == {rd_rs_int, rd_rs_rs, rd_rs_rs_shifter}

ARM_arithmetic ==
  {Row("Word", 0, {Hex_}, {".word"}),
   Row("Basic", 0, {Empty}, {"nop"}),
   Row("Basic", 0, arithm,
       {"adc", "adcs", "add", "adds", "sub", "sbc", "sbcs", "rsb", "rsbs", "rsbsgt", "rsbscs",
        "rsblt", "rsble", "rsbne", "rsc", "rscs"}),
   Row("PredicatedBasic", 0, arithm,
       Suffixed("add", {"eq", "ne", "cs", "cc", "hi", "ls", "ge", "gt"}) \cup
       Suffixed("sub", {"s", "eq", "ne", "cs", "cc", "spl", "seq", "scs"})),
   Row("Basic", 0, logical, {"rsbmi"})}

(* No instruction has the format of mla: its declaration is commented out. *)
ARM_multiply ==
  {Row("Basic", 0, {rd_rs_rs}, {"mul"}),
   Row("Basic", 0, {}, {"mla"}),
   Row("Basic", 0, {rd_rd_rs_rs}, {"smull", "umull"}),
   Row("Basic", 0, {rds_rds_rs_rs}, {"smlal", "umlal"})}

ARM_move ==
  {Row("Basic", 0, move, {"mov", "mvn"}),
   Row("PredicatedBasic", 0, move,
       Suffixed("mov", {"s", "eq", "ne", "cs", "cc", "hi", "ls", "ge", "lt", "gt", "le", "w", "t"})
       \cup
       Suffixed("mvn", {"s", "eq", "ne", "cs", "hs", "cc", "lo", "mi", "pl", "vs", "vc", "hi", "ls",
                        "ge", "lt", "gt", "le", "sne", "seq"}))}

ConditionalPops == Suffixed("pop", {"hi", "ge", "gt", "ne", "cc", "le"})

ARM_memory ==
  {Row("Load", 4, load, {"ldr"}),
   Row("PredicatedLoad", 4, load, {"ldrls"}),
   Row("Load", 2, load, {"ldrh", "ldrsh"}),
   Row("Load", 1, load, {"ldrb", "ldrsb"}),
   Row("Load", 4, load_multiple, {"ldm"}),
   Row("Load", 4, pop, {"pop", "vpop"} \cup ConditionalPops),
   Row("Store", 4, store, {"str"}),
   Row("Store", 2, store, {"strh"}),
   Row("Store", 1, store, {"strb"}),
   Row("Store", 4, store_multiple, {"stm", "stmdb", "stmib"}),
   Row("Store", 4, push, {"push", "vpush"})}

(* bleq (a conditional call) is taken for "branch if less or equal". *)
ARM_branch ==
  {Row("Call", 0, {Addr_}, {"bl"}),
   Row("UnconditionalJump", 0, {Addr_}, {"b"}),
   Row("ConditionalJump", 0, {Addr_},
       Suffixed("b", {"gt", "ge", "lt", "le", "eq", "ne", "pl", "mi", "ls", "hi", "cc", "lo", "cs",
                      "leq"})),
   Row("Return", 0, {rs_},
       Suffixed("bx", {"", "hi", "ne", "eq", "cc", "ge", "gt", "le", "lt"}))}

ARM_shift ==
  {Row("Basic", 0, shift_rotate,
       Suffixed("lsl", {"", "eq", "cc", "s", "le", "sne", "seq"}) \cup
       Suffixed("lsr", {"", "sne", "seq", "s", "cs", "ne"}) \cup
       Suffixed("asr", {"", "eq", "hi", "cs"})),
   Row("Basic", 0, {rd_rs}, {"rrx", "rrxs"})}

ARM_compare ==
  {Row("Basic", 0, compare,
       Suffixed("cmp", {"", "cc", "eq", "hi", "ll", "pl"}) \cup {"cmn", "cmnmi"} \cup
       Suffixed("teq", {"", "eq", "ne"}) \cup {"tst", "tsteq"})}

ARM_logical ==
  {Row("Basic", 0, logical,
       Suffixed("and", {"", "s", "sne", "le", "lt"}) \cup
       Suffixed("bic", {"", "eq", "sne", "s"}) \cup
       Suffixed("eor", {"", "eq", "gt", "ne"}) \cup
       Suffixed("orr", {"", "cc", "cs", "eq", "ge", "gt", "le", "lt", "ne", "s", "seq", "sne"}))}

ARM_floating ==
  {Row("Load", 4, load, {"vldr"}),
   Row("Store", 4, store, {"vstr"}),
   Row("Basic", 0, move,
       {"vmov", "vmov.f32", "vmov.f64", "vneg.f64", "vneg.f32", "vmrs"}),
   Row("Basic", 0, arithm,
       {"vadd.f32", "vadd.f64", "vsub.f64", "vsub.f32", "vdiv.f64", "vdiv.f32"}),
   Row("Basic", 0, {rd_rs_rs}, {"vmul.f64", "vmul.f32"}),
   Row("Basic", 0, compare, {"vcmpe.f32", "vcmpe.f64", "vcmp.f64", "vcmp.f32"}),
   Row("Basic", 0, {rd_rs},
       Suffixed("vcvt.", {"f64.s32", "f64.f32", "f64.u32", "s32.f64", "f32.f64", "f32.s32",
                          "s32.f32"}))}

ARM_mnemonics ==
  ARM_arithmetic \cup ARM_multiply \cup ARM_move \cup ARM_memory \cup ARM_branch \cup ARM_shift
    \cup ARM_compare \cup ARM_logical \cup ARM_floating

ARM_regs ==
  Numbered("r", 0 .. 15, 0) @@ Numbered("a", 1 .. 4, -1) @@ Numbered("v", 1 .. 8, 3)
    @@ ("sb" :> 9 @@ "sl" :> 10 @@ "fp" :> 11 @@ "ip" :> 12 @@ "sp" :> 13 @@ "lr" :> 14
        @@ "pc" :> 15 @@ "cpsr" :> 16)
    @@ Numbered("f", 0 .. 7, 17) @@ Numbered("s", 0 .. 31, 25) @@ Numbered("d", 0 .. 31, 57)
    @@ ("APSR_nzcv" :> 89 @@ "FPSCR" :> 90 @@ "fpscr" :> 90 @@ "raux" :> 91)
-----------------------------------------------------------------------------
(* Lists of registers: a sequence of names (one: [name]) and of ranges     *)
(* ([prefix, from, to], as d8-d11 or r7-r4).                               *)

isRange(e) == "prefix" \in DOMAIN e

First(e) == IF isRange(e) THEN e.prefix \o ToString(e.from) ELSE e.name
Final(e) == IF isRange(e) THEN e.prefix \o ToString(e.to) ELSE e.name

isRegisterList(elements) ==
  \A i \in DOMAIN elements : {First(elements[i]), Final(elements[i])} \subseteq DOMAIN ARM_regs

(* The names within a range are built with the numbers of the registers:   *)
(* those of d8-d11 are d66 and d67.                                        *)
Within(e) ==
  LET a == ARM_regs[First(e)]
      b == ARM_regs[Final(e)]
  IN  [i \in 1 .. (IF a <= b THEN b - a ELSE a - b) - 1 |->
         e.prefix \o ToString(IF a <= b THEN a + i ELSE a - i)]

extractRegistersFromRegisterList(elements) ==
  FlattenSeq([i \in DOMAIN elements |->
    IF isRange(elements[i])
      THEN <<First(elements[i])>> \o Within(elements[i]) \o <<Final(elements[i])>>
      ELSE <<First(elements[i])>>])

getSizeRegisterList(elements) == Len(extractRegistersFromRegisterList(elements))

ARM_isPopWithPC(mnemonic, operands) ==
  /\ mnemonic \in ConditionalPops \cup {"pop"}
  /\ Contains(extractRegistersFromRegisterList(operands[1].elements), "pc")
-----------------------------------------------------------------------------
(* Memory operands: [base], [base, int], [base, reg], [base, reg, shift],  *)
(* a shift by a number or by a register.  The offset is a record: its      *)
(* kind, and the registers (reg, by) it has.                               *)

isRegister(name) == name \in DOMAIN ARM_regs

isMem_Basic_Pattern(o)   == isRegister(o.base) /\ o.offset.kind \in {"none", "int"} /\ ~ o.bang
isMem_Basic_PatternRW(o) == isRegister(o.base) /\ o.offset.kind = "int" /\ o.bang

RegReg(o, kind) == isRegister(o.base) /\ o.offset.kind = kind /\ isRegister(o.offset.reg)

isMem_RegReg_Pattern(o)   == RegReg(o, "reg") /\ ~ o.bang
isMem_RegReg_PatternRW(o) == RegReg(o, "reg") /\ o.bang

isMem_RegRegShifterReg_Pattern(o) ==
  RegReg(o, "shift by register") /\ isRegister(o.offset.by) /\ ~ o.bang
isMem_RegRegShifterReg_PatternRW(o) ==
  RegReg(o, "shift by register") /\ isRegister(o.offset.by) /\ o.bang

isMem_RegRegShifterInt_Pattern(o)   == RegReg(o, "shift") /\ ~ o.bang
isMem_RegRegShifterInt_PatternRW(o) == RegReg(o, "shift") /\ o.bang

ARM_isMemPattern(o) ==
  \/ isMem_Basic_Pattern(o) \/ isMem_Basic_PatternRW(o)
  \/ isMem_RegReg_Pattern(o) \/ isMem_RegReg_PatternRW(o)
  \/ isMem_RegRegShifterReg_Pattern(o) \/ isMem_RegRegShifterReg_PatternRW(o)
  \/ isMem_RegRegShifterInt_Pattern(o) \/ isMem_RegRegShifterInt_PatternRW(o)

(* Mutant of ARM_extractInputRegistersFromMem: the offset is no input. *)
extractBaseFromMem(o) == {o.base}

ARM_extractInputRegistersFromMem(o) ==
  CASE o.offset.kind \in {"none", "int"}    -> {o.base}
    [] o.offset.kind \in {"reg", "shift"}   -> {o.base, o.offset.reg}
    [] o.offset.kind = "shift by register"  -> {o.base, o.offset.reg, o.offset.by}

ARM_extractOutputRegistersFromMem(o) == IF o.bang THEN {o.base} ELSE {}

(* rrx is a shifter without operand; a register is read. *)
isShifterOperand(o) ==
  o.form = "shift" /\ (o.by \in {"int", "rrx"} \/ isRegister(o.by))

extractRegisterFromShifterOperand(o) == {o.by} \cap DOMAIN ARM_regs

isInputWrittenRegister(o) == o.form = "banged" /\ isRegister(o.base)
-----------------------------------------------------------------------------
LoHi == {"LO", "HI"}

(* MIPS. *)

div == {zero_rs_rs(LoHi), rs_rs(LoHi)}
li  == {rd_int, rd_hex}

MIPS_macros ==
  {Row("Basic", 0, {Empty}, {"nop"}),
   Row("ConditionalJump", 0, {rs_addr}, {"bnez", "beqz"}),
   Row("Basic", 0, li, {"li"}),
   Row("Basic", 0, {rs_zero_hex}, {"teq"}),
   Row("Basic", 0, {rd_rs_rs}, {"mul", "nor"}),
   Row("Basic", 0, {rs_rs(LoHi)}, {"multu", "mult"}),
   Row("Basic", 0, div, {"div", "divu"}),
   Row("Basic", 0, {Hex_}, {"break"}),
   Row("Basic", 0, {rd_rs}, {"negu"})}

MIPS_arithmetic ==
  {Row("Basic", 0, {rd_rs_int}, {"addiu"}), Row("Basic", 0, {rd_rs_rs}, {"addu", "subu"})}

(* There is no jalr: the program must have no indirect call. *)
MIPS_branch ==
  {Row("ConditionalJump", 0, {rs_rs_addr}, {"bne", "beq"}),
   Row("ConditionalJump", 0, {rs_addr}, {"blez", "bgez", "bgtz", "bltz"}),
   Row("UnconditionalJump", 0, {Addr_}, {"j", "b"}),
   Row("Return", 0, {rs_}, {"jr"}),
   Row("Call", 0, {Addr_}, {"jal"}),
   Row("ConditionalJump", 0, {Addr_}, {"bc1f", "bc1t"})}

MIPS_stores ==
  {Row("Store", 4, {rs_mem}, {"sw", "swc1"}), Row("Store", 2, {rs_mem}, {"sh"}),
   Row("Store", 1, {rs_mem}, {"sb"}), Row("Store", 8, {rs_mem}, {"sdc1"})}

MIPS_loads ==
  {Row("Load", 4, {rd_mem}, {"lw", "lwl", "lwr", "lwc1"}), Row("Load", 2, {rd_mem}, {"lh", "lhu"}),
   Row("Load", 1, {rd_mem}, {"lb", "lbu"}), Row("Load", 8, {rd_mem}, {"ldc1"}),
   Row("Basic", 0, {rd_hex}, {"lui"})}

MIPS_logic ==
  {Row("Basic", 0, {rd_rs}, {"move"}),
   Row("Basic", 0, {rd_rs_rs},
       {"movn", "slt", "sltu", "or", "and", "xor", "sllv", "srlv", "srav"}),
   Row("Basic", 0, {rd_rs_int}, {"sltiu", "slti"}),
   Row("Basic", 0, {rd_rs_hex}, {"sll", "srl", "sra", "andi", "ori", "xori"}),
   Row("Basic", 0, {rd({"HI"})}, {"mfhi"}), Row("Basic", 0, {rd({"LO"})}, {"mflo"})}

MIPS_floats ==
  {Row("Basic", 0, {rd_rs},
       {"abs.d", "abs.s", "cvt.w.s", "cvt.s.d", "mtc1", "mov.s", "mov.d", "cvt.d.s", "cvt.d.w",
        "cvt.w.d", "cvt.s.w", "cfc1", "mfc1", "trunc.w.d", "neg.d", "neg.s"}),
   Row("Basic", 0, {rd_rs_rs},
       UNION {Suffixed(op, {".s", ".d"}) : op \in {"add", "sub", "mul", "div"}}),
   Row("Basic", 0, {rs_rd}, {"ctc1"}),
   Row("Basic", 0, {rs_rs({})},
       UNION {Suffixed(op, {".s", ".d"}) : op \in Suffixed("c.", {"lt", "le", "eq", "ult", "olt", "ule"})}
         \cup {"c.ole.d"})}

MIPS_mnemonics ==
  MIPS_macros \cup MIPS_arithmetic \cup MIPS_branch \cup MIPS_stores \cup MIPS_loads
    \cup MIPS_logic \cup MIPS_floats

(* The registers by name and by number; s8 is the other name of fp. *)
MIPS_regs ==
  ("zero" :> 0 @@ "at" :> 1 @@ "t8" :> 24 @@ "t9" :> 25 @@ "s8" :> 30 @@ "s9" :> 25
     @@ "kt0" :> 26 @@ "kt1" :> 27 @@ "gp" :> 28 @@ "sp" :> 29 @@ "fp" :> 30 @@ "ra" :> 31
     @@ "$fcc0" :> 64 @@ "raux" :> 65)
    @@ Numbered("v", 0 .. 1, 2) @@ Numbered("a", 0 .. 3, 4) @@ Numbered("t", 0 .. 7, 8)
    @@ Numbered("s", 0 .. 7, 16) @@ Numbered("$", 0 .. 31, 0) @@ Numbered("$f", 0 .. 31, 32)
-----------------------------------------------------------------------------
(* RISC-V.  The last line of the table for a mnemonic holds: fcvt.s.d with *)
(* a rounding mode, the first one, is refused.                             *)

RISCV_macros ==
  {Row("Basic", 0, {rd_int}, {"li"}), Row("Return", 0, {Empty}, {"ret"}),
   Row("Basic", 0, {Empty}, {"nop"}), Row("UnconditionalJump", 0, {Addr_}, {"j"}),
   Row("Basic", 0, {rd_rs}, {"sext.w"}), Row("Basic", 0, {rd_hex}, {"auipc"})}

RISCV_arithmetic ==
  {Row("Basic", 0, {rd_rs_rs},
       {"add", "addw", "sub", "subw", "rem", "remu", "remw", "remuw", "mul", "mulw", "div", "divw"}),
   Row("Basic", 0, {rd_rs_int}, {"addi", "addiw"})}

RISCV_stores ==
  {Row("Store", 8, {rs_mem}, {"sd", "fsd"}), Row("Store", 4, {rs_mem}, {"sw", "fsw"}),
   Row("Store", 2, {rs_mem}, {"sh"}), Row("Store", 1, {rs_mem}, {"sb"})}

RISCV_loads ==
  {Row("Load", 8, {rd_mem}, {"ld", "fld"}), Row("Load", 4, {rd_mem}, {"lw", "lwu", "flw"}),
   Row("Load", 2, {rd_mem}, {"lh", "lhu"}), Row("Load", 1, {rd_mem}, {"lbu"})}

(* The link register of jal is taken for a register it reads. *)
RISCV_branch ==
  {Row("Call", 0, {rd_addr}, {"jal"}),
   Row("ConditionalJump", 0, {rs_rs_addr},
       {"ble", "bge", "bgeu", "blt", "bltu", "bne", "bleu", "beq"}),
   Row("ConditionalJump", 0, {rs_addr}, {"bltz", "bgtz", "bgez", "bnez", "beqz", "blez"}),
   Row("Return", 0, {rs_}, {"jr"})}

RISCV_logic ==
  {Row("Basic", 0, {rd_hex}, {"lui"}),
   Row("Basic", 0, {rd_rs_rs}, {"or", "xor", "and", "sll", "sllw", "sraw", "sra", "sltu"}),
   Row("Basic", 0, {rd_rs}, {"mv", "not", "neg", "negw", "seqz"}),
   Row("Basic", 0, {rd_rs_int}, {"xori", "ori", "andi", "sltiu"}),
   Row("Basic", 0, {rd_rs_hex}, {"slli", "slliw", "srai", "sraiw", "srli", "srliw"})}

RISCV_floats ==
  {Row("Basic", 0, {rd_rs},
       {"fcvt.d.l", "fcvt.d.lu", "fcvt.d.w", "fcvt.d.s", "fcvt.s.w", "fcvt.s.d", "fmv.d.x", "fmv.x.d",
        "fmv.d", "fmv.s", "fmv.w.x", "fneg.d", "fneg.s"}),
   Row("Basic", 0, {rd_rs_rounding}, {"fcvt.w.d", "fcvt.l.d"}),
   Row("Basic", 0, {rd_rs_rs},
       UNION {Suffixed(op, {".s", ".d"}) :
                op \in {"fdiv", "fmul", "fadd", "fsub", "feq", "fle", "flt"}})}

RISCV_mnemonics ==
  RISCV_macros \cup RISCV_arithmetic \cup RISCV_stores \cup RISCV_loads \cup RISCV_branch
    \cup RISCV_logic \cup RISCV_floats

RISCV_regs ==
  ("zero" :> 0 @@ "ra" :> 1 @@ "sp" :> 2 @@ "gp" :> 3 @@ "tp" :> 4 @@ "fp" :> 8)
    @@ Numbered("t", 0 .. 2, 5) @@ Numbered("s", 0 .. 1, 8) @@ Numbered("a", 0 .. 7, 10)
    @@ Numbered("s", 2 .. 11, 16) @@ Numbered("t", 3 .. 6, 25) @@ Numbered("ft", 0 .. 7, 32)
    @@ Numbered("fs", 0 .. 1, 40) @@ Numbered("fa", 0 .. 7, 42) @@ Numbered("fs", 2 .. 11, 48)
    @@ Numbered("ft", 8 .. 11, 52)

(* FlexPRET has the tables of RISC-V. *)

FLEXPRET_macros     == RISCV_macros
FLEXPRET_arithmetic == RISCV_arithmetic
FLEXPRET_memory     == RISCV_stores \cup RISCV_loads
FLEXPRET_branch     == RISCV_branch
FLEXPRET_logic      == RISCV_logic
FLEXPRET_floats     == RISCV_floats

FLEXPRET_mnemonics ==
  FLEXPRET_macros \cup FLEXPRET_arithmetic \cup FLEXPRET_memory \cup FLEXPRET_branch
    \cup FLEXPRET_logic \cup FLEXPRET_floats

FLEXPRET_regs == RISCV_regs
-----------------------------------------------------------------------------
(* MSP430.  Its formats accept many operands; the type of all its memory   *)
(* accesses is Basic.                                                      *)

jumpa  == {rd({"HI"}), Addr_}
simpla == {rd({"HI"}), mem_, Addr_}
movia  == {mem_rd, mem_mem, mem_addr, addr_mem, addr_rd, addr_addr, rs_rd, rs_mem, rs_addr,
           int_rd, int_mem, int_addr}
rpta   == {int_instr}

Bytes(mnemonics) == mnemonics \cup {m \o ".b" : m \in mnemonics}

MSP430_emulated ==
  {Row("Basic", 0, simpla,
       Bytes({"adc", "clr", "dadc", "dec", "decd", "inc", "incd", "inv", "pop", "rla", "rlc", "sbc",
              "tst"})),
   Row("UnconditionalJump", 0, jumpa, {"br"}),
   Row("Basic", 0, {Empty},
       {"clrc", "clrn", "clrz", "dint", "eint", "nop", "setc", "setn", "setz"}),
   Row("Return", 0, {Empty, Int_}, {"ret"})}

MSP430_jumps ==
  {Row("ConditionalJump", 0, jumpa,
       {"jc", "jhs", "jeq", "jz", "jge", "jl", "jn", "jnc", "jlo", "jne", "jnz"}),
   Row("UnconditionalJump", 0, jumpa, {"jmp"})}

MSP430_single ==
  {Row("Call", 0, jumpa, {"call"}),
   Row("Basic", 0, simpla, Bytes({"push", "rra", "rrc"}) \cup {"swpb", "sxt"}),
   Row("Return", 0, {Empty}, {"reti"})}

MSP430_double ==
  {Row("Basic", 0, movia,
       Bytes({"add", "addc", "and", "bic", "bis", "bit", "cmp", "dadd", "mov", "sub", "subc", "xor"})
         \cup {"adda", "suba", "mova", "cmpa", "rrum", "pushm.a", "popm.a", "pushm", "popm",
               "pushm.w", "popm.w"}),
   Row("Repeat", 0, rpta, {"rpt"})}

MSP430_mnemonics == MSP430_emulated \cup MSP430_jumps \cup MSP430_single \cup MSP430_double

MSP430_regs == Numbered("r", 0 .. 15, 0)
-----------------------------------------------------------------------------
(* The architectures: their mnemonics, as a function, and their registers. *)

Architectures == {"MIPS", "ARM", "RISCV", "FLEXPRET", "MSP430"}

Table(rows) ==
  [m \in UNION {r.mnemonics : r \in rows} |-> CHOOSE r \in rows : m \in r.mnemonics]

Instances ==
  [MIPS     |-> [types |-> Table(MIPS_mnemonics),     regs |-> MIPS_regs,     zero |-> 0],
   ARM      |-> [types |-> Table(ARM_mnemonics),      regs |-> ARM_regs,      zero |-> -1],
   RISCV    |-> [types |-> Table(RISCV_mnemonics),    regs |-> RISCV_regs,    zero |-> 0],
   FLEXPRET |-> [types |-> Table(FLEXPRET_mnemonics), regs |-> FLEXPRET_regs, zero |-> 0],
   MSP430   |-> [types |-> Table(MSP430_mnemonics),   regs |-> MSP430_regs,   zero |-> 3]]

hasType(arch, mnemonic) == mnemonic \in DOMAIN Instances[arch].types
getInstructionTypeFromMnemonic(arch, mnemonic) == Instances[arch].types[mnemonic]

regsOf(arch) == Instances[arch].regs

(* The register a word or an indirection (MSP430: @r5, whose plus sign is  *)
(* only dropped after a number of two digits) stands for.                  *)
isRegisterName(arch, o) ==
  \/ o.form \in {"word", "digits"} /\ o.text \in DOMAIN regsOf(arch)
  \/ o.form = "indirect" /\ arch = "MSP430" /\ o.base \in DOMAIN regsOf(arch)

isZeroRegister(arch, o) == regsOf(arch)[o.text] = Instances[arch].zero

(* A place in memory: offset(base), with a decimal offset and a register.  *)
(* It reads its base, and writes no register.                              *)

MIPS_isMemPattern(o)     == o.form = "offset" /\ o.base \in DOMAIN MIPS_regs
RISCV_isMemPattern(o)    == o.form = "offset" /\ o.base \in DOMAIN RISCV_regs
FLEXPRET_isMemPattern(o) == o.form = "offset" /\ o.base \in DOMAIN FLEXPRET_regs
MSP430_isMemPattern(o)   == o.form = "offset" /\ o.base \in DOMAIN MSP430_regs

isMemPattern(arch, o) ==
  CASE arch = "MIPS"     -> MIPS_isMemPattern(o)
    [] arch = "ARM"      -> o.form = "bracket" /\ ARM_isMemPattern(o)
    [] arch = "RISCV"    -> RISCV_isMemPattern(o)
    [] arch = "FLEXPRET" -> FLEXPRET_isMemPattern(o)
    [] arch = "MSP430"   -> MSP430_isMemPattern(o)

MIPS_extractInputRegistersFromMem(o)     == {o.base}
RISCV_extractInputRegistersFromMem(o)    == {o.base}
FLEXPRET_extractInputRegistersFromMem(o) == {o.base}
MSP430_extractInputRegistersFromMem(o)   == {o.base}

extractInputRegistersFromMem(arch, o) ==
  CASE arch = "MIPS"     -> MIPS_extractInputRegistersFromMem(o)
    [] arch = "ARM"      -> ARM_extractInputRegistersFromMem(o)
    [] arch = "RISCV"    -> RISCV_extractInputRegistersFromMem(o)
    [] arch = "FLEXPRET" -> FLEXPRET_extractInputRegistersFromMem(o)
    [] arch = "MSP430"   -> MSP430_extractInputRegistersFromMem(o)

extractOutputRegistersFromMem(arch, o) ==
  IF arch = "ARM" THEN ARM_extractOutputRegistersFromMem(o) ELSE {}

(* Mutant of isAddr: the addresses of MSP430 need no 0x either. *)
isAddrAnywhere(arch, o) == o.form = "digits" \/ (o.form = "int" /\ o.value >= 0)

(* An address is a string of hexadecimal digits: so are some registers (a0 *)
(* and f4) and numbers.  Those of MSP430 begin with 0x.                    *)
isAddr(arch, o) ==
  IF arch = "MSP430" THEN o.form = "hex"
  ELSE o.form = "digits" \/ (o.form = "int" /\ o.value >= 0)

(* What an operand is. *)
Classes(arch, o) ==
  {c \in {"register", "zero", "dec", "hex", "addr", "fp", "mem", "list", "shifter", "written"} :
     CASE c = "register" -> isRegisterName(arch, o)
       [] c = "zero"     -> /\ isRegisterName(arch, o) /\ o.form # "indirect"
                            /\ isZeroRegister(arch, o)
       [] c = "dec"      -> o.form = "int"
       [] c = "hex"      -> o.form = "hex"
       [] c = "addr"     -> isAddr(arch, o)
       [] c = "fp"       -> o.form \in {"int", "real"}
       [] c = "mem"      -> isMemPattern(arch, o)
       [] c = "list"     -> arch = "ARM" /\ o.form = "list" /\ isRegisterList(o.elements)
       [] c = "shifter"  -> arch = "ARM" /\ isShifterOperand(o)
       [] c = "written"  -> arch = "ARM" /\ isInputWrittenRegister(o)}

(* The resources an operand stands for.  A register is named by its text,  *)
(* the at sign of an indirection included.                                 *)
Registers(arch, o) ==
  CASE isRegisterName(arch, o) -> {o.text}
    [] isMemPattern(arch, o)   -> extractInputRegistersFromMem(arch, o)
    [] o.form = "list"         -> ToSet(extractRegistersFromRegisterList(o.elements))
    [] o.form = "shift"        -> extractRegisterFromShifterOperand(o)
    [] o.form = "banged"       -> {o.base}
    [] OTHER -> {}

(* An operand as the formats see it. *)
Operand(arch, o) ==
  [text |-> o.text, is |-> Classes(arch, o), regs |-> Registers(arch, o),
   written |-> IF isMemPattern(arch, o) THEN extractOutputRegistersFromMem(arch, o) ELSE {}]

Operands(arch, instr) == [i \in DOMAIN instr.operands |-> Operand(arch, instr.operands[i])]

(* The formats of an instruction that its operands have: no more than one, *)
(* says an assertion; with none the program stops.                         *)
Formats(arch, instr) ==
  {f \in getInstructionTypeFromMnemonic(arch, instr.mnemonic).formats :
     isFormat(f, Operands(arch, instr))}

checkFormat(arch, instr) == Formats(arch, instr) # {}

getResourceInputs(arch, instr) ==
  Inputs(CHOOSE f \in Formats(arch, instr) : TRUE, Operands(arch, instr))

getResourceOutputs(arch, instr) ==
  Outputs(CHOOSE f \in Formats(arch, instr) : TRUE, Operands(arch, instr))
-----------------------------------------------------------------------------
TypeOf(arch, instr) == getInstructionTypeFromMnemonic(arch, instr.mnemonic).type

isCall(arch, instr)              == TypeOf(arch, instr) = "Call"
isUnconditionalJump(arch, instr) == TypeOf(arch, instr) = "UnconditionalJump"
isConditionalJump(arch, instr)   == TypeOf(arch, instr) = "ConditionalJump"
isWord(arch, instr)              == TypeOf(arch, instr) = "Word"

isReturn(arch, instr) ==
  \/ TypeOf(arch, instr) = "Return"
  \/ arch = "ARM" /\ ARM_isPopWithPC(instr.mnemonic, instr.operands)

getNBInstrInDelaySlot(arch) == IF arch = "MIPS" THEN 1 ELSE 0
================================================================================
