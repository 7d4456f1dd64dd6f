------------------------------- MODULE Processor -------------------------------
(***************************************************************************)
(* The processor of the simulator (mipssim.cc): a MIPS with branch and     *)
(* load delay slots, which executes the program whose caches the module    *)
(* MMU counts.                                                             *)
(*                                                                         *)
(* A register has Width bits, 32 in the code; the sizes of bytes, halves   *)
(* and immediates are the same fractions of it.  An instruction is the     *)
(* record of the fields of its three formats, each with a value of its     *)
(* own.  The words read from memory are any of Values, and what the        *)
(* floating-point unit computes is left to two constant operators.         *)
(***************************************************************************)
EXTENDS MMU, InstructionSets, Bitwise

CONSTANTS
  Width,             \* of the registers
  Reg, FloatReg,     \* the registers the programs use
  Values,            \* words in memory
  Programs,          \* sets of programs
  FloatWord(_, _, _),\* a word of the result of an operation on some words
  FloatHolds(_, _),  \* a comparison of some words
  Region,            \* the reach of a jump
  ExitAddress        \* where the first function of the program returns

VARIABLES
  program,           \* the instructions by address
  int_registers, float_registers, cc,
  state              \* of the simulation: "running", "last", "stopped", "exited"

cpuVars == <<int_registers, float_registers, cc>>
vars == <<program, cpuVars, state, mmuVars>>

HiReg == 32
LoReg == 33
PCReg == 34
NextPCReg == 35
LoadReg == 37
LoadValueReg == 38
R31 == 31

Half == 2 ^ (Width - 1)
Low(bits) == 2 ^ bits - 1

Wrap(n)   == n % 2 ^ Width
Signed(w) == IF w >= Half THEN w - 2 ^ Width ELSE w

IndexToAddr(n) == 4 * n
-----------------------------------------------------------------------------
(* Decode: the tables of the operations, by the fields of the instruction. *)

Times(n, op) == [i \in 1 .. n |-> op]

opTable ==
  <<"SPECIAL", "BCOND", "j", "jal", "beq", "bne", "blez", "bgtz",
    "addi", "addiu", "slti", "sltiu", "andi", "ori", "xori", "lui", "unimplemented", "COP1">>
    \o Times(2, "unimplemented") \o Times(12, "reserved")
    \o <<"lb", "lh", "lwl", "lw", "lbu", "lhu", "lwr", "reserved",
         "sb", "sh", "swl", "sw", "reserved", "reserved", "swr", "reserved",
         "unimplemented", "lwc1", "unimplemented", "unimplemented",
         "reserved", "ldc1", "reserved", "reserved",
         "unimplemented", "swc1", "unimplemented", "unimplemented",
         "reserved", "sdc1", "reserved", "reserved">>

specialTable ==
  <<"sll", "reserved", "srl", "sra", "sllv", "reserved", "srlv", "srav",
    "jr", "jalr", "reserved", "reserved", "syscall", "unimplemented", "reserved", "reserved",
    "mfhi", "mthi", "mflo", "mtlo">> \o Times(4, "reserved")
    \o <<"mult", "multu", "div", "divu">> \o Times(4, "reserved")
    \o <<"add", "addu", "sub", "subu", "and", "or", "xor", "nor",
         "reserved", "reserved", "slt", "sltu">> \o Times(20, "reserved")

cop1Table(funct, suffix) ==
  CASE funct \in 0 .. 7 ->
         <<"add", "sub", "mul", "div", "sqrt", "abs", "mov", "neg">>[funct + 1] \o suffix
    [] funct \in 12 .. 15 -> <<"round.w", "trunc.w", "ceil.w", "floor.w">>[funct - 11] \o suffix
    [] funct \in 17 .. 19 -> "unimplemented"
    [] funct = 32 /\ suffix = ".d" -> "cvt.s.d"
    [] funct = 33 /\ suffix = ".s" -> "cvt.d.s"
    [] funct = 36 -> "cvt.w" \o suffix
    [] funct \in 48 .. 63 ->
         "c." \o <<"f", "un", "eq", "ueq", "olt", "ult", "ole", "ule",
                   "sf", "ngle", "seq", "ngl", "lt", "nge", "le", "ngt">>[funct - 47] \o suffix
    [] OTHER -> "reserved"

opCode(word) ==
  LET op == opTable[word.code + 1]
      of(names, n) == IF n \in DOMAIN names THEN names[n] ELSE "unimplemented"
  IN  CASE op = "SPECIAL" -> specialTable[word.funct + 1]
        [] op = "BCOND" -> of(0 :> "bltz" @@ 1 :> "bgez" @@ 16 :> "bltzal" @@ 17 :> "bgezal", word.rt)
        [] op = "COP1" ->
             CASE word.rs = 16 -> cop1Table(word.funct, ".s")
               [] word.rs = 17 -> cop1Table(word.funct, ".d")
               [] word.rs = 8  -> of(0 :> "bc1f" @@ 1 :> "bc1t", word.rt)
               [] word.rs = 20 -> of(32 :> "cvt.s.w" @@ 33 :> "cvt.d.w", word.funct)
               [] OTHER -> of(0 :> "mfc1" @@ 2 :> "cfc1" @@ 4 :> "mtc1" @@ 6 :> "ctc1", word.rs)
        [] OTHER -> op

(* Some of the fields are the same bits; extra depends on the format.      *)
Decode(word) ==
  [op |-> opCode(word), rs |-> word.rs, rt |-> word.rt, rd |-> word.rd,
   fs |-> word.rd, ft |-> word.rt, fd |-> word.fd,
   extra |-> CASE word.code = 0 -> word.fd
               [] word.code \in {2, 3} -> word.target
               [] OTHER -> word.immediate]
-----------------------------------------------------------------------------
(* Mult: the bits of a, one by one, add b shifted to the double word       *)
(* <<hi, lo>>; negative numbers are made positive first.                   *)

(* Mutant of AddShifted: the carry of the low word is lost. *)
AddShiftedNoCarry(m) ==
  [m EXCEPT !.lo = Wrap(m.lo + m.bLo), !.hi = Wrap(m.hi + m.bHi)]

AddShifted(m) ==
  LET lo == Wrap(m.lo + m.bLo)
  IN  [m EXCEPT !.lo = lo, !.hi = Wrap(m.hi + m.bHi + (IF lo < m.bLo THEN 1 ELSE 0))]

Mult(a, b, signedArith) ==
  LET abs(w)   == IF signedArith /\ Signed(w) < 0 THEN Wrap(-w) ELSE w
      negative == signedArith /\ (Signed(a) < 0) # (Signed(b) < 0)
      step(m, i) ==
        LET added == IF (abs(a) \div 2 ^ (i - 1)) % 2 = 1 THEN AddShifted(m) ELSE m
        IN  [added EXCEPT !.bHi = Wrap(2 * m.bHi + m.bLo \div Half), !.bLo = Wrap(2 * m.bLo)]
      product == FoldLeft(step, [lo |-> 0, hi |-> 0, bLo |-> abs(b), bHi |-> 0],
                          [i \in 1 .. Width |-> i])
      not(w)  == Wrap(-1 - w)
      lo      == IF negative THEN Wrap(not(product.lo) + 1) ELSE product.lo
      hi      == IF ~ negative THEN product.hi
                 ELSE Wrap(not(product.hi) + (IF lo = 0 THEN 1 ELSE 0))
  IN  IF a = 0 \/ b = 0 THEN <<0, 0>> ELSE <<hi, lo>>

(* The quotient and the remainder, truncated towards zero. *)
Quotient(a, b) ==
  LET abs(n) == IF n < 0 THEN -n ELSE n
      q      == abs(a) \div abs(b)
  IN  IF (a < 0) # (b < 0) THEN -q ELSE q

Divided(a, b) == IF b = 0 THEN <<0, 0>> ELSE <<Wrap(a - b * Quotient(a, b)), Wrap(Quotient(a, b))>>

HiLo(op, a, b) ==
  CASE op = "mult"  -> Mult(a, b, TRUE)
    [] op = "multu" -> Mult(a, b, FALSE)
    [] op = "div"   -> IF b = 0 THEN <<0, 0>> ELSE Divided(Signed(a), Signed(b))
    [] op = "divu"  -> Divided(a, b)

Bool(p) == IF p THEN 1 ELSE 0

(* The result of an operation on two registers: "or" has rs twice, and the *)
(* logical shifts are those of a signed int.                               *)
OfRegisters(op, a, b) ==
  CASE op \in {"add", "addu"}  -> Wrap(a + b)
    [] op \in {"sub", "subu"}  -> Wrap(a - b)
    [] op = "and"  -> a & b
    [] op = "or"   -> a | a
    [] op = "xor"  -> a ^^ b
    [] op = "nor"  -> Wrap(-1 - (a | b))
    [] op = "slt"  -> Bool(Signed(a) < Signed(b))
    [] op = "sltu" -> Bool(a < b)
    [] op = "sllv" -> Wrap(b * 2 ^ (a % Width))
    [] op \in {"srav", "srlv"} -> Wrap(Signed(b) \div 2 ^ (a % Width))

(* The result of an operation on a register and the immediate extra. *)
OfImmediate(op, a, extra) ==
  LET unsigned == Wrap(extra) & Low(Width \div 2)
  IN  CASE op \in {"addi", "addiu"} -> Wrap(a + extra)
        [] op = "andi"  -> a & unsigned
        [] op = "ori"   -> a | unsigned
        [] op = "xori"  -> a ^^ unsigned
        [] op = "slti"  -> Bool(Signed(a) < extra)
        [] op = "sltiu" -> Bool(a < Wrap(extra))
        [] op = "lui"   -> Wrap(extra * 2 ^ (Width \div 2))

OfShift(op, b, extra) ==
  IF op = "sll" THEN Wrap(b * 2 ^ extra) ELSE Wrap(Signed(b) \div 2 ^ extra)

(* The sign bits tell an overflow. *)
SignBit(w) == w >= Half
Overflows(op, a, b) ==
  CASE op = "sub" -> SignBit(a) # SignBit(b) /\ SignBit(a) # SignBit(Wrap(a - b))
    [] op \in {"add", "addi"} -> SignBit(a) = SignBit(b) /\ SignBit(b) # SignBit(Wrap(a + b))
    [] OTHER -> FALSE

Taken(op, a, b, flag) ==
  CASE op = "beq" -> a = b
    [] op = "bne" -> a # b
    [] op \in {"bgez", "bgezal"} -> ~ SignBit(a)
    [] op \in {"bltz", "bltzal"} -> SignBit(a)
    [] op = "bgtz" -> Signed(a) > 0
    [] op = "blez" -> Signed(a) <= 0
    [] op = "bc1f" -> ~ flag
    [] op = "bc1t" -> flag
-----------------------------------------------------------------------------
(* What an instruction does, from the registers and the words it reads: an *)
(* effect.  writes and floats are the registers it assigns, load the       *)
(* register and the word of a delayed load.                                *)

VariableShifts == {"sllv", "srlv", "srav"}
Alu3       == {"add", "addu", "sub", "subu", "and", "or", "xor", "nor", "slt", "sltu"}
                \cup VariableShifts
Alu2       == {"addi", "addiu", "andi", "ori", "xori", "slti", "sltiu", "lui"}
Shifts     == {"sll", "srl", "sra"}
HiLoOps    == {"mult", "multu", "div", "divu"}
Linking    == {"bgezal", "bltzal"}
Branches   == {"beq", "bne", "bgez", "bltz", "bgtz", "blez", "bc1f", "bc1t"} \cup Linking
Loads      == {"lb", "lbu", "lh", "lhu", "lw", "lwl", "lwr"}
Stores     == {"sb", "sh", "sw", "swl", "swr"}

(* The floating-point operations: from and to one word (s, w) or two (d). *)
Float3(x)  == Suffixed("add", x) \cup Suffixed("sub", x) \cup Suffixed("mul", x) \cup Suffixed("div", x)
Float2(x)  == Suffixed("abs", x) \cup Suffixed("neg", x) \cup Suffixed("sqrt", x)
Double     == {".d"}
Single     == {".s"}
FloatOps   == Float3(Single) \cup Float3(Double) \cup Float2(Single) \cup Float2(Double)
                \cup {"cvt.s.d", "cvt.d.s", "cvt.s.w", "cvt.w.s", "cvt.d.w", "cvt.w.d", "mov.s", "mov.d"}
ReadsDouble(op)  == op \in Float3(Double) \cup Float2(Double) \cup {"cvt.s.d", "cvt.w.d", "mov.d"}
WritesDouble(op) == op \in Float3(Double) \cup Float2(Double) \cup {"cvt.d.s", "cvt.d.w", "mov.d"}

Relations == Suffixed("c.", {"eq", "ueq", "seq", "ngl", "olt", "ult", "lt", "nge", "ole", "ule", "le", "ngt"})
Never     == Suffixed("c.", {"f", "sf"})
(* Those the simulator does not implement. *)
Unordered  == UNION {Suffixed(c, {".s", ".d"}) : c \in {"c.un", "c.ngle"}}
FixedPoint == UNION {Suffixed(c, {".s", ".d"}) : c \in {"round.w", "trunc.w", "ceil.w", "floor.w"}}

Compares  == UNION {Suffixed(c, {".s", ".d"}) : c \in Relations \cup Never}

SizeOf(op) == CASE op \in {"lb", "lbu", "sb"} -> 1 [] op \in {"lh", "lhu", "sh"} -> 2 [] OTHER -> 4

(* The number of words an instruction reads from memory. *)
WordsRead(op) == IF op \in Loads \cup {"swl", "swr", "lwc1"} THEN 1 ELSE IF op = "ldc1" THEN 2 ELSE 0

(* A byte or a half read, extended to a word. *)
Extended(op, value) ==
  LET bits == SizeOf(op) * (Width \div 4)
      low  == value & Low(bits)
  IN  IF op \in {"lb", "lh"} /\ low >= 2 ^ (bits - 1) THEN Wrap(low - 2 ^ bits) ELSE low

(* The exceptions and the assertions of the instruction itself, that are   *)
(* not those of its accesses: misaligned addresses, overflows, a division  *)
(* the host cannot do, the root of a negative number, the instructions     *)
(* that do not exist or are not implemented.                               *)
Traps(i, int, float) ==
  LET a  == int[i.rs]
      va == Wrap(a + i.extra)
  IN  \/ i.op \in {"lh", "lhu"} /\ va % 2 # 0
      \/ i.op \in {"lw", "lwl", "lwr", "swl", "swr", "lwc1"} /\ va % 4 # 0
      \/ i.op = "ldc1" /\ va % 8 # 0
      \/ i.op \in {"add", "sub"} /\ Overflows(i.op, a, int[i.rt])
      \/ i.op = "addi" /\ Overflows(i.op, a, Wrap(i.extra))
      \/ i.op = "div" /\ Signed(a) = -Half /\ Signed(int[i.rt]) = -1
      \/ i.op = "sqrt.s" /\ FloatHolds("negative", <<float[i.fs]>>)
      \/ i.op = "sqrt.d" /\ FloatHolds("negative", <<float[i.fs], float[i.fs + 1]>>)
      \/ i.op \in {"unimplemented", "reserved", "syscall"} \cup Unordered \cup FixedPoint

NoEffect(int) ==
  [writes |-> <<>>, floats |-> <<>>, cc |-> {}, pcAfter |-> Wrap(int[NextPCReg] + 4),
   load |-> <<0, 0>>, accesses |-> <<>>, traps |-> FALSE]

Access(va, size, writing, value) == [va |-> va, size |-> size, writing |-> writing, value |-> value]

IntegerEffect(i, int, flag) ==
  LET none == NoEffect(int)
      a    == int[i.rs]
      b    == int[i.rt]
      link == Wrap(int[NextPCReg] + 4)
      goes(condition) ==
        IF condition THEN Wrap(int[NextPCReg] + IndexToAddr(i.extra)) ELSE none.pcAfter
  IN  CASE i.op \in Alu3    -> [none EXCEPT !.writes = i.rd :> OfRegisters(i.op, a, b)]
        [] i.op \in Alu2    -> [none EXCEPT !.writes = i.rt :> OfImmediate(i.op, a, i.extra)]
        [] i.op \in Shifts  -> [none EXCEPT !.writes = i.rd :> OfShift(i.op, b, i.extra)]
        [] i.op \in HiLoOps -> LET result == HiLo(i.op, a, b)
                               IN  [none EXCEPT !.writes = HiReg :> result[1] @@ LoReg :> result[2]]
        [] i.op = "mfhi" -> [none EXCEPT !.writes = i.rd :> int[HiReg]]
        [] i.op = "mflo" -> [none EXCEPT !.writes = i.rd :> int[LoReg]]
        [] i.op = "mthi" -> [none EXCEPT !.writes = HiReg :> a]
        [] i.op = "mtlo" -> [none EXCEPT !.writes = LoReg :> a]
        [] i.op \in Linking ->
             [none EXCEPT !.writes = R31 :> link,
                          !.pcAfter = goes(Taken(i.op, IF i.rs = R31 THEN link ELSE a, b, flag))]
        [] i.op \in Branches -> [none EXCEPT !.pcAfter = goes(Taken(i.op, a, b, flag))]
        [] i.op \in {"j", "jal"} ->
             [none EXCEPT !.pcAfter = none.pcAfter - (none.pcAfter % Region) + IndexToAddr(i.extra),
                          !.writes = IF i.op = "jal" THEN R31 :> link ELSE <<>>]
        [] i.op = "jr"   -> [none EXCEPT !.pcAfter = a]
        [] i.op = "jalr" -> [none EXCEPT !.writes = i.rd :> link,
                                         !.pcAfter = IF i.rs = i.rd THEN link ELSE a]

(* memory holds the words read.  An access of lwl, lwr, swl and swr is      *)
(* aligned, or the program stops; what lwr and swr keep of the other word  *)
(* is all but its highest byte.                                            *)
MemoryEffect(i, int, memory) ==
  LET none  == NoEffect(int)
      va    == Wrap(int[i.rs] + i.extra)
      rest  == 2 ^ (Width - Width \div 4)
      top   == 2 ^ (Width \div 4)
      old   == IF int[LoadReg] = i.rt THEN int[LoadValueReg] ELSE int[i.rt]
      read  == Access(va, IF i.op \in Loads THEN SizeOf(i.op) ELSE 4, FALSE, 0)
      value == CASE i.op \in {"lw", "lwl"} -> memory[1]
                 [] i.op = "lwr" -> old - (old % top) + memory[1] \div rest
                 [] i.op = "swr" -> (memory[1] % rest) + Wrap(int[i.rt] * rest)
                 [] i.op \in Stores -> int[i.rt]
                 [] OTHER -> Extended(i.op, memory[1])
  IN  CASE i.op \in Loads -> [none EXCEPT !.load = <<i.rt, value>>, !.accesses = <<read>>]
        [] i.op \in {"swl", "swr"} ->
             [none EXCEPT !.accesses = <<read, Access(va, 4, TRUE, value)>>]
        [] i.op \in Stores -> [none EXCEPT !.accesses = <<Access(va, SizeOf(i.op), TRUE, value)>>]

(* No floating-point load is delayed. *)
FloatEffect(i, int, float, memory) ==
  LET none    == NoEffect(int)
      va      == Wrap(int[i.rs] + i.extra)
      pair(r) == <<float[r], float[r + 1]>>
      of(r)   == IF ReadsDouble(i.op) THEN pair(r) ELSE <<float[r]>>
      words   == of(i.fs) \o (IF i.op \in Float3(Single) \cup Float3(Double) THEN of(i.ft) ELSE <<>>)
      result(half) == IF i.op \in {"mov.s", "mov.d"} THEN words[half] ELSE FloatWord(i.op, words, half)
      both(r, w1, w2) == r :> w1 @@ (r + 1) :> w2
  IN  CASE i.op = "lwc1" -> [none EXCEPT !.floats = i.ft :> memory[1], !.accesses = <<Access(va, 4, FALSE, 0)>>]
        [] i.op = "ldc1" -> [none EXCEPT !.floats = both(i.ft, memory[1], memory[2]),
                               !.accesses = <<Access(va, 4, FALSE, 0), Access(Wrap(va + 4), 4, FALSE, 0)>>]
        [] i.op = "swc1" -> [none EXCEPT !.accesses = <<Access(va, 4, TRUE, float[i.ft])>>]
        [] i.op = "sdc1" -> [none EXCEPT !.accesses = <<Access(va, 4, TRUE, float[i.ft]),
                                                        Access(Wrap(va + 4), 4, TRUE, float[i.ft + 1])>>]
        [] i.op \in {"mfc1", "cfc1"} -> [none EXCEPT !.writes = i.rt :> float[i.fs]]
        [] i.op \in {"mtc1", "ctc1"} -> [none EXCEPT !.floats = i.fs :> int[i.rt]]
        [] i.op \in FloatOps ->
             [none EXCEPT !.floats = IF WritesDouble(i.op) THEN both(i.fd, result(1), result(2))
                                     ELSE i.fd :> result(1)]
        [] i.op \in Compares ->
             LET double == i.op \in UNION {Suffixed(c, Double) : c \in Relations \cup Never}
                 of2(r) == IF double THEN pair(r) ELSE <<float[r]>>
             IN  [none EXCEPT !.cc = {/\ i.op \notin UNION {Suffixed(c, Single \cup Double) : c \in Never}
                                      /\ FloatHolds(i.op, of2(i.fs) \o of2(i.ft))}]

Effect(i, int, float, flag, memory) ==
  CASE Traps(i, int, float) -> [NoEffect(int) EXCEPT !.traps = TRUE]
    [] i.op \in Loads \cup Stores -> MemoryEffect(i, int, memory)
    [] i.op \in {"lwc1", "ldc1", "swc1", "sdc1", "mfc1", "cfc1", "mtc1", "ctc1"} \cup FloatOps
                  \cup Compares -> FloatEffect(i, int, float, memory)
    [] OTHER -> IntegerEffect(i, int, flag)
-----------------------------------------------------------------------------
(* An effect that raises no exception is followed by the delayed load of   *)
(* the instruction before, which so overwrites what this one writes, and   *)
(* by the advance of the program counters.                                 *)

DelayedLoad(int, loading) ==
  [[int EXCEPT ![int[LoadReg]] = int[LoadValueReg]]
      EXCEPT ![LoadReg] = loading[1], ![LoadValueReg] = loading[2], ![0] = 0]

Instr == Decode(IF int_registers[PCReg] \in DOMAIN program.code THEN program.code[int_registers[PCReg]]
                ELSE program.other)

OneInstruction(memory) ==
  LET pc     == int_registers[PCReg]
      effect == Effect(Instr, int_registers, float_registers, cc, memory)
      failed == effect.traps \/ Failing(effect.accesses) # {}
      loaded == DelayedLoad(effect.writes @@ int_registers, effect.load)
  IN  /\ FetchInstruction(pc)
      /\ AccessData(effect.accesses)
      /\ UNCHANGED <<program, page_table>>
      /\ IF failed
           THEN state' = "exited" /\ UNCHANGED cpuVars
         ELSE /\ int_registers' = [loaded EXCEPT ![PCReg] = int_registers[NextPCReg],
                                                 ![NextPCReg] = effect.pcAfter]
              /\ float_registers' = effect.floats @@ float_registers
              /\ cc' = IF effect.cc = {} THEN cc ELSE CHOOSE flag \in effect.cc : TRUE
              /\ state' = IF state = "last" THEN "stopped"
                          ELSE IF effect.pcAfter = ExitAddress THEN "last" ELSE "running"

(* Run: the instruction in the delay slot of the last return is the last.  *)
Run ==
  /\ state \in {"running", "last"}
  /\ Exception(int_registers[PCReg], 4, FALSE) = "NoException"
  /\ \E memory \in [1 .. WordsRead(Instr.op) -> Values] : OneInstruction(memory)

(* RaiseException, of the fetch, prints the exception and exits. *)
RaiseException ==
  /\ state \in {"running", "last"}
  /\ Exception(int_registers[PCReg], 4, FALSE) # "NoException"
  /\ state' = "exited"
  /\ UNCHANGED <<program, cpuVars, mmuVars>>

(* main *)
Init ==
  /\ program \in Programs
  /\ page_table \in program.pages
  /\ MmuInit
  /\ int_registers = [r \in Reg \cup {0, R31} \cup HiReg .. LoadValueReg |->
                        CASE r = PCReg     -> program.entry
                          [] r = NextPCReg -> program.entry + 4
                          [] r = R31       -> ExitAddress
                          [] OTHER         -> 0]
  /\ float_registers = [r \in FloatReg |-> 0]
  /\ cc = FALSE
  /\ state = "running"

Next == Run \/ RaiseException

Spec == Init /\ [][Next]_vars
-----------------------------------------------------------------------------
(* The text of an instruction: what the analyses know of it.               *)

RegText(r)    == [form |-> "word", text |-> "$" \o ToString(r)]
FloatText(r)  == [form |-> "word", text |-> "$f" \o ToString(r)]
IntText(n)    == [form |-> "int", text |-> ToString(n), value |-> n]
HexText(n)    == [form |-> "hex", text |-> "0x" \o ToString(n), value |-> n]
OffsetText(i) == [form |-> "offset", text |-> ToString(i.extra), base |-> RegText(i.rs).text]
Target        == [form |-> "digits", text |-> "80fc", value |-> 33020]

(* opStrings: the operands of an instruction, in order. *)
operandsOf(i) ==
  LET rd_  == RegText(i.rd)
      rs__ == RegText(i.rs)
      rt_  == RegText(i.rt)
      ft_  == FloatText(i.ft)
      fs_  == FloatText(i.fs)
      fd_  == FloatText(i.fd)
  IN  CASE i.op \in Alu3 \ VariableShifts -> <<rd_, rs__, rt_>>
        [] i.op \in VariableShifts -> <<rd_, rt_, rs__>>
        [] i.op \in {"andi", "ori", "xori"} -> <<rt_, rs__, HexText(i.extra)>>
        [] i.op = "lui"    -> <<rt_, HexText(i.extra)>>
        [] i.op \in Alu2 \ {"andi", "ori", "xori", "lui"} -> <<rt_, rs__, IntText(i.extra)>>
        [] i.op \in Shifts -> <<rd_, rt_, HexText(i.extra)>>
        [] i.op \in HiLoOps -> <<rs__, rt_>>
        [] i.op \in {"beq", "bne"} -> <<rs__, rt_, Target>>
        [] i.op \in {"mfhi", "mflo"} -> <<rd_>>
        [] i.op \in {"mthi", "mtlo", "jr"} -> <<rs__>>
        [] i.op = "jalr" -> <<rd_, rs__>>
        [] i.op \in {"j", "jal", "bc1f", "bc1t"} -> <<Target>>
        [] i.op \in Branches \ {"beq", "bne", "bc1f", "bc1t"} -> <<rs__, Target>>
        [] i.op \in Loads \cup Stores -> <<rt_, OffsetText(i)>>
        [] i.op \in {"lwc1", "ldc1", "swc1", "sdc1"} -> <<ft_, OffsetText(i)>>
        [] i.op \in {"mfc1", "cfc1", "mtc1", "ctc1"} -> <<rt_, fs_>>
        [] i.op \in Float3(Single) \cup Float3(Double) -> <<fd_, fs_, ft_>>
        [] i.op \in FloatOps \ (Float3(Single) \cup Float3(Double)) -> <<fd_, fs_>>
        [] i.op \in Compares -> <<fs_, ft_>>
        [] OTHER -> <<>>

Text(i) == [mnemonic |-> i.op, operands |-> operandsOf(i)]

Alive == state \in {"running", "last"} /\ Exception(int_registers[PCReg], 4, FALSE) = "NoException"

(* The resources of the analyses a register of the processor is. *)
ResourceOf(r) ==
  CASE r = HiReg -> "HI" [] r = LoReg -> "LO" [] OTHER -> RegText(r).text

(* What an instruction does with its registers, whatever it reads.         *)
EffectWith(int, float) ==
  Effect(Instr, int, float, cc, [k \in 1 .. WordsRead(Instr.op) |-> 0])

(* The pipeline analysis delays an instruction that reads a register       *)
(* another one writes.  Every register that changes what an instruction    *)
(* does is an input of its format, and every register it assigns an        *)
(* output.  The exceptions: mtc1, whose operands the tables swap, the link *)
(* register of jal, lwr, which keeps a part of its register, the second    *)
(* register of a double, and the condition of the branches bc1f and bc1t,  *)
(* which is no resource.                                                   *)
DependencesSeen ==
  Alive /\ hasType("MIPS", Instr.op) /\ checkFormat("MIPS", Text(Instr)) =>
    LET inputs  == getResourceInputs("MIPS", Text(Instr))
        outputs == getResourceOutputs("MIPS", Text(Instr))
        effect  == EffectWith(int_registers, float_registers)
        whole   == {Instr.fs, Instr.ft, Instr.fd}
        isHalf(f) == f - 1 \in whole /\ f \notin whole
    IN  Instr.op # "mtc1" =>
          /\ \A r \in Reg \cup {HiReg, LoReg} :
               ResourceOf(r) \in inputs \/ (Instr.op = "lwr" /\ r = Instr.rt)
                 \/ \A v \in Values : EffectWith([int_registers EXCEPT ![r] = v], float_registers) = effect
          /\ \A f \in FloatReg :
               FloatText(f).text \in inputs \/ isHalf(f)
                 \/ \A v \in Values : EffectWith(int_registers, [float_registers EXCEPT ![f] = v]) = effect
          /\ ~ effect.traps =>
               /\ \A r \in DOMAIN effect.writes :
                    ResourceOf(r) \in outputs \/ Instr.op = "jal"
               /\ effect.load[1] # 0 => ResourceOf(effect.load[1]) \in outputs
               /\ \A f \in DOMAIN effect.floats : FloatText(f).text \in outputs \/ isHalf(f)

(* The arithmetic of the simulator is that of integers: the product over   *)
(* two words is exact, the quotient and the remainder are those of a       *)
(* division truncated towards zero, and an exception is raised exactly     *)
(* when a sum or a difference does not fit in a register.                  *)
ArithmeticExact ==
  Alive =>
    LET a    == int_registers[Instr.rs]
        b    == int_registers[Instr.rt]
        op   == Instr.op
        both == HiLo(op, a, b)
        of(w) == IF op \in {"mult", "div"} THEN Signed(w) ELSE w
        fits(n) == n \in -Half .. Half - 1
        traps == EffectWith(int_registers, float_registers).traps
    IN  /\ op \in {"mult", "multu"} =>
             both[1] * 2 ^ Width + both[2] = (of(a) * of(b)) % 2 ^ (2 * Width)
        /\ op \in {"div", "divu"} /\ b # 0 /\ ~ traps =>
             LET q == of(both[2])
                 r == of(both[1])
             IN  /\ of(a) = q * of(b) + r
                 /\ r * r < of(b) * of(b)
                 /\ r = 0 \/ (r < 0) = (of(a) < 0)
        /\ op = "add"  => traps = ~ fits(Signed(a) + Signed(b))
        /\ op = "sub"  => traps = ~ fits(Signed(a) - Signed(b))
        /\ op = "addi" => traps = ~ fits(Signed(a) + Instr.extra)
=============================================================================
