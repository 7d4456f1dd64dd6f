------------------------------- MODULE RegState -------------------------------
(***************************************************************************)
(* The abstract registers and stack of the address analysis: what the      *)
(* instructions of MIPS and RISC-V do to them, and how two states are      *)
(* joined.                                                                 *)
(*                                                                         *)
(* The code keeps a string for each register.  Here a value is unknown     *)
(* ("*"), a number, an offset from sp, from gp or from the page that lui   *)
(* loads, the return address, the word an offset of gp was loaded from, or *)
(* another expression, which the code keeps and never evaluates.  A "-" in *)
(* the string is a negative offset.  How sums are spelled is left out, as  *)
(* are the operands of the other expressions.                              *)
(*                                                                         *)
(* An instruction is a record [op, d, s, t, k]: its destination, or the    *)
(* register a store writes; its sources; its immediate or offset.          *)
(***************************************************************************)
EXTENDS Integers, Sequences, FiniteSets

CONSTANTS
  Register,     \* their names, "sp", "gp" and "zero" among them
  DataPage      \* the page of the variables, the operand of every lui

Value(base, off) == [base |-> base, off |-> off]
Unknown == [value |-> Value("*", 0), precise |-> FALSE]
Precise(v) == [value |-> v, precise |-> TRUE]
IsUnknown(x) == x.value.base = "*"
IsNumber(x) == x.value.base = "num"
Number(k) == Value("num", k)
Other == Value("other", 0)
Sp == Precise(Value("sp", 0))

PredefValues ==
  [sp |-> Sp, gp |-> Precise(Value("gp", 0)), zero |-> Precise(Number(0)), ra |-> Precise(Value("ra", 0))]

NewRegState(stackSize) ==
  [regs |-> [r \in Register |-> IF r \in DOMAIN PredefValues THEN PredefValues[r] ELSE Unknown],
   vStack |-> [j \in 0 .. stackSize - 1 |-> Unknown]]

reset_sp(st) == [st EXCEPT !.regs["sp"] = Sp]

EqualsRegisters(st, other) == st.regs = other.regs
EqualsStacks(st, other) == st.vStack = other.vStack

(* Different values are lost; equal ones keep a precision both have.       *)
JoinValues(x, y) ==
  IF x.value = y.value THEN [x EXCEPT !.precise = x.precise /\ y.precise] ELSE Unknown

(* Mutant of Join: the registers of the first.                             *)
JoinStacksOnly(st, other) ==
  [st EXCEPT !.vStack = [j \in DOMAIN st.vStack |-> JoinValues(st.vStack[j], other.vStack[j])]]

Join(st, other) ==
  [regs |-> [r \in Register |-> JoinValues(st.regs[r], other.regs[r])],
   vStack |-> [j \in DOMAIN st.vStack |-> JoinValues(st.vStack[j], other.vStack[j])]]

-----------------------------------------------------------------------------
(* Expressions *)

BothPrecise(x, y) == x.precise /\ y.precise

(* A number is added to the offset of the other operand, when it has one   *)
(* or comes first.                                                         *)
HasOffset(x) == x.value.base \in {"num", "sp", "gp", "lui", "ra"}
evalPlus(x, y) ==
  CASE HasOffset(x) /\ IsNumber(y) -> Value(x.value.base, x.value.off + y.value.off)
    [] IsNumber(x) /\ HasOffset(y) /\ y.value.off # 0 -> Value(y.value.base, x.value.off + y.value.off)
    [] OTHER -> Other
evalMinus(x, y) ==
  IF HasOffset(x) /\ IsNumber(y) THEN Value(x.value.base, x.value.off - y.value.off) ELSE Other

localop(x, y, result) ==
  [value |-> IF IsUnknown(x) \/ IsUnknown(y) THEN Unknown.value ELSE result,
   precise |-> BothPrecise(x, y)]

(* An unknown operand may add an unknown index to the other: what remains  *)
(* is the object accessed.                                                 *)
add(x, y, bAugmentPrecision) ==
  IF bAugmentPrecision /\ (IsUnknown(x) \/ IsUnknown(y))
  THEN [value |-> IF IsUnknown(x) THEN y.value ELSE x.value, precise |-> BothPrecise(x, y)]
  ELSE localop(x, y, evalPlus(x, y))

minus(x, y) == localop(x, y, evalMinus(x, y))
mult(x, y) == localop(x, y, Other)

Abs(n) == IF n < 0 THEN -n ELSE n
Truncated(m, n) == (IF m * n < 0 THEN -1 ELSE 1) * (Abs(m) \div Abs(n))

Computable(x, y) == BothPrecise(x, y) /\ IsNumber(x) /\ IsNumber(y) /\ y.value.off # 0

(* A quotient and a remainder keep the precision of their destination.     *)
divi(x, y, old) ==
  IF Computable(x, y) THEN [old EXCEPT !.value = Number(Truncated(x.value.off, y.value.off))]
  ELSE Unknown
remainder(x, y, old) ==
  IF Computable(x, y) /\ y.value.off > 0
  THEN [old EXCEPT !.value = Number(x.value.off - y.value.off * Truncated(x.value.off, y.value.off))]
  ELSE Unknown

(* Zero stays zero, whatever it is shifted by.                             *)
Shiftable(x, y) == x.precise /\ IsNumber(x) /\ (IsNumber(y) \/ x.value.off = 0)
logical_shift_left(x, y) ==
  IF ~ Shiftable(x, y) THEN Unknown
  ELSE Precise(Number(IF x.value.off = 0 THEN 0 ELSE Abs(x.value.off) * 2 ^ y.value.off))
shift_right(x, y) ==
  IF ~ Shiftable(x, y) THEN Unknown
  ELSE Precise(Number(IF x.value.off = 0 THEN 0 ELSE x.value.off \div 2 ^ y.value.off))

(* What follows the "-" of a value.                                        *)
Magnitude(x) == [x EXCEPT !.value = Number(-x.value.off)]
IsNegative(x) == x.value.off < 0

-----------------------------------------------------------------------------
(* What instructions of both processors do *)

setRegister(st, r, x) == [st EXCEPT !.regs[r] = x]
killop1(st, i) == setRegister(st, i.d, Unknown)
move(st, i) == setRegister(st, i.d, st.regs[i.s])
loadConstant(st, i, base) == setRegister(st, i.d, Precise(Value(base, i.k)))
Immediate(i) == Precise(Number(i.k))

(* Loads and stores keep the stack while sp has an offset: in the block    *)
(* that allocates the frame and in the one that frees it.                  *)
StackIndex(st, k) ==
  Cardinality(DOMAIN st.vStack) - Abs(k + st.regs["sp"].value.off) - (IF k = 0 THEN 0 ELSE 1)
OnStack(st, i) ==
  i.s = "sp" /\ st.regs["sp"].value.off # 0 /\ StackIndex(st, i.k) \in DOMAIN st.vStack

(* What a negative offset of gp holds is named after that offset.          *)
DLoad(st, i) ==
  setRegister(st, i.d, IF OnStack(st, i) THEN st.vStack[StackIndex(st, i.k)]
                       ELSE IF i.s = "gp" /\ i.k < 0 THEN Precise(Value("word", i.k)) ELSE Unknown)
DStore(st, i) ==
  IF OnStack(st, i) THEN [st EXCEPT !.vStack[StackIndex(st, i.k)] = st.regs[i.d]] ELSE st

-----------------------------------------------------------------------------
(* MIPS *)

(* A negative second operand is replaced by its magnitude, in its register.*)
Add(st, i) ==
  LET x == st.regs[i.s]
      y == st.regs[i.t]
  IN  IF IsNegative(y)
      THEN setRegister(setRegister(st, i.t, Magnitude(y)), i.d,
                       minus(IF i.s = i.t THEN Magnitude(y) ELSE x, Magnitude(y)))
      ELSE setRegister(st, i.d, add(x, y, TRUE))

Addiu(st, i) ==
  LET x == st.regs[i.s]
      y == Immediate(i)
  IN  setRegister(st, i.d, IF IsNegative(y) THEN minus(x, Magnitude(y)) ELSE add(x, y, TRUE))

Subu(st, i) == setRegister(st, i.d, minus(st.regs[i.s], st.regs[i.t]))

Shift(st, i) ==
  CASE i.op = "sll" -> setRegister(st, i.d, logical_shift_left(st.regs[i.s], Immediate(i)))
    [] i.op \in {"srl", "sra"} -> setRegister(st, i.d, shift_right(st.regs[i.s], Immediate(i)))
    [] i.op \in {"sllv", "srlv", "srav"} -> killop1(st, i)

MIPS_simulate(st, i) ==
  CASE i.op \in {"nop", "jal"} -> st
    [] i.op = "lw" -> DLoad(st, i)
    [] i.op = "sw" -> DStore(st, i)
    [] i.op = "move" -> move(st, i)
    [] i.op = "kill" -> killop1(st, i)
    [] i.op = "addu" -> Add(st, i)
    [] i.op = "addiu" -> Addiu(st, i)
    [] i.op = "subu" -> Subu(st, i)
    [] i.op = "lui" -> loadConstant(st, i, "lui")
    [] i.op = "li" -> loadConstant(st, i, "num")
    [] OTHER -> Shift(st, i)

-----------------------------------------------------------------------------
(* RISC-V: a number added to the page makes an address, which is precise   *)
(* whatever the page was.                                                  *)

OnPage(x, y) == x.value.base = "lui" /\ IsNumber(y)
RISCV_add(x, y, bAugmentPrecision) ==
  IF OnPage(x, y) THEN Precise(Number(DataPage + y.value.off)) ELSE add(x, y, bAugmentPrecision)
RISCV_minus(x, y) ==
  IF OnPage(x, y) THEN Precise(Number(DataPage - y.value.off)) ELSE minus(x, y)

(* sp is the first operand.                                                *)
RISCV_ADD(st, i) ==
  LET first == IF i.t = "sp" THEN i.t ELSE i.s
      second == IF i.t = "sp" THEN i.s ELSE i.t
      y == st.regs[second]
      x == IF first = second THEN Magnitude(y) ELSE st.regs[first]
  IN  IF IsNegative(y)
      THEN setRegister(setRegister(st, second, Magnitude(y)), i.d, RISCV_minus(x, Magnitude(y)))
      ELSE setRegister(st, i.d, RISCV_add(st.regs[first], y, TRUE))

RISCV_ADDIU(st, i) ==
  LET x == st.regs[i.s]
      y == Immediate(i)
  IN  setRegister(st, i.d, IF IsNegative(y) THEN RISCV_minus(x, Magnitude(y)) ELSE RISCV_add(x, y, FALSE))

RISCV_SUBTRACT(st, i) == setRegister(st, i.d, minus(st.regs[i.s], st.regs[i.t]))
RISCV_MUL(st, i) == setRegister(st, i.d, mult(st.regs[i.s], st.regs[i.t]))
RISCV_DIV(st, i) == setRegister(st, i.d, divi(st.regs[i.s], st.regs[i.t], st.regs[i.d]))
RISCV_REMAINDER(st, i) == setRegister(st, i.d, remainder(st.regs[i.s], st.regs[i.t], st.regs[i.d]))

(* A negation is a product with register zero.                             *)
RISCV_NEGATE(st, i) == setRegister(st, i.d, mult(st.regs[i.s], st.regs["zero"]))

RISCV_LOAD_CONSTANT(st, i) == loadConstant(st, i, IF i.op = "lui" THEN "lui" ELSE "num")

(* Every shift is a shift to the left; by a register, only of zero.        *)
RISCV_SHIFT(st, i) ==
  setRegister(st, i.d, logical_shift_left(st.regs[i.s], IF i.op = "sll" THEN Unknown ELSE Immediate(i)))

RISCV_MOVE(st, i) == move(st, i)

(* What is rounded is lost.                                                *)
RISCV_CONVERSION(st, i) == IF i.op = "fcvt.w.d" THEN killop1(st, i) ELSE move(st, i)

(* What the analysis does not follow, beside the loads and the kills. *)
RISCV_LOGICAL == {"not", "and", "or", "xor", "andi", "ori", "xori"}
RISCV_SETIF == {"seqz", "snez", "sltz", "sgtz", "feq", "flt", "fle"}

RISCV_simulate(st, i) ==
  CASE i.op \in {"nop", "branch", "jal"} -> st
    [] i.op = "lw" -> DLoad(st, i)
    [] i.op = "sw" -> DStore(st, i)
    [] i.op \in {"mv", "sext.w"} -> RISCV_MOVE(st, i)
    [] i.op \in {"kill"} \cup RISCV_LOGICAL \cup RISCV_SETIF -> killop1(st, i)
    [] i.op = "add" -> RISCV_ADD(st, i)
    [] i.op = "addi" -> RISCV_ADDIU(st, i)
    [] i.op = "sub" -> RISCV_SUBTRACT(st, i)
    [] i.op = "mul" -> RISCV_MUL(st, i)
    [] i.op = "div" -> RISCV_DIV(st, i)
    [] i.op = "rem" -> RISCV_REMAINDER(st, i)
    [] i.op = "neg" -> RISCV_NEGATE(st, i)
    [] i.op \in {"fcvt.d.w", "fcvt.w.d"} -> RISCV_CONVERSION(st, i)
    [] i.op \in {"lui", "li"} -> RISCV_LOAD_CONSTANT(st, i)
    [] OTHER -> RISCV_SHIFT(st, i)

-----------------------------------------------------------------------------
(* An instruction that loses sp, gp or zero ends the analysis.             *)
Aborted == [regs |-> <<>>, vStack |-> <<>>]

simulate(arch, st, i) ==
  LET result == IF arch = "MIPS" THEN MIPS_simulate(st, i) ELSE RISCV_simulate(st, i)
  IN  IF st = Aborted THEN st
      ELSE IF \A r \in {"sp", "gp", "zero"} : result.regs[r].precise THEN result ELSE Aborted
=============================================================================
