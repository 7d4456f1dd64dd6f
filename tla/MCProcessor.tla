------------------------------ MODULE MCProcessor ------------------------------
EXTENDS Processor

(* A level 1 of two direct-mapped sets, a level 2 of one two-way set. *)
Sets == <<2, 1>>
Ways == <<1, 2>>
LineSizes == <<4, 4>>

(* Pages of two words: three of instructions and one of data. *)
Addresses == {4 * n : n \in 0 .. 7}

IntRegisters == {2, 3, 4}
FloatRegs == 0 .. 5
Words == {0, 24, 127, 128, 255}

(* Operations that depend on all their words. *)
AnyFloatWord(op, words, half) ==
  FoldLeft(LAMBDA sum, w : (3 * sum + w + half) % 256, 0, words)
AnyFloatHolds(op, words) == IF op = "negative" THEN words[Len(words)] >= 128 ELSE words[1] < words[2]

(* An encoding of each operation. *)
Fields(code, rs, rt, funct) ==
  [code |-> code, rs |-> rs, rt |-> rt, rd |-> 0, fd |-> 0, funct |-> funct,
   immediate |-> 0, target |-> 0]

Encodings ==
  {Fields(code, 0, 0, 0) : code \in 0 .. 63} \cup {Fields(0, 0, 0, funct) : funct \in 0 .. 63}
    \cup {Fields(1, 0, rt, 0) : rt \in {0, 1, 16, 17}} \cup {Fields(17, 8, rt, 0) : rt \in 0 .. 1}
    \cup {Fields(17, rs, 0, funct) : rs \in {0, 2, 4, 6, 16, 17, 20}, funct \in 0 .. 63}

Operations == {opCode(w) : w \in Encodings}
Encoding   == [op \in Operations |-> CHOOSE w \in Encodings : opCode(w) = op]

(* The instruction of an operation with some operands: rs and rt may be    *)
(* a part of the operation.                                                *)
I(op, rs, rt, fs, fd, extra) ==
  LET w == Encoding[op]
  IN  [w EXCEPT !.rs = IF w.code = 17 THEN @ ELSE rs,
                !.rt = IF w.code = 1 \/ w.rs = 8 THEN @ ELSE rt,
                !.rd = fs, !.fd = IF op \in Shifts THEN extra ELSE fd,
                !.immediate = extra, !.target = extra]

nop == I("sll", 0, 0, 0, 0, 0)
AtReturn == I("jr", 31, 0, 0, 0, 0)

Code(instrs) == [a \in {4 * (n - 1) : n \in DOMAIN instrs} |-> instrs[a \div 4 + 1]]

Page(n, writable) == [readAllowed |-> TRUE, writeAllowed |-> writable, physicalPage |-> n]

Straight == {[vpn \in Vpn |-> Page(vpn, vpn = 3)]}

Program(instrs, pages) == [code |-> Code(instrs), other |-> I("reserved", 0, 0, 0, 0, 0),
                           entry |-> 0, pages |-> pages]

(* Every integer instruction between two loads of its operands and the     *)
(* return, and after its delay slot every value it can leave.              *)
Extras(op) ==
  CASE op \in Shifts -> {1, 5}
    [] op \in {"j", "jal"} -> {1}
    [] op \in Loads \cup Stores \cup {"addi", "addiu", "slti", "sltiu"} -> {-8, 0, 7}
    [] op \in Alu2 -> {-8, 7}
    [] op \in Branches -> {-2, 1}
    [] OTHER -> {0}

FloatAccesses == {"lwc1", "ldc1", "swc1", "sdc1", "mfc1", "cfc1", "mtc1", "ctc1"}
OnFloats      == FloatOps \cup Compares \cup FloatAccesses \cup Unordered \cup FixedPoint

Load(r) == I("lw", 0, r, 0, 0, 24)

IntegerPrograms ==
  UNION {{Program(<<Load(2), Load(3), nop, I(op, 2, 3, 4, 0, extra), AtReturn, nop>>, Straight) :
            extra \in Extras(op)} : op \in Operations \ OnFloats}

FloatPrograms ==
  {Program(<<I(op, 0, 2, 0, 4, extra), I("bc1t", 0, 0, 0, 0, -1), nop, AtReturn, nop>>, Straight) :
     op \in OnFloats, extra \in {24, 28}}

(* The page tables of programs whose code is not writable. *)
Tables == {t \in PageTables : \A vpn \in Vpn : t[vpn].writeAllowed => vpn = 3}

(* A loop that loads, a loop that stores, with all these page tables. *)
Loops ==
  {<<Load(2), nop, I("bgtz", 2, 0, 0, 0, -2), nop, I("j", 0, 0, 0, 0, 0), nop>>,
   <<Load(2), I("sw", 0, 2, 0, 0, 28), I("bne", 2, 0, 0, 0, -3), nop, AtReturn>>}

AllPrograms ==
  IntegerPrograms \cup FloatPrograms \cup {Program(instrs, Tables) : instrs \in Loops}
=============================================================================
