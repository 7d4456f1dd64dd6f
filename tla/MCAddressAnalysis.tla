---------------------------- MODULE MCAddressAnalysis ----------------------------
EXTENDS AddressAnalysis

MCRegisters == {"sp", "gp", "zero", "v0", "v1", "a0"}
MCVariables == {[start |-> 20, size |-> 4], [start |-> 24, size |-> 8]}

Instr(op, d, s, t, k) == [op |-> op, d |-> d, s |-> s, t |-> t, k |-> k]
Lw(d, k, s) == Instr("lw", d, s, s, k)
Sw(d, k, s) == Instr("sw", d, s, s, k)
AddiuI(d, s, k) == Instr("addiu", d, s, s, k)
AdduI(d, s, t) == Instr("addu", d, s, t, 0)
MoveI(d, s) == Instr("move", d, s, s, 0)
Lui(d) == Instr("lui", d, d, d, 0)
Li(d, k) == Instr("li", d, d, d, k)
Sll(d, s, k) == Instr("sll", d, s, s, k)
Kill(d, results) == [results |-> results] @@ Instr("kill", d, d, d, 0)
Prologue(size) == <<AddiuI("sp", "sp", -size)>>
Epilogue(size) == <<AddiuI("sp", "sp", size)>>
Index(d) == Kill(d, {0, 4})
Op(op, d, s, t) == Instr(op, d, s, t, 0)
Jal == Instr("jal", "v0", "v0", "v0", 0)

(* What a block compiled without optimisation does: a local variable, an   *)
(* array in the frame or among the variables at an unknown index or at a   *)
(* constant one, a pointer that comes from memory.                         *)
LocalScalar == <<Lw("v0", 4, "sp"), AddiuI("v0", "v0", 4), Sw("v0", 4, "sp")>>
LocalArray == <<Index("v0"), AdduI("v0", "sp", "v0"), Lw("v0", 8, "v0")>>
LocalElement == <<Li("v1", 1), Sll("v1", "v1", 2), AdduI("v1", "sp", "v1"), Sw("v0", 8, "v1")>>
GlobalScalar == <<Lui("v0"), Lw("v1", 4, "v0")>>
GlobalArray == <<Index("v1"), Lui("v0"), AddiuI("v0", "v0", 8), AdduI("v0", "v1", "v0"), Sw("v1", 0, "v0")>>
GlobalElement == <<Lui("v1"), AddiuI("v1", "v1", 16), AddiuI("v1", "v1", -4), Lw("v0", 0, "v1")>>
FromMemory == <<Lw("v0", 12, "sp"), Lw("v1", 0, "v0")>>
Compiled == {LocalScalar, LocalArray, LocalElement, GlobalScalar, GlobalArray, GlobalElement, FromMemory}

(* Below gp; a difference, shifts to the right and by a register; an index *)
(* that hides the offset it is added to.                                   *)
BelowGp == <<Lw("v0", -16, "gp"), Sw("v0", -12, "gp")>>
PointerBelowGp == <<AddiuI("v0", "gp", -12), Lw("v1", 4, "v0")>>
ArrayBelowGp == <<Index("v0"), AddiuI("v1", "gp", -12), AdduI("v1", "v1", "v0"), Lw("v0", 0, "v1")>>
HiddenBelowGp == <<Index("v0"), AddiuI("v1", "gp", -12), AdduI("v0", "v0", "v1"), Lw("v0", 0, "v0")>>
Difference == <<Li("v0", 12), Li("v1", 4), Op("subu", "v0", "v0", "v1"), AdduI("v0", "sp", "v0"), Lw("v0", 0, "v0")>>
Halved == <<Li("v0", 17), Instr("sra", "v0", "v0", "v0", 2), AdduI("v1", "sp", "v0"), Sw("v0", 4, "v1")>>
ShiftedBy == <<[results |-> {0, 4}] @@ Op("sllv", "v0", "a0", "v1"), AdduI("v0", "sp", "v0"), Lw("v0", 8, "v0")>>
OtherBlocks == {BelowGp, PointerBelowGp, ArrayBelowGp, HiddenBelowGp, Difference, Halved, ShiftedBy}

(* What only RISC-V has; v0 and v1 stand for its temporary registers.      *)
PageOnly == <<Lui("v0"), Index("v1"), Op("add", "v0", "v0", "v1"), Lw("v1", 8, "v0")>>
Address == <<Li("v0", 24), Lw("v1", 4, "v0")>>
Quotient == <<Li("v0", 9), Li("v1", 2), Op("div", "v0", "v0", "v1"), Op("add", "v0", "v0", "sp"), Lw("v1", 4, "v0")>>
Remainder == <<Li("v1", 5), Li("a0", -9), Op("rem", "v0", "a0", "v1"), Op("add", "v0", "sp", "v0"), Lw("v1", 12, "v0")>>
Product == <<Index("v0"), Li("v1", 1), Op("mul", "v0", "v0", "v1"), Op("add", "v0", "sp", "v0"), Lw("v0", 8, "v0")>>
Negated == <<Index("v0"), Op("neg", "v1", "v0", "v0"), Op("sub", "v0", "sp", "v1"), Lw("v0", 8, "v0")>>
Converted == <<Index("v0"), Op("sext.w", "v1", "v0", "v0"), Op("fcvt.d.w", "a0", "v1", "v1"),
               [results |-> {0, 4}] @@ Op("fcvt.w.d", "v1", "a0", "a0"),
               [results |-> {0, 4}] @@ Op("andi", "v1", "v1", "v1"),
               Op("add", "v1", "sp", "v1"), Lw("v0", 8, "v1"), Op("branch", "v0", "v0", "v0")>>
RISCVBlocks == {PageOnly, Address, Quotient, Remainder, Product, Negated, Converted}

Function(nodes, edges, ends, callee, maxiter, code) ==
  [nodes |-> nodes, edges |-> edges, start |-> nodes[1], ends |-> ends, callee |-> callee,
   maxiter |-> maxiter, code |-> code]
Program(cfg) == [arch |-> "MIPS", entry |-> "main", cfg |-> cfg]

(* The program with the instructions of RISC-V. *)
RISCVName == [addiu |-> "addi", addu |-> "add", subu |-> "sub", move |-> "mv", sll |-> "slli"]
OnRISCV(p) ==
  LET named(i) == IF i.op \in DOMAIN RISCVName THEN [i EXCEPT !.op = RISCVName[i.op]] ELSE i
      translated(code) == [j \in DOMAIN code |-> named(code[j])]
  IN  [arch |-> "RISCV", entry |-> p.entry,
       cfg |-> [f \in DOMAIN p.cfg |->
                  [p.cfg[f] EXCEPT !.code = [n \in DOMAIN @ |-> translated(@[n])]]]]

(* A function without frame, that stores its argument in its caller's, and *)
(* one with a frame, that reads it back in another block.                  *)
Leaf(code) == Function(<<6>>, {}, {6}, <<>>, <<>>, 6 :> code)
Framed == Function(<<6, 7, 8>>, {<<6, 7>>, <<6, 8>>, <<7, 8>>}, {8}, <<>>, <<>>,
  6 :> (Prologue(8) \o <<Sw("a0", 8, "sp"), Lui("v0"), Lw("v0", 4, "v0")>>)
  @@ 7 :> <<Lw("v0", 8, "sp"), Lw("v1", 0, "v0")>> @@ 8 :> Epilogue(8))
Callees ==
  {Leaf(<<Lw("v0", 0, "a0")>>),
   Leaf(<<Sw("a0", 0, "sp"), Lw("v0", 0, "sp"), Lw("v1", 0, "v0")>>),
   Leaf(<<MoveI("v0", "a0"), AddiuI("v0", "v0", 4), Sw("v0", 0, "v0")>>), Framed}

Argument == {<<AddiuI("a0", "sp", 8), Jal>>, <<Lui("a0"), AddiuI("a0", "a0", 8), Jal>>}

(* Two calls of a function, with the address of a variable. *)
TwoCalls(x, y, f) == Program(
  [main |-> Function(<<1, 2, 3, 4>>, {<<1, 2>>, <<2, 3>>, <<3, 4>>}, {4}, 2 :> "f" @@ 3 :> "f",
                     <<>>, <<Prologue(16), x, y, Epilogue(16)>>), f |-> f])

(* A loop, with a branch, where a pointer is set, advanced or used. *)
Looping(w, x, y, z) == Program(
  [main |-> Function(<<1, 2, 3, 4, 5, 6>>,
                     {<<1, 2>>, <<2, 3>>, <<2, 4>>, <<3, 5>>, <<4, 5>>, <<5, 2>>, <<2, 6>>},
                     {6}, <<>>, 2 :> 2,
                     <<Prologue(16) \o w, <<>>, x, y, z, Epilogue(16)>>)])

Scalar == <<Lui("v1"), AddiuI("v1", "v1", 4)>>
Element == <<Lui("v1"), AddiuI("v1", "v1", 8)>>
Local == <<AddiuI("v1", "sp", 8)>>
Advance == <<AddiuI("v1", "v1", 4)>>
Use == <<Lw("v0", 0, "v1")>>

(* A call in a loop. *)
CallInLoop(x, f) == Program(
  [main |-> Function(<<1, 2, 3, 4>>, {<<1, 2>>, <<2, 3>>, <<3, 2>>, <<2, 4>>}, {4}, 3 :> "f",
                     2 :> 2, <<Prologue(16), LocalArray, x, Epilogue(16)>>), f |-> f])

(* sp is changed in the middle of a function, lost in its first block; a   *)
(* variable is not known, or a pointer is loaded from below gp.            *)
Rejected == {Looping(<<>>, <<AddiuI("sp", "sp", -4)>>, <<>>, <<>>),
             Looping(<<Index("v0"), AdduI("sp", "sp", "v0")>>, <<>>, <<>>, <<>>),
             Looping(<<>>, <<Lui("v0"), Lw("v0", 16, "v0")>>, <<>>, <<>>),
             Looping(<<>>, <<Lw("v0", -16, "gp"), Lw("v0", 0, "v0")>>, <<>>, <<>>)}

CallPrograms == {TwoCalls(x, y, f) : x \in Argument, y \in Argument, f \in Callees}
           \cup {CallInLoop(x, f) : x \in Argument, f \in Callees}
PointerPrograms == {Looping(Element, x, y, Use) : x \in {<<>>, Element, Scalar}, y \in {<<>>, Element, Local}}
            \cup {Looping(Element, Use, Use \o Advance, <<>>), Looping(Element, <<>>, Use, Advance)}
MCPrograms ==
  CallPrograms \cup PointerPrograms
  \cup {Looping(<<>>, x, y, z) : x \in Compiled, y \in {<<>>, LocalScalar}, z \in Compiled}
  \cup {Looping(<<>>, x, <<>>, y) : x \in OtherBlocks, y \in OtherBlocks}
  \cup {OnRISCV(p) : p \in CallPrograms \cup PointerPrograms \cup Rejected
                          \cup {Looping(<<>>, x, <<>>, y) : x \in RISCVBlocks, y \in RISCVBlocks \cup Compiled}}
  \cup Rejected

(* A pointer is advanced after its use. *)
AdvancedPrograms == {Program(
  [main |-> Function(<<1, 2>>, {<<1, 2>>}, {2}, <<>>, <<>>,
                     <<Prologue(16) \o Element, Use \o Advance \o Epilogue(16)>>)])}
=============================================================================
