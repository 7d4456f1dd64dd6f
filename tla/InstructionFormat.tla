--------------------------- MODULE InstructionFormat ---------------------------
(***************************************************************************)
(* The formats of the instructions: the operands they accept, and the      *)
(* resources an instruction of the format reads and writes                 *)
(* (InstructionFormat.cc).                                                 *)
(*                                                                         *)
(* An operand is a record: its text, what it is for the architecture ("is",*)
(* a set of classes), the registers it names, and the registers a memory   *)
(* access with it writes back.  A format has a class for each operand, and *)
(* the names of its inputs and outputs: "op1" stands for the registers of  *)
(* the first operand, "back1" for those it writes back, "text1" for the    *)
(* operand itself, and any other name for itself.                          *)
(***************************************************************************)
EXTENDS Integers, Sequences

Format(classes, reads, writes) == [classes |-> classes, reads |-> reads, writes |-> writes]

(* The class "any" is that of an operand the format does not look at. *)
isFormat(f, operands) ==
  /\ Len(operands) = Len(f.classes)
  /\ \A i \in DOMAIN operands : f.classes[i] \in operands[i].is \cup {"any"}

Named(operands, name) ==
  CASE name = "op1"   -> operands[1].regs
    [] name = "op2"   -> operands[2].regs
    [] name = "op3"   -> operands[3].regs
    [] name = "op4"   -> operands[4].regs
    [] name = "back1" -> operands[1].written
    [] name = "back2" -> operands[2].written
    [] name = "text1" -> {operands[1].text}
    [] name = "text2" -> {operands[2].text}
    [] OTHER -> {name}

Inputs(f, operands)  == UNION {Named(operands, name) : name \in f.reads}
Outputs(f, operands) == UNION {Named(operands, name) : name \in f.writes}
-----------------------------------------------------------------------------
(* No operand. *)

Empty == Format(<<>>, {}, {})

(* One operand.  The registers given to rd and rs_rs are implicit. *)

rd(in) == Format(<<"register">>, in, {"op1"})
Hex_   == Format(<<"hex">>, {}, {})
Addr_  == Format(<<"addr">>, {}, {})
rs_    == Format(<<"register">>, {"op1"}, {})
mem_   == Format(<<"mem">>, {"op1", "mem"}, {})
Int_   == Format(<<"dec">>, {}, {})

(* Two operands. *)

(* Mutant of rs_mem: the registers of the address are forgotten, as those  *)
(* of hex_mem are.                                                         *)
rs_mem_value == Format(<<"register", "mem">>, {"op1"}, {"back2", "mem"})

rd_mem    == Format(<<"register", "mem">>, {"op2", "mem"}, {"op1", "back2"})
rd_int    == Format(<<"register", "dec">>, {}, {"op1"})
rs_fp     == Format(<<"register", "fp">>, {}, {"op1"})
rs_mem    == Format(<<"register", "mem">>, {"op1", "op2"}, {"back2", "mem"})

rs_addr   == Format(<<"register", "addr">>, {"op1"}, {})
rd_rs     == Format(<<"register", "register">>, {"op2"}, {"op1"})
rs_rd     == Format(<<"register", "register">>, {"op1"}, {"op2"})
rs_rs(out) == Format(<<"register", "register">>, {"op1", "op2"}, out)
rd_hex    == Format(<<"register", "hex">>, {}, {"op1"})
hex_rs    == Format(<<"hex", "register">>, {}, {"op2"})
int_rs    == Format(<<"dec", "register">>, {"op2"}, {})
mem_rd    == Format(<<"mem", "register">>, {"op1", "mem"}, {"back1", "op2"})
hex_mem   == Format(<<"hex", "mem">>, {}, {"back2", "mem"})
hex_rd    == Format(<<"hex", "register">>, {}, {"op2"})
int_mem   == Format(<<"dec", "mem">>, {}, {"back2", "mem"})
mem_mem   == Format(<<"mem", "mem">>, {"op1", "text2"}, {"back1", "mem"})
int_addr  == Format(<<"dec", "addr">>, {}, {})
addr_mem  == Format(<<"addr", "mem">>, {}, {"back2", "mem"})
addr_rd   == Format(<<"addr", "register">>, {}, {"op2"})
mem_addr  == Format(<<"mem", "addr">>, {"op1", "mem"}, {})
int_rd    == Format(<<"dec", "register">>, {}, {"op2"})
addr_addr == Format(<<"addr", "addr">>, {}, {})
rs_int    == Format(<<"register", "dec">>, {"op1"}, {})
rs_hex    == Format(<<"register", "hex">>, {"op1"}, {})
rds_hex   == Format(<<"register", "hex">>, {"op1"}, {"op1"})
rds_int   == Format(<<"register", "dec">>, {"op1"}, {"op1"})
rd_addr   == Format(<<"register", "addr">>, {"op1"}, {})
int_instr == Format(<<"dec", "any">>, {"text1", "text2"}, {})

(* Three operands.  The memory operand of a post-indexed access is read    *)
(* and written back: its registers are outputs too.                        *)

zero_rs_rs(out) == Format(<<"zero", "register", "register">>, {"op2", "op3"}, out)
rd_rs_rs   == Format(<<"register", "register", "register">>, {"op2", "op3"}, {"op1"})
rd_rs_int  == Format(<<"register", "register", "dec">>, {"op2"}, {"op1"})
rd_rs_hex  == Format(<<"register", "register", "hex">>, {"op2"}, {"op1"})
rs_zero_hex == Format(<<"register", "zero", "hex">>, {"op1"}, {})
rs_rs_addr == Format(<<"register", "register", "addr">>, {"op1", "op2"}, {})
rd_mem_int == Format(<<"register", "mem", "dec">>, {"op2", "mem"}, {"op1", "op2"})
rs_mem_int == Format(<<"register", "mem", "dec">>, {"op1", "op2"}, {"op2", "mem"})
rd_mem_rs  == Format(<<"register", "mem", "register">>, {"op2", "op3", "mem"}, {"op1", "op2"})
rs_mem_rs  == Format(<<"register", "mem", "register">>, {"op1", "op2", "op3"}, {"op2", "mem"})
rs_rs_shifter == Format(<<"register", "register", "shifter">>, {"op1", "op2", "op3"}, {})
rd_rs_shifter == Format(<<"register", "register", "shifter">>, {"op2", "op3"}, {"op1"})
rd_rs_rounding == Format(<<"register", "register", "any">>, {"op2"}, {"op1"})

(* Four operands. *)

Registers4 == <<"register", "register", "register", "register">>

rd_rd_rs_rs   == Format(Registers4, {"op3", "op4"}, {"op1", "op2"})
rd_rs_rs_rs   == Format(Registers4, {"op2", "op3", "op4"}, {"op1"})
rds_rds_rs_rs == Format(Registers4, {"op1", "op2", "op3", "op4"}, {"op1", "op2"})
rd_mem_rs_shifter ==
  Format(<<"register", "mem", "register", "shifter">>, {"op2", "op3", "op4", "mem"}, {"op1", "op2"})
rs_mem_rs_shifter ==
  Format(<<"register", "mem", "register", "shifter">>, {"op1", "op2", "op3", "op4"}, {"op2", "mem"})
rd_rs_rs_shifter ==
  Format(<<"register", "register", "register", "shifter">>, {"op2", "op3", "op4"}, {"op1"})

(* Lists of registers (push, pop, stm, ldm).  "written" is the class of a  *)
(* register followed by an exclamation mark.                               *)

rslist(in, out) == Format(<<"list">>, in \cup {"op1"}, out \cup {"mem"})
rdlist(in, out) == Format(<<"list">>, in \cup {"mem"}, out \cup {"op1"})
rs_rslist  == Format(<<"register", "list">>, {"op1", "op2"}, {"mem"})
rds_rslist == Format(<<"written", "list">>, {"op1", "op2"}, {"op1", "mem"})
rs_rdlist  == Format(<<"register", "list">>, {"op1", "mem"}, {"op2"})
rds_rdlist == Format(<<"written", "list">>, {"op1", "mem"}, {"op1", "op2"})
=============================================================================
