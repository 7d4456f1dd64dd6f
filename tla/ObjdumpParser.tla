----------------------------- MODULE ObjdumpParser -----------------------------
(***************************************************************************)
(* What the architectures read in the output of readelf and objdump (the   *)
(* parse methods of arch.cc, MIPS.cc, ARM.cc, RISCV.cc, FLEXPRET.cc and    *)
(* MSP430.cc), and the symbol table the analyses are given                 *)
(* (SymbolTableAttribute.cc).                                              *)
(*                                                                         *)
(* A header is the name, the address and the size of a section.  A symbol  *)
(* has an address, a location ("g" or "l"), a type ("F", "O", another one, *)
(* or none: "UNDEF"), a section, a size and a name, and may be hidden.     *)
(***************************************************************************)
EXTENDS InstructionSets

(* The sections that are extracted. *)
sectionsToExtract(arch) ==
  {".text", ".bss", ".data", ".rodata"} \cup (IF arch = "ARM" THEN {} ELSE {".sbss", ".sdata"})

(* The sections, functions and variables read, the global pointer, and     *)
(* defined: did all the assertions hold?                                   *)
NoTable ==
  [sections |-> <<>>, functions |-> <<>>, variables |-> <<>>, gp |-> 0, defined |-> TRUE]

(* A section at address 0 is refused; an empty one is not. *)
parseReadElfLine(arch, table, header) ==
  IF header.name \notin sectionsToExtract(arch) THEN table
  ELSE [table EXCEPT !.sections = Append(@, header), !.defined = @ /\ header.addr # 0]

(* The index of the first section with a name, 0 if there is none. *)
getSection(table, name) == SelectInSeq(table.sections, LAMBDA s : s.name = name)

(* The names of a function, the last one read first. *)
addFunction(table, symbol, name) ==
  LET others == IF symbol.addr \in DOMAIN table.functions THEN table.functions[symbol.addr] ELSE <<>>
  IN  [table EXCEPT !.functions = (symbol.addr :> <<name>> \o others) @@ @,
                    !.defined = @ /\ symbol.addr # 0]

(* A variable is in a section that is extracted, and is not empty. *)
addVariable(table, symbol, name) ==
  LET i == getSection(table, symbol.section)
      inside(s) == s.addr <= symbol.addr /\ symbol.addr < s.addr + s.size
  IN  [table EXCEPT
         !.variables = Append(@, [name |-> name, addr |-> symbol.addr, size |-> symbol.size,
                                  section |-> symbol.section]),
         !.defined = /\ @ /\ symbol.addr # 0 /\ symbol.size # 0
                     /\ i # 0 /\ inside(table.sections[i])]

setGp(table, symbol) == [table EXCEPT !.gp = symbol.addr, !.defined = @ /\ symbol.addr # 0]

(* Six fields are read; objdump writes .hidden before the name of a hidden *)
(* symbol, and nothing for no type: the fields after it are taken for      *)
(* those before them, and the name is found in that of the size.           *)
sixthField(symbol) == IF symbol.hidden THEN ".hidden" ELSE symbol.name

isFunctionSymbol(symbol) == symbol.type = "F" /\ symbol.section = ".text"

isGpSymbol(symbol, name) == symbol.type = "UNDEF" /\ sixthField(symbol) = name

MIPS_parseSymbolTableLine(table, symbol) ==
  CASE isFunctionSymbol(symbol)   -> addFunction(table, symbol, sixthField(symbol))
    [] symbol.type = "O"          -> addVariable(table, symbol, sixthField(symbol))
    [] isGpSymbol(symbol, "_gp")  -> setGp(table, symbol)
    [] OTHER -> table

(* The constants are not recorded; but they are in an extracted section. *)
checkConstant(table, symbol) ==
  [table EXCEPT !.defined = @ /\ symbol.addr # 0 /\ getSection(table, symbol.section) # 0]

isConstantSymbol(symbol) == symbol.type # "UNDEF" /\ symbol.section = ".rodata"

RISCV_parseSymbolTableLine(table, symbol) ==
  CASE isFunctionSymbol(symbol) -> addFunction(table, symbol, sixthField(symbol))
    [] isConstantSymbol(symbol) -> checkConstant(table, symbol)
    [] symbol.type = "O" /\ ~ isConstantSymbol(symbol) ->
         addVariable(table, symbol, sixthField(symbol))
    [] isGpSymbol(symbol, "__global_pointer$") -> setGp(table, symbol)
    [] OTHER -> table

FLEXPRET_parseSymbolTableLine(table, symbol) == RISCV_parseSymbolTableLine(table, symbol)

(* ARM and MSP430 know the symbols of .text without a type, and skip       *)
(* .hidden.                                                                *)
isUntypedSymbol(symbol, locations) ==
  symbol.type = "UNDEF" /\ symbol.section = ".text" /\ symbol.location \in locations

ARM_parseSymbolTableLine(table, symbol) ==
  CASE isFunctionSymbol(symbol) \/ isUntypedSymbol(symbol, {"l"}) ->
         addFunction(table, symbol, symbol.name)
    [] symbol.type = "O" -> addVariable(table, symbol, symbol.name)
    [] OTHER -> table

PredefinedNames == {"__ctors_start", "__ctors_end", "__dtors_start", "__dtors_end"}

MSP430_isFunctionSymbol(symbol) ==
  \/ isFunctionSymbol(symbol) \/ isUntypedSymbol(symbol, {"g", "l"})
  \/ symbol.hidden /\ symbol.section = ".text"

MSP430_parseSymbolTableLine(table, symbol) ==
  CASE MSP430_isFunctionSymbol(symbol) ->
         IF symbol.name \in PredefinedNames THEN table ELSE addFunction(table, symbol, symbol.name)
    [] symbol.type = "O" /\ ~ MSP430_isFunctionSymbol(symbol) ->
         addVariable(table, symbol, symbol.name)
    [] OTHER -> table

parseSymbolTableLine(arch, table, symbol) ==
  CASE arch = "MIPS"     -> MIPS_parseSymbolTableLine(table, symbol)
    [] arch = "ARM"      -> ARM_parseSymbolTableLine(table, symbol)
    [] arch = "RISCV"    -> RISCV_parseSymbolTableLine(table, symbol)
    [] arch = "FLEXPRET" -> FLEXPRET_parseSymbolTableLine(table, symbol)
    [] arch = "MSP430"   -> MSP430_parseSymbolTableLine(table, symbol)

(* The headers are read first, in the file of readelf. *)
parseHeaders(arch, headers, symbols) ==
  FoldLeft(LAMBDA table, s : parseSymbolTableLine(arch, table, s),
           FoldLeft(LAMBDA table, h : parseReadElfLine(arch, table, h), NoTable, headers),
           symbols)
-----------------------------------------------------------------------------
(* SymbolTableAttribute: the sections and the variables by name, of which  *)
(* the last one of each name is kept; the global pointer is only set on    *)
(* MIPS and RISC-V.                                                        *)

addSection(sections, s)   == (s.name :> s) @@ sections
addNamed(variables, v)    == (v.name :> v) @@ variables

SymbolTableAttribute(arch, table) ==
  [sections  |-> FoldLeft(addSection, <<>>, table.sections),
   variables |-> FoldLeft(addNamed, <<>>, table.variables),
   gp        |-> IF arch \in {"MIPS", "RISCV"} THEN table.gp ELSE 0]

Anonymous == {".sdata", ".bss", ".rodata"}

Covers(place, a) == place.addr <= a /\ a < place.addr + place.size

(* Mutant of getInfo: an address after the last one of a variable. *)
getInfoWide(attribute, a) ==
  {[addr |-> v.addr, size |-> v.size, section |-> v.section] :
     v \in {w \in Range(attribute.variables) : w.addr <= a /\ a <= w.addr + w.size}}

(* The variable an address is in, or else one of the sections that may     *)
(* hold addresses of no variable.  Any of those that cover the address may *)
(* come first in the order of the names; with none the address is unknown. *)
getInfo(attribute, a) ==
  LET variables == {v \in Range(attribute.variables) : Covers(v, a)}
      sections  == {s \in Range(attribute.sections) : s.name \in Anonymous /\ Covers(s, a)}
  IN  IF variables # {}
        THEN {[addr |-> v.addr, size |-> v.size, section |-> v.section] : v \in variables}
      ELSE {[addr |-> s.addr, size |-> s.size, section |-> s.name] : s \in sections}
-----------------------------------------------------------------------------
(* The lines of the disassembly.  The words of its comment are in extra.   *)

(* A line that does not start with a space is the label of a function. *)
isLabel(line)       == line.mnemonic = "label"
isInstruction(line) == ~ isLabel(line)

(* The assertion of parseFunction and parseInstruction. *)
hasAddress(line) == line.addr # 0

(* One word is read after the operands, all of them on ARM. *)

FirstWord(words) == IF words = <<>> THEN <<>> ELSE <<Head(words)>>

MIPS_parseInstruction(line)     == [line EXCEPT !.extra = FirstWord(@)]
RISCV_parseInstruction(line)    == [line EXCEPT !.extra = FirstWord(@)]
FLEXPRET_parseInstruction(line) == [line EXCEPT !.extra = FirstWord(@)]
ARM_parseInstruction(line)      == line

(* MSP430 rewrites the line first.  The operand of a call or of a br, the  *)
(* distance of a jump, and an absolute address in decimal after a comma    *)
(* are replaced by the address in the comment, that is removed from all    *)
(* other lines.  An absolute address in hexadecimal loses its ampersand;   *)
(* without a comment the register of a call is erased; and rpt has the     *)
(* number and the instruction, in braces, for operands.                    *)

isInComment(line, i) ==
  LET o == line.operands[i]
  IN  \/ line.mnemonic \in {"call", "br"} /\ line.extra # <<>>
      \/ o.form = "distance"
      \/ o.form = "absolute int" /\ i > 1

(* Mutant of MSP430_operand: the second word of the comment. *)
MSP430_operandSecond(line, i) ==
  IF isInComment(line, i) THEN Last(line.extra) ELSE line.operands[i]

MSP430_operand(line, i) ==
  LET o == line.operands[i]
  IN  IF isInComment(line, i) THEN line.extra[1]
      ELSE IF o.form = "absolute hex" THEN [o EXCEPT !.form = "hex"] ELSE o

MSP430_operands(line) ==
  IF line.mnemonic = "rpt" THEN <<line.operands[1].times, line.operands[1].instr>>
  ELSE IF line.mnemonic = "call" /\ line.extra = <<>> /\ line.operands[1].form = "word" THEN <<>>
  ELSE [i \in DOMAIN line.operands |-> MSP430_operand(line, i)]

MSP430_parseInstruction(line) ==
  [line EXCEPT
     !.operands = MSP430_operands(line),
     !.extra = IF \E i \in DOMAIN line.operands : isInComment(line, i) THEN FirstWord(Tail(@))
               ELSE <<>>]

parseInstruction(arch, line) ==
  CASE arch = "MIPS"     -> MIPS_parseInstruction(line)
    [] arch = "ARM"      -> ARM_parseInstruction(line)
    [] arch = "RISCV"    -> RISCV_parseInstruction(line)
    [] arch = "FLEXPRET" -> FLEXPRET_parseInstruction(line)
    [] arch = "MSP430"   -> MSP430_parseInstruction(line)

(* A line whose mnemonic or operands are unknown stops the program. *)
isParsed(arch, instr) ==
  hasAddress(instr) /\ hasType(arch, instr.mnemonic) /\ checkFormat(arch, instr)

(* The destination of a jump, its last operand, must be an address. *)

MIPS_getJumpDestination(instr)     == Last(instr.operands).value
ARM_getJumpDestination(instr)      == Last(instr.operands).value
RISCV_getJumpDestination(instr)    == Last(instr.operands).value
FLEXPRET_getJumpDestination(instr) == Last(instr.operands).value
MSP430_getJumpDestination(instr)   == Last(instr.operands).value

getJumpDestination(arch, instr) ==
  CASE arch = "MIPS"     -> MIPS_getJumpDestination(instr)
    [] arch = "ARM"      -> ARM_getJumpDestination(instr)
    [] arch = "RISCV"    -> RISCV_getJumpDestination(instr)
    [] arch = "FLEXPRET" -> FLEXPRET_getJumpDestination(instr)
    [] arch = "MSP430"   -> MSP430_getJumpDestination(instr)

hasJumpDestination(instr) ==
  "value" \in DOMAIN Last(instr.operands) /\ Last(instr.operands).value # 0

(* The name of the function called, which must be there. *)

MIPS_getCalleeName(instr)     == instr.extra[1]
ARM_getCalleeName(instr)      == instr.extra[1]
RISCV_getCalleeName(instr)    == instr.extra[1]
FLEXPRET_getCalleeName(instr) == instr.extra[1]
MSP430_getCalleeName(instr)   == instr.extra[1]

getCalleeName(arch, instr) ==
  CASE arch = "MIPS"     -> MIPS_getCalleeName(instr)
    [] arch = "ARM"      -> ARM_getCalleeName(instr)
    [] arch = "RISCV"    -> RISCV_getCalleeName(instr)
    [] arch = "FLEXPRET" -> FLEXPRET_getCalleeName(instr)
    [] arch = "MSP430"   -> MSP430_getCalleeName(instr)

hasCalleeName(instr) == instr.extra # <<>>
================================================================================
