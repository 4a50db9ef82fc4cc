------------------------ MODULE AssemblerProperties -------------------------
(***************************************************************************)
(* What is claimed of the assembler, together with the parts that use what *)
(* it makes: load_program, the address adder under the shipped microcode   *)
(* and the disassembler.                                                   *)
(***************************************************************************)
EXTENDS Assembler, Loader, Instruction, Ucode

(* Every variable holds a value of its type; what is written are words of 16 bits, but for
   the characters of a .STRINGZ, which may have more and are cut only when they are loaded. *)
AsmTypeOK ==
  /\ pass \in {"first", "second", "written", "error"}
  /\ line_num \in 1..(Len(source) + 1)
  /\ \A name \in DOMAIN symbols : symbols[name] \in Nat
  /\ origin \in Word /\ current_address \in Nat
  /\ \A i \in DOMAIN instructions :
       /\ instructions[i].address \in Nat
       /\ instructions[i].word \in IF source[instructions[i].line_num].mnemonic = ".STRINGZ" THEN CodePoint ELSE Word
-----------------------------------------------------------------------------
(* Behind a label .ORIG and .END are no directives. *)
IsOrigin(i) == source[i].label = NoLabel /\ source[i].mnemonic = ".ORIG"
IsEnd(i) == source[i].label = NoLabel /\ source[i].mnemonic = ".END"
Reached == {i \in DOMAIN source : \A j \in 1..i : ~IsEnd(j)}
OriginAhead(i) == \E j \in 1..(i - 1) : IsOrigin(j)
Origins == {i \in Reached : IsOrigin(i)}

(* Nothing has been assembled ahead of an .ORIG. *)
OriginFirst == \A i \in DOMAIN instructions : \A j \in Origins : j < instructions[i].line_num

(* The second pass meets every label at the address the first one gave it, so that a
   reference ahead means the same as one back; except ahead of the first .ORIG of a file,
   where the second pass starts from the origin the first has ended with. *)
SymbolsAgree ==
  pass = "second" /\ ~Ends /\ HasLabel(Current) /\ (OriginAhead(line_num) \/ Origins = {}) =>
    symbols[Current.label] = current_address

(* The address at which the second pass met the line: that of the first word behind it. *)
Position(i) ==
  LET behind == {k \in DOMAIN instructions : instructions[k].line_num >= i}
  IN  IF behind = {} THEN current_address
      ELSE instructions[CHOOSE k \in behind : \A other \in behind : k <= other].address
LineOf(name) == CHOOSE i \in Reached : HasLabel(source[i]) /\ source[i].label = name

(* The word as AGEX finds it when it has been fetched from where it was loaded. *)
InAGEX(e) ==
  Decoded(Create(e.word, (2 * WordAddress(e.address) + 2) % WordSize), CONTROL_STORE[CONTROL_STORE_ADDRESS(e.word)], 0, 0, 2)

(* The other instructions take no label, or are not particular about what follows. *)
TakesLabel(l) == l.mnemonic \in DOMAIN nzp \cup {"JSR", "LEA"}
HasTarget(l) == TakesLabel(l) /\ \E k \in DOMAIN l.operands : IsSymbol(l.operands[k])
Target(l) == l.operands[CHOOSE k \in DOMAIN l.operands : IsSymbol(l.operands[k])][2]

(* An instruction that names a label computes the address of the word assembled there,
   however far away it is: a label that is out of reach is an error and never wraps.  A
   label ahead of an .ORIG is left out, it keeps the address from before. *)
LabelsReach ==
  pass = "written" /\ OriginFirst =>
    \A i \in DOMAIN instructions :
      LET e == instructions[i]
          l == source[e.line_num]
      IN  HasTarget(l) /\ (\A j \in Origins : j < LineOf(Target(l))) =>
            MemAddress(InAGEX(e)) = (2 * WordAddress(Position(LineOf(Target(l))))) % WordSize

(* load_program puts every word where the assembler has counted it to be, cut to 16 bits, and
   starts the program at the first of them, though the object file has no addresses. *)
LoadsWhereAssembled ==
  pass = "written" /\ OriginFirst /\ Fits(ObjectFile) =>
    LET memory == Loaded(<<>>, ObjectFile)
    IN  \A i \in DOMAIN instructions :
          /\ GetWordAt(memory, WordAddress(instructions[i].address)) = instructions[i].word % WordSize
          /\ WordAddress(EntryPoint(0, ObjectFile)) = WordAddress(instructions[1].address)
-----------------------------------------------------------------------------
(* A statement as the disassembler writes it: offsets for the labels of branches, JSR and LEA,
   unsigned amounts and vectors, BR for all codes, and its other names for some instructions. *)
Resolved(operand, address) ==
  IF IsSymbol(operand) THEN N((symbols[operand[2]] - (address + 2)) \div 2) ELSE operand

Name(mnemonic) ==
  CASE mnemonic = "BR" -> "BRNZP" [] mnemonic = "LDW" -> "LDR" [] mnemonic = "STW" -> "STR" [] OTHER -> mnemonic

(* A field of n values takes a number as it is or as two's complement. *)
Modulo(operand, n) ==
  IF operand[1] = "#" /\ operand[2] \in -(n \div 2)..(n - 1) THEN N(operand[2] % n) ELSE operand

Listed(l, address) ==
  LET ops == [k \in DOMAIN l.operands |->
                IF TakesLabel(l) THEN Resolved(l.operands[k], address) ELSE l.operands[k]]
  IN  CASE l.mnemonic \in {"HALT", "RET", "RTI"} -> Statement(l.mnemonic, <<>>)
        [] l.mnemonic = "JMP" /\ ops = <<R(7)>> -> Statement("RET", <<>>)
        [] l.mnemonic = "XOR" /\ Len(ops) = 3 /\ ops[3] = N(-1) -> Statement("NOT", <<ops[1], ops[2]>>)
        [] l.mnemonic = "TRAP" /\ Len(ops) = 1 ->
             IF ops[1][1] = "#" /\ ops[1][2] \in DOMAIN trap_map THEN Statement(trap_map[ops[1][2]], <<>>)
             ELSE Statement("TRAP", <<Modulo(ops[1], 256)>>)
        [] l.mnemonic \in DOMAIN shift_type /\ Len(ops) = 3 ->
             Statement(l.mnemonic, <<ops[1], ops[2], Modulo(ops[3], 16)>>)
        [] OTHER -> Statement(Name(l.mnemonic), ops)

IsInstruction(l) == ~Misread(l) /\ l.mnemonic \in DOMAIN opcodes \cup {"RET"}

(* "Instruction: Disassembled assembly instruction" (README.md): the listing of a word is
   the statement it was assembled from. *)
ListingExact ==
  \A i \in DOMAIN instructions :
    LET e == instructions[i]
        l == source[e.line_num]
    IN  IsInstruction(l) => disassemble(e.word).operands = Listed(l, e.address).operands

(* It is, but for LDB and STB: no field is mixed up or lost, and no sign. *)
ListingFaithful ==
  \A i \in DOMAIN instructions :
    LET e == instructions[i]
        l == source[e.line_num]
    IN  IsInstruction(l) /\ l.mnemonic \notin {"LDB", "STB"} => disassemble(e.word) = Listed(l, e.address)

Listings == {disassemble(word) : word \in Word}

(* What the assembler takes for signed though it is not: amounts and vectors from the
   middle of their range on are rejected. *)
OverRejected(l) ==
  \/ l.mnemonic \in DOMAIN shift_type /\ Len(l.operands) = 3 /\ l.operands[3][1] = "#"
     /\ l.operands[3][2] \in 8..15
  \/ l.mnemonic = "TRAP" /\ Len(l.operands) = 1 /\ l.operands[1][1] = "#"
     /\ l.operands[1][2] \in 128..255

Duplicate(i) ==
  \E j \in 1..(i - 1) : HasLabel(source[j]) /\ HasLabel(source[i]) /\ source[j].label = source[i].label

(* Otherwise an instruction is rejected only if there is no word that means it. *)
RejectsOnlyTheUnencodable ==
  pass = "error" /\ IsInstruction(Current) /\ ~Duplicate(line_num) /\ ~OverRejected(Current) =>
    Listed(Current, current_address) \notin Listings
=============================================================================
