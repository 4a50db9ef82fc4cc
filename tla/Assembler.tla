----------------------------- MODULE Assembler ------------------------------
(***************************************************************************)
(* The two-pass assembler (doc/test/lc3b_assembler.py).  The first pass    *)
(* goes through the lines and gives each label the address reached, the    *)
(* second goes through them again and makes the words; a line in error     *)
(* ends the process.  A function of the code that may raise an             *)
(* AssemblerError is the set of its results here, empty if it raises one.  *)
(***************************************************************************)
EXTENDS Disassembler

CONSTANT Sources  \* the assembly files: sequences of lines

(* ord of a character: one of 17 planes of 2^16. *)
CodePoint == 0..(17 * WordSize - 1)

(* An operand that is read as a register is one; a text is a sequence of characters. *)
Operand == ({"R"} \X (0..7)) \cup ({"#"} \X Int) \cup ({"label"} \X STRING) \cup ({"string"} \X Seq(CodePoint))
SourceLine == [label : STRING, colon : BOOLEAN, mnemonic : STRING, operands : Seq(Operand)]

ASSUME SourcesAssumption == Sources \subseteq Seq(SourceLine)

(* A line is a statement that may have a label, with a colon or without; a line without a
   statement has the mnemonic "". *)
Line(label, colon, mnemonic, operands) ==
  [label |-> label, colon |-> colon, mnemonic |-> mnemonic, operands |-> operands]
NoLabel == ""

VARIABLES
  source,           \* the lines of the file
  pass,             \* the pass; "written" when the object file is, "error" when there is none
  line_num,         \* the line the pass is at
  symbols,          \* label -> address
  origin,
  current_address,
  instructions      \* the words made so far, with their addresses and line numbers

asmVars == <<source, pass, line_num, symbols, origin, current_address, instructions>>

AsmInit ==
  /\ source \in Sources
  /\ pass = "first" /\ line_num = 1
  /\ symbols = <<>>
  /\ origin = 12288 /\ current_address = 12288
  /\ instructions = <<>>
-----------------------------------------------------------------------------
opcodes ==
  [ADD |-> 1, AND |-> 5, BR |-> 0, BRN |-> 0, BRZ |-> 0, BRP |-> 0, BRNZ |-> 0, BRNP |-> 0, BRZP |-> 0,
   BRNZP |-> 0, JMP |-> 12, JSR |-> 4, JSRR |-> 4, LDB |-> 2, LDW |-> 6, LEA |-> 14, RTI |-> 8, LSHF |-> 13,
   RSHFL |-> 13, RSHFA |-> 13, STB |-> 3, STW |-> 7, TRAP |-> 15, XOR |-> 9, HALT |-> 15]
Directives == {".ORIG", ".END", ".FILL", ".BLKW", ".STRINGZ"}

(* A label without a colon is one in front of a known mnemonic or a directive; RET is none. *)
HasLabel(l) == l.label # NoLabel /\ (l.colon \/ l.mnemonic \in DOMAIN opcodes \cup Directives)
(* Any other first word is taken for a mnemonic, and not known. *)
Misread(l) == l.label # NoLabel /\ ~HasLabel(l)

(* Mistakes the checks must notice: one value too many, one too few. *)
InRange_wide(value, bits) == -(2^(bits - 1)) <= value /\ value <= 2^(bits - 1)
InRange_narrow(value, bits) == -(2^(bits - 1)) < value /\ value <= 2^(bits - 1) - 1

InRange(value, bits) == -(2^(bits - 1)) <= value /\ value <= 2^(bits - 1) - 1
Unsigned(value, bits) == IF InRange(value, bits) THEN {value % 2^bits} ELSE {}

parse_register(operand) == IF operand[1] = "R" THEN {operand[2]} ELSE {}
parse_immediate(operand, bits) == IF operand[1] = "#" THEN Unsigned(operand[2], bits) ELSE {}

IsSymbol(operand) == operand[1] = "label" /\ operand[2] \in DOMAIN symbols

(* The words between the next instruction and a label. *)
parse_offset(operand, bits) ==
  IF IsSymbol(operand) THEN Unsigned((symbols[operand[2]] - (current_address + 2)) \div 2, bits)
                       ELSE parse_immediate(operand, bits)
-----------------------------------------------------------------------------
(* The instruction words; the fields are disjoint. *)
assemble_add_and(opcode, ops) ==
  { opcode * 4096 + dr * 512 + sr1 * 64 + operand2 :
      dr \in parse_register(ops[1]), sr1 \in parse_register(ops[2]),
      operand2 \in parse_register(ops[3]) \cup {32 + imm5 : imm5 \in parse_immediate(ops[3], 5)} }
assemble_xor(ops) == assemble_add_and(9, ops)

nzp == [BR |-> 7, BRN |-> 4, BRZ |-> 2, BRP |-> 1, BRNZ |-> 6, BRNP |-> 5, BRZP |-> 3, BRNZP |-> 7]
assemble_branch(mnemonic, ops) == {nzp[mnemonic] * 512 + offset9 : offset9 \in parse_offset(ops[1], 9)}

assemble_jsr(ops) == {4 * 4096 + 2048 + offset11 : offset11 \in parse_offset(ops[1], 11)}
assemble_jsrr(ops) == {4 * 4096 + base_r * 64 : base_r \in parse_register(ops[1])}
assemble_jmp(ops) == {12 * 4096 + base_r * 64 : base_r \in parse_register(ops[1])}

assemble_load_store(opcode, ops) ==
  { opcode * 4096 + dr_sr * 512 + base_r * 64 + offset6 :
      dr_sr \in parse_register(ops[1]), base_r \in parse_register(ops[2]), offset6 \in parse_immediate(ops[3], 6) }

assemble_lea(ops) ==
  {14 * 4096 + dr * 512 + offset9 : dr \in parse_register(ops[1]), offset9 \in parse_offset(ops[2], 9)}

(* The amount is parsed as a signed number of four bits. *)
shift_type == [LSHF |-> 0, RSHFL |-> 1, RSHFA |-> 3]
assemble_shift(mnemonic, ops) ==
  { 13 * 4096 + dr * 512 + sr * 64 + shift_type[mnemonic] * 16 + amount :
      dr \in parse_register(ops[1]), sr \in parse_register(ops[2]), amount \in parse_immediate(ops[3], 4) }

assemble_trap(ops) == {15 * 4096 + trapvect : trapvect \in parse_immediate(ops[1], 8)}

(* The instructions by the number of their operands; HALT, RET and RTI take what follows. *)
Encoding(mnemonic, ops) ==
  CASE mnemonic = "HALT" -> {61477}
    [] mnemonic = "RET"  -> {49600}
    [] mnemonic = "RTI"  -> {32768}
    [] mnemonic \in {"ADD", "AND"} /\ Len(ops) = 3 -> assemble_add_and(opcodes[mnemonic], ops)
    [] mnemonic = "XOR" /\ Len(ops) = 3 -> assemble_xor(ops)
    [] mnemonic \in {"LDB", "LDW", "STB", "STW"} /\ Len(ops) = 3 -> assemble_load_store(opcodes[mnemonic], ops)
    [] mnemonic \in DOMAIN shift_type /\ Len(ops) = 3 -> assemble_shift(mnemonic, ops)
    [] mnemonic = "LEA" /\ Len(ops) = 2 -> assemble_lea(ops)
    [] mnemonic \in DOMAIN nzp /\ Len(ops) = 1 -> assemble_branch(mnemonic, ops)
    [] mnemonic = "JSR" /\ Len(ops) = 1 -> assemble_jsr(ops)
    [] mnemonic = "JSRR" /\ Len(ops) = 1 -> assemble_jsrr(ops)
    [] mnemonic = "JMP" /\ Len(ops) = 1 -> assemble_jmp(ops)
    [] mnemonic = "TRAP" /\ Len(ops) = 1 -> assemble_trap(ops)
    [] OTHER -> {}
-----------------------------------------------------------------------------
(* The number of words a .BLKW asks for; a negative one is the unsigned number. *)
Count(ops) == IF Len(ops) = 1 THEN parse_immediate(ops[1], 16) ELSE {}
IsText(ops) == Len(ops) = 1 /\ ops[1][1] = "string"

(* A mistake the checks must notice: the null of a string is not counted. *)
Size_no_null(l) ==
  CASE l.mnemonic = ".BLKW" -> {2 * count : count \in Count(l.operands)}
    [] l.mnemonic = ".STRINGZ" -> IF IsText(l.operands) THEN {2 * Len(l.operands[1][2])} ELSE {}
    [] l.mnemonic = "" /\ ~Misread(l) -> {0}
    [] OTHER -> {2}

(* First pass: the bytes of a line. *)
Size(l) ==
  CASE l.mnemonic = "" /\ ~Misread(l) -> {0}
    [] l.mnemonic = ".BLKW" -> {2 * count : count \in Count(l.operands)}
    [] l.mnemonic = ".STRINGZ" -> IF IsText(l.operands) THEN {2 * (Len(l.operands[1][2]) + 1)} ELSE {}
    [] OTHER -> {2}

(* A mistake the checks must notice: the address of a label is not cut to 16 bits. *)
Fill_uncut(ops) ==
  IF Len(ops) # 1 THEN {}
  ELSE IF IsSymbol(ops[1]) THEN {symbols[ops[1][2]]} ELSE parse_immediate(ops[1], 16)

(* Second pass: the words of a line.  Behind a label .ORIG and .END are unknown.  The
   characters of a text are not cut to 16 bits, they are written as they are. *)
Fill(ops) ==
  IF Len(ops) # 1 THEN {}
  ELSE IF IsSymbol(ops[1]) THEN {symbols[ops[1][2]] % WordSize} ELSE parse_immediate(ops[1], 16)

Words(l) ==
  IF Misread(l) THEN {}
  ELSE CASE l.mnemonic = "" -> {<<>>}
         [] l.mnemonic = ".FILL" -> {<<value>> : value \in Fill(l.operands)}
         [] l.mnemonic = ".BLKW" -> {[i \in 1..count |-> 0] : count \in Count(l.operands)}
         [] l.mnemonic = ".STRINGZ" -> IF IsText(l.operands) THEN {Append(l.operands[1][2], 0)} ELSE {}
         [] OTHER -> {<<word>> : word \in Encoding(l.mnemonic, l.operands)}
-----------------------------------------------------------------------------
AtLine == line_num <= Len(source)
Current == source[line_num]
IsDirective(mnemonic) == AtLine /\ Current.label = NoLabel /\ Current.mnemonic = mnemonic
Ends == ~AtLine \/ IsDirective(".END")

AssemblerError == pass' = "error" /\ UNCHANGED <<source, line_num, symbols, origin, current_address, instructions>>

(* Both passes: .ORIG sets the origin and the address. *)
ORIG ==
  /\ pass \in {"first", "second"} /\ IsDirective(".ORIG")
  /\ \/ /\ Count(Current.operands) = {} /\ AssemblerError
     \/ /\ origin' \in Count(Current.operands)
        /\ current_address' = origin'
        /\ line_num' = line_num + 1
        /\ UNCHANGED <<source, pass, symbols, instructions>>

(* The label gets the address, and the address moves on by the bytes of the line. *)
first_pass ==
  /\ pass = "first" /\ ~Ends /\ ~IsDirective(".ORIG")
  /\ LET duplicate == HasLabel(Current) /\ Current.label \in DOMAIN symbols
     IN  \/ /\ duplicate \/ Size(Current) = {}
            /\ AssemblerError
         \/ /\ ~duplicate
            /\ \E size \in Size(Current) : current_address' = current_address + size
            /\ symbols' = IF HasLabel(Current)
                          THEN [name \in DOMAIN symbols \cup {Current.label} |->
                                  IF name = Current.label THEN current_address ELSE symbols[name]]
                          ELSE symbols
            /\ line_num' = line_num + 1
            /\ UNCHANGED <<source, pass, origin, instructions>>

(* The second pass starts at the origin the first has left. *)
second_pass_starts ==
  /\ pass = "first" /\ Ends
  /\ pass' = "second"
  /\ line_num' = 1
  /\ current_address' = origin
  /\ UNCHANGED <<source, symbols, origin, instructions>>

second_pass ==
  /\ pass = "second" /\ ~Ends /\ ~IsDirective(".ORIG")
  /\ \/ Words(Current) = {} /\ AssemblerError
     \/ \E words \in Words(Current) :
          /\ instructions' = instructions \o
               [i \in 1..Len(words) |->
                  [address |-> current_address + 2 * (i - 1), word |-> words[i], line_num |-> line_num]]
          /\ current_address' = current_address + 2 * Len(words)
          /\ line_num' = line_num + 1
          /\ UNCHANGED <<source, pass, symbols, origin>>

(* A mistake the checks must notice: the origin the assembler starts with is written. *)
ObjectFile_default == [origin |-> 12288, words |-> [i \in DOMAIN instructions |-> instructions[i].word], readable |-> TRUE]

(* assemble_file writes the origin and the words, without their addresses. *)
ObjectFile == [origin |-> origin, words |-> [i \in DOMAIN instructions |-> instructions[i].word], readable |-> TRUE]

assemble_file ==
  /\ pass = "second" /\ Ends
  /\ pass' = "written"
  /\ UNCHANGED <<source, line_num, symbols, origin, current_address, instructions>>

AsmNext == ORIG \/ first_pass \/ second_pass_starts \/ second_pass \/ assemble_file

AsmSpec == AsmInit /\ [][AsmNext]_asmVars
=============================================================================
