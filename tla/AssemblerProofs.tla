-------------------------- MODULE AssemblerProofs ---------------------------
(***************************************************************************)
(* The two passes of the assembler agree: proofs of the invariant and of   *)
(* what follows from it, for every set of files.                           *)
(***************************************************************************)
EXTENDS AssemblerInvariant, DatapathProofs, SequenceTheorems

-----------------------------------------------------------------------------
(* The fields the operands are parsed to. *)
Field(n) == {value \in Nat : value < n}

LEMMA UnsignedField ==
  ASSUME NEW value \in Int
  PROVE  /\ Unsigned(value, 4) \subseteq Field(16)
         /\ Unsigned(value, 5) \subseteq Field(32)
         /\ Unsigned(value, 6) \subseteq Field(64)
         /\ Unsigned(value, 8) \subseteq Field(256)
         /\ Unsigned(value, 9) \subseteq Field(512)
         /\ Unsigned(value, 11) \subseteq Field(2048)
         /\ Unsigned(value, 16) \subseteq Field(65536)
<1>1. 2^4 = 16 /\ 2^5 = 32 /\ 2^6 = 64 /\ 2^8 = 256 /\ 2^9 = 512 /\ 2^11 = 2048 /\ 2^16 = 65536
  OBVIOUS
<1>2. \A n \in Nat \ {0} : value % n \in Field(n)
  BY DEF Field
<1> QED BY <1>1, <1>2 DEF Unsigned

LEMMA OperandKinds ==
  ASSUME NEW operand \in Operand
  PROVE  /\ operand[1] = "R" => operand[2] \in 0..7
         /\ operand[1] = "#" => operand[2] \in Int
         /\ operand[1] = "string" => operand[2] \in Seq(CodePoint)
BY DEF Operand

LEMMA ParsedOperand ==
  ASSUME NEW operand \in Operand
  PROVE  /\ parse_register(operand) \subseteq Field(8)
         /\ parse_immediate(operand, 4) \subseteq Field(16)
         /\ parse_immediate(operand, 5) \subseteq Field(32)
         /\ parse_immediate(operand, 6) \subseteq Field(64)
         /\ parse_immediate(operand, 8) \subseteq Field(256)
         /\ parse_immediate(operand, 9) \subseteq Field(512)
         /\ parse_immediate(operand, 11) \subseteq Field(2048)
         /\ parse_immediate(operand, 16) \subseteq Field(65536)
<1>1. parse_register(operand) \subseteq Field(8)
  BY OperandKinds DEF parse_register, Field
<1>2. CASE operand[1] = "#"
  <2>1. operand[2] \in Int
    BY <1>2, OperandKinds
  <2>2. \A bits : parse_immediate(operand, bits) = Unsigned(operand[2], bits)
    BY <1>2 DEF parse_immediate
  <2> QED BY <1>1, <2>1, <2>2, UnsignedField
<1>3. CASE operand[1] # "#"
  <2>1. \A bits : parse_immediate(operand, bits) = {}
    BY <1>3 DEF parse_immediate
  <2> QED BY <1>1, <2>1
<1> QED BY <1>2, <1>3

LEMMA ParsedOffset ==
  ASSUME NEW operand \in Operand, current_address \in Nat,
         \A name \in DOMAIN symbols : symbols[name] \in Nat
  PROVE  parse_offset(operand, 9) \subseteq Field(512) /\ parse_offset(operand, 11) \subseteq Field(2048)
<1>1. CASE IsSymbol(operand)
  <2> DEFINE distance == (symbols[operand[2]] - (current_address + 2)) \div 2
  <2>1. distance \in Int
    BY <1>1 DEF IsSymbol
  <2>2. \A bits : parse_offset(operand, bits) = Unsigned(distance, bits)
    BY <1>1 DEF parse_offset
  <2> HIDE DEF distance
  <2> QED BY <2>1, <2>2, UnsignedField
<1>2. CASE ~IsSymbol(operand)
  <2>1. \A bits : parse_offset(operand, bits) = parse_immediate(operand, bits)
    BY <1>2 DEF parse_offset
  <2> QED BY <2>1, ParsedOperand
<1> QED BY <1>1, <1>2

(* Whatever an instruction is assembled to is a word: its fields are disjoint. *)
LEMMA FieldsAreWord ==
  /\ \A v : v \in Field(65536) <=> v \in Word
  /\ \A op \in Field(16), dr \in Field(8), sr \in Field(8), low \in Field(64) :
       op * 4096 + dr * 512 + sr * 64 + low \in Field(65536)
  /\ \A op \in Field(16), dr \in Field(8), low \in Field(512) : op * 4096 + dr * 512 + low \in Field(65536)
  /\ \A op \in Field(16), low \in Field(4096) : op * 4096 + low \in Field(65536)
<1>1. \A v : v \in Field(65536) <=> v \in Word
  BY WordIsNat, Sizes DEF Field, Word
<1> QED BY <1>1 DEF Field

LEMMA ThreeOperands ==
  ASSUME NEW opcode \in Field(16), NEW ops \in Seq(Operand), Len(ops) = 3
  PROVE  /\ assemble_add_and(opcode, ops) \subseteq Word
         /\ assemble_load_store(opcode, ops) \subseteq Word
         /\ \A mnemonic \in DOMAIN shift_type : assemble_shift(mnemonic, ops) \subseteq Word
<1>1. ops[1] \in Operand /\ ops[2] \in Operand /\ ops[3] \in Operand
  <2>1. 1 \in 1..Len(ops) /\ 2 \in 1..Len(ops) /\ 3 \in 1..Len(ops)
    OBVIOUS
  <2> QED BY <2>1, ElementOfSeq
<1>2. /\ parse_register(ops[1]) \subseteq Field(8) /\ parse_register(ops[2]) \subseteq Field(8)
      /\ parse_register(ops[3]) \subseteq Field(8) /\ parse_immediate(ops[3], 4) \subseteq Field(16)
      /\ parse_immediate(ops[3], 5) \subseteq Field(32) /\ parse_immediate(ops[3], 6) \subseteq Field(64)
  BY <1>1, ParsedOperand
<1>3. assemble_add_and(opcode, ops) \subseteq Word
  <2> SUFFICES ASSUME NEW w \in assemble_add_and(opcode, ops) PROVE w \in Word
    OBVIOUS
  <2>1. PICK dr \in parse_register(ops[1]), sr1 \in parse_register(ops[2]),
             operand2 \in parse_register(ops[3]) \cup {32 + imm5 : imm5 \in parse_immediate(ops[3], 5)} :
          w = opcode * 4096 + dr * 512 + sr1 * 64 + operand2
    BY DEF assemble_add_and
  <2>2. operand2 \in Field(64)
    BY <1>2 DEF Field
  <2> QED BY <1>2, <2>1, <2>2, FieldsAreWord
<1>4. assemble_load_store(opcode, ops) \subseteq Word
  <2> SUFFICES ASSUME NEW w \in assemble_load_store(opcode, ops) PROVE w \in Word
    OBVIOUS
  <2>1. PICK dr_sr \in parse_register(ops[1]), base_r \in parse_register(ops[2]),
             offset6 \in parse_immediate(ops[3], 6) :
          w = opcode * 4096 + dr_sr * 512 + base_r * 64 + offset6
    BY DEF assemble_load_store
  <2> QED BY <1>2, <2>1, FieldsAreWord
<1>5. ASSUME NEW mnemonic \in DOMAIN shift_type PROVE assemble_shift(mnemonic, ops) \subseteq Word
  <2> SUFFICES ASSUME NEW w \in assemble_shift(mnemonic, ops) PROVE w \in Word
    OBVIOUS
  <2>1. PICK dr \in parse_register(ops[1]), sr \in parse_register(ops[2]), amount \in parse_immediate(ops[3], 4) :
          w = 13 * 4096 + dr * 512 + sr * 64 + shift_type[mnemonic] * 16 + amount
    BY DEF assemble_shift
  <2>2. shift_type[mnemonic] \in 0..3
    BY DEF shift_type
  <2>3. shift_type[mnemonic] * 16 + amount \in Field(64) /\ 13 \in Field(16)
    BY <1>2, <2>2 DEF Field
  <2>4. dr \in Nat /\ sr \in Nat /\ amount \in Nat /\ shift_type[mnemonic] \in Nat
    BY <1>2, <2>2 DEF Field
  <2>5. w = 13 * 4096 + dr * 512 + sr * 64 + (shift_type[mnemonic] * 16 + amount)
    BY <2>1, <2>4
  <2> QED BY <1>2, <2>3, <2>5, FieldsAreWord
<1> QED BY <1>3, <1>4, <1>5

LEMMA FewOperands ==
  ASSUME NEW ops \in Seq(Operand), current_address \in Nat,
         \A name \in DOMAIN symbols : symbols[name] \in Nat
  PROVE  /\ Len(ops) = 2 => assemble_lea(ops) \subseteq Word
         /\ Len(ops) = 1 =>
              /\ \A mnemonic \in DOMAIN nzp : assemble_branch(mnemonic, ops) \subseteq Word
              /\ assemble_jsr(ops) \subseteq Word
              /\ assemble_jsrr(ops) \subseteq Word
              /\ assemble_jmp(ops) \subseteq Word
              /\ assemble_trap(ops) \subseteq Word
<1>1. Len(ops) = 2 => assemble_lea(ops) \subseteq Word
  <2> SUFFICES ASSUME Len(ops) = 2, NEW w \in assemble_lea(ops) PROVE w \in Word
    OBVIOUS
  <2>1. ops[1] \in Operand /\ ops[2] \in Operand
    OBVIOUS
  <2>2. PICK dr \in parse_register(ops[1]), offset9 \in parse_offset(ops[2], 9) : w = 14 * 4096 + dr * 512 + offset9
    BY DEF assemble_lea
  <2>3. dr \in Field(8) /\ offset9 \in Field(512) /\ 14 \in Field(16)
    BY <2>1, ParsedOperand, ParsedOffset DEF Field
  <2> QED BY <2>2, <2>3, FieldsAreWord
<1>2. ASSUME Len(ops) = 1
      PROVE  /\ \A mnemonic \in DOMAIN nzp : assemble_branch(mnemonic, ops) \subseteq Word
             /\ assemble_jsr(ops) \subseteq Word
             /\ assemble_jsrr(ops) \subseteq Word
             /\ assemble_jmp(ops) \subseteq Word
             /\ assemble_trap(ops) \subseteq Word
  <2>1. ops[1] \in Operand
    BY <1>2
  <2>2. /\ parse_register(ops[1]) \subseteq Field(8) /\ parse_immediate(ops[1], 8) \subseteq Field(256)
        /\ parse_offset(ops[1], 9) \subseteq Field(512) /\ parse_offset(ops[1], 11) \subseteq Field(2048)
    BY <2>1, ParsedOperand, ParsedOffset
  <2>3. ASSUME NEW mnemonic \in DOMAIN nzp, NEW w \in assemble_branch(mnemonic, ops) PROVE w \in Word
    <3>1. PICK offset9 \in parse_offset(ops[1], 9) : w = nzp[mnemonic] * 512 + offset9
      BY DEF assemble_branch
    <3>2. nzp[mnemonic] \in Field(8)
      BY DEF nzp, Field
    <3>3. w \in Field(65536)
      BY <2>2, <3>1, <3>2 DEF Field
    <3> QED BY <3>3, FieldsAreWord
  <2>4. ASSUME NEW w \in assemble_jsr(ops) PROVE w \in Word
    <3>1. PICK offset11 \in parse_offset(ops[1], 11) : w = 4 * 4096 + 2048 + offset11
      BY DEF assemble_jsr
    <3>2. w \in Field(65536)
      BY <2>2, <3>1 DEF Field
    <3> QED BY <3>2, FieldsAreWord
  <2>5. ASSUME NEW w \in assemble_jsrr(ops) \cup assemble_jmp(ops) PROVE w \in Word
    <3>1. PICK base_r \in parse_register(ops[1]) : w = 4 * 4096 + base_r * 64 \/ w = 12 * 4096 + base_r * 64
      BY DEF assemble_jsrr, assemble_jmp
    <3>2. w \in Field(65536)
      BY <2>2, <3>1 DEF Field
    <3> QED BY <3>2, FieldsAreWord
  <2>6. ASSUME NEW w \in assemble_trap(ops) PROVE w \in Word
    <3>1. PICK trapvect \in parse_immediate(ops[1], 8) : w = 15 * 4096 + trapvect
      BY DEF assemble_trap
    <3>2. w \in Field(65536)
      BY <2>2, <3>1 DEF Field
    <3> QED BY <3>2, FieldsAreWord
  <2> QED BY <2>3, <2>4, <2>5, <2>6
<1> QED BY <1>1, <1>2

LEMMA EncodingOf ==
  ASSUME NEW mnemonic, NEW ops
  PROVE  /\ mnemonic = "HALT" => Encoding(mnemonic, ops) = {61477}
         /\ mnemonic = "RET" => Encoding(mnemonic, ops) = {49600}
         /\ mnemonic = "RTI" => Encoding(mnemonic, ops) = {32768}
         /\ mnemonic \in {"ADD", "AND", "XOR"} =>
              Encoding(mnemonic, ops) = IF Len(ops) = 3 THEN assemble_add_and(opcodes[mnemonic], ops) ELSE {}
         /\ mnemonic \in {"LDB", "LDW", "STB", "STW"} =>
              Encoding(mnemonic, ops) = IF Len(ops) = 3 THEN assemble_load_store(opcodes[mnemonic], ops) ELSE {}
         /\ mnemonic \in DOMAIN shift_type =>
              Encoding(mnemonic, ops) = IF Len(ops) = 3 THEN assemble_shift(mnemonic, ops) ELSE {}
         /\ mnemonic \in DOMAIN nzp =>
              Encoding(mnemonic, ops) = IF Len(ops) = 1 THEN assemble_branch(mnemonic, ops) ELSE {}
         /\ mnemonic = "LEA" => Encoding(mnemonic, ops) = IF Len(ops) = 2 THEN assemble_lea(ops) ELSE {}
         /\ mnemonic = "JSR" => Encoding(mnemonic, ops) = IF Len(ops) = 1 THEN assemble_jsr(ops) ELSE {}
         /\ mnemonic = "JSRR" => Encoding(mnemonic, ops) = IF Len(ops) = 1 THEN assemble_jsrr(ops) ELSE {}
         /\ mnemonic = "JMP" => Encoding(mnemonic, ops) = IF Len(ops) = 1 THEN assemble_jmp(ops) ELSE {}
         /\ mnemonic = "TRAP" => Encoding(mnemonic, ops) = IF Len(ops) = 1 THEN assemble_trap(ops) ELSE {}
         /\ mnemonic \notin {"HALT", "RET", "RTI", "ADD", "AND", "XOR", "LDB", "LDW", "STB", "STW", "LEA", "JSR",
                             "JSRR", "JMP", "TRAP"} \cup DOMAIN nzp \cup DOMAIN shift_type =>
              Encoding(mnemonic, ops) = {}
<1>1. /\ DOMAIN nzp = {"BR", "BRN", "BRZ", "BRP", "BRNZ", "BRNP", "BRZP", "BRNZP"}
      /\ DOMAIN shift_type = {"LSHF", "RSHFL", "RSHFA"}
  BY DEF nzp, shift_type
<1>2. /\ mnemonic = "HALT" => Encoding(mnemonic, ops) = {61477}
      /\ mnemonic = "RET" => Encoding(mnemonic, ops) = {49600}
      /\ mnemonic = "RTI" => Encoding(mnemonic, ops) = {32768}
  BY <1>1 DEF Encoding
<1>3. mnemonic \in {"ADD", "AND", "XOR"} =>
        Encoding(mnemonic, ops) = IF Len(ops) = 3 THEN assemble_add_and(opcodes[mnemonic], ops) ELSE {}
  <2>1. opcodes["XOR"] = 9
    BY DEF opcodes
  <2> QED BY <1>1, <2>1 DEF Encoding, assemble_xor
<1>4. mnemonic \in {"LDB", "LDW", "STB", "STW"} =>
        Encoding(mnemonic, ops) = IF Len(ops) = 3 THEN assemble_load_store(opcodes[mnemonic], ops) ELSE {}
  BY <1>1 DEF Encoding
<1>5. /\ mnemonic \in DOMAIN shift_type =>
           Encoding(mnemonic, ops) = IF Len(ops) = 3 THEN assemble_shift(mnemonic, ops) ELSE {}
      /\ mnemonic \in DOMAIN nzp =>
           Encoding(mnemonic, ops) = IF Len(ops) = 1 THEN assemble_branch(mnemonic, ops) ELSE {}
  BY <1>1 DEF Encoding
<1>6. /\ mnemonic = "LEA" => Encoding(mnemonic, ops) = IF Len(ops) = 2 THEN assemble_lea(ops) ELSE {}
      /\ mnemonic = "JSR" => Encoding(mnemonic, ops) = IF Len(ops) = 1 THEN assemble_jsr(ops) ELSE {}
      /\ mnemonic = "JSRR" => Encoding(mnemonic, ops) = IF Len(ops) = 1 THEN assemble_jsrr(ops) ELSE {}
      /\ mnemonic = "JMP" => Encoding(mnemonic, ops) = IF Len(ops) = 1 THEN assemble_jmp(ops) ELSE {}
      /\ mnemonic = "TRAP" => Encoding(mnemonic, ops) = IF Len(ops) = 1 THEN assemble_trap(ops) ELSE {}
  BY <1>1 DEF Encoding
<1>7. mnemonic \notin {"HALT", "RET", "RTI", "ADD", "AND", "XOR", "LDB", "LDW", "STB", "STW", "LEA", "JSR",
                       "JSRR", "JMP", "TRAP"} \cup DOMAIN nzp \cup DOMAIN shift_type =>
        Encoding(mnemonic, ops) = {}
  BY DEF Encoding
<1> QED BY <1>2, <1>3, <1>4, <1>5, <1>6, <1>7

LEMMA EncodedWord ==
  ASSUME NEW mnemonic, NEW ops \in Seq(Operand), current_address \in Nat,
         \A name \in DOMAIN symbols : symbols[name] \in Nat
  PROVE  Encoding(mnemonic, ops) \subseteq Word
<1>1. mnemonic \in {"ADD", "AND", "XOR", "LDB", "LDW", "STB", "STW"} => opcodes[mnemonic] \in Field(16)
  BY DEF opcodes, Field
<1>2. 61477 \in Word /\ 49600 \in Word /\ 32768 \in Word
  BY Sizes DEF Word
<1>3. CASE mnemonic \in {"HALT", "RET", "RTI"}
  BY <1>2, <1>3, EncodingOf
<1>4. CASE mnemonic \in {"ADD", "AND", "XOR", "LDB", "LDW", "STB", "STW"}
  BY <1>1, <1>4, EncodingOf, ThreeOperands
<1>5. CASE mnemonic \in DOMAIN shift_type
  <2>1. 0 \in Field(16)
    BY DEF Field
  <2> QED BY <1>5, <2>1, EncodingOf, ThreeOperands
<1>6. CASE mnemonic \in DOMAIN nzp \cup {"LEA", "JSR", "JSRR", "JMP", "TRAP"}
  BY <1>6, EncodingOf, FewOperands
<1> QED BY <1>3, <1>4, <1>5, <1>6, EncodingOf

-----------------------------------------------------------------------------
(* The bytes of a line and its words. *)
LEMMA CountIsWord ==
  ASSUME NEW ops \in Seq(Operand)
  PROVE  Count(ops) \subseteq Word /\ \A a, b \in Count(ops) : a = b
<1>1. CASE Len(ops) = 1
  <2>1. ops[1] \in Operand
    BY <1>1
  <2>2. Count(ops) = parse_immediate(ops[1], 16)
    BY <1>1 DEF Count
  <2>3. Count(ops) \subseteq Word
    BY <2>1, <2>2, ParsedOperand, FieldsAreWord
  <2>4. \A a, b \in Count(ops) : a = b
    BY <2>2 DEF parse_immediate, Unsigned
  <2> QED BY <2>3, <2>4
<1>2. CASE Len(ops) # 1
  BY <1>2 DEF Count
<1> QED BY <1>1, <1>2

LEMMA TextIsChars ==
  ASSUME NEW ops \in Seq(Operand), IsText(ops)
  PROVE  ops[1][2] \in Seq(CodePoint)
<1>1. Len(ops) = 1 /\ ops[1] \in Operand
  BY DEF IsText
<1> QED BY <1>1, OperandKinds DEF IsText

LEMMA FilledWord ==
  ASSUME NEW ops \in Seq(Operand), \A name \in DOMAIN symbols : symbols[name] \in Nat
  PROVE  Fill(ops) \subseteq Word
<1>1. CASE Len(ops) = 1 /\ IsSymbol(ops[1])
  <2>1. symbols[ops[1][2]] \in Nat
    BY <1>1 DEF IsSymbol
  <2>2. symbols[ops[1][2]] % WordSize \in Field(65536)
    BY <2>1, Sizes DEF Field
  <2> QED BY <1>1, <2>2, FieldsAreWord DEF Fill
<1>2. CASE Len(ops) = 1 /\ ~IsSymbol(ops[1])
  <2>1. ops[1] \in Operand
    BY <1>2
  <2> QED BY <1>2, <2>1, ParsedOperand, FieldsAreWord DEF Fill
<1>3. CASE Len(ops) # 1
  BY <1>3 DEF Fill
<1> QED BY <1>1, <1>2, <1>3

LEMMA SizeOfLine ==
  ASSUME NEW l \in SourceLine
  PROVE  Size(l) \subseteq Nat
<1>1. l.operands \in Seq(Operand)
  BY DEF SourceLine
<1>2. CASE l.mnemonic = "" /\ ~Misread(l)
  <2>1. Size(l) = {0}
    BY <1>2 DEF Size
  <2> QED BY <2>1
<1>3. CASE l.mnemonic = ".BLKW"
  <2>1. Size(l) = {2 * count : count \in Count(l.operands)}
    BY <1>3 DEF Size
  <2> QED BY <1>1, <2>1, CountIsWord, WordIsNat
<1>4. CASE l.mnemonic = ".STRINGZ"
  <2>1. Size(l) = IF IsText(l.operands) THEN {2 * (Len(l.operands[1][2]) + 1)} ELSE {}
    BY <1>4 DEF Size
  <2>2. IsText(l.operands) => Len(l.operands[1][2]) \in Nat
    BY <1>1, TextIsChars
  <2> QED BY <2>1, <2>2
<1>5. CASE ~(l.mnemonic = "" /\ ~Misread(l)) /\ l.mnemonic # ".BLKW" /\ l.mnemonic # ".STRINGZ"
  <2>1. Size(l) = {2}
    BY <1>5 DEF Size
  <2> QED BY <2>1
<1> QED BY <1>2, <1>3, <1>4, <1>5

LEMMA Singletons ==
  ASSUME NEW S, NEW x \in S
  PROVE  <<x>> \in Seq(S) /\ Len(<<x>>) = 1
OBVIOUS

LEMMA Repeated ==
  ASSUME NEW S, NEW x \in S, NEW n \in Nat
  PROVE  [i \in 1..n |-> x] \in Seq(S) /\ Len([i \in 1..n |-> x]) = n
OBVIOUS

LEMMA WordIsChar == ASSUME NEW x \in Word PROVE x \in CodePoint
BY WordIsNat, Sizes DEF CodePoint

(* The second pass makes as many words of a line as the first has counted bytes for. *)
LEMMA WordsOfLine ==
  ASSUME NEW l \in SourceLine, current_address \in Nat,
         \A name \in DOMAIN symbols : symbols[name] \in Nat,
         NEW words \in Words(l)
  PROVE  /\ words \in Seq(CodePoint) /\ \A size \in Size(l) : size = 2 * Len(words)
         /\ l.mnemonic # ".STRINGZ" => \A i \in 1..Len(words) : words[i] \in Word
<1>1. l.operands \in Seq(Operand) /\ ~Misread(l)
  BY DEF SourceLine, Words
<1>2. 0 \in Word /\ 0 \in CodePoint
  <2>1. 0 \in Word
    BY FieldsAreWord DEF Field
  <2> QED BY <2>1, WordIsChar
<1>3. CASE l.mnemonic = ""
  <2>1. words = <<>> /\ Size(l) = {0}
    BY <1>1, <1>3 DEF Size, Words
  <2>2. <<>> \in Seq(CodePoint) /\ Len(<<>>) = 0 /\ 1..0 = {}
    BY EmptySeq
  <2> QED BY <2>1, <2>2
<1>4. CASE l.mnemonic = ".FILL"
  <2>1. Size(l) = {2}
    BY <1>1, <1>4 DEF Size
  <2>2. PICK value \in Fill(l.operands) : words = <<value>>
    BY <1>1, <1>4 DEF Words
  <2>3. value \in Word /\ value \in CodePoint
    BY <1>1, FilledWord, WordIsChar
  <2>4. <<value>> \in Seq(CodePoint) /\ Len(<<value>>) = 1 /\ \A i \in 1..1 : <<value>>[i] \in Word
    BY <2>3, Singletons
  <2> QED BY <2>1, <2>2, <2>4
<1>5. CASE l.mnemonic = ".BLKW"
  <2>1. Size(l) = {2 * count : count \in Count(l.operands)}
    BY <1>5 DEF Size
  <2>2. PICK count \in Count(l.operands) : words = [i \in 1..count |-> 0]
    BY <1>1, <1>5 DEF Words
  <2>3. count \in Nat
    BY <1>1, CountIsWord, WordIsNat
  <2>4. words \in Seq(CodePoint) /\ Len(words) = count /\ \A i \in 1..Len(words) : words[i] \in Word
    BY <1>2, <2>2, <2>3, Repeated
  <2> QED BY <1>1, <2>1, <2>4, CountIsWord
<1>6. CASE l.mnemonic = ".STRINGZ"
  <2>1. IsText(l.operands) /\ words = Append(l.operands[1][2], 0)
    BY <1>1, <1>6 DEF Words
  <2>2. Size(l) = {2 * (Len(l.operands[1][2]) + 1)}
    BY <1>6, <2>1 DEF Size
  <2>3. l.operands[1][2] \in Seq(CodePoint)
    BY <1>1, <2>1, TextIsChars
  <2>4. words \in Seq(CodePoint) /\ Len(words) = Len(l.operands[1][2]) + 1
    BY <1>2, <2>1, <2>3, AppendProperties
  <2> QED BY <1>6, <2>2, <2>4
<1>7. CASE l.mnemonic \notin {"", ".FILL", ".BLKW", ".STRINGZ"}
  <2>1. Size(l) = {2}
    BY <1>7 DEF Size
  <2>2. Words(l) = {<<word>> : word \in Encoding(l.mnemonic, l.operands)}
    BY <1>1, <1>7 DEF Words
  <2>3. PICK word \in Encoding(l.mnemonic, l.operands) : words = <<word>>
    BY <2>2
  <2>4. word \in Word /\ word \in CodePoint
    BY <1>1, EncodedWord, WordIsChar
  <2>5. <<word>> \in Seq(CodePoint) /\ Len(<<word>>) = 1 /\ \A i \in 1..1 : <<word>>[i] \in Word
    BY <2>4, Singletons
  <2> QED BY <2>1, <2>3, <2>5
<1> QED BY <1>3, <1>4, <1>5, <1>6, <1>7

-----------------------------------------------------------------------------
(* The types. *)
LEMMA CurrentLine ==
  ASSUME AsmTypes
  PROVE  /\ source \in Seq(SourceLine) /\ Len(source) \in Nat /\ DOMAIN source = 1..Len(source)
         /\ \A i \in DOMAIN source : source[i] \in SourceLine /\ source[i].operands \in Seq(Operand)
         /\ AtLine => line_num \in DOMAIN source
<1>1. source \in Seq(SourceLine) /\ line_num \in 1..(Len(source) + 1)
  BY SourcesAssumption DEF AsmTypes, AsmTypeOK
<1>2. Len(source) \in Nat /\ DOMAIN source = 1..Len(source)
  BY <1>1
<1>3. \A i \in DOMAIN source : source[i] \in SourceLine
  BY <1>1, <1>2, ElementOfSeq
<1>4. \A l \in SourceLine : l.operands \in Seq(Operand)
  BY DEF SourceLine
<1> QED BY <1>1, <1>2, <1>3, <1>4 DEF AtLine

LEMMA TypesStart ==
  ASSUME AsmInit
  PROVE  AsmTypes
<1> USE DEF AsmInit
<1>1. source \in Seq(SourceLine)
  BY SourcesAssumption
<1>2. Len(source) \in Nat
  BY <1>1
<1>3. instructions \in Seq(Assembled) /\ Len(instructions) = 0
  BY EmptySeq
<1>4. DOMAIN symbols = {}
  <2>1. DOMAIN <<>> = {}
    OBVIOUS
  <2> QED BY <2>1
<1>5. symbols = [name \in DOMAIN symbols |-> symbols[name]]
  <2>1. symbols \in Seq({})
    BY EmptySeq
  <2> QED BY <2>1
<1>6. 12288 \in Word
  BY FieldsAreWord DEF Field
<1>7. AsmTypeOK
  BY <1>2, <1>3, <1>4, <1>6 DEF AsmTypeOK
<1> QED BY <1>3, <1>5, <1>7 DEF AsmTypes

(* The words of a line behind those already made. *)
RowOf(words, at, line, i) == [address |-> at + 2 * (i - 1), word |-> words[i], line_num |-> line]
RowsOf(words, at, line) == [i \in 1..Len(words) |-> RowOf(words, at, line, i)]

Lengthened(made, words, at, line, all) ==
  /\ all \in Seq(Assembled)
  /\ Len(all) = Len(made) + Len(words) /\ Len(all) \in Nat /\ DOMAIN all = 1..Len(all)
  /\ \A k \in 1..Len(made) : all[k] = made[k]
  /\ \A k \in (Len(made) + 1)..Len(all) :
       k - Len(made) \in 1..Len(words) /\ all[k] = RowOf(words, at, line, k - Len(made))

LEMMA NewWords ==
  ASSUME NEW made \in Seq(Assembled), NEW words \in Seq(CodePoint), NEW at \in Nat, NEW line \in Nat,
         NEW all, all = made \o RowsOf(words, at, line)
  PROVE  Lengthened(made, words, at, line, all)
<1> DEFINE new == RowsOf(words, at, line)
<1>1. Len(words) \in Nat /\ Len(made) \in Nat
  OBVIOUS
<1>2. \A i \in 1..Len(words) : RowOf(words, at, line, i) \in Assembled
  <2> SUFFICES ASSUME NEW i \in 1..Len(words) PROVE RowOf(words, at, line, i) \in Assembled
    OBVIOUS
  <2>1. words[i] \in CodePoint
    BY ElementOfSeq
  <2>2. at + 2 * (i - 1) \in Nat
    BY <1>1
  <2> QED BY <2>1, <2>2 DEF Assembled, RowOf
<1>3. new \in Seq(Assembled) /\ Len(new) = Len(words) /\ \A i \in 1..Len(words) : new[i] = RowOf(words, at, line, i)
  BY <1>1, <1>2 DEF RowsOf
<1>4. all = made \o new
  OBVIOUS
<1> HIDE DEF new
<1>5. /\ all \in Seq(Assembled) /\ Len(all) = Len(made) + Len(words)
      /\ \A k \in 1..(Len(made) + Len(words)) : all[k] = IF k <= Len(made) THEN made[k] ELSE new[k - Len(made)]
  <2>1. /\ made \o new \in Seq(Assembled) /\ Len(made \o new) = Len(made) + Len(new)
        /\ \A k \in 1..(Len(made) + Len(new)) :
             (made \o new)[k] = IF k <= Len(made) THEN made[k] ELSE new[k - Len(made)]
    BY <1>3, ConcatProperties, Zenon
  <2> QED BY <1>3, <1>4, <2>1
<1>6. ASSUME NEW k \in (Len(made) + 1)..Len(all)
      PROVE  k - Len(made) \in 1..Len(words) /\ all[k] = RowOf(words, at, line, k - Len(made))
  <2>1. k - Len(made) \in 1..Len(words) /\ k \in 1..(Len(made) + Len(words)) /\ ~(k <= Len(made))
    BY <1>1, <1>5
  <2> QED BY <1>3, <1>5, <2>1
<1>7. Len(all) \in Nat /\ DOMAIN all = 1..Len(all)
  BY <1>5
<1>8. \A k \in 1..Len(made) : all[k] = made[k]
  BY <1>1, <1>5
<1> QED BY <1>5, <1>6, <1>7, <1>8 DEF Lengthened

(* Only a character has more than 16 bits. *)
Narrow(lines, made) ==
  \A k \in DOMAIN made : lines[made[k].line_num].mnemonic # ".STRINGZ" => made[k].word \in Word

LEMMA NarrowKept ==
  ASSUME NEW made \in Seq(Assembled), NEW words \in Seq(CodePoint), NEW at, NEW line, NEW all,
         Lengthened(made, words, at, line, all), NEW lines, Narrow(lines, made),
         lines[line].mnemonic # ".STRINGZ" => \A i \in 1..Len(words) : words[i] \in Word
  PROVE  Narrow(lines, all)
<1> SUFFICES ASSUME NEW k \in DOMAIN all, lines[all[k].line_num].mnemonic # ".STRINGZ"
             PROVE  all[k].word \in Word
  BY DEF Narrow
<1>1. Len(made) \in Nat /\ DOMAIN made = 1..Len(made)
  OBVIOUS
<1>2. k \in 1..Len(made) \/ k \in (Len(made) + 1)..Len(all)
  BY <1>1 DEF Lengthened
<1>3. CASE k \in 1..Len(made)
  BY <1>1, <1>3 DEF Lengthened, Narrow
<1>4. CASE k \in (Len(made) + 1)..Len(all)
  <2>1. k - Len(made) \in 1..Len(words) /\ all[k] = RowOf(words, at, line, k - Len(made))
    BY <1>4 DEF Lengthened
  <2>2. all[k].line_num = line /\ all[k].word = words[k - Len(made)]
    BY <2>1 DEF RowOf
  <2> QED BY <2>1, <2>2
<1> QED BY <1>2, <1>3, <1>4

LEMMA TypesKept ==
  ASSUME AsmTypes, [AsmNext]_asmVars
  PROVE  AsmTypes'
<1> DEFINE T(s, p, n, sy, o, a, is) ==
      /\ p \in {"first", "second", "written", "error"}
      /\ n \in 1..(Len(s) + 1)
      /\ \A name \in DOMAIN sy : sy[name] \in Nat
      /\ o \in Word /\ a \in Nat
      /\ s \in Sources
      /\ n \in Nat
      /\ sy = [name \in DOMAIN sy |-> sy[name]]
      /\ is \in Seq(Assembled) /\ Narrow(s, is)
<1>1. T(source, pass, line_num, symbols, origin, current_address, instructions)
  BY DEF AsmTypes, AsmTypeOK, Narrow
<1>2. ASSUME T(source, pass, line_num, symbols, origin, current_address, instructions)'
      PROVE  AsmTypes'
  <2>1. \A i \in DOMAIN instructions' : instructions'[i] \in Assembled
    <3>1. DOMAIN instructions' = 1..Len(instructions')
      BY <1>2
    <3> QED BY <1>2, <3>1, ElementOfSeq
  <2>2. \A i \in DOMAIN instructions' :
          /\ instructions'[i].address \in Nat
          /\ instructions'[i].word \in IF source'[instructions'[i].line_num].mnemonic = ".STRINGZ" THEN CodePoint ELSE Word
    BY <1>2, <2>1 DEF Assembled, Narrow
  <2> QED BY <1>2, <2>2 DEF AsmTypes, AsmTypeOK
<1>3. CASE UNCHANGED asmVars
  BY <1>1, <1>2, <1>3 DEF asmVars
<1>4. CASE AssemblerError
  BY <1>1, <1>2, <1>4 DEF AssemblerError
<1>5. ASSUME AtLine
      PROVE  /\ Len(source) \in Nat /\ line_num + 1 \in 1..(Len(source) + 1) /\ line_num + 1 \in Nat
             /\ Current \in SourceLine /\ Current.operands \in Seq(Operand)
  <2>1. line_num \in DOMAIN source /\ DOMAIN source = 1..Len(source) /\ Len(source) \in Nat
    BY <1>5, CurrentLine
  <2>2. Current \in SourceLine /\ Current.operands \in Seq(Operand)
    BY <2>1, CurrentLine DEF Current
  <2>3. line_num + 1 \in 1..(Len(source) + 1) /\ line_num + 1 \in Nat
    BY <2>1
  <2> QED BY <2>1, <2>2, <2>3
<1>6. ASSUME ~AssemblerError, ORIG
      PROVE  AsmTypes'
  <2>1. AtLine /\ origin' \in Word /\ current_address' = origin' /\ line_num' = line_num + 1
        /\ UNCHANGED <<source, pass, symbols, instructions>>
    BY <1>5, <1>6, CountIsWord DEF ORIG, IsDirective
  <2>2. current_address' \in Nat
    BY <2>1, WordIsNat
  <2> QED BY <1>1, <1>2, <1>5, <2>1, <2>2
<1>7. ASSUME ~AssemblerError, first_pass
      PROVE  AsmTypes'
  <2>1. AtLine
    BY <1>7 DEF first_pass, Ends
  <2>2. PICK size \in Size(Current) : current_address' = current_address + size
    BY <1>7 DEF first_pass
  <2>3. current_address' \in Nat
    BY <1>1, <1>5, <2>1, <2>2, SizeOfLine
  <2>4. (\A name \in DOMAIN symbols' : symbols'[name] \in Nat)
        /\ symbols' = [name \in DOMAIN symbols' |-> symbols'[name]]
    BY <1>1, <1>7 DEF first_pass
  <2>5. line_num' = line_num + 1 /\ UNCHANGED <<source, pass, origin, instructions>>
    BY <1>7 DEF first_pass
  <2> QED BY <1>1, <1>2, <1>5, <2>1, <2>3, <2>4, <2>5
<1>8. CASE second_pass_starts
  <2>1. origin \in Nat /\ Len(source) \in Nat
    BY <1>1, WordIsNat, CurrentLine
  <2> QED BY <1>1, <1>2, <1>8, <2>1 DEF second_pass_starts
<1>9. ASSUME ~AssemblerError, second_pass
      PROVE  AsmTypes'
  <2>1. AtLine
    BY <1>9 DEF second_pass, Ends
  <2>2. PICK words \in Words(Current) :
          /\ instructions' = instructions \o RowsOf(words, current_address, line_num)
          /\ current_address' = current_address + 2 * Len(words)
          /\ line_num' = line_num + 1
          /\ UNCHANGED <<source, pass, symbols, origin>>
    BY <1>9 DEF second_pass, RowsOf, RowOf
  <2>3. /\ words \in Seq(CodePoint) /\ Len(words) \in Nat
        /\ source[line_num].mnemonic # ".STRINGZ" => \A i \in 1..Len(words) : words[i] \in Word
    BY <1>1, <1>5, <2>1, WordsOfLine DEF Current
  <2>4. current_address' \in Nat
    BY <1>1, <2>2, <2>3
  <2>5. instructions' \in Seq(Assembled) /\ Narrow(source', instructions')
    <3>1. Lengthened(instructions, words, current_address, line_num, instructions')
      BY <1>1, <2>2, <2>3, NewWords
    <3>2. instructions' \in Seq(Assembled)
      BY <3>1 DEF Lengthened
    <3>3. Narrow(source, instructions')
      BY <1>1, <2>3, <3>1, NarrowKept
    <3> QED BY <2>2, <3>2, <3>3
  <2> QED BY <1>1, <1>2, <1>5, <2>1, <2>2, <2>4, <2>5
<1>10. CASE assemble_file
  BY <1>1, <1>2, <1>10 DEF assemble_file
<1> QED BY <1>3, <1>4, <1>6, <1>7, <1>8, <1>9, <1>10 DEF AsmNext

-----------------------------------------------------------------------------
(* The first pass. *)
LEMMA FirstPassStarts ==
  ASSUME AsmInit
  PROVE  \E place \in [Nat -> Nat] : FirstPass(place)
<1> DEFINE place == [i \in Nat |-> 12288]
<1>1. place \in [Nat -> Nat] /\ place[1] = 12288
  OBVIOUS
<1>2. line_num = 1 /\ instructions = <<>> /\ symbols = <<>> /\ origin = 12288 /\ current_address = 12288
  BY DEF AsmInit
<1>3. 1..(line_num - 1) = {}
  BY <1>2
<1>4. DOMAIN symbols = {}
  <2>1. DOMAIN <<>> = {}
    OBVIOUS
  <2> QED BY <1>2, <2>1
<1> HIDE DEF place
<1>5. Scanned
  BY <1>3 DEF Scanned
<1>6. Counted(place, line_num)
  BY <1>1, <1>3 DEF Counted
<1>7. Labelled(place, line_num)
  BY <1>3, <1>4 DEF Labelled
<1>8. FirstPass(place)
  BY <1>1, <1>2, <1>5, <1>6, <1>7 DEF FirstPass
<1> QED BY <1>1, <1>8

(* A line neither pass stops at. *)
LEMMA NextLine ==
  ASSUME AsmTypes, Scanned, ORIG \/ ~Ends
  PROVE  /\ AtLine /\ ~IsEnd(line_num) /\ line_num \in DOMAIN source /\ line_num \in Nat \ {0}
         /\ source[line_num] \in SourceLine /\ source[line_num].operands \in Seq(Operand)
         /\ 1..line_num \subseteq Reached
         /\ IsOrigin(line_num) <=> IsDirective(".ORIG")
         /\ IsOrigin(line_num) => ~HasLabel(source[line_num])
<1>1. AtLine /\ ~IsEnd(line_num)
  BY DEF ORIG, Ends, IsDirective, IsEnd, Current
<1>2. line_num \in DOMAIN source /\ DOMAIN source = 1..Len(source) /\ Len(source) \in Nat
  BY <1>1, CurrentLine
<1>3. 1..line_num \subseteq Reached
  <2> SUFFICES ASSUME NEW i \in 1..line_num PROVE i \in Reached
    OBVIOUS
  <2>1. \A j \in 1..(line_num - 1) : ~IsEnd(j)
    <3> SUFFICES ASSUME NEW j \in 1..(line_num - 1) PROVE ~IsEnd(j)
      OBVIOUS
    <3>1. j \in Reached /\ j \in 1..j
      BY <1>2 DEF Scanned
    <3> QED BY <3>1 DEF Reached
  <2>2. \A j \in 1..i : ~IsEnd(j)
    BY <1>1, <1>2, <2>1
  <2>3. i \in DOMAIN source
    BY <1>2
  <2> QED BY <2>2, <2>3 DEF Reached
<1>4. IsOrigin(line_num) <=> IsDirective(".ORIG")
  BY <1>1 DEF IsOrigin, IsDirective, Current
<1>5. IsOrigin(line_num) => ~HasLabel(source[line_num])
  BY DEF IsOrigin, HasLabel
<1>6. source[line_num] \in SourceLine /\ source[line_num].operands \in Seq(Operand)
  BY <1>2, CurrentLine
<1> QED BY <1>1, <1>2, <1>3, <1>4, <1>5, <1>6

(* The place of the next line. *)
Following(place, n, a) ==
  IF IsOrigin(n) THEN a \in Count(source[n].operands) ELSE \E size \in Size(source[n]) : a = place[n] + size

LEMMA OneMore ==
  ASSUME NEW place \in [Nat -> Nat], NEW n \in Nat \ {0}, NEW a \in Nat, NEW next, next = [place EXCEPT ![n + 1] = a]
  PROVE  next \in [Nat -> Nat] /\ next[n + 1] = a /\ \A i \in 1..n : next[i] = place[i]
OBVIOUS

LEMMA CountedOn ==
  ASSUME NEW place \in [Nat -> Nat], NEW n \in Nat \ {0}, Counted(place, n), NEW a \in Nat,
         Following(place, n, a), NEW next, next = [place EXCEPT ![n + 1] = a]
  PROVE  Counted(next, n + 1)
<1>1. next \in [Nat -> Nat] /\ next[n + 1] = a /\ \A i \in 1..n : next[i] = place[i]
  BY OneMore
<1>2. next[1] = 12288
  BY <1>1 DEF Counted
<1>3. ASSUME NEW i \in 1..n
      PROVE  IF IsOrigin(i) THEN next[i + 1] \in Count(source[i].operands)
             ELSE \E size \in Size(source[i]) : next[i + 1] = next[i] + size
  <2>1. CASE i = n
    BY <1>1, <2>1 DEF Following
  <2>2. CASE i # n
    <3>1. i \in 1..(n - 1) /\ i + 1 \in 1..n
      BY <2>2
    <3>2. next[i] = place[i] /\ next[i + 1] = place[i + 1]
      BY <1>1, <3>1
    <3> QED BY <3>1, <3>2 DEF Counted
  <2> QED BY <2>1, <2>2
<1>4. (n + 1) - 1 = n
  OBVIOUS
<1> QED BY <1>2, <1>3, <1>4 DEF Counted

(* The label of the line, if it has one, is new. *)
LEMMA LabelledOn ==
  ASSUME NEW place, NEW n \in Nat \ {0}, Labelled(place, n), source' = source,
         NEW next, \A i \in 1..n : next[i] = place[i],
         HasLabel(source[n]) => source[n].label \notin DOMAIN symbols,
         symbols' = IF HasLabel(source[n])
                    THEN [name \in DOMAIN symbols \cup {source[n].label} |->
                            IF name = source[n].label THEN place[n] ELSE symbols[name]]
                    ELSE symbols
  PROVE  Labelled(next, n + 1)'
<1>1. (n + 1) - 1 = n /\ 1..n = (1..(n - 1)) \cup {n} /\ n \notin 1..(n - 1)
  OBVIOUS
<1>2. /\ DOMAIN symbols = {source[i].label : i \in {j \in 1..(n - 1) : HasLabel(source[j])}}
      /\ \A i \in 1..(n - 1) : HasLabel(source[i]) => symbols[source[i].label] = place[i]
      /\ \A i, j \in 1..(n - 1) :
           HasLabel(source[i]) /\ HasLabel(source[j]) /\ source[i].label = source[j].label => i = j
  BY DEF Labelled
<1>3. DOMAIN symbols' = IF HasLabel(source[n]) THEN DOMAIN symbols \cup {source[n].label} ELSE DOMAIN symbols
  OBVIOUS
<1>4. DOMAIN symbols' = {source[i].label : i \in {j \in 1..n : HasLabel(source[j])}}
  BY <1>1, <1>2, <1>3
<1>5. ASSUME NEW i \in 1..n, HasLabel(source[i])
      PROVE  symbols'[source[i].label] = next[i]
  <2>1. CASE i = n
    BY <1>5, <2>1
  <2>2. CASE i # n
    <3>1. i \in 1..(n - 1) /\ source[i].label \in DOMAIN symbols /\ symbols[source[i].label] = next[i]
      BY <1>1, <1>2, <1>5, <2>2
    <3>2. HasLabel(source[n]) => source[i].label # source[n].label
      BY <3>1
    <3> QED BY <3>1, <3>2
  <2> QED BY <2>1, <2>2
<1>6. ASSUME NEW i \in 1..n, NEW j \in 1..n,
             HasLabel(source[i]), HasLabel(source[j]), source[i].label = source[j].label
      PROVE  i = j
  <2>1. CASE i # n /\ j # n
    BY <1>1, <1>2, <1>6, <2>1
  <2>2. CASE i = n /\ j # n
    <3>1. source[j].label \in DOMAIN symbols
      BY <1>1, <1>2, <1>6, <2>2
    <3> QED BY <1>6, <2>2, <3>1
  <2>3. CASE i # n /\ j = n
    <3>1. source[i].label \in DOMAIN symbols
      BY <1>1, <1>2, <1>6, <2>3
    <3> QED BY <1>6, <2>3, <3>1
  <2> QED BY <2>1, <2>2, <2>3
<1> QED BY <1>1, <1>4, <1>5, <1>6 DEF Labelled

LEMMA FirstPassGoesOn ==
  ASSUME AsmTypes, pass = "first", NEW place \in [Nat -> Nat], FirstPass(place), ~AssemblerError, ORIG \/ first_pass
  PROVE  \E next \in [Nat -> Nat] : FirstPass(next)'
<1>1. PICK n : n = line_num
  OBVIOUS
<1>2. PICK a : a = current_address'
  OBVIOUS
<1>3. PICK next : next = [place EXCEPT ![n + 1] = a]
  OBVIOUS
<1>4. Scanned /\ Counted(place, n) /\ Labelled(place, n) /\ current_address = place[n] /\ instructions = <<>>
  BY <1>1 DEF FirstPass
<1>5. ORIG \/ ~Ends
  BY DEF first_pass
<1>6. /\ n \in Nat \ {0} /\ 1..n \subseteq Reached /\ source[n] \in SourceLine
      /\ IsOrigin(n) <=> IsDirective(".ORIG")
      /\ IsOrigin(n) => ~HasLabel(source[n])
  BY <1>1, <1>4, <1>5, NextLine
<1>7. Current = source[n]
  BY <1>1 DEF Current
<1>8. /\ line_num' = n + 1 /\ source' = source /\ instructions' = <<>>
      /\ IsOrigin(n) \/ origin' = origin
      /\ a \in Nat
  <2>1. a \in Nat
    BY <1>2, TypesKept DEF AsmTypes, AsmTypeOK, AsmNext
  <2> QED BY <1>1, <1>4, <1>6, <2>1 DEF ORIG, first_pass
<1>9. Following(place, n, a)
  BY <1>2, <1>4, <1>6, <1>7 DEF Following, ORIG, first_pass
<1>10. /\ HasLabel(source[n]) => source[n].label \notin DOMAIN symbols
       /\ symbols' = IF HasLabel(source[n])
                     THEN [name \in DOMAIN symbols \cup {source[n].label} |->
                             IF name = source[n].label THEN place[n] ELSE symbols[name]]
                     ELSE symbols
  BY <1>4, <1>6, <1>7 DEF ORIG, first_pass
<1>11. next \in [Nat -> Nat] /\ next[n + 1] = a /\ \A i \in 1..n : next[i] = place[i]
  <2>1. n \in Nat \ {0} /\ a \in Nat
    BY <1>6, <1>8
  <2> QED BY <1>3, <2>1, OneMore
<1>12. Counted(next, n + 1)
  BY <1>3, <1>4, <1>6, <1>8, <1>9, CountedOn
<1>13. Counted(next, n + 1)'
  BY <1>8, <1>12 DEF Counted, IsOrigin
<1>14. Labelled(next, n + 1)'
  BY <1>4, <1>6, <1>8, <1>10, <1>11, LabelledOn
<1>15. (n + 1) - 1 = n
  BY <1>6
<1>16. Scanned'
  BY <1>6, <1>8, <1>15 DEF Scanned, Reached, IsEnd
<1>17. (\A i \in 1..n : ~IsOrigin(i)) => origin' = 12288
  <2> SUFFICES ASSUME \A i \in 1..n : ~IsOrigin(i) PROVE origin' = 12288
    OBVIOUS
  <2>1. n \in 1..n /\ 1..(n - 1) \subseteq 1..n
    BY <1>6
  <2> QED BY <1>1, <1>8, <2>1 DEF FirstPass
<1>18. (\A i \in 1..((n + 1) - 1) : ~IsOrigin(i)') => origin' = 12288
  BY <1>8, <1>15, <1>17 DEF IsOrigin
<1>19. FirstPass(next)'
  BY <1>2, <1>8, <1>11, <1>13, <1>14, <1>16, <1>18 DEF FirstPass
<1> QED BY <1>11, <1>19

-----------------------------------------------------------------------------
(* The word of an instruction that names a label, and the address it computes. *)
LEMMA OffsetSigned ==
  ASSUME NEW d \in Int, NEW high \in Nat
  PROVE  /\ InRange(d, 9) => Signed(high * 512 + (d % 512), 9) = d
         /\ InRange(d, 11) => Signed(high * 2048 + (d % 2048), 11) = d
<1>1. /\ 2^9 = 512 /\ 2^(9 - 1) = 256 /\ 2^11 = 2048 /\ 2^(11 - 1) = 1024
  OBVIOUS
<1>2. ASSUME -256 <= d, d <= 255
      PROVE  Signed(high * 512 + (d % 512), 9) = d
  <2>1. d % 512 = IF d < 0 THEN d + 512 ELSE d
    BY <1>2
  <2>2. (high * 512 + (d % 512)) % 512 = d % 512
    BY <2>1, <1>2
  <2> QED BY <1>1, <1>2, <2>1, <2>2 DEF Signed, Low
<1>3. ASSUME -1024 <= d, d <= 1023
      PROVE  Signed(high * 2048 + (d % 2048), 11) = d
  <2>1. d % 2048 = IF d < 0 THEN d + 2048 ELSE d
    BY <1>3
  <2>2. (high * 2048 + (d % 2048)) % 2048 = d % 2048
    BY <2>1, <1>3
  <2> QED BY <1>1, <1>3, <2>1, <2>2 DEF Signed, Low
<1> QED BY <1>1, <1>2, <1>3 DEF InRange

Relative(word, d) ==
  \/ InRange(d, 9) /\ \E high \in Field(128) : high \div 8 \in {0, 14} /\ word = high * 512 + (d % 512)
  \/ InRange(d, 11) /\ word = 9 * 2048 + (d % 2048)

LEMMA RelativeWord ==
  ASSUME NEW word \in Word, NEW npc \in Word, NEW d \in Int, Relative(word, d)
  PROVE  MemAddress(Decoded(Create(word, npc), CONTROL_STORE[CONTROL_STORE_ADDRESS(word)], 0, 0, 2)) =
           (npc + 2 * d) % WordSize
<1>1. 0 \in Word
  BY FieldsAreWord DEF Field
<1>2. CASE InRange(d, 9) /\ \E high \in Field(128) : high \div 8 \in {0, 14} /\ word = high * 512 + (d % 512)
  <2>1. PICK high \in Field(128) : high \div 8 \in {0, 14} /\ word = high * 512 + (d % 512)
    BY <1>2
  <2>2. high \in Nat
    BY DEF Field
  <2>3. Signed(word, 9) = d
    BY <1>2, <2>1, <2>2, OffsetSigned
  <2>4. word \div 4096 = high \div 8
    BY <2>1, <2>2
  <2> QED BY <1>1, <2>1, <2>3, <2>4, RelativeAddress
<1>3. CASE InRange(d, 11) /\ word = 9 * 2048 + (d % 2048)
  <2>1. Signed(word, 11) = d
    <3>1. PICK high \in Nat : high = 9
      OBVIOUS
    <3>2. Signed(high * 2048 + (d % 2048), 11) = d
      BY <1>3, OffsetSigned
    <3> QED BY <1>3, <3>1, <3>2
  <2>2. word \div 4096 = 4 /\ (word \div 2048) % 2 = 1
    BY <1>3
  <2> QED BY <1>1, <2>1, <2>2, RelativeAddress
<1> QED BY <1>2, <1>3 DEF Relative

LEMMA TargetWord ==
  ASSUME NEW l \in SourceLine, HasTarget(l), current_address \in Nat,
         \A name \in DOMAIN symbols : symbols[name] \in Nat, NEW words \in Words(l)
  PROVE  /\ Target(l) \in DOMAIN symbols
         /\ Len(words) = 1
         /\ Relative(words[1], (symbols[Target(l)] - (current_address + 2)) \div 2)
<1> DEFINE ops == l.operands
           Distance(operand) == (symbols[operand[2]] - (current_address + 2)) \div 2
<1>1. ops \in Seq(Operand) /\ ~Misread(l)
  BY DEF SourceLine, Words
<1>2. l.mnemonic \in DOMAIN nzp \cup {"JSR", "LEA"} /\ \E k \in DOMAIN ops : IsSymbol(ops[k])
  BY DEF HasTarget, TakesLabel
<1>3. DOMAIN nzp = {"BR", "BRN", "BRZ", "BRP", "BRNZ", "BRNP", "BRZP", "BRNZP"}
  BY DEF nzp
<1>4. Words(l) = {<<word>> : word \in Encoding(l.mnemonic, ops)}
  BY <1>1, <1>2, <1>3 DEF Words
<1>5. PICK word \in Encoding(l.mnemonic, ops) : words = <<word>>
  BY <1>4
<1>6. Len(words) = 1 /\ words[1] = word
  BY <1>5
<1> HIDE DEF ops
<1>8. ASSUME NEW operand, IsSymbol(operand), NEW bits
      PROVE  parse_offset(operand, bits) = Unsigned(Distance(operand), bits) /\ parse_register(operand) = {}
             /\ operand[2] \in DOMAIN symbols
  BY <1>8 DEF IsSymbol, parse_offset, parse_register
<1>9. ASSUME Len(ops) = 1
      PROVE  IsSymbol(ops[1]) /\ Target(l) = ops[1][2]
  <2>1. DOMAIN ops = {1}
    BY <1>1, <1>9
  <2>2. IsSymbol(ops[1])
    BY <1>2, <2>1
  <2>3. (CHOOSE k \in DOMAIN ops : IsSymbol(ops[k])) = 1
    BY <2>1, <2>2
  <2> QED BY <2>2, <2>3 DEF Target, ops
<1>10. CASE l.mnemonic \in DOMAIN nzp
  <2>1. Encoding(l.mnemonic, ops) = IF Len(ops) = 1 THEN assemble_branch(l.mnemonic, ops) ELSE {}
    BY <1>10, EncodingOf
  <2>2. Len(ops) = 1 /\ word \in assemble_branch(l.mnemonic, ops)
    BY <2>1
  <2>3. PICK offset9 \in parse_offset(ops[1], 9) : word = nzp[l.mnemonic] * 512 + offset9
    BY <2>2 DEF assemble_branch
  <2>4. IsSymbol(ops[1]) /\ Target(l) = ops[1][2]
    BY <1>9, <2>2
  <2>5. offset9 = Distance(ops[1]) % 512 /\ InRange(Distance(ops[1]), 9)
    <3>1. offset9 \in Unsigned(Distance(ops[1]), 9)
      BY <1>8, <2>4
    <3>2. 2^9 = 512
      OBVIOUS
    <3> HIDE DEF Distance
    <3> QED BY <3>1, <3>2 DEF Unsigned
  <2>6. nzp[l.mnemonic] \in Field(128) /\ nzp[l.mnemonic] \div 8 = 0
    <3>1. nzp[l.mnemonic] \in 1..7
      BY <1>10 DEF nzp
    <3> QED BY <3>1 DEF Field
  <2>7. Relative(word, Distance(ops[1]))
    BY <2>3, <2>5, <2>6 DEF Relative
  <2> QED BY <1>6, <1>8, <2>4, <2>7
<1>11. CASE l.mnemonic = "JSR"
  <2>1. Encoding(l.mnemonic, ops) = IF Len(ops) = 1 THEN assemble_jsr(ops) ELSE {}
    BY <1>11, EncodingOf
  <2>2. Len(ops) = 1 /\ word \in assemble_jsr(ops)
    BY <2>1
  <2>3. PICK offset11 \in parse_offset(ops[1], 11) : word = 4 * 4096 + 2048 + offset11
    BY <2>2 DEF assemble_jsr
  <2>4. IsSymbol(ops[1]) /\ Target(l) = ops[1][2]
    BY <1>9, <2>2
  <2>5. offset11 = Distance(ops[1]) % 2048 /\ InRange(Distance(ops[1]), 11)
    <3>1. offset11 \in Unsigned(Distance(ops[1]), 11)
      BY <1>8, <2>4
    <3>2. 2^11 = 2048
      OBVIOUS
    <3> HIDE DEF Distance
    <3> QED BY <3>1, <3>2 DEF Unsigned
  <2>6. word = 9 * 2048 + offset11
    BY <2>3
  <2>7. Relative(word, Distance(ops[1]))
    BY <2>5, <2>6 DEF Relative
  <2> QED BY <1>6, <1>8, <2>4, <2>7
<1>12. CASE l.mnemonic = "LEA"
  <2>1. Encoding(l.mnemonic, ops) = IF Len(ops) = 2 THEN assemble_lea(ops) ELSE {}
    BY <1>12, EncodingOf
  <2>2. Len(ops) = 2 /\ word \in assemble_lea(ops)
    BY <2>1
  <2>3. PICK dr \in parse_register(ops[1]), offset9 \in parse_offset(ops[2], 9) : word = 14 * 4096 + dr * 512 + offset9
    BY <2>2 DEF assemble_lea
  <2>4. DOMAIN ops = {1, 2}
    BY <1>1, <2>2
  <2>5. ~IsSymbol(ops[1])
    BY <1>8, <2>3
  <2>6. IsSymbol(ops[2])
    BY <1>2, <2>4, <2>5 DEF ops
  <2>7. (CHOOSE k \in DOMAIN ops : IsSymbol(ops[k])) = 2
    BY <2>4, <2>5, <2>6
  <2>8. Target(l) = ops[2][2]
    BY <2>7 DEF Target, ops
  <2>9. offset9 = Distance(ops[2]) % 512 /\ InRange(Distance(ops[2]), 9)
    <3>1. offset9 \in Unsigned(Distance(ops[2]), 9)
      BY <1>8, <2>3, <2>6
    <3>2. 2^9 = 512
      OBVIOUS
    <3> HIDE DEF Distance
    <3> QED BY <3>1, <3>2 DEF Unsigned
  <2>10. dr \in Field(8) /\ offset9 \in Field(512)
    <3>1. 1 \in 1..Len(ops) /\ 2 \in 1..Len(ops)
      BY <2>2
    <3>2. ops[1] \in Operand /\ ops[2] \in Operand
      BY <1>1, <3>1, ElementOfSeq
    <3> QED BY <2>3, <3>2, ParsedOperand, ParsedOffset
  <2>11. 112 + dr \in Field(128) /\ (112 + dr) \div 8 = 14 /\ word = (112 + dr) * 512 + offset9
    BY <2>3, <2>10 DEF Field
  <2>12. Relative(word, Distance(ops[2]))
    BY <2>9, <2>11 DEF Relative
  <2> QED BY <1>6, <1>8, <2>6, <2>8, <2>12
<1> QED BY <1>2, <1>10, <1>11, <1>12

-----------------------------------------------------------------------------
(* The second pass. *)
LEMMA ReachedToHere ==
  ASSUME AsmTypes, Scanned, Ends
  PROVE  Reached = 1..(line_num - 1)
<1>1. DOMAIN source = 1..Len(source) /\ Len(source) \in Nat /\ line_num \in Nat \ {0}
  BY CurrentLine DEF AsmTypes, AsmTypeOK
<1>2. ASSUME NEW i \in Reached
      PROVE  i < line_num
  <2>1. i \in 1..Len(source) /\ \A j \in 1..i : ~IsEnd(j)
    BY <1>1 DEF Reached
  <2>2. CASE ~AtLine
    BY <1>1, <2>1, <2>2 DEF AtLine
  <2>3. CASE IsEnd(line_num)
    BY <1>1, <2>1, <2>3
  <2> QED BY <2>2, <2>3 DEF Ends, IsDirective, IsEnd, Current
<1>3. Reached \subseteq 1..(line_num - 1)
  <2> SUFFICES ASSUME NEW i \in Reached PROVE i \in 1..(line_num - 1)
    OBVIOUS
  <2>1. i \in 1..Len(source)
    BY <1>1 DEF Reached
  <2> QED BY <1>1, <1>2, <2>1
<1> QED BY <1>3 DEF Scanned

LEMMA SecondPassStarts ==
  ASSUME AsmTypes, NEW place \in [Nat -> Nat], FirstPass(place), second_pass_starts
  PROVE  \E start \in [Nat -> Nat], last \in Nat \ {0} : SecondPass(place, start, last)'
<1> DEFINE start == [i \in Nat |-> 0]
<1>1. PICK last : last = line_num
  OBVIOUS
<1>2. last \in Nat \ {0} /\ origin \in Nat
  BY <1>1, WordIsNat DEF AsmTypes, AsmTypeOK
<1>3. /\ line_num' = 1 /\ current_address' = origin /\ source' = source /\ symbols' = symbols /\ origin' = origin
      /\ instructions' = <<>>
  BY DEF second_pass_starts, FirstPass
<1>4. Len(instructions') = 0 /\ DOMAIN instructions' = {}
  <2>1. DOMAIN <<>> = {}
    OBVIOUS
  <2>2. Len(<<>>) = 0
    OBVIOUS
  <2> QED BY <1>3, <2>1, <2>2
<1>5. start \in [Nat -> Nat] /\ start[1] = 0
  OBVIOUS
<1> HIDE DEF start
<1>6. SymbolsFixed(place, last)
  BY <1>1, ReachedToHere DEF SymbolsFixed, FirstPass, second_pass_starts
<1>7. SymbolsFixed(place, last)'
  <2>1. Reached' = Reached
    BY <1>3 DEF Reached, IsEnd
  <2>2. Counted(place, last)' = Counted(place, last)
    BY <1>3 DEF Counted, IsOrigin
  <2>3. Labelled(place, last)' = Labelled(place, last)
    BY <1>3 DEF Labelled
  <2> QED BY <1>6, <2>1, <2>2, <2>3 DEF SymbolsFixed
<1>8. Origins = {} => origin = 12288
  <2> SUFFICES ASSUME Origins = {} PROVE origin = 12288
    OBVIOUS
  <2>1. \A i \in 1..(line_num - 1) : ~IsOrigin(i)
    BY <1>1, <1>6 DEF SymbolsFixed, Origins
  <2> QED BY <2>1 DEF FirstPass
<1>9. 1..(1 - 1) = {} /\ 1..1 = {1} /\ 0 \in 0..0 /\ 0 = 2 * 0
  OBVIOUS
<1>10. place[1] = 12288
  BY <1>6 DEF SymbolsFixed, Counted
<1>11. Origins' = Origins
  BY <1>3 DEF Origins, Reached, IsOrigin, IsEnd
<1>12. Agrees(1)' => origin = place[1]
  BY <1>8, <1>9, <1>10, <1>11 DEF Agrees, OriginAhead
<1>13. Agrees(line_num)' => current_address' = place[line_num]'
  <2>1. (Agrees(line_num))' => Agrees(1)'
    BY <1>3 DEF Agrees, OriginAhead, Origins, Reached, IsOrigin, IsEnd
  <2> QED BY <1>3, <1>12, <2>1
<1>14. Ordered(start)'
  BY <1>3, <1>4, <1>5, <1>9 DEF Ordered
<1>15. \A i \in 1..1 : Agrees(i)' => place[i] = origin + 2 * start[i]
  BY <1>2, <1>5, <1>9, <1>12
<1>16. Contiguous(place, start)'
  BY <1>2, <1>3, <1>4, <1>15 DEF Contiguous
<1>17. TargetsComputed'
  BY <1>4 DEF TargetsComputed
<1>18. line_num' <= last
  BY <1>2, <1>3
<1>19. SecondPass(place, start, last)'
  BY <1>3, <1>7, <1>8, <1>11, <1>13, <1>14, <1>16, <1>17, <1>18 DEF SecondPass
<1> QED BY <1>2, <1>5, <1>19

(* A line of the second pass adds words of its own behind the others, or none. *)
Extended(n) ==
  /\ line_num = n /\ line_num' = n + 1
  /\ instructions' \in Seq(Assembled)
  /\ Len(instructions) <= Len(instructions')
  /\ \A k \in 1..Len(instructions) : instructions'[k] = instructions[k]
  /\ \A k \in (Len(instructions) + 1)..Len(instructions') : instructions'[k].line_num = n

LEMMA Lengths ==
  ASSUME AsmTypes, NEW n, Extended(n)
  PROVE  /\ n \in Nat \ {0} /\ Len(instructions) \in Nat /\ Len(instructions') \in Nat
         /\ DOMAIN instructions = 1..Len(instructions) /\ DOMAIN instructions' = 1..Len(instructions')
         /\ Len(instructions) <= Len(instructions')
         /\ 1..(n + 1) = (1..n) \cup {n + 1} /\ (n + 1) - 1 = n /\ n + 1 \notin 1..n
         /\ 1..n = (1..(n - 1)) \cup {n} /\ n \notin 1..(n - 1)
         /\ \A k \in DOMAIN instructions' : k \in DOMAIN instructions \/ k \in (Len(instructions) + 1)..Len(instructions')
         /\ \A k \in DOMAIN instructions : k \in DOMAIN instructions'
<1>1. n \in Nat \ {0}
  BY CurrentLine DEF AsmTypes, AsmTypeOK, Extended
<1>2. instructions \in Seq(Assembled) /\ instructions' \in Seq(Assembled) /\ Len(instructions) <= Len(instructions')
  BY DEF AsmTypes, Extended
<1>3. /\ Len(instructions) \in Nat /\ Len(instructions') \in Nat
      /\ DOMAIN instructions = 1..Len(instructions) /\ DOMAIN instructions' = 1..Len(instructions')
  BY <1>2
<1>4. /\ 1..(n + 1) = (1..n) \cup {n + 1} /\ (n + 1) - 1 = n /\ n + 1 \notin 1..n
      /\ 1..n = (1..(n - 1)) \cup {n} /\ n \notin 1..(n - 1)
  BY <1>1
<1>5. /\ \A k \in DOMAIN instructions' : k \in DOMAIN instructions \/ k \in (Len(instructions) + 1)..Len(instructions')
      /\ \A k \in DOMAIN instructions : k \in DOMAIN instructions'
  BY <1>2, <1>3
<1> QED BY <1>1, <1>2, <1>3, <1>4, <1>5

LEMMA OrderedOn ==
  ASSUME AsmTypes, NEW n, Extended(n), NEW start \in [Nat -> Nat], Ordered(start),
         NEW next \in [Nat -> Nat], next[n + 1] = Len(instructions'), \A i \in 1..n : next[i] = start[i]
  PROVE  Ordered(next)'
<1>1. /\ n \in Nat \ {0} /\ Len(instructions) \in Nat /\ Len(instructions') \in Nat
      /\ DOMAIN instructions = 1..Len(instructions) /\ DOMAIN instructions' = 1..Len(instructions')
      /\ Len(instructions) <= Len(instructions')
      /\ 1..(n + 1) = (1..n) \cup {n + 1} /\ (n + 1) - 1 = n /\ n + 1 \notin 1..n
      /\ \A k \in DOMAIN instructions' : k \in DOMAIN instructions \/ k \in (Len(instructions) + 1)..Len(instructions')
  BY Lengths
<1>2. /\ start[1] = 0 /\ start[n] = Len(instructions)
      /\ \A i \in 1..n : start[i] \in 0..Len(instructions)
      /\ \A k \in DOMAIN instructions : instructions[k].line_num \in 1..(n - 1)
      /\ \A i \in 1..n : \A k \in DOMAIN instructions : k <= start[i] <=> instructions[k].line_num < i
  BY DEF Ordered, Extended
<1>3. next[1] = 0
  BY <1>1, <1>2
<1>4. ASSUME NEW i \in 1..(n + 1)
      PROVE  next[i] \in 0..Len(instructions')
  <2>1. CASE i = n + 1
    <3>1. next[i] = Len(instructions')
      BY <2>1
    <3> QED BY <1>1, <3>1
  <2>2. CASE i \in 1..n
    <3>1. next[i] = start[i] /\ start[i] \in 0..Len(instructions)
      BY <1>2, <2>2
    <3> QED BY <1>1, <3>1
  <2> QED BY <1>1, <2>1, <2>2
<1>5. ASSUME NEW k \in DOMAIN instructions'
      PROVE  instructions'[k].line_num \in 1..n
  <2>1. CASE k \in DOMAIN instructions
    <3>1. instructions'[k] = instructions[k]
      BY <1>1, <2>1 DEF Extended
    <3>2. instructions[k].line_num \in 1..(n - 1)
      BY <1>2, <2>1
    <3>3. 1..(n - 1) \subseteq 1..n
      BY <1>1
    <3> QED BY <3>1, <3>2, <3>3, Zenon
  <2>2. CASE k \in (Len(instructions) + 1)..Len(instructions')
    <3>1. instructions'[k].line_num = n
      BY <2>2 DEF Extended
    <3>2. n \in 1..n
      BY <1>1
    <3> QED BY <3>1, <3>2, Zenon
  <2> QED BY <1>1, <2>1, <2>2
<1>6. ASSUME NEW i \in 1..(n + 1), NEW k \in DOMAIN instructions'
      PROVE  k <= next[i] <=> instructions'[k].line_num < i
  <2>1. CASE i = n + 1
    <3>1. k <= next[i]
      BY <1>1, <2>1
    <3>2. instructions'[k].line_num < i
      <4>1. instructions'[k].line_num \in 1..n
        BY <1>5
      <4>2. \A line \in 1..n : line < i
        BY <1>1, <2>1
      <4> QED BY <4>1, <4>2, Zenon
    <3> QED BY <3>1, <3>2
  <2>2. CASE i \in 1..n /\ k \in DOMAIN instructions
    <3>1. instructions'[k] = instructions[k]
      BY <1>1, <2>2 DEF Extended
    <3> QED BY <1>2, <2>2, <3>1
  <2>3. CASE i \in 1..n /\ k \in (Len(instructions) + 1)..Len(instructions')
    <3>1. instructions'[k].line_num = n
      BY <2>3 DEF Extended
    <3>2. next[i] \in 0..Len(instructions)
      BY <1>2, <2>3
    <3>3. ~(k <= next[i]) /\ ~(n < i)
      BY <1>1, <2>3, <3>2
    <3> QED BY <3>1, <3>3
  <2> QED BY <1>1, <2>1, <2>2, <2>3
<1>7. line_num' = n + 1
  BY DEF Extended
<1> QED BY <1>1, <1>3, <1>4, <1>5, <1>6, <1>7 DEF Ordered

(* What the first pass has found stays as it is. *)
LEMMA SymbolsFixedOn ==
  ASSUME NEW place, NEW last, SymbolsFixed(place, last), UNCHANGED <<source, symbols>>
  PROVE  SymbolsFixed(place, last)' /\ Origins' = Origins /\ Reached' = Reached /\ \A i : IsOrigin(i)' <=> IsOrigin(i)
BY DEF SymbolsFixed, Reached, Counted, Labelled, IsOrigin, IsEnd, Origins

LEMMA InFrontBefore ==
  ASSUME AsmTypes, NEW n, Extended(n), UNCHANGED source, InFront'
  PROVE  InFront /\ (IsOrigin(n) => \A k \in DOMAIN instructions' : n < instructions'[k].line_num)
<1>1. /\ n \in Nat \ {0} /\ DOMAIN instructions = 1..Len(instructions)
      /\ 1..n = (1..(n - 1)) \cup {n} /\ (n + 1) - 1 = n
      /\ \A k \in DOMAIN instructions : k \in DOMAIN instructions'
  BY Lengths
<1>2. \A j \in 1..n : IsOrigin(j) => \A k \in DOMAIN instructions' : j < instructions'[k].line_num
  BY <1>1 DEF InFront, IsOrigin, Extended
<1>3. \A k \in DOMAIN instructions : instructions'[k] = instructions[k]
  BY <1>1 DEF Extended
<1>4. InFront
  BY <1>1, <1>2, <1>3 DEF InFront, Extended
<1> QED BY <1>1, <1>2, <1>4

(* The counts of the passes go on together, from .ORIG to .ORIG. *)
LEMMA AgreesOn ==
  ASSUME NEW n \in Nat \ {0}, Agrees(n + 1), ~IsOrigin(n)
  PROVE  Agrees(n)
<1>1. \A j \in 1..((n + 1) - 1) : j # n => j \in 1..(n - 1)
  OBVIOUS
<1> QED BY <1>1 DEF Agrees, OriginAhead

LEMMA TargetKept ==
  ASSUME NEW k, TargetComputed(k), UNCHANGED <<source, symbols>>, instructions'[k] = instructions[k]
  PROVE  TargetComputed(k)'
BY DEF TargetComputed, HasTarget, Target, IsSymbol, InAGEX

LEMMA SecondPassOrigin ==
  ASSUME AsmTypes, NEW place \in [Nat -> Nat], NEW start \in [Nat -> Nat], NEW last \in Nat \ {0},
         SecondPass(place, start, last), ORIG, ~AssemblerError, pass = "second"
  PROVE  \E next \in [Nat -> Nat] : SecondPass(place, next, last)'
<1>1. PICK n : n = line_num
  OBVIOUS
<1>2. PICK m : m = Len(instructions)
  OBVIOUS
<1> DEFINE next == [start EXCEPT ![n + 1] = m]
<1>3. /\ line_num <= last /\ SymbolsFixed(place, last) /\ Reached = 1..(last - 1)
      /\ Counted(place, last) /\ Ordered(start) /\ TargetsComputed
  BY DEF SecondPass, SymbolsFixed
<1>4. line_num \in Nat \ {0} /\ instructions \in Seq(Assembled)
  BY CurrentLine DEF AsmTypes, AsmTypeOK
<1>5. Scanned
  BY <1>3, <1>4 DEF Scanned
<1>6. /\ n \in Nat \ {0} /\ 1..n \subseteq Reached /\ IsOrigin(n) /\ n \in DOMAIN source
      /\ source[n].operands \in Seq(Operand)
  BY <1>1, <1>5, NextLine DEF ORIG
<1>7. n \in 1..(last - 1)
  <2>1. n \in 1..n
    BY <1>6
  <2> QED BY <1>3, <1>6, <2>1
<1>8. /\ origin' \in Count(source[n].operands) /\ current_address' = origin'
      /\ line_num' = n + 1 /\ UNCHANGED <<source, pass, symbols, instructions>>
  BY <1>1 DEF ORIG, Current
<1>9. Extended(n)
  <2>1. Len(instructions) \in Nat
    BY <1>4
  <2>2. \A k \in (Len(instructions) + 1)..Len(instructions) : FALSE
    BY <2>1
  <2> QED BY <1>1, <1>4, <1>8, <2>1, <2>2 DEF Extended
<1>10. next \in [Nat -> Nat] /\ next[n + 1] = Len(instructions') /\ \A i \in 1..n : next[i] = start[i]
  <2>1. n \in Nat \ {0} /\ m \in Nat
    BY <1>2, <1>4, <1>6
  <2>2. next \in [Nat -> Nat] /\ next[n + 1] = m /\ \A i \in 1..n : next[i] = start[i]
    BY <2>1, OneMore
  <2> QED BY <1>2, <1>8, <2>2
<1> HIDE DEF next
<1>11. Ordered(next)'
  BY <1>3, <1>9, <1>10, OrderedOn
<1>12. SymbolsFixed(place, last)' /\ Origins' = Origins /\ \A i : IsOrigin(i)' <=> IsOrigin(i)
  BY <1>3, <1>8, SymbolsFixedOn
<1>13. place[n + 1] = origin'
  <2>1. place[n + 1] \in Count(source[n].operands)
    BY <1>3, <1>6, <1>7 DEF Counted
  <2> QED BY <1>6, <1>8, <2>1, CountIsWord
<1>14. n \in Origins
  BY <1>6 DEF Origins
<1>15. InFront' => Contiguous(place, next)'
  <2> SUFFICES ASSUME InFront' PROVE Contiguous(place, next)'
    OBVIOUS
  <2>1. DOMAIN instructions = {}
    <3>1. \A k \in DOMAIN instructions : n < instructions[k].line_num
      BY <1>6, <1>8, <1>9, InFrontBefore
    <3>2. \A k \in DOMAIN instructions : instructions[k].line_num \in 1..(n - 1)
      BY <1>1, <1>3 DEF Ordered
    <3>3. \A line \in 1..(n - 1) : ~(n < line)
      BY <1>6
    <3> QED BY <3>1, <3>2, <3>3, Zenon
  <2>2. Len(instructions) = 0
    BY <1>4, <2>1
  <2>3. origin' \in Nat
    BY <1>6, <1>8, CountIsWord, WordIsNat
  <2>4. ASSUME NEW i \in 1..(n + 1), \A j \in i..((n + 1) - 1) : ~IsOrigin(j)
        PROVE  place[i] = origin' + 2 * next[i]
    <3>1. i = n + 1
      <4>1. i \in 1..n => n \in i..((n + 1) - 1)
        BY <1>6
      <4>2. i \in 1..n \/ i = n + 1
        BY <1>6
      <4> QED BY <1>6, <2>4, <4>1, <4>2
    <3>2. next[i] = 0
      BY <1>8, <1>10, <2>2, <3>1
    <3> QED BY <1>13, <2>3, <3>1, <3>2
  <2>5. ASSUME NEW i \in 1..(n + 1), (\A j \in i..(line_num - 1) : ~IsOrigin(j))'
        PROVE  place[i] = origin' + 2 * next[i]
    BY <1>8, <1>12, <2>4, <2>5
  <2>6. \A k \in DOMAIN instructions' : instructions'[k].address = origin' + 2 * (k - 1)
    BY <1>8, <2>1
  <2>7. current_address' = origin' + 2 * Len(instructions')
    <3>1. Len(instructions') = 0
      BY <1>8, <2>2
    <3>2. PICK o : o = origin'
      OBVIOUS
    <3>3. current_address' = o /\ o \in Nat
      BY <1>8, <2>3, <3>2
    <3>4. o = o + 2 * 0
      BY <3>3
    <3> QED BY <3>1, <3>2, <3>3, <3>4, Zenon
  <2>8. \A i \in 1..(n + 1) :
          (Agrees(i) /\ (\A j \in i..(line_num - 1) : ~IsOrigin(j)))' => place[i] = origin' + 2 * next[i]
    BY <2>5
  <2> QED BY <1>8, <2>6, <2>7, <2>8 DEF Contiguous
<1>16. TargetsComputed'
  BY <1>3, <1>8, TargetKept DEF TargetsComputed
<1>17. line_num' <= last
  BY <1>7, <1>8
<1>18. (Origins = {} => origin = 12288)'
  BY <1>12, <1>14
<1>19. (Agrees(line_num) => current_address = place[line_num])'
  BY <1>8, <1>13
<1>20. SecondPass(place, next, last)'
  BY <1>11, <1>12, <1>15, <1>16, <1>17, <1>18, <1>19 DEF SecondPass
<1> QED BY <1>10, <1>20

LEMMA SumModulo ==
  ASSUME NEW x \in Int, NEW y \in Int
  PROVE  ((x % WordSize) + y) % WordSize = (x + y) % WordSize
<1>1. ((x % 65536) + y) % 65536 = (x + y) % 65536
  OBVIOUS
<1> QED BY <1>1, Sizes

LEMMA SecondPassWords ==
  ASSUME AsmTypes, NEW place \in [Nat -> Nat], NEW start \in [Nat -> Nat], NEW last \in Nat \ {0},
         SecondPass(place, start, last), second_pass, ~AssemblerError
  PROVE  \E next \in [Nat -> Nat] : SecondPass(place, next, last)'
<1>1. PICK n : n = line_num
  OBVIOUS
<1>2. PICK made : made = instructions
  OBVIOUS
<1>3. PICK a : a = current_address
  OBVIOUS
<1>4. PICK words \in Words(Current) :
        /\ instructions' = made \o RowsOf(words, a, n)
        /\ current_address' = a + 2 * Len(words)
        /\ line_num' = n + 1
        /\ UNCHANGED <<source, pass, symbols, origin>>
  BY <1>1, <1>2, <1>3 DEF second_pass, RowsOf, RowOf
<1>5. /\ line_num <= last /\ SymbolsFixed(place, last) /\ Reached = 1..(last - 1)
      /\ Counted(place, last) /\ Ordered(start) /\ TargetsComputed
      /\ InFront => Contiguous(place, start)
      /\ Origins = {} => origin = 12288
      /\ Agrees(n) => a = place[n]
  BY <1>1, <1>3 DEF SecondPass, SymbolsFixed
<1>6. /\ line_num \in Nat \ {0} /\ made \in Seq(Assembled) /\ a \in Nat /\ origin \in Nat
      /\ \A name \in DOMAIN symbols : symbols[name] \in Nat
  BY <1>2, <1>3, CurrentLine, WordIsNat DEF AsmTypes, AsmTypeOK
<1>7. Scanned
  BY <1>5, <1>6 DEF Scanned
<1>8. /\ n \in Nat \ {0} /\ 1..n \subseteq Reached /\ ~IsOrigin(n) /\ n \in DOMAIN source
      /\ source[n] \in SourceLine /\ Current = source[n]
  BY <1>1, <1>7, NextLine DEF second_pass, Current
<1>9. n \in 1..(last - 1)
  <2>1. n \in 1..n
    BY <1>8
  <2>2. 1..n \subseteq Reached
    BY <1>8
  <2>3. Reached = 1..(last - 1)
    BY <1>5
  <2> QED BY <2>1, <2>2, <2>3, Zenon
<1>10. /\ words \in Seq(CodePoint) /\ (\A size \in Size(source[n]) : size = 2 * Len(words)) /\ Len(words) \in Nat
       /\ source[n].mnemonic # ".STRINGZ" => \A i \in 1..Len(words) : words[i] \in Word
  <2>1. /\ words \in Seq(CodePoint) /\ (\A size \in Size(source[n]) : size = 2 * Len(words))
        /\ source[n].mnemonic # ".STRINGZ" => \A i \in 1..Len(words) : words[i] \in Word
    BY <1>3, <1>6, <1>8, WordsOfLine
  <2> QED BY <2>1
<1>11. PICK all : all = instructions'
  OBVIOUS
<1>12. /\ all \in Seq(Assembled)
       /\ Len(all) = Len(made) + Len(words) /\ Len(all) \in Nat /\ DOMAIN all = 1..Len(all)
       /\ \A k \in 1..Len(made) : all[k] = made[k]
       /\ \A k \in (Len(made) + 1)..Len(all) :
            k - Len(made) \in 1..Len(words) /\ all[k] = RowOf(words, a, n, k - Len(made))
  <2>1. all = made \o RowsOf(words, a, n)
    BY <1>4, <1>11
  <2>2. made \in Seq(Assembled) /\ a \in Nat /\ n \in Nat /\ words \in Seq(CodePoint)
    BY <1>6, <1>8, <1>10
  <2>3. Lengthened(made, words, a, n, all)
    BY <2>1, <2>2, NewWords
  <2> QED BY <2>3 DEF Lengthened
<1>13. Len(made) \in Nat /\ DOMAIN made = 1..Len(made)
  BY <1>6
<1>14. ASSUME NEW k \in (Len(made) + 1)..Len(all)
       PROVE  /\ all[k].line_num = n /\ all[k].word = words[k - Len(made)]
              /\ all[k].address = a + 2 * ((k - Len(made)) - 1)
  <2>1. all[k] = RowOf(words, a, n, k - Len(made))
    BY <1>12
  <2> QED BY <2>1 DEF RowOf
<1>15. Extended(n)
  <2>1. line_num = n /\ line_num' = n + 1 /\ instructions' = all /\ instructions = made
    BY <1>1, <1>2, <1>4, <1>11
  <2>2. Len(made) <= Len(all)
    BY <1>10, <1>12, <1>13
  <2>3. \A k \in (Len(made) + 1)..Len(all) : all[k].line_num = n
    BY <1>14
  <2>4. all \in Seq(Assembled) /\ \A k \in 1..Len(made) : all[k] = made[k]
    BY <1>12
  <2> QED BY <2>1, <2>2, <2>3, <2>4 DEF Extended
<1>0. PICK m : m = Len(all)
  OBVIOUS
<1> DEFINE next == [start EXCEPT ![n + 1] = m]
<1>16. next \in [Nat -> Nat] /\ next[n + 1] = Len(all) /\ \A i \in 1..n : next[i] = start[i]
  <2>1. n \in Nat \ {0} /\ m \in Nat
    BY <1>0, <1>8, <1>12
  <2>2. next \in [Nat -> Nat] /\ next[n + 1] = m /\ \A i \in 1..n : next[i] = start[i]
    BY <2>1, OneMore
  <2> QED BY <1>0, <2>2
<1> HIDE DEF next
<1>17. Ordered(next)'
  <2>1. Ordered(start) /\ next[n + 1] = Len(instructions')
    BY <1>5, <1>11, <1>16
  <2> QED BY <1>15, <1>16, <2>1, OrderedOn
<1>18. SymbolsFixed(place, last)' /\ Origins' = Origins /\ \A i : IsOrigin(i)' <=> IsOrigin(i)
  BY <1>4, <1>5, SymbolsFixedOn
<1>19. \A i : Agrees(i)' <=> Agrees(i)
  BY <1>18 DEF Agrees, OriginAhead
<1>20. Agrees(n + 1) => a + 2 * Len(words) = place[n + 1]
  <2> SUFFICES ASSUME Agrees(n + 1) PROVE a + 2 * Len(words) = place[n + 1]
    OBVIOUS
  <2>1. a = place[n]
    BY <1>5, <1>8, AgreesOn
  <2>2. \E size \in Size(source[n]) : place[n + 1] = place[n] + size
    BY <1>5, <1>8, <1>9 DEF Counted
  <2> QED BY <1>10, <2>1, <2>2
<1>21. InFront' => Contiguous(place, next)'
  <2> SUFFICES ASSUME InFront' PROVE Contiguous(place, next)'
    OBVIOUS
  <2>1. Contiguous(place, start)
    BY <1>4, <1>5, <1>15, InFrontBefore
  <2>2. /\ \A k \in 1..Len(made) : made[k].address = origin + 2 * (k - 1)
        /\ a = origin + 2 * Len(made)
        /\ \A i \in 1..n : Agrees(i) /\ (\A j \in i..(n - 1) : ~IsOrigin(j)) => place[i] = origin + 2 * start[i]
    BY <1>1, <1>2, <1>3, <1>13, <2>1 DEF Contiguous
  <2>3. ASSUME NEW k \in 1..Len(all)
        PROVE  all[k].address = origin + 2 * (k - 1)
    <3>1. CASE k \in 1..Len(made)
      BY <1>12, <2>2, <3>1
    <3>2. CASE k \in (Len(made) + 1)..Len(all)
      <4>1. all[k].address = a + 2 * ((k - Len(made)) - 1)
        BY <1>14, <3>2
      <4> QED BY <1>6, <1>12, <1>13, <2>2, <3>2, <4>1
    <3> QED BY <1>12, <1>13, <3>1, <3>2
  <2>4. a + 2 * Len(words) = origin + 2 * Len(all)
    BY <1>6, <1>10, <1>12, <1>13, <2>2
  <2>5. ASSUME NEW i \in 1..(n + 1), Agrees(i), \A j \in i..n : ~IsOrigin(j)
        PROVE  place[i] = origin + 2 * next[i]
    <3>1. CASE i = n + 1
      <4>1. place[i] = a + 2 * Len(words)
        BY <1>20, <2>5, <3>1
      <4>2. next[i] = Len(all)
        BY <1>16, <3>1
      <4> QED BY <2>4, <4>1, <4>2
    <3>2. CASE i \in 1..n
      <4>1. \A j \in i..(n - 1) : ~IsOrigin(j)
        <5>1. \A j \in i..(n - 1) : j \in i..n
          BY <1>8, <3>2
        <5> QED BY <2>5, <5>1
      <4> QED BY <1>16, <2>2, <2>5, <3>2, <4>1
    <3> QED BY <1>8, <3>1, <3>2
  <2>6. \A k \in DOMAIN instructions' : instructions'[k].address = origin' + 2 * (k - 1)
    BY <1>4, <1>11, <1>12, <2>3
  <2>7. current_address' = origin' + 2 * Len(instructions')
    BY <1>4, <1>11, <2>4
  <2>8. (n + 1) - 1 = n
    BY <1>8
  <2>9. \A i \in 1..(n + 1) :
          (Agrees(i) /\ (\A j \in i..(line_num - 1) : ~IsOrigin(j)))' => place[i] = origin' + 2 * next[i]
    BY <1>4, <1>18, <1>19, <2>5, <2>8
  <2> QED BY <1>4, <2>6, <2>7, <2>9 DEF Contiguous
<1>22. ASSUME NEW k \in DOMAIN instructions'
       PROVE  TargetComputed(k)'
  <2>1. CASE k \in 1..Len(made)
    BY <1>2, <1>4, <1>5, <1>11, <1>12, <1>13, <2>1, TargetKept DEF TargetsComputed
  <2>2. CASE k \in (Len(made) + 1)..Len(all)
    <3>1. PICK e : e = all[k]
      OBVIOUS
    <3>2. /\ e.line_num = n /\ e.word = words[k - Len(made)] /\ e.address = a + 2 * ((k - Len(made)) - 1)
          /\ k - Len(made) \in 1..Len(words)
      BY <1>12, <1>14, <2>2, <3>1
    <3> SUFFICES ASSUME HasTarget(source[n])
                 PROVE  /\ Target(source[n]) \in DOMAIN symbols
                        /\ MemAddress(InAGEX(e)) =
                             (2 * WordAddress(e.address) + 2
                                + 2 * ((symbols[Target(source[n])] - (e.address + 2)) \div 2)) % WordSize
      BY <1>4, <1>11, <3>1, <3>2 DEF TargetComputed, HasTarget, Target, IsSymbol, InAGEX
    <3>3. /\ Target(source[n]) \in DOMAIN symbols /\ Len(words) = 1
          /\ Relative(words[1], (symbols[Target(source[n])] - (a + 2)) \div 2)
      BY <1>3, <1>6, <1>8, TargetWord
    <3>4. k - Len(made) = 1
      BY <3>2, <3>3
    <3>5. e.word = words[1] /\ e.address = a
      BY <1>6, <3>2, <3>4
    <3>6. e.word \in Word
      <4>1. ".STRINGZ" \notin DOMAIN nzp \cup {"JSR", "LEA"}
        BY DEF nzp
      <4>2. source[n].mnemonic # ".STRINGZ"
        BY <4>1 DEF HasTarget, TakesLabel
      <4>3. 1 \in 1..Len(words)
        BY <3>3
      <4> QED BY <1>10, <3>5, <4>2, <4>3
    <3> DEFINE npc == (2 * WordAddress(a) + 2) % WordSize
               d == (symbols[Target(source[n])] - (a + 2)) \div 2
    <3>7. d \in Int
      BY <1>6, <3>3
    <3>8. npc \in Word
      <4>1. WordAddress(a) \in Nat
        BY <1>6 DEF WordAddress
      <4>2. npc \in Field(65536)
        BY <4>1, Sizes DEF Field
      <4> QED BY <4>2, FieldsAreWord
    <3>9. (npc + 2 * d) % WordSize = (2 * WordAddress(a) + 2 + 2 * d) % WordSize
      <4>1. WordAddress(a) \in Nat
        BY <1>6 DEF WordAddress
      <4>2. 2 * WordAddress(a) + 2 \in Int /\ 2 * d \in Int
        BY <3>7, <4>1
      <4> HIDE DEF d
      <4> QED BY <4>2, SumModulo
    <3> HIDE DEF npc, d
    <3>10. MemAddress(Decoded(Create(e.word, npc), CONTROL_STORE[CONTROL_STORE_ADDRESS(e.word)], 0, 0, 2)) =
             (npc + 2 * d) % WordSize
      BY <3>3, <3>5, <3>6, <3>7, <3>8, RelativeWord DEF d
    <3>11. MemAddress(InAGEX(e)) = (npc + 2 * d) % WordSize
      BY <3>5, <3>10 DEF InAGEX, npc
    <3> QED BY <3>3, <3>5, <3>9, <3>11 DEF d
  <2> QED BY <1>11, <1>12, <1>13, <2>1, <2>2
<1>23. TargetsComputed'
  BY <1>22 DEF TargetsComputed
<1>24. line_num' <= last
  BY <1>4, <1>9
<1>25. (Agrees(line_num) => current_address = place[line_num])'
  BY <1>4, <1>19, <1>20
<1>26. (Origins = {} => origin = 12288)'
  BY <1>4, <1>5, <1>18
<1>27. SecondPass(place, next, last)'
  BY <1>17, <1>18, <1>21, <1>23, <1>24, <1>25, <1>26 DEF SecondPass
<1> QED BY <1>16, <1>27

(* The invariant does not depend on the pass. *)
LEMMA FirstPassStays ==
  ASSUME NEW place, FirstPass(place),
         UNCHANGED <<source, line_num, symbols, origin, current_address, instructions>>
  PROVE  FirstPass(place)'
<1>1. Scanned'
  BY DEF FirstPass, Scanned, Reached, IsEnd
<1>2. (Counted(place, line_num) /\ Labelled(place, line_num))'
  BY DEF FirstPass, Counted, Labelled, IsOrigin
<1>3. ((\A i \in 1..(line_num - 1) : ~IsOrigin(i)) => origin = 12288)'
  BY DEF FirstPass, IsOrigin
<1>4. (current_address = place[line_num] /\ instructions = <<>>)'
  BY DEF FirstPass
<1> QED BY <1>1, <1>2, <1>3, <1>4 DEF FirstPass

LEMMA SecondPassStays ==
  ASSUME NEW place, NEW start, NEW last, SecondPass(place, start, last),
         UNCHANGED <<source, line_num, symbols, origin, current_address, instructions>>
  PROVE  SecondPass(place, start, last)'
<1>1. SymbolsFixed(place, last)' /\ Origins' = Origins /\ \A i : IsOrigin(i)' <=> IsOrigin(i)
  BY SymbolsFixedOn DEF SecondPass
<1>2. \A i : Agrees(i)' <=> Agrees(i)
  BY <1>1 DEF Agrees, OriginAhead
<1>3. (Origins = {} => origin = 12288)'
  BY <1>1 DEF SecondPass
<1>4. (Agrees(line_num) => current_address = place[line_num])'
  <2>1. Agrees(line_num)' <=> Agrees(line_num)
    BY <1>1 DEF Agrees, OriginAhead
  <2> QED BY <2>1 DEF SecondPass
<1>5. Ordered(start)'
  BY DEF SecondPass, Ordered
<1>6. InFront' <=> InFront
  BY <1>1 DEF InFront
<1>7. Contiguous(place, start) => Contiguous(place, start)'
  BY <1>1, <1>2 DEF Contiguous
<1>8. TargetsComputed'
  BY TargetKept DEF SecondPass, TargetsComputed
<1> QED BY <1>1, <1>3, <1>4, <1>5, <1>6, <1>7, <1>8 DEF SecondPass

(* The second pass ends at the line at which the first has ended. *)
LEMMA SecondPassEnds ==
  ASSUME AsmTypes, NEW place \in [Nat -> Nat], NEW start \in [Nat -> Nat], NEW last \in Nat \ {0},
         SecondPass(place, start, last), assemble_file
  PROVE  SecondPass(place, start, line_num)'
<1>1. UNCHANGED <<source, line_num, symbols, origin, current_address, instructions>>
  BY DEF assemble_file
<1>2. line_num \in Nat \ {0} /\ line_num <= last /\ Reached = 1..(last - 1)
  BY CurrentLine DEF AsmTypes, AsmTypeOK, SecondPass, SymbolsFixed
<1>3. Scanned
  BY <1>2 DEF Scanned
<1>4. Reached = 1..(line_num - 1)
  BY <1>3, ReachedToHere DEF assemble_file
<1>5. last = line_num
  <2>1. line_num \in 1..(line_num - 1) => FALSE
    BY <1>2
  <2>2. line_num < last => line_num \in 1..(last - 1)
    BY <1>2
  <2> QED BY <1>2, <1>4, <2>1, <2>2
<1>6. SecondPass(place, start, last)'
  BY <1>1, SecondPassStays
<1>7. last = line_num'
  BY <1>1, <1>5
<1> QED BY <1>6, <1>7

-----------------------------------------------------------------------------
LEMMA InvariantStarts ==
  ASSUME AsmInit
  PROVE  AssemblyInvariant
<1>1. AsmTypes /\ \E place \in [Nat -> Nat] : FirstPass(place)
  BY TypesStart, FirstPassStarts
<1>2. pass = "first"
  BY DEF AsmInit
<1> QED BY <1>1, <1>2 DEF AssemblyInvariant

LEMMA InvariantKept ==
  ASSUME AssemblyInvariant, [AsmNext]_asmVars
  PROVE  AssemblyInvariant'
<1>1. AsmTypes /\ AsmTypes'
  BY TypesKept DEF AssemblyInvariant
<1>2. CASE UNCHANGED asmVars
  <2>1. pass' = pass /\ UNCHANGED <<source, line_num, symbols, origin, current_address, instructions>>
    BY <1>2 DEF asmVars
  <2>2. ASSUME pass = "first" PROVE \E place \in [Nat -> Nat] : FirstPass(place)'
    BY <2>1, <2>2, FirstPassStays DEF AssemblyInvariant
  <2>3. ASSUME pass = "second"
        PROVE  \E place, start \in [Nat -> Nat], last \in Nat \ {0} : SecondPass(place, start, last)'
    BY <2>1, <2>3, SecondPassStays DEF AssemblyInvariant
  <2>4. ASSUME pass = "written"
        PROVE  \E place, start \in [Nat -> Nat] : SecondPass(place, start, line_num)'
    <3>1. PICK place \in [Nat -> Nat], start \in [Nat -> Nat] : SecondPass(place, start, line_num)
      BY <2>4 DEF AssemblyInvariant
    <3>2. PICK n : n = line_num
      OBVIOUS
    <3>3. SecondPass(place, start, n)'
      BY <2>1, <3>1, <3>2, SecondPassStays
    <3>4. n = line_num'
      BY <2>1, <3>2
    <3>5. SecondPass(place, start, line_num)'
      BY <3>3, <3>4
    <3> QED BY <3>1, <3>5
  <2> QED BY <1>1, <2>1, <2>2, <2>3, <2>4 DEF AssemblyInvariant
<1>3. CASE AssemblerError
  BY <1>1, <1>3 DEF AssemblyInvariant, AssemblerError
<1>4. CASE pass = "first" /\ (ORIG \/ first_pass) /\ ~AssemblerError
  <2>1. PICK place \in [Nat -> Nat] : FirstPass(place)
    BY <1>4 DEF AssemblyInvariant
  <2>2. \E next \in [Nat -> Nat] : FirstPass(next)'
    BY <1>1, <1>4, <2>1, FirstPassGoesOn
  <2>3. pass' = "first"
    BY <1>4 DEF ORIG, first_pass
  <2> QED BY <1>1, <2>2, <2>3 DEF AssemblyInvariant
<1>5. CASE second_pass_starts
  <2>1. pass = "first" /\ pass' = "second"
    BY <1>5 DEF second_pass_starts
  <2>2. PICK place \in [Nat -> Nat] : FirstPass(place)
    BY <2>1 DEF AssemblyInvariant
  <2>3. \E start \in [Nat -> Nat], last \in Nat \ {0} : SecondPass(place, start, last)'
    BY <1>1, <1>5, <2>2, SecondPassStarts
  <2> QED BY <1>1, <2>1, <2>2, <2>3 DEF AssemblyInvariant
<1>6. CASE pass = "second" /\ (ORIG \/ second_pass) /\ ~AssemblerError
  <2>1. PICK place \in [Nat -> Nat], start \in [Nat -> Nat], last \in Nat \ {0} : SecondPass(place, start, last)
    BY <1>6 DEF AssemblyInvariant
  <2>2. \E next \in [Nat -> Nat] : SecondPass(place, next, last)'
    BY <1>1, <1>6, <2>1, SecondPassOrigin, SecondPassWords
  <2>3. pass' = "second"
    BY <1>6 DEF ORIG, second_pass
  <2> QED BY <1>1, <2>1, <2>2, <2>3 DEF AssemblyInvariant
<1>7. CASE assemble_file
  <2>1. pass = "second" /\ pass' = "written"
    BY <1>7 DEF assemble_file
  <2>2. PICK place \in [Nat -> Nat], start \in [Nat -> Nat], last \in Nat \ {0} : SecondPass(place, start, last)
    BY <2>1 DEF AssemblyInvariant
  <2>3. SecondPass(place, start, line_num)'
    BY <1>1, <1>7, <2>2, SecondPassEnds
  <2> QED BY <1>1, <2>1, <2>2, <2>3 DEF AssemblyInvariant
<1>8. /\ ORIG => pass = "first" \/ pass = "second"
      /\ first_pass => pass = "first"
      /\ second_pass => pass = "second"
  BY DEF ORIG, first_pass, second_pass
<1> QED BY <1>2, <1>3, <1>4, <1>5, <1>6, <1>7, <1>8 DEF AsmNext

(* The inductive invariant of the assembler, in every state of it. *)
THEOREM AssemblyInvariantHolds == AsmSpec => []AssemblyInvariant
<1>1. AsmInit => AssemblyInvariant
  BY InvariantStarts
<1>2. AssemblyInvariant /\ [AsmNext]_asmVars => AssemblyInvariant'
  BY InvariantKept
<1> QED BY <1>1, <1>2, PTL DEF AsmSpec

(* What the assembler keeps is typed: the origin and whatever is written are words of 16
   bits, and no pass leaves the lines of the file. *)
THEOREM AsmTypesHold == AsmSpec => []AsmTypeOK
<1>1. AssemblyInvariant => AsmTypeOK
  BY DEF AssemblyInvariant, AsmTypes
<1> QED BY <1>1, AssemblyInvariantHolds, PTL

(* The passes agree on every label, so that a reference ahead means the same as one back
   (first_pass, second_pass). *)
THEOREM SymbolsAgreeHolds == AsmSpec => []SymbolsAgree
<1>1. AssemblyInvariant => SymbolsAgree
  <2> SUFFICES ASSUME AssemblyInvariant, pass = "second", ~Ends, HasLabel(Current),
                      OriginAhead(line_num) \/ Origins = {}
               PROVE  symbols[Current.label] = current_address
    BY DEF SymbolsAgree
  <2>1. PICK place \in [Nat -> Nat], start \in [Nat -> Nat], last \in Nat \ {0} : SecondPass(place, start, last)
    BY DEF AssemblyInvariant
  <2>2. /\ AsmTypes /\ line_num \in Nat \ {0} /\ line_num <= last /\ Reached = 1..(last - 1)
        /\ Labelled(place, last)
        /\ Agrees(line_num) => current_address = place[line_num]
    BY <2>1, CurrentLine DEF AssemblyInvariant, AsmTypes, AsmTypeOK, SecondPass, SymbolsFixed
  <2>3. current_address = place[line_num]
    BY <2>2 DEF Agrees
  <2>4. line_num \in 1..(last - 1)
    <3>1. Scanned
      BY <2>2 DEF Scanned
    <3>2. 1..line_num \subseteq Reached
      BY <2>2, <3>1, NextLine
    <3>3. line_num \in 1..line_num
      BY <2>2
    <3> QED BY <2>2, <3>2, <3>3, Zenon
  <2>5. symbols[source[line_num].label] = place[line_num]
    BY <2>2, <2>4 DEF Labelled, Current
  <2> QED BY <2>3, <2>5 DEF Current
<1> QED BY <1>1, AssemblyInvariantHolds, PTL

(* The words of the object file are where they have been counted to be. *)
LEMMA ContiguousWords ==
  ASSUME AssemblyInvariant, pass = "written", OriginFirst
  PROVE  \E place, start \in [Nat -> Nat] : SecondPass(place, start, line_num) /\ Contiguous(place, start)
<1>1. PICK place \in [Nat -> Nat], start \in [Nat -> Nat] : SecondPass(place, start, line_num)
  BY DEF AssemblyInvariant
<1>2. Reached = 1..(line_num - 1)
  BY <1>1 DEF SecondPass, SymbolsFixed
<1>3. InFront
  BY <1>2 DEF InFront, OriginFirst, Origins
<1> QED BY <1>1, <1>3 DEF SecondPass

LEMMA Halves ==
  ASSUME NEW o \in Nat, NEW i \in Nat \ {0}
  PROVE  (o + 2 * (i - 1)) \div 2 = (o \div 2) + (i - 1)
OBVIOUS

LEMMA HalfOfWord ==
  ASSUME NEW o \in Nat, o < 65536
  PROVE  o \div 2 \in Nat /\ o \div 2 < 32768
OBVIOUS

(* The distance in words, taken from a word on, leads to the word it was taken to. *)
LEMMA ThereByWords ==
  ASSUME NEW o \in Nat, NEW i \in Nat \ {0}, NEW t \in Nat
  PROVE  2 * ((o + 2 * (i - 1)) \div 2) + 2 + 2 * (((o + 2 * t) - ((o + 2 * (i - 1)) + 2)) \div 2)
           = 2 * ((o + 2 * t) \div 2)
<1>1. PICK h : h = o \div 2
  OBVIOUS
<1>2. h \in Nat
  BY <1>1
<1>3. (o + 2 * (i - 1)) \div 2 = h + (i - 1)
  BY <1>1, Halves
<1>4. (o + 2 * t) \div 2 = h + t
  BY <1>1
<1>5. ((o + 2 * t) - ((o + 2 * (i - 1)) + 2)) \div 2 = t - i
  <2>1. (o + 2 * t) - ((o + 2 * (i - 1)) + 2) = 2 * (t - i)
    OBVIOUS
  <2>2. \A n \in Int : (2 * n) \div 2 = n
    OBVIOUS
  <2>3. t - i \in Int
    OBVIOUS
  <2> QED BY <2>1, <2>2, <2>3
<1>6. 2 * (h + (i - 1)) + 2 + 2 * (t - i) = 2 * (h + t)
  BY <1>2
<1> QED BY <1>3, <1>4, <1>5, <1>6

LEMMA LoadedWhereCounted ==
  ASSUME AssemblyInvariant, pass = "written", OriginFirst, NEW i \in DOMAIN instructions
  PROVE  /\ GetWordAt(Loaded(<<>>, ObjectFile), WordAddress(instructions[i].address)) = instructions[i].word % WordSize
         /\ WordAddress(EntryPoint(0, ObjectFile)) = WordAddress(instructions[1].address)
<1>1. \A k \in DOMAIN instructions : instructions[k].address = origin + 2 * (k - 1)
  BY ContiguousWords DEF Contiguous
<1>2. origin \in Word /\ origin \in Nat /\ origin < 65536 /\ instructions \in Seq(Assembled)
  BY WordIsNat, Sizes DEF AssemblyInvariant, AsmTypes, AsmTypeOK
<1>3. DOMAIN instructions = 1..Len(instructions) /\ Len(instructions) \in Nat
  BY <1>2
<1>4. i \in 1..Len(instructions) /\ 1 \in DOMAIN instructions
  BY <1>3
<1>5. instructions[i].address = origin + 2 * (i - 1) /\ instructions[1].address = origin + 2 * (1 - 1)
  BY <1>1, <1>4
<1> DEFINE base == origin \div 2
           words == [k \in DOMAIN instructions |-> instructions[k].word]
<1>6. base \in Nat /\ base < 32768
  BY <1>2, HalfOfWord
<1>7. WordAddress(instructions[i].address) = base + (i - 1) /\ WordAddress(instructions[1].address) = base
  <2>1. (origin + 2 * (i - 1)) \div 2 = base + (i - 1)
    <3>1. i \in Nat \ {0}
      BY <1>3, <1>4
    <3>2. origin \in Nat
      BY <1>2
    <3> QED BY <3>1, <3>2, Halves
  <2>2. origin + 2 * (1 - 1) = origin
    BY <1>2
  <2> QED BY <1>5, <2>1, <2>2 DEF WordAddress
<1>8. ObjectFile.origin = origin /\ ObjectFile.words = words
  BY DEF ObjectFile
<1>9. Len(words) = Len(instructions) /\ words[i] = instructions[i].word
  BY <1>3
<1> HIDE DEF words
<1>12. Base(ObjectFile) = base
  <2>1. base % WordSize = base
    BY <1>6 DEF WordSize
  <2> QED BY <1>8, <2>1 DEF Base
<1>10. GetWordAt(Loaded(<<>>, ObjectFile), base + (i - 1)) = instructions[i].word % WordSize
  <2> DEFINE new == base..(base + Len(words) - 1)
             file == Loaded(<<>>, ObjectFile)
  <2>1. file = [a \in DOMAIN <<>> \cup new |-> IF a \in new THEN words[a - base + 1] % WordSize ELSE <<>>[a]]
    BY <1>8, <1>12 DEF Loaded
  <2>2. base + (i - 1) \in new /\ (base + (i - 1)) - base + 1 = i
    <3>1. PICK b : b = base
      OBVIOUS
    <3>2. PICK n : n = Len(words)
      OBVIOUS
    <3>3. b \in Nat /\ n \in Nat /\ i \in 1..n
      BY <1>3, <1>4, <1>6, <1>9, <3>1, <3>2
    <3>4. b + (i - 1) \in b..(b + n - 1) /\ (b + (i - 1)) - b + 1 = i
      BY <3>3
    <3> QED BY <3>1, <3>2, <3>4
  <2> HIDE DEF new, file
  <2>3. base + (i - 1) \in DOMAIN file /\ file[base + (i - 1)] = words[(base + (i - 1)) - base + 1] % WordSize
    BY <2>1, <2>2
  <2> QED BY <1>9, <2>2, <2>3 DEF GetWordAt, file
<1>11. WordAddress(EntryPoint(0, ObjectFile)) = base
  <2>1. EntryPoint(0, ObjectFile) = (2 * base) % WordSize
    BY <1>8 DEF EntryPoint
  <2>2. (2 * base) % 65536 = 2 * base /\ (2 * base) \div 2 = base
    BY <1>6
  <2> QED BY <2>1, <2>2, Sizes DEF WordAddress
<1> QED BY <1>7, <1>10, <1>11

(* load_program puts every word where the assembler has counted it to be and starts the
   program at the first (assemble_file writes the words without their addresses). *)
THEOREM LoadsWhereAssembledHolds == AsmSpec => []LoadsWhereAssembled
<1>1. AssemblyInvariant => LoadsWhereAssembled
  <2> SUFFICES ASSUME AssemblyInvariant, pass = "written", OriginFirst
               PROVE  LoadsWhereAssembled
    BY DEF LoadsWhereAssembled
  <2> QED BY LoadedWhereCounted DEF LoadsWhereAssembled
<1> QED BY <1>1, AssemblyInvariantHolds, PTL

-----------------------------------------------------------------------------
(* The first word behind a line is where the line is. *)
LEMMA PositionOfLine ==
  ASSUME AssemblyInvariant, NEW place, NEW start, NEW last,
         SecondPass(place, start, last), Contiguous(place, start), NEW s \in 1..line_num
  PROVE  Position(s) = origin + 2 * start[s]
<1>1. origin \in Nat /\ instructions \in Seq(Assembled) /\ line_num \in Nat
  BY WordIsNat DEF AssemblyInvariant, AsmTypes, AsmTypeOK
<1>2. DOMAIN instructions = 1..Len(instructions) /\ Len(instructions) \in Nat
  BY <1>1
<1>3. /\ start[s] \in 0..Len(instructions)
      /\ \A k \in DOMAIN instructions : instructions[k].line_num \in 1..(line_num - 1)
      /\ \A k \in DOMAIN instructions : k <= start[s] <=> instructions[k].line_num < s
  BY DEF SecondPass, Ordered
<1> DEFINE behind == {k \in DOMAIN instructions : instructions[k].line_num >= s}
<1>4. \A k \in DOMAIN instructions : k \in behind <=> k > start[s]
  <2> SUFFICES ASSUME NEW k \in DOMAIN instructions PROVE instructions[k].line_num >= s <=> k > start[s]
    OBVIOUS
  <2>1. PICK line : line = instructions[k].line_num
    OBVIOUS
  <2>2. line \in 1..(line_num - 1) /\ (k <= start[s] <=> line < s)
    BY <1>3, <2>1
  <2>3. line \in Nat /\ s \in Nat /\ k \in Nat /\ start[s] \in Nat
    BY <1>1, <1>2, <1>3, <2>2
  <2>4. line >= s <=> k > start[s]
    BY <2>2, <2>3
  <2> QED BY <2>1, <2>4
<1>5. behind \subseteq DOMAIN instructions
  OBVIOUS
<1>6. Position(s) = IF behind = {} THEN current_address
                    ELSE instructions[CHOOSE k \in behind : \A other \in behind : k <= other].address
  BY DEF Position
<1> HIDE DEF behind
<1>7. CASE behind = {}
  <2>1. start[s] = Len(instructions)
    <3>1. Len(instructions) \in DOMAIN instructions => ~(Len(instructions) > start[s])
      BY <1>4, <1>7
    <3>2. PICK t : t = start[s]
      OBVIOUS
    <3>3. PICK n : n = Len(instructions)
      OBVIOUS
    <3>4. t \in 0..n /\ n \in Nat /\ (n \in 1..n => ~(n > t))
      BY <1>2, <1>3, <3>1, <3>2, <3>3
    <3>5. t = n
      BY <3>4
    <3> QED BY <3>2, <3>3, <3>5
  <2> QED BY <1>6, <1>7, <2>1 DEF Contiguous
<1>8. CASE behind # {}
  <2>1. PICK k \in behind : TRUE
    BY <1>8
  <2>2. k \in DOMAIN instructions /\ k > start[s]
    BY <1>4, <1>5, <2>1
  <2>3. start[s] + 1 \in DOMAIN instructions /\ start[s] + 1 > start[s]
    <3>1. k \in 1..Len(instructions) /\ start[s] \in Nat
      BY <1>2, <1>3, <2>2
    <3>2. start[s] + 1 \in 1..Len(instructions) /\ start[s] + 1 > start[s]
      BY <1>2, <2>2, <3>1
    <3> QED BY <1>2, <3>2
  <2>4. start[s] + 1 \in behind
    BY <1>4, <2>3
  <2>5. \A other \in behind : start[s] + 1 <= other
    BY <1>2, <1>3, <1>4, <1>5
  <2>6. (CHOOSE j \in behind : \A other \in behind : j <= other) = start[s] + 1
    <3>1. \A j \in behind : (\A other \in behind : j <= other) => j = start[s] + 1
      <4> SUFFICES ASSUME NEW j \in behind, \A other \in behind : j <= other PROVE j = start[s] + 1
        OBVIOUS
      <4>1. j <= start[s] + 1 /\ start[s] + 1 <= j
        BY <2>4, <2>5
      <4>2. j \in Nat /\ start[s] \in Nat
        BY <1>2, <1>3, <1>5
      <4> QED BY <4>1, <4>2
    <3> QED BY <2>4, <2>5, <3>1
  <2>7. instructions[start[s] + 1].address = origin + 2 * ((start[s] + 1) - 1)
    BY <2>3 DEF Contiguous
  <2>8. (start[s] + 1) - 1 = start[s]
    BY <1>2, <1>3
  <2> QED BY <1>6, <1>8, <2>6, <2>7, <2>8
<1> QED BY <1>7, <1>8

(* The line of a label, and the label's address. *)
LEMMA LineOfLabel ==
  ASSUME NEW place, NEW last, SymbolsFixed(place, last), NEW name \in DOMAIN symbols
  PROVE  LineOf(name) \in 1..(last - 1) /\ symbols[name] = place[LineOf(name)]
<1>1. Reached = 1..(last - 1)
  BY DEF SymbolsFixed
<1>2. PICK i \in {j \in 1..(last - 1) : HasLabel(source[j])} : name = source[i].label
  BY DEF SymbolsFixed, Labelled
<1>3. \E j \in Reached : HasLabel(source[j]) /\ source[j].label = name
  BY <1>1, <1>2
<1>4. LineOf(name) \in Reached /\ HasLabel(source[LineOf(name)]) /\ source[LineOf(name)].label = name
  BY <1>3 DEF LineOf
<1> QED BY <1>1, <1>4 DEF SymbolsFixed, Labelled

LEMMA PositionOfLabel ==
  ASSUME AssemblyInvariant, NEW place, NEW start, SecondPass(place, start, line_num), Contiguous(place, start),
         NEW name \in DOMAIN symbols, \A j \in Origins : j < LineOf(name)
  PROVE  \E t \in Nat : symbols[name] = origin + 2 * t /\ Position(LineOf(name)) = origin + 2 * t
<1>1. PICK s : s = LineOf(name)
  OBVIOUS
<1>2. SymbolsFixed(place, line_num) /\ line_num \in Nat /\ instructions \in Seq(Assembled)
  BY DEF SecondPass, AssemblyInvariant, AsmTypes
<1>3. s \in 1..(line_num - 1) /\ symbols[name] = place[s] /\ Reached = 1..(line_num - 1)
  BY <1>1, <1>2, LineOfLabel DEF SymbolsFixed
<1>4. s \in 1..line_num /\ s \in Nat
  BY <1>2, <1>3
<1>5. \A j \in s..(line_num - 1) : ~IsOrigin(j)
  <2> SUFFICES ASSUME NEW j \in s..(line_num - 1), IsOrigin(j) PROVE FALSE
    OBVIOUS
  <2>1. j \in 1..(line_num - 1) /\ ~(j < s)
    BY <1>2, <1>3
  <2> QED BY <1>1, <1>3, <2>1 DEF Origins
<1>6. Agrees(s)
  <2> SUFFICES ASSUME NEW j \in Origins PROVE OriginAhead(s)
    BY DEF Agrees
  <2>1. j < s /\ j \in 1..(line_num - 1) /\ IsOrigin(j)
    BY <1>1, <1>3 DEF Origins
  <2>2. j \in 1..(s - 1)
    BY <1>2, <1>3, <2>1
  <2> QED BY <2>1, <2>2 DEF OriginAhead
<1>7. place[s] = origin + 2 * start[s]
  BY <1>4, <1>5, <1>6 DEF Contiguous
<1>8. Position(s) = origin + 2 * start[s]
  BY <1>4, PositionOfLine
<1>9. start[s] \in Nat
  <2>1. start[s] \in 0..Len(instructions) /\ Len(instructions) \in Nat
    BY <1>2, <1>4 DEF SecondPass, Ordered
  <2> QED BY <2>1
<1> QED BY <1>1, <1>3, <1>7, <1>8, <1>9

LEMMA TargetReached ==
  ASSUME AssemblyInvariant, pass = "written", OriginFirst, NEW i \in DOMAIN instructions,
         HasTarget(source[instructions[i].line_num]),
         \A j \in Origins : j < LineOf(Target(source[instructions[i].line_num]))
  PROVE  MemAddress(InAGEX(instructions[i])) =
           (2 * WordAddress(Position(LineOf(Target(source[instructions[i].line_num]))))) % WordSize
<1>1. PICK e : e = instructions[i]
  OBVIOUS
<1>2. PICK name : name = Target(source[e.line_num])
  OBVIOUS
<1>3. /\ name \in DOMAIN symbols
      /\ MemAddress(InAGEX(e)) =
           (2 * WordAddress(e.address) + 2 + 2 * ((symbols[name] - (e.address + 2)) \div 2)) % WordSize
  BY <1>1, <1>2, ContiguousWords DEF SecondPass, TargetsComputed, TargetComputed
<1>4. \E t \in Nat : symbols[name] = origin + 2 * t /\ Position(LineOf(name)) = origin + 2 * t
  BY <1>1, <1>2, <1>3, ContiguousWords, PositionOfLabel
<1>5. PICK t \in Nat : symbols[name] = origin + 2 * t /\ Position(LineOf(name)) = origin + 2 * t
  BY <1>4
<1>6. e.address = origin + 2 * (i - 1)
  BY <1>1, ContiguousWords DEF Contiguous
<1>7. origin \in Nat /\ i \in Nat \ {0}
  <2>1. instructions \in Seq(Assembled) /\ origin \in Nat
    BY WordIsNat DEF AssemblyInvariant, AsmTypes, AsmTypeOK
  <2>2. DOMAIN instructions = 1..Len(instructions) /\ Len(instructions) \in Nat
    BY <2>1
  <2> QED BY <2>1, <2>2
<1>8. 2 * ((origin + 2 * (i - 1)) \div 2) + 2 + 2 * (((origin + 2 * t) - ((origin + 2 * (i - 1)) + 2)) \div 2)
        = 2 * ((origin + 2 * t) \div 2)
  BY <1>7, ThereByWords
<1>9. MemAddress(InAGEX(e)) = (2 * WordAddress(Position(LineOf(name)))) % WordSize
  BY <1>3, <1>5, <1>6, <1>8 DEF WordAddress
<1> QED BY <1>1, <1>2, <1>9

(* An instruction that names a label computes the address of the word assembled there, by
   the microcode and the address adder of the simulator (parse_offset and AGEX_stage). *)
THEOREM LabelsReachHolds == AsmSpec => []LabelsReach
<1>1. AssemblyInvariant => LabelsReach
  BY TargetReached DEF LabelsReach
<1> QED BY <1>1, AssemblyInvariantHolds, PTL
=============================================================================
