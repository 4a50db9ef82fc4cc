---------------------------- MODULE Disassembler ----------------------------
(***************************************************************************)
(* Disassembler::disassemble: the statement the trace prints for a word.   *)
(* A statement is a mnemonic and its operands: registers, numbers, labels  *)
(* and strings, each a pair of its kind and its value; mnemonics are in    *)
(* capitals, as the assembler reads them.                                  *)
(***************************************************************************)
EXTENDS BitField, Sequences

R(n) == <<"R", n>>
N(n) == <<"#", n>>
L(name) == <<"label", name>>
Text(codes) == <<"string", codes>>
Statement(mnemonic, operands) == [mnemonic |-> mnemonic, operands |-> operands]

(* static_cast<int16_t> *)
int16_t(x) == IF Bit(x, 15) THEN x - WordSize ELSE x

(* range<s,0>().sign_ext() works on the word itself, since parent_type is a reference: what
   is read of the word behind it has the sign in all its upper bits. *)
Offset(ir, s) == int16_t(sign_ext(ir, s))
DR(ir) == R(range(ir, 11, 9))
SR1(ir) == R(range(ir, 8, 6))

(* A mistake the checks must notice: the register is read behind sign_ext(). *)
RegisterOffset9_late(mnemonic, ir) == Statement(mnemonic, <<DR(sign_ext(ir, 8)), N(Offset(ir, 8))>>)

RegisterOffset9(mnemonic, ir) == Statement(mnemonic, <<DR(ir), N(Offset(ir, 8))>>)
BaseOffset6(mnemonic, ir) == Statement(mnemonic, <<DR(ir), SR1(ir), N(Offset(ir, 5))>>)

BranchName == [nzp \in 1..7 |-> <<"BRP", "BRZ", "BRZP", "BRN", "BRNP", "BRNZ", "BRNZP">>[nzp]]
format_branch(ir) ==
  IF range(ir, 11, 9) = 0 THEN Statement("NOP", <<>>)
  ELSE Statement(BranchName[range(ir, 11, 9)], <<N(Offset(ir, 8))>>)

format_operate(mnemonic, ir) ==
  IF mnemonic = "XOR" /\ range(ir, 5, 0) = 63 THEN Statement("NOT", <<DR(ir), SR1(ir)>>)
  ELSE Statement(mnemonic, <<DR(ir), SR1(ir), IF Bit(ir, 5) THEN N(Offset(ir, 4)) ELSE R(range(ir, 2, 0))>>)

ShiftName == [kind \in {0, 1, 3} |-> CASE kind = 0 -> "LSHF" [] kind = 1 -> "RSHFL" [] kind = 3 -> "RSHFA"]
format_shift(ir) ==
  LET kind == range(ir, 5, 4)
  IN  IF kind = 2 THEN Statement("UNKNOWN SHIFT", <<>>)
      ELSE Statement(ShiftName[kind], <<DR(ir), SR1(ir), N(range(ir, 3, 0))>>)

trap_map == [vector \in 32..37 |-> <<"GETC", "OUT", "PUTS", "IN", "PUTSP", "HALT">>[vector - 31]]
Trap(ir) ==
  LET vector == range(ir, 7, 0)
  IN  IF vector \in DOMAIN trap_map THEN Statement(trap_map[vector], <<>>) ELSE Statement("TRAP", <<N(vector)>>)

disassemble(ir) ==
  LET opcode == range(ir, 15, 12)
  IN  CASE opcode = 0  -> format_branch(ir)
        [] opcode = 1  -> format_operate("ADD", ir)
        [] opcode = 2  -> RegisterOffset9("LD", ir)
        [] opcode = 3  -> RegisterOffset9("ST", ir)
        [] opcode = 4  -> IF Bit(ir, 11) THEN Statement("JSR", <<N(Offset(ir, 10))>>)
                                         ELSE Statement("JSRR", <<SR1(ir)>>)
        [] opcode = 5  -> format_operate("AND", ir)
        [] opcode = 6  -> BaseOffset6("LDR", ir)
        [] opcode = 7  -> BaseOffset6("STR", ir)
        [] opcode = 8  -> Statement("RTI", <<>>)
        [] opcode = 9  -> format_operate("XOR", ir)
        [] opcode = 10 -> RegisterOffset9("LDI", ir)
        [] opcode = 11 -> RegisterOffset9("STI", ir)
        [] opcode = 12 -> IF range(ir, 8, 6) = 7 THEN Statement("RET", <<>>) ELSE Statement("JMP", <<SR1(ir)>>)
        [] opcode = 13 -> format_shift(ir)
        [] opcode = 14 -> RegisterOffset9("LEA", ir)
        [] opcode = 15 -> Trap(ir)
=============================================================================
