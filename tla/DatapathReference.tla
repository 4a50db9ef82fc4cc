------------------------- MODULE DatapathReference --------------------------
(***************************************************************************)
(* The datapath and the shipped microcode against arithmetic: what one     *)
(* instruction computes from its operands, stage after stage, compared     *)
(* with the two's complement meaning of its fields.  A state is one        *)
(* instruction with the operands it was given.                             *)
(***************************************************************************)
EXTENDS Instruction, Ucode, TwosComplement

CONSTANTS
  Codes,     \* instruction words
  Operands   \* what registers, memory words and the program counter hold

ASSUME CodesAssumption == Codes \subseteq Word /\ Operands \subseteq Word

VARIABLES inst, mem

(* The instruction as AGEX leaves it. *)
Computed(ir, npc, sr1, sr2) ==
  LET ucode == CONTROL_STORE[CONTROL_STORE_ADDRESS(ir)]
  IN  Executed(Decoded(Create(ir, npc), ucode, sr1, sr2, 2))

Init ==
  \E ir \in Codes, sr1, sr2 \in Operands :
    /\ inst = Computed(ir, sr2, sr1, sr2)
    /\ mem = [a \in {WordAddress(inst.ADDRESS)} |-> sr1]

(* The same instruction with its operands exchanged. *)
Next ==
  /\ inst' = Computed(inst.IR, inst.NPC, inst.SR2, inst.SR1)
  /\ mem' = [a \in {WordAddress(inst'.ADDRESS)} |-> inst.SR1]

Spec == Init /\ [][Next]_<<inst, mem>>
-----------------------------------------------------------------------------
Opcode == inst.IR \div 4096

(* The conjunction of a pair of words, digit by digit. *)
Conjunction[p \in Word \X Word] ==
  IF p[1] = 0 THEN 0
  ELSE (p[1] % 2) * (p[2] % 2) + 2 * Conjunction[<<p[1] \div 2, p[2] \div 2>>]

(* ADD, AND and XOR take a register or a signed five-bit immediate as second operand. *)
AluComputes ==
  LET immediate == Signed(inst.IR, 5) % WordSize
      operand2  == IF (inst.IR \div 32) % 2 = 1 THEN immediate ELSE inst.SR2
  IN  /\ Opcode = 1 => inst.ALU_RESULT = (inst.SR1 + operand2) % WordSize
      /\ Opcode = 5 => inst.ALU_RESULT = Conjunction[<<inst.SR1, operand2>>]
      /\ Opcode = 9 => inst.ALU_RESULT = inst.SR1 + operand2 - 2 * Conjunction[<<inst.SR1, operand2>>]

(* LSHF multiplies, RSHFL divides the word and RSHFA the signed number by a power of 2. *)
ShifterComputes ==
  LET power == 2^Low(inst.IR, 4)
      kind  == Low(inst.IR \div 16, 2)
  IN  Opcode = 13 =>
        /\ kind = 0 => inst.ALU_RESULT = (inst.SR1 * power) % WordSize
        /\ kind = 1 => inst.ALU_RESULT = inst.SR1 \div power
        /\ kind = 3 => inst.ALU_RESULT = (Signed(inst.SR1, 16) \div power) % WordSize

(* BR, LEA and JSR count words from the next instruction, LDW and STW words and LDB and
   STB bytes from the base register, TRAP words from 0; JMP and JSRR take the register. *)
AddressComputes ==
  LET at(base, offset) == inst.ADDRESS = (base + offset) % WordSize
  IN  /\ Opcode \in {0, 14} => at(inst.NPC, 2 * Signed(inst.IR, 9))
      /\ Opcode = 4 => IF (inst.IR \div 2048) % 2 = 1 THEN at(inst.NPC, 2 * Signed(inst.IR, 11))
                                                     ELSE at(inst.SR1, 0)
      /\ Opcode \in {6, 7} => at(inst.SR1, 2 * Signed(inst.IR, 6))
      /\ Opcode \in {2, 3} => at(inst.SR1, Signed(inst.IR, 6))
      /\ Opcode = 12 => at(inst.SR1, 0)
      /\ Opcode = 15 => at(0, 2 * Low(inst.IR, 8))

(* With the write enables a store is entitled to, a word comes back as it was stored, a
   byte sign-extended, and the other byte of its word is untouched. *)
StoredThenLoaded ==
  LET a      == WordAddress(inst.ADDRESS)
      store  == "DCACHE_RW" \in inst.MEM_CS
      after  == SetBytesAt(mem, a, MDR_IN(inst), WE_LOW(inst, store), WE_HIGH(inst, store))
      loaded == LoadedValue(inst, GetWordAt(after, a))
      odd    == inst.ADDRESS % 2 = 1
      other(m) == IF odd THEN m[a] % 256 ELSE m[a] \div 256
  IN  /\ Opcode = 7 => loaded = inst.SR2
      /\ Opcode = 3 => loaded = Signed(inst.SR2, 8) % WordSize /\ other(after) = other(mem)
      /\ Opcode \notin {3, 7} => after = mem
=============================================================================
