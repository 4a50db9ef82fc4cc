----------------------- MODULE DatapathReferenceProofs -----------------------
(***************************************************************************)
(* What the datapath computes under the shipped microcode, for every       *)
(* instruction word and all operands: the addresses, the ALU, the shifter  *)
(* and the byte lanes.                                                     *)
(***************************************************************************)
EXTENDS DatapathReference, DatapathProofs, WellFoundedInduction

(* The instruction as AGEX leaves it, field by field. *)
LEMMA ComputedFields ==
  ASSUME NEW ir \in Word, NEW npc \in Word, NEW sr1 \in Word, NEW sr2 \in Word
  PROVE  LET ucode == CONTROL_STORE[CONTROL_STORE_ADDRESS(ir)]
             i     == Computed(ir, npc, sr1, sr2)
         IN  /\ i.IR = ir /\ i.NPC = npc /\ i.SR1 = sr1 /\ i.SR2 = sr2
             /\ i.AGEX_CS = ToAGEX_CS(ucode) /\ i.MEM_CS = ToMEM_CS(ToAGEX_CS(ucode))
             /\ i.ADDRESS = MemAddress(i) /\ i.ALU_RESULT = AluShifterOutput(i)
             /\ i \in Instruction
<1> DEFINE ucode == CONTROL_STORE[CONTROL_STORE_ADDRESS(ir)]
           d == Decoded(Create(ir, npc), ucode, sr1, sr2, 2)
           i == Computed(ir, npc, sr1, sr2)
<1>1. ucode \in ControlWord /\ ToAGEX_CS(ucode) \in ControlWord /\ ToMEM_CS(ToAGEX_CS(ucode)) \in ControlWord
  BY RowsAreControlWords, SignalsArrive
<1> HIDE DEF ucode
<1>5. /\ d.IR = ir /\ d.NPC = npc /\ d.SR1 = sr1 /\ d.SR2 = sr2 /\ d.AGEX_CS = ToAGEX_CS(ucode)
      /\ d \in Instruction
  BY DecodedFields DEF ucode
<1> HIDE DEF d
<1>6. MemAddress(d) \in Word /\ AluShifterOutput(d) \in Word
  BY <1>5, StageValues
<1>7. i = [d EXCEPT !.MEM_CS = ToMEM_CS(d.AGEX_CS), !.ADDRESS = MemAddress(d), !.ALU_RESULT = AluShifterOutput(d)]
  BY DEF Computed, Executed, d, ucode
<1> HIDE DEF i
<1>8. /\ i.IR = d.IR /\ i.NPC = d.NPC /\ i.SR1 = d.SR1 /\ i.SR2 = d.SR2
      /\ i.AGEX_CS = d.AGEX_CS /\ i.MEM_CS = ToMEM_CS(d.AGEX_CS)
      /\ i.ADDRESS = MemAddress(d) /\ i.ALU_RESULT = AluShifterOutput(d)
  BY <1>5, <1>7 DEF Instruction
<1>9. i \in Instruction
  BY <1>1, <1>5, <1>6, <1>7 DEF Instruction
<1>10. MemAddress(i) = MemAddress(d)
  BY <1>8 DEF MemAddress, AddressOffset
<1>11. AluShifterOutput(i) = AluShifterOutput(d)
  BY <1>8 DEF AluShifterOutput, Alu, Shift
<1> QED BY <1>5, <1>8, <1>9, <1>10, <1>11 DEF ucode, i

-----------------------------------------------------------------------------
(* The state is an instruction with some operands, and a memory of one word at its address. *)
SomeInstruction ==
  \E ir, npc, sr1, sr2, value \in Word :
    /\ inst = Computed(ir, npc, sr1, sr2)
    /\ mem = [a \in {WordAddress(inst.ADDRESS)} |-> value]

LEMMA SomeInstructionHolds == Spec => []SomeInstruction
<1>1. Init => SomeInstruction
  <2> SUFFICES ASSUME Init PROVE SomeInstruction
    OBVIOUS
  <2>1. PICK ir \in Codes, sr1 \in Operands, sr2 \in Operands :
          inst = Computed(ir, sr2, sr1, sr2) /\ mem = [a \in {WordAddress(inst.ADDRESS)} |-> sr1]
    BY DEF Init
  <2>2. ir \in Word /\ sr1 \in Word /\ sr2 \in Word
    BY CodesAssumption
  <2> QED BY <2>1, <2>2 DEF SomeInstruction
<1>2. SomeInstruction /\ [Next]_<<inst, mem>> => SomeInstruction'
  <2> SUFFICES ASSUME SomeInstruction, [Next]_<<inst, mem>> PROVE SomeInstruction'
    OBVIOUS
  <2>1. PICK ir \in Word, npc \in Word, sr1 \in Word, sr2 \in Word : inst = Computed(ir, npc, sr1, sr2)
    BY DEF SomeInstruction
  <2>2. inst.IR \in Word /\ inst.NPC \in Word /\ inst.SR1 \in Word /\ inst.SR2 \in Word
    BY <2>1, ComputedFields, SMTT(60)
  <2>3. CASE Next
    <3>1. /\ inst' = Computed(inst.IR, inst.NPC, inst.SR2, inst.SR1)
          /\ mem' = [a \in {WordAddress(inst'.ADDRESS)} |-> inst.SR1]
      BY <2>3 DEF Next
    <3> QED BY <2>2, <3>1 DEF SomeInstruction
  <2>4. CASE UNCHANGED <<inst, mem>>
    BY <2>4 DEF SomeInstruction
  <2> QED BY <2>3, <2>4
<1> QED BY <1>1, <1>2, PTL DEF Spec
-----------------------------------------------------------------------------
(* The effective address of every instruction is the sum the ISA asks for. *)
LEMMA AddressFollows == SomeInstruction => AddressComputes
<1> SUFFICES ASSUME SomeInstruction PROVE AddressComputes
  OBVIOUS
<1>1. PICK ir \in Word, npc \in Word, sr1 \in Word, sr2 \in Word : inst = Computed(ir, npc, sr1, sr2)
  BY DEF SomeInstruction
<1> DEFINE ucode == CONTROL_STORE[CONTROL_STORE_ADDRESS(ir)]
<1>2. /\ inst.IR = ir /\ inst.AGEX_CS = ToAGEX_CS(ucode) /\ inst.ADDRESS = MemAddress(inst)
      /\ inst \in Instruction
  BY <1>1, ComputedFields, SMTT(60)
<1>3. ucode \in ControlWord
  BY RowsAreControlWords
<1>4. \A signal \in {"ADDR1MUX", "ADDR2MUX1", "ADDR2MUX0", "LSHF1", "ADDRESSMUX"} :
        signal \in inst.AGEX_CS <=> signal \in ucode
  BY <1>2, <1>3, SignalsArrive
<1> HIDE DEF ucode
<1> DEFINE at(base, offset) == inst.ADDRESS = (base + offset) % WordSize
<1>5. Opcode = ir \div 4096
  BY <1>2 DEF Opcode
<1>6. Opcode \in {0, 14} => at(inst.NPC, 2 * Signed(inst.IR, 9))
  <2>1. Opcode \in {0, 14} => ucode = BR \/ ucode = LEA
    BY <1>5, Microcode DEF ucode
  <2> QED BY <1>2, <1>4, <2>1, AdderSignals, AdderOutput
<1>7. Opcode = 4 => IF (inst.IR \div 2048) % 2 = 1 THEN at(inst.NPC, 2 * Signed(inst.IR, 11)) ELSE at(inst.SR1, 0)
  <2>1. Opcode = 4 => ucode = IF (inst.IR \div 2048) % 2 = 1 THEN JSR ELSE JSRR
    BY <1>2, <1>5, Microcode DEF ucode
  <2> QED BY <1>2, <1>4, <2>1, AdderSignals, AdderOutput
<1>8. Opcode \in {6, 7} => at(inst.SR1, 2 * Signed(inst.IR, 6))
  <2>1. Opcode \in {6, 7} => ucode = LDW \/ ucode = STW
    BY <1>5, Microcode DEF ucode
  <2> QED BY <1>2, <1>4, <2>1, AdderSignals, AdderOutput
<1>9. Opcode \in {2, 3} => at(inst.SR1, Signed(inst.IR, 6))
  <2>1. Opcode \in {2, 3} => ucode = LDB \/ ucode = STB
    BY <1>5, Microcode DEF ucode
  <2> QED BY <1>2, <1>4, <2>1, AdderSignals, AdderOutput
<1>10. Opcode = 12 => at(inst.SR1, 0)
  <2>1. Opcode = 12 => ucode = JMP
    BY <1>5, Microcode DEF ucode
  <2> QED BY <1>2, <1>4, <2>1, AdderSignals, AdderOutput
<1>11. Opcode = 15 => at(0, 2 * Low(inst.IR, 8))
  <2>1. Opcode = 15 => ucode = TRAP
    BY <1>5, Microcode DEF ucode
  <2> QED BY <1>2, <1>4, <2>1, AdderSignals, AdderOutput
<1> QED BY <1>6, <1>7, <1>8, <1>9, <1>10, <1>11 DEF AddressComputes

-----------------------------------------------------------------------------
(* The byte lanes: a number is given by its bits, the high byte is what >> 8 moves down
   and << 8 moves up, and a word put together from two has the low byte of the one and
   the high byte of the other. *)
LEMMA SameBits ==
  ASSUME NEW f, NEW g, \A i \in BitIndex : f[i] <=> g[i]
  PROVE  to_num(f) = to_num(g) /\ From8(f) = From8(g)
<1>1. /\ (f[0] <=> g[0]) /\ (f[1] <=> g[1]) /\ (f[2] <=> g[2]) /\ (f[3] <=> g[3])
      /\ (f[4] <=> g[4]) /\ (f[5] <=> g[5]) /\ (f[6] <=> g[6]) /\ (f[7] <=> g[7])
      /\ (f[8] <=> g[8]) /\ (f[9] <=> g[9]) /\ (f[10] <=> g[10]) /\ (f[11] <=> g[11])
      /\ (f[12] <=> g[12]) /\ (f[13] <=> g[13]) /\ (f[14] <=> g[14]) /\ (f[15] <=> g[15])
  BY DEF BitIndex
<1> QED BY <1>1, SMTT(60) DEF to_num, Weighted, Digit, From8, From9, From10, From11, From12, From13, From14, From15

LEMMA HighByte ==
  ASSUME NEW x \in Word
  PROVE  ShiftRight(x, 8) = x \div 256 /\ ShiftLeft(x, 8) \div 256 = Low(x, 8)
<1> DEFINE b == [i \in BitIndex |-> Bit(x, i)]
           r == [i \in BitIndex |-> i + 8 <= 15 /\ Bit(x, i + 8)]
           l == [i \in BitIndex |-> i >= 8 /\ Bit(x, i - 8)]
           z == [i \in BitIndex |-> i <= 7 /\ Bit(x, i)]
<1>1. \A i \in 0..7 : (r[i] <=> b[i + 8]) /\ (l[i + 8] <=> b[i]) /\ (z[i] <=> b[i]) /\ ~l[i]
  <2>1. \A i \in 0..7 : /\ i \in BitIndex /\ i + 8 \in BitIndex /\ i + 8 <= 15 /\ i + 8 >= 8
                        /\ (i + 8) - 8 = i /\ i <= 7 /\ ~(i >= 8)
    BY DEF BitIndex
  <2>2. \A i \in 0..7 : l[i + 8] <=> Bit(x, (i + 8) - 8)
    BY <2>1, Zenon
  <2> QED BY <2>1, <2>2, Zenon
<1>2. \A i \in 8..15 : ~r[i] /\ ~z[i]
  <2>1. \A i \in 8..15 : i \in BitIndex /\ ~(i + 8 <= 15) /\ ~(i <= 7)
    BY DEF BitIndex
  <2> QED BY <2>1, Zenon
<1>3. to_num(b) = x
  BY NumberOfBits
<1>4. ShiftRight(x, 8) = to_num(r) /\ ShiftLeft(x, 8) = to_num(l) /\ zero_ext(x, 7) = to_num(z)
  BY DEF ShiftRight, ShiftLeft, zero_ext
<1> HIDE DEF b, r, l, z
<1>5. /\ (r[0] <=> b[8]) /\ (r[1] <=> b[9]) /\ (r[2] <=> b[10]) /\ (r[3] <=> b[11])
      /\ (r[4] <=> b[12]) /\ (r[5] <=> b[13]) /\ (r[6] <=> b[14]) /\ (r[7] <=> b[15])
      /\ (l[8] <=> z[0]) /\ (l[9] <=> z[1]) /\ (l[10] <=> z[2]) /\ (l[11] <=> z[3])
      /\ (l[12] <=> z[4]) /\ (l[13] <=> z[5]) /\ (l[14] <=> z[6]) /\ (l[15] <=> z[7])
  BY <1>1
<1>6. to_num(r) = From8(b)
  BY <1>2, <1>5, SMTT(60) DEF to_num, Weighted, Digit, From8, From9, From10, From11, From12, From13, From14, From15
<1>7. From8(l) = to_num(z)
  BY <1>2, <1>5, SMTT(60) DEF to_num, Weighted, Digit, From8, From9, From10, From11, From12, From13, From14, From15
<1> QED BY <1>3, <1>4, <1>6, <1>7, QuotientsOfNumber, LowEightBits

LEMMA TwoBytes ==
  ASSUME NEW low \in Word, NEW high \in Word, NEW b,
         \A i \in BitIndex : b[i] <=> IF i < 8 THEN Bit(low, i) ELSE Bit(high, i)
  PROVE  Low(to_num(b), 8) = Low(low, 8) /\ to_num(b) \div 256 = high \div 256
<1> DEFINE n == to_num(b)
           h == [i \in BitIndex |-> Bit(high, i)]
           f == [i \in BitIndex |-> i <= 7 /\ Bit(n, i)]
           g == [i \in BitIndex |-> i <= 7 /\ Bit(low, i)]
<1>1. n \in Word
  BY ToNumWord
<1>2. \A i \in BitIndex : Bit(n, i) <=> b[i]
  BY BitsOfNumber
<1> HIDE DEF n
<1>3. Low(n, 8) = Low(low, 8)
  <2>1. \A i \in BitIndex : i <= 7 => i < 8
    BY DEF BitIndex
  <2>2. \A i \in BitIndex : f[i] <=> g[i]
    BY <1>2, <2>1, Zenon
  <2>3. zero_ext(n, 7) = to_num(f) /\ zero_ext(low, 7) = to_num(g)
    BY DEF zero_ext
  <2> HIDE DEF f, g
  <2> QED BY <1>1, <2>2, <2>3, SameBits, LowEightBits
<1>4. n \div 256 = high \div 256
  <2>1. \A i \in 8..15 : i \in BitIndex /\ ~(i < 8)
    BY DEF BitIndex
  <2>2. \A i \in 8..15 : b[i] <=> h[i]
    BY <2>1, Zenon
  <2>3. to_num(h) = high
    BY NumberOfBits
  <2> HIDE DEF h
  <2>4. From8(b) = From8(h)
    BY <2>2 DEF Weighted, Digit, From8, From9, From10, From11, From12, From13, From14, From15
  <2> QED BY <2>3, <2>4, QuotientsOfNumber DEF n
<1> QED BY <1>3, <1>4 DEF n

(* One word of the memory, written with either write enable or both. *)
LEMMA WordStored ==
  ASSUME NEW a, NEW old \in Word, NEW word \in Word, NEW w0 \in BOOLEAN, NEW w1 \in BOOLEAN,
         NEW m, m = [c \in {a} |-> old]
  PROVE  LET new == GetWordAt(SetBytesAt(m, a, word, w0, w1), a)
         IN  /\ new \in Word /\ SetBytesAt(m, a, word, w0, w1)[a] = new
             /\ w0 /\ w1 => new = word
             /\ w0 /\ ~w1 => Low(new, 8) = Low(word, 8) /\ new \div 256 = old \div 256
             /\ ~w0 /\ w1 => Low(new, 8) = Low(old, 8) /\ new \div 256 = word \div 256
             /\ ~w0 /\ ~w1 => SetBytesAt(m, a, word, w0, w1) = m
<1> DEFINE low == IF w0 THEN word ELSE old
           high == IF w1 THEN word ELSE old
           b == [i \in BitIndex |-> IF i < 8 THEN Bit(low, i) ELSE Bit(high, i)]
           after == SetBytesAt(m, a, word, w0, w1)
<1>1. low \in Word /\ high \in Word
  OBVIOUS
<1>2. a \in DOMAIN m /\ m[a] = old /\ GetWordAt(m, a) = old
  BY DEF GetWordAt
<1>3. w0 \/ w1 => after = [c \in DOMAIN m \cup {a} |-> IF c = a THEN to_num(b) ELSE m[c]]
  BY <1>2 DEF SetBytesAt
<1>4. w0 \/ w1 => a \in DOMAIN after /\ after[a] = to_num(b)
  BY <1>3
<1>5. ~w0 /\ ~w1 => after = m
  BY DEF SetBytesAt
<1>6. \A i \in BitIndex : b[i] <=> IF i < 8 THEN Bit(low, i) ELSE Bit(high, i)
  BY Zenon
<1> HIDE DEF after
<1>7. w0 \/ w1 => GetWordAt(after, a) = to_num(b)
  BY <1>4 DEF GetWordAt
<1>8. w0 /\ w1 => to_num(b) = word
  <2> SUFFICES ASSUME w0, w1 PROVE to_num(b) = word
    OBVIOUS
  <2>1. \A i \in BitIndex : b[i] <=> Bit(word, i)
    BY <1>6
  <2> HIDE DEF b
  <2> QED BY <2>1, NumberOfBits
<1> HIDE DEF b, low, high
<1>9. to_num(b) \in Word
  BY ToNumWord
<1>10. Low(to_num(b), 8) = Low(low, 8) /\ to_num(b) \div 256 = high \div 256
  BY <1>1, <1>6, TwoBytes
<1>11. w0 /\ ~w1 => Low(to_num(b), 8) = Low(word, 8) /\ to_num(b) \div 256 = old \div 256
  BY <1>10 DEF low, high
<1>12. ~w0 /\ w1 => Low(to_num(b), 8) = Low(old, 8) /\ to_num(b) \div 256 = word \div 256
  BY <1>10 DEF low, high
<1> QED BY <1>2, <1>4, <1>5, <1>7, <1>8, <1>9, <1>11, <1>12 DEF after

(* The signed byte of a word is that of its low byte, however the word was cut before. *)
LEMMA SignedByte ==
  ASSUME NEW x \in Word, NEW y \in Word, Low(y, 8) = Low(x, 8)
  PROVE  sign_ext(y, 7) = Signed(x, 8) % WordSize
<1>1. Signed(y, 8) = Signed(x, 8)
  BY DEF Signed
<1> QED BY <1>1, LowEightBits

LEMMA LowOfLow ==
  ASSUME NEW x \in Word
  PROVE  Low(x, 8) \in Word /\ Low(Low(x, 8), 8) = Low(x, 8) /\ Low(x, 8) = x % 256 /\ x \div 256 \in Word
<1>1. 2^8 = 256 /\ x \in Nat /\ x < 65536
  BY WordIsNat, Sizes
<1>2. x % 256 \in Nat /\ x % 256 < 256 /\ (x % 256) % 256 = x % 256
  BY <1>1
<1>3. x \div 256 \in Nat /\ x \div 256 < 65536
  BY <1>1
<1>4. \A n \in Nat : n < 65536 => n \in Word
  BY Sizes DEF Word
<1>5. x % 256 \in Word /\ x \div 256 \in Word
  BY <1>2, <1>3, <1>4
<1>6. Low(x, 8) = x % 256 /\ Low(Low(x, 8), 8) = (x % 256) % 256
  BY <1>1 DEF Low
<1> QED BY <1>2, <1>5, <1>6

(* What a store leaves in memory is what a load of its size brings back. *)
LEMMA StoredFollows == SomeInstruction => StoredThenLoaded
<1> SUFFICES ASSUME SomeInstruction PROVE StoredThenLoaded
  OBVIOUS
<1>1. PICK ir \in Word, npc \in Word, sr1 \in Word, sr2 \in Word : inst = Computed(ir, npc, sr1, sr2)
  BY DEF SomeInstruction
<1> DEFINE ucode == CONTROL_STORE[CONTROL_STORE_ADDRESS(ir)]
           a == WordAddress(inst.ADDRESS)
           store == "DCACHE_RW" \in inst.MEM_CS
           after == SetBytesAt(mem, a, MDR_IN(inst), WE_LOW(inst, store), WE_HIGH(inst, store))
           new == GetWordAt(after, a)
           byte == "DATA_SIZE" \notin inst.MEM_CS
           odd == inst.ADDRESS % 2 = 1
<1>2. /\ inst.IR = ir /\ inst.AGEX_CS = ToAGEX_CS(ucode) /\ inst.MEM_CS = ToMEM_CS(ToAGEX_CS(ucode))
      /\ inst.ALU_RESULT = AluShifterOutput(inst) /\ inst \in Instruction
  BY <1>1, ComputedFields, SMTT(60)
<1>3. ucode \in ControlWord
  BY RowsAreControlWords
<1>4. /\ \A signal \in {"SR2MUX", "ALUK1", "ALUK0", "ALU_RESULTMUX"} : signal \in inst.AGEX_CS <=> signal \in ucode
      /\ store <=> "DCACHE_RW" \in ucode
      /\ byte <=> "DATA_SIZE" \notin ucode
  BY <1>2, <1>3, SignalsArrive
<1>5. Opcode = ir \div 4096
  BY <1>2 DEF Opcode
<1>6. /\ Opcode = 3 => ucode = STB
      /\ Opcode = 7 => ucode = STW
      /\ Opcode \notin {3, 7} => "DCACHE_RW" \notin ucode
  BY <1>5, Microcode, StoreSignals
<1>7. inst.ADDRESS \in Word /\ inst.ALU_RESULT \in Word /\ inst.SR2 \in Word
  BY <1>2 DEF Instruction
<1>8. Bit(inst.ADDRESS, 0) <=> odd
  <2>1. inst.ADDRESS \in Nat
    BY <1>7, WordIsNat
  <2>2. inst.ADDRESS \div 1 = inst.ADDRESS
    BY <2>1
  <2> QED BY <2>2, Powers DEF Bit
<1> HIDE DEF ucode
<1>9. Opcode \in {3, 7} => inst.ALU_RESULT = inst.SR2 /\ store /\ (byte <=> Opcode = 3)
  <2> SUFFICES ASSUME Opcode \in {3, 7} PROVE inst.ALU_RESULT = inst.SR2 /\ store /\ (byte <=> Opcode = 3)
    OBVIOUS
  <2>1. /\ {"ALUK1", "ALUK0", "ALU_RESULTMUX"} \subseteq inst.AGEX_CS /\ "SR2MUX" \notin inst.AGEX_CS
        /\ store /\ (byte <=> Opcode = 3)
    BY <1>4, <1>6, StoreSignals
  <2>2. AluShifterOutput(inst) = inst.SR2
    BY <2>1 DEF AluShifterOutput, Alu, Get_ALUK, Mux
  <2> QED BY <1>2, <2>1, <2>2
<1>10. /\ byte /\ odd => MDR_IN(inst) = ShiftLeft(inst.ALU_RESULT, 8)
       /\ byte /\ ~odd => MDR_IN(inst) = zero_ext(inst.ALU_RESULT, 7)
       /\ ~byte => MDR_IN(inst) = inst.ALU_RESULT
       /\ MDR_IN(inst) \in Word
  <2>1. ShiftLeft(inst.ALU_RESULT, 8) \in Word /\ zero_ext(inst.ALU_RESULT, 7) \in Word
    BY <1>7, WordOperators
  <2> QED BY <1>7, <1>8, <2>1 DEF MDR_IN
<1>11. /\ WE_LOW(inst, store) = (store /\ (~byte \/ ~odd))
       /\ WE_HIGH(inst, store) = (store /\ (~byte \/ odd))
  BY <1>8 DEF WE_LOW, WE_HIGH
<1>12. PICK value \in Word : mem = [c \in {a} |-> value]
  BY DEF SomeInstruction
<1>13. /\ new \in Word /\ after[a] = new /\ mem[a] = value
       /\ store /\ ~byte => new = MDR_IN(inst)
       /\ store /\ byte /\ ~odd => Low(new, 8) = Low(MDR_IN(inst), 8) /\ new \div 256 = value \div 256
       /\ store /\ byte /\ odd => Low(new, 8) = Low(value, 8) /\ new \div 256 = MDR_IN(inst) \div 256
       /\ ~store => after = mem
  <2> DEFINE w0 == WE_LOW(inst, store)
             w1 == WE_HIGH(inst, store)
             word == MDR_IN(inst)
  <2>1. w0 \in BOOLEAN /\ w1 \in BOOLEAN /\ word \in Word /\ mem = [c \in {a} |-> value] /\ mem[a] = value
    BY <1>12, <1>10 DEF WE_LOW, WE_HIGH
  <2>2. /\ store /\ ~byte => w0 /\ w1
        /\ store /\ byte /\ ~odd => w0 /\ ~w1
        /\ store /\ byte /\ odd => ~w0 /\ w1
        /\ ~store => ~w0 /\ ~w1
    BY <1>11
  <2> HIDE DEF w0, w1, word, a
  <2>3. /\ GetWordAt(SetBytesAt(mem, a, word, w0, w1), a) \in Word
        /\ SetBytesAt(mem, a, word, w0, w1)[a] = GetWordAt(SetBytesAt(mem, a, word, w0, w1), a)
        /\ w0 /\ w1 => GetWordAt(SetBytesAt(mem, a, word, w0, w1), a) = word
        /\ w0 /\ ~w1 => /\ Low(GetWordAt(SetBytesAt(mem, a, word, w0, w1), a), 8) = Low(word, 8)
                        /\ GetWordAt(SetBytesAt(mem, a, word, w0, w1), a) \div 256 = value \div 256
        /\ ~w0 /\ w1 => /\ Low(GetWordAt(SetBytesAt(mem, a, word, w0, w1), a), 8) = Low(value, 8)
                        /\ GetWordAt(SetBytesAt(mem, a, word, w0, w1), a) \div 256 = word \div 256
        /\ ~w0 /\ ~w1 => SetBytesAt(mem, a, word, w0, w1) = mem
    BY <2>1, WordStored
  <2> QED BY <2>1, <2>2, <2>3 DEF w0, w1, word
<1> HIDE DEF after, new, store, byte, odd, a
<1>14. Opcode = 7 => LoadedValue(inst, new) = inst.SR2
  BY <1>9, <1>10, <1>13 DEF LoadedValue, byte
<1>15. ASSUME Opcode = 3, odd
       PROVE  LoadedValue(inst, new) = Signed(inst.SR2, 8) % WordSize /\ new % 256 = value % 256
  <2>1. Low(new, 8) = Low(value, 8) /\ new \div 256 = Low(inst.SR2, 8)
    BY <1>7, <1>9, <1>10, <1>13, <1>15, HighByte
  <2>2. LoadedValue(inst, new) = sign_ext(ShiftRight(new, 8), 7)
    BY <1>8, <1>9, <1>15 DEF LoadedValue, byte
  <2>3. ShiftRight(new, 8) = Low(inst.SR2, 8)
    BY <1>13, <2>1, HighByte
  <2> QED BY <1>7, <1>13, <2>1, <2>2, <2>3, SignedByte, LowOfLow
<1>16. ASSUME Opcode = 3, ~odd
       PROVE  LoadedValue(inst, new) = Signed(inst.SR2, 8) % WordSize /\ new \div 256 = value \div 256
  <2>1. Low(new, 8) = Low(zero_ext(inst.SR2, 7), 8) /\ new \div 256 = value \div 256
    BY <1>9, <1>10, <1>13, <1>16
  <2>2. Low(new, 8) = Low(inst.SR2, 8)
    BY <1>7, <2>1, LowEightBits, LowOfLow
  <2>3. LoadedValue(inst, new) = sign_ext(new, 7)
    BY <1>8, <1>9, <1>16 DEF LoadedValue, byte
  <2> QED BY <1>7, <1>13, <2>1, <2>2, <2>3, SignedByte
<1>17. Opcode \notin {3, 7} => after = mem
  BY <1>4, <1>6, <1>13
<1> QED BY <1>13, <1>14, <1>15, <1>16, <1>17 DEF StoredThenLoaded, after, new, store, odd, a
-----------------------------------------------------------------------------
(* The conjunction, digit by digit: & does on the last digits and on the halves what the
   reference definition says, and that determines a function on pairs of words. *)
LEMMA LastDigit ==
  ASSUME NEW x \in Word
  PROVE  /\ x \div 2 \in Word /\ x \in Nat /\ x < 65536
         /\ Digit(Bit(x, 0)) = x % 2
         /\ \A i \in 0..14 : Bit(x \div 2, i) <=> Bit(x, i + 1)
         /\ ~Bit(x \div 2, 15)
         /\ x = 0 => \A i \in BitIndex : ~Bit(x, i)
<1> DEFINE h == x \div 2
<1>1. x \in Nat /\ x < 65536
  BY WordIsNat, Sizes
<1>2. h \in Nat /\ h < 32768
  BY <1>1
<1>3. h \in Word
  BY <1>2, Sizes DEF Word
<1>4. /\ h \div 1 = x \div 2 /\ h \div 2 = x \div 4 /\ h \div 4 = x \div 8
      /\ h \div 8 = x \div 16 /\ h \div 16 = x \div 32 /\ h \div 32 = x \div 64
      /\ h \div 64 = x \div 128 /\ h \div 128 = x \div 256 /\ h \div 256 = x \div 512
      /\ h \div 512 = x \div 1024 /\ h \div 1024 = x \div 2048 /\ h \div 2048 = x \div 4096
      /\ h \div 4096 = x \div 8192 /\ h \div 8192 = x \div 16384 /\ h \div 16384 = x \div 32768
      /\ h \div 32768 = 0
  BY <1>1
<1> HIDE DEF h
<1>5. \A i \in 0..14 : Bit(h, i) <=> Bit(x, i + 1)
  <2>1. /\ (Bit(h, 0) <=> Bit(x, 1)) /\ (Bit(h, 1) <=> Bit(x, 2)) /\ (Bit(h, 2) <=> Bit(x, 3))
        /\ (Bit(h, 3) <=> Bit(x, 4)) /\ (Bit(h, 4) <=> Bit(x, 5)) /\ (Bit(h, 5) <=> Bit(x, 6))
        /\ (Bit(h, 6) <=> Bit(x, 7)) /\ (Bit(h, 7) <=> Bit(x, 8)) /\ (Bit(h, 8) <=> Bit(x, 9))
        /\ (Bit(h, 9) <=> Bit(x, 10)) /\ (Bit(h, 10) <=> Bit(x, 11)) /\ (Bit(h, 11) <=> Bit(x, 12))
        /\ (Bit(h, 12) <=> Bit(x, 13)) /\ (Bit(h, 13) <=> Bit(x, 14)) /\ (Bit(h, 14) <=> Bit(x, 15))
    BY <1>4, Powers DEF Bit
  <2> QED BY <2>1
<1>6. ~Bit(h, 15)
  BY <1>4, Powers DEF Bit
<1>7. Digit(Bit(x, 0)) = x % 2
  <2>1. Bit(x, 0) <=> x % 2 = 1
    BY <1>1, Powers DEF Bit
  <2>2. x % 2 = 0 \/ x % 2 = 1
    BY <1>1
  <2> QED BY <2>1, <2>2 DEF Digit, Weighted
<1>8. x = 0 => \A i \in BitIndex : ~Bit(x, i)
  <2>1. \A k \in Nat : k > 0 => (0 \div k) % 2 = 0
    OBVIOUS
  <2>2. x = 0 => /\ ~Bit(x, 0) /\ ~Bit(x, 1) /\ ~Bit(x, 2) /\ ~Bit(x, 3) /\ ~Bit(x, 4) /\ ~Bit(x, 5) /\ ~Bit(x, 6) /\ ~Bit(x, 7)
                  /\ ~Bit(x, 8) /\ ~Bit(x, 9) /\ ~Bit(x, 10) /\ ~Bit(x, 11) /\ ~Bit(x, 12) /\ ~Bit(x, 13) /\ ~Bit(x, 14) /\ ~Bit(x, 15)
    BY <2>1, Powers DEF Bit
  <2> QED BY <2>2 DEF BitIndex
<1> QED BY <1>1, <1>3, <1>5, <1>6, <1>7, <1>8 DEF h

LEMMA AndByHalves ==
  ASSUME NEW x \in Word, NEW y \in Word
  PROVE  And(x, y) = IF x = 0 THEN 0 ELSE (x % 2) * (y % 2) + 2 * And(x \div 2, y \div 2)
<1> DEFINE f == [i \in BitIndex |-> Bit(x, i) /\ Bit(y, i)]
           g == [i \in BitIndex |-> Bit(x \div 2, i) /\ Bit(y \div 2, i)]
<1>1. And(x, y) = to_num(f) /\ And(x \div 2, y \div 2) = to_num(g)
  BY DEF And
<1>2. \A i \in 0..14 : g[i] <=> f[i + 1]
  <2>1. \A i \in 0..14 : i \in BitIndex /\ i + 1 \in BitIndex
    BY DEF BitIndex
  <2>2. \A i \in 0..14 : Bit(x \div 2, i) <=> Bit(x, i + 1)
    BY LastDigit
  <2>3. \A i \in 0..14 : Bit(y \div 2, i) <=> Bit(y, i + 1)
    BY LastDigit
  <2> QED BY <2>1, <2>2, <2>3, Zenon
<1>3. ~g[15]
  <2>1. 15 \in BitIndex
    BY DEF BitIndex
  <2>2. ~Bit(x \div 2, 15)
    BY LastDigit
  <2> QED BY <2>1, <2>2, Zenon
<1>4. Digit(f[0]) = (x % 2) * (y % 2)
  <2>1. f[0] <=> Bit(x, 0) /\ Bit(y, 0)
    <3>1. 0 \in BitIndex
      BY DEF BitIndex
    <3> QED BY <3>1, Zenon
  <2>2. Digit(Bit(x, 0)) = x % 2 /\ Digit(Bit(y, 0)) = y % 2
    BY LastDigit
  <2> HIDE DEF f
  <2>3. CASE Bit(x, 0)
    <3>1. x % 2 = 1 /\ y % 2 \in Int
      BY <2>2, <2>3, LastDigit DEF Digit, Weighted
    <3>2. Digit(f[0]) = Digit(Bit(y, 0))
      BY <2>1, <2>3 DEF Digit, Weighted
    <3> QED BY <3>1, <3>2, <2>2
  <2>4. CASE ~Bit(x, 0)
    <3>1. x % 2 = 0 /\ y % 2 \in Int
      BY <2>2, <2>4, LastDigit DEF Digit, Weighted
    <3>2. Digit(f[0]) = 0
      BY <2>1, <2>4 DEF Digit, Weighted
    <3> QED BY <3>1, <3>2
  <2> QED BY <2>3, <2>4
<1>5. x = 0 => \A i \in BitIndex : ~f[i]
  <2>1. x = 0 => \A i \in BitIndex : ~Bit(x, i)
    BY LastDigit
  <2> QED BY <2>1, Zenon
<1> HIDE DEF f, g
<1>6. to_num(g) = From1(f)
  <2>1. /\ (g[0] <=> f[1]) /\ (g[1] <=> f[2]) /\ (g[2] <=> f[3]) /\ (g[3] <=> f[4])
        /\ (g[4] <=> f[5]) /\ (g[5] <=> f[6]) /\ (g[6] <=> f[7]) /\ (g[7] <=> f[8])
        /\ (g[8] <=> f[9]) /\ (g[9] <=> f[10]) /\ (g[10] <=> f[11]) /\ (g[11] <=> f[12])
        /\ (g[12] <=> f[13]) /\ (g[13] <=> f[14]) /\ (g[14] <=> f[15])
    BY <1>2
  <2> QED BY <1>3, <2>1, SMTT(60) DEF to_num, Weighted, Digit, From1, From2, From3, From4, From5,
        From6, From7, From8, From9, From10, From11, From12, From13, From14, From15
<1>7. to_num(f) = Digit(f[0]) + 2 * From1(f)
  BY ToNumByHalves DEF From0
<1>8. CASE x = 0
  <2>1. to_num(f) = 0
    BY <1>5, <1>8 DEF to_num, Weighted, BitIndex
  <2> QED BY <1>1, <1>8, <2>1
<1>9. CASE x # 0
  BY <1>1, <1>4, <1>6, <1>7, <1>9
<1> QED BY <1>8, <1>9

IsConjunction(f) ==
  f = [p \in Word \X Word |->
         IF p[1] = 0 THEN 0 ELSE (p[1] % 2) * (p[2] % 2) + 2 * f[<<p[1] \div 2, p[2] \div 2>>]]

LEMMA LeastElement ==
  ASSUME NEW S, S \subseteq Nat, S # {}
  PROVE  \E n \in S : \A m \in S : ~(m < n)
<1>1. \E n \in S : \A m \in S : ~(<<m, n>> \in OpToRel(<, Nat))
  BY NatLessThanWellFounded, WFMin, Zenon
<1> QED BY <1>1 DEF OpToRel

LEMMA ConjunctionIsAnd ==
  ASSUME NEW x \in Word, NEW y \in Word
  PROVE  Conjunction[<<x, y>>] = And(x, y)
<1> DEFINE and == [p \in Word \X Word |-> And(p[1], p[2])]
<1>1. IsConjunction(and)
  <2>1. \A u \in Word, v \in Word :
          and[<<u, v>>] = IF u = 0 THEN 0 ELSE (u % 2) * (v % 2) + 2 * and[<<u \div 2, v \div 2>>]
    <3> SUFFICES ASSUME NEW u \in Word, NEW v \in Word
                 PROVE  and[<<u, v>>] = IF u = 0 THEN 0 ELSE (u % 2) * (v % 2) + 2 * and[<<u \div 2, v \div 2>>]
      OBVIOUS
    <3>1. u \div 2 \in Word /\ v \div 2 \in Word
      BY LastDigit
    <3>2. and[<<u, v>>] = And(u, v) /\ and[<<u \div 2, v \div 2>>] = And(u \div 2, v \div 2)
      BY <3>1
    <3> QED BY <3>2, AndByHalves
  <2>2. PICK g : g = and
    OBVIOUS
  <2> QED BY <2>1, <2>2 DEF IsConjunction
<1>2. IsConjunction(Conjunction)
  <2>1. Conjunction = CHOOSE f : IsConjunction(f)
    BY DEF Conjunction, IsConjunction
  <2> HIDE DEF and
  <2> QED BY <1>1, <2>1, Zenon
<1> DEFINE Apart == {n \in Word : \E m \in Word : Conjunction[<<n, m>>] # And(n, m)}
<1>3. Apart = {}
  <2> SUFFICES ASSUME Apart # {} PROVE FALSE
    OBVIOUS
  <2>1. Apart \subseteq Nat
    BY WordIsNat
  <2>2. PICK n \in Apart : \A m \in Apart : ~(m < n)
    BY <2>1, LeastElement, Zenon
  <2>3. PICK m \in Word : Conjunction[<<n, m>>] # And(n, m)
    OBVIOUS
  <2>4. n \in Word /\ n \in Nat /\ n \div 2 \in Word /\ m \div 2 \in Word
    BY LastDigit
  <2>5. Conjunction[<<n, m>>] = IF n = 0 THEN 0 ELSE (n % 2) * (m % 2) + 2 * Conjunction[<<n \div 2, m \div 2>>]
    BY <1>2, <2>4 DEF IsConjunction
  <2>6. CASE n = 0
    BY <2>3, <2>4, <2>5, <2>6, AndByHalves
  <2>7. CASE n # 0
    <3>1. n \div 2 < n
      BY <2>4, <2>7
    <3>2. n \div 2 \notin Apart
      BY <2>2, <3>1
    <3>3. Conjunction[<<n \div 2, m \div 2>>] = And(n \div 2, m \div 2)
      BY <2>4, <3>2
    <3> QED BY <2>3, <2>4, <2>5, <2>7, <3>3, AndByHalves
  <2> QED BY <2>6, <2>7
<1> QED BY <1>3

(* The exclusive or is the sum without the carries. *)
LEMMA XorIsSum ==
  ASSUME NEW x \in Word, NEW y \in Word
  PROVE  Xor(x, y) = x + y - 2 * And(x, y)
<1> DEFINE a == [i \in BitIndex |-> Bit(x, i)]
           b == [i \in BitIndex |-> Bit(y, i)]
           c == [i \in BitIndex |-> Bit(x, i) /\ Bit(y, i)]
           d == [i \in BitIndex |-> Bit(x, i) # Bit(y, i)]
<1>1. Xor(x, y) = to_num(d) /\ And(x, y) = to_num(c)
  BY DEF Xor, And
<1>2. to_num(a) = x /\ to_num(b) = y
  BY NumberOfBits
<1>3. \A i \in BitIndex : (c[i] <=> a[i] /\ b[i]) /\ (d[i] <=> ~(a[i] <=> b[i]))
  <2>1. \A i \in BitIndex : (Bit(x, i) # Bit(y, i)) <=> ~(Bit(x, i) <=> Bit(y, i))
    BY DEF Bit
  <2> QED BY <2>1, Zenon
<1> HIDE DEF a, b, c, d
<1> DEFINE sum(p, q, u, v) == p + 2 * q = u + v
<1>4. \A i \in BitIndex :
        /\ sum(Digit(d[i]), Digit(c[i]), Digit(a[i]), Digit(b[i]))
        /\ Digit(a[i]) \in Int /\ Digit(b[i]) \in Int /\ Digit(c[i]) \in Int /\ Digit(d[i]) \in Int
  BY <1>3 DEF Digit, Weighted
<1>5. \A k, l, m, n, p, q, u, v \in Int :
        sum(k, l, m, n) /\ sum(p, q, u, v) => sum(k + 2 * p, l + 2 * q, m + 2 * u, n + 2 * v)
  OBVIOUS
<1>6. sum(From15(d), From15(c), From15(a), From15(b))
  BY <1>4 DEF From15, BitIndex
<1> HIDE DEF sum
<1>7. sum(From14(d), From14(c), From14(a), From14(b))
  BY <1>4, <1>5, <1>6, HalvesAreNumbers DEF From14, BitIndex
<1>8. sum(From13(d), From13(c), From13(a), From13(b))
  BY <1>4, <1>5, <1>7, HalvesAreNumbers DEF From13, BitIndex
<1>9. sum(From12(d), From12(c), From12(a), From12(b))
  BY <1>4, <1>5, <1>8, HalvesAreNumbers DEF From12, BitIndex
<1>10. sum(From11(d), From11(c), From11(a), From11(b))
  BY <1>4, <1>5, <1>9, HalvesAreNumbers DEF From11, BitIndex
<1>11. sum(From10(d), From10(c), From10(a), From10(b))
  BY <1>4, <1>5, <1>10, HalvesAreNumbers DEF From10, BitIndex
<1>12. sum(From9(d), From9(c), From9(a), From9(b))
  BY <1>4, <1>5, <1>11, HalvesAreNumbers DEF From9, BitIndex
<1>13. sum(From8(d), From8(c), From8(a), From8(b))
  BY <1>4, <1>5, <1>12, HalvesAreNumbers DEF From8, BitIndex
<1>14. sum(From7(d), From7(c), From7(a), From7(b))
  BY <1>4, <1>5, <1>13, HalvesAreNumbers DEF From7, BitIndex
<1>15. sum(From6(d), From6(c), From6(a), From6(b))
  BY <1>4, <1>5, <1>14, HalvesAreNumbers DEF From6, BitIndex
<1>16. sum(From5(d), From5(c), From5(a), From5(b))
  BY <1>4, <1>5, <1>15, HalvesAreNumbers DEF From5, BitIndex
<1>17. sum(From4(d), From4(c), From4(a), From4(b))
  BY <1>4, <1>5, <1>16, HalvesAreNumbers DEF From4, BitIndex
<1>18. sum(From3(d), From3(c), From3(a), From3(b))
  BY <1>4, <1>5, <1>17, HalvesAreNumbers DEF From3, BitIndex
<1>19. sum(From2(d), From2(c), From2(a), From2(b))
  BY <1>4, <1>5, <1>18, HalvesAreNumbers DEF From2, BitIndex
<1>20. sum(From1(d), From1(c), From1(a), From1(b))
  BY <1>4, <1>5, <1>19, HalvesAreNumbers DEF From1, BitIndex
<1>21. sum(From0(d), From0(c), From0(a), From0(b))
  BY <1>4, <1>5, <1>20, HalvesAreNumbers DEF From0, BitIndex
<1>22. to_num(d) \in Int /\ to_num(c) \in Int /\ x \in Int /\ y \in Int
  BY ToNumWord, WordIsNat
<1>23. to_num(d) + 2 * to_num(c) = x + y
  BY <1>2, <1>21, ToNumByHalves DEF sum
<1> QED BY <1>1, <1>22, <1>23

-----------------------------------------------------------------------------
(* The shifter: a shift by k + 1 is a shift by 1 of the shift by k, and a shift by 1
   doubles or halves. *)
LEMMA ShiftsCompose ==
  ASSUME NEW x \in Word, NEW k \in 0..14
  PROVE  /\ ShiftLeft(x, k + 1) = ShiftLeft(ShiftLeft(x, k), 1)
         /\ ShiftRight(x, k + 1) = ShiftRight(ShiftRight(x, k), 1)
         /\ ArithmeticShiftRight(x, k + 1) = ArithmeticShiftRight(ArithmeticShiftRight(x, k), 1)
<1>1. ShiftLeft(x, k + 1) = ShiftLeft(ShiftLeft(x, k), 1)
  <2> DEFINE s == [i \in BitIndex |-> i >= k /\ Bit(x, i - k)]
             f == [i \in BitIndex |-> i >= k + 1 /\ Bit(x, i - (k + 1))]
             g == [i \in BitIndex |-> i >= 1 /\ Bit(to_num(s), i - 1)]
  <2>1. \A i \in BitIndex : i >= k + 1 <=> i >= 1 /\ i - 1 >= k
    BY DEF BitIndex
  <2>2. \A i \in BitIndex : i >= 1 => i - 1 \in BitIndex /\ (i - 1) - k = i - (k + 1)
    BY DEF BitIndex
  <2>3. \A i \in BitIndex : Bit(to_num(s), i) <=> s[i]
    BY BitsOfNumber
  <2>4. \A i \in BitIndex : f[i] <=> g[i]
    <3> SUFFICES ASSUME NEW i \in BitIndex PROVE f[i] <=> g[i]
      OBVIOUS
    <3>1. CASE i >= 1
      <4>1. i - 1 \in BitIndex /\ (i - 1) - k = i - (k + 1)
        BY <2>2, <3>1
      <4>2. g[i] <=> s[i - 1]
        BY <2>3, <3>1, <4>1, Zenon
      <4>3. s[i - 1] <=> i - 1 >= k /\ Bit(x, (i - 1) - k)
        BY <4>1, Zenon
      <4>4. s[i - 1] <=> i - 1 >= k /\ Bit(x, i - (k + 1))
        BY <4>1, <4>3, Zenon
      <4>5. f[i] <=> i >= k + 1 /\ Bit(x, i - (k + 1))
        BY Zenon
      <4> QED BY <2>1, <3>1, <4>2, <4>4, <4>5, Zenon
    <3>2. CASE ~(i >= 1)
      BY <2>1, <3>2, Zenon
    <3> QED BY <3>1, <3>2
  <2>5. ShiftLeft(x, k + 1) = to_num(f) /\ ShiftLeft(x, k) = to_num(s) /\ ShiftLeft(to_num(s), 1) = to_num(g)
    BY DEF ShiftLeft
  <2> HIDE DEF s, f, g
  <2> QED BY <2>4, <2>5, SameBits
<1>2. ShiftRight(x, k + 1) = ShiftRight(ShiftRight(x, k), 1)
  <2> DEFINE s == [i \in BitIndex |-> i + k <= 15 /\ Bit(x, i + k)]
             f == [i \in BitIndex |-> i + (k + 1) <= 15 /\ Bit(x, i + (k + 1))]
             g == [i \in BitIndex |-> i + 1 <= 15 /\ Bit(to_num(s), i + 1)]
  <2>1. \A i \in BitIndex : i + (k + 1) <= 15 <=> i + 1 <= 15 /\ (i + 1) + k <= 15
    BY DEF BitIndex
  <2>2. \A i \in BitIndex : i + 1 <= 15 => i + 1 \in BitIndex /\ (i + 1) + k = i + (k + 1)
    BY DEF BitIndex
  <2>3. \A i \in BitIndex : Bit(to_num(s), i) <=> s[i]
    BY BitsOfNumber
  <2>4. \A i \in BitIndex : f[i] <=> g[i]
    <3> SUFFICES ASSUME NEW i \in BitIndex PROVE f[i] <=> g[i]
      OBVIOUS
    <3>1. CASE i + 1 <= 15
      <4>1. i + 1 \in BitIndex /\ (i + 1) + k = i + (k + 1)
        BY <2>2, <3>1
      <4>2. g[i] <=> s[i + 1]
        BY <2>3, <3>1, <4>1, Zenon
      <4>3. s[i + 1] <=> (i + 1) + k <= 15 /\ Bit(x, (i + 1) + k)
        BY <4>1, Zenon
      <4>4. s[i + 1] <=> (i + 1) + k <= 15 /\ Bit(x, i + (k + 1))
        BY <4>1, <4>3, Zenon
      <4>5. f[i] <=> i + (k + 1) <= 15 /\ Bit(x, i + (k + 1))
        BY Zenon
      <4> QED BY <2>1, <3>1, <4>2, <4>4, <4>5, Zenon
    <3>2. CASE ~(i + 1 <= 15)
      BY <2>1, <3>2, Zenon
    <3> QED BY <3>1, <3>2
  <2>5. /\ ShiftRight(x, k + 1) = to_num(f) /\ ShiftRight(x, k) = to_num(s)
        /\ ShiftRight(to_num(s), 1) = to_num(g)
    BY DEF ShiftRight
  <2> HIDE DEF s, f, g
  <2> QED BY <2>4, <2>5, SameBits
<1>3. ArithmeticShiftRight(x, k + 1) = ArithmeticShiftRight(ArithmeticShiftRight(x, k), 1)
  <2> DEFINE from(i, n) == IF i + n > 15 THEN 15 ELSE i + n
             s == [i \in BitIndex |-> Bit(x, from(i, k))]
             f == [i \in BitIndex |-> Bit(x, from(i, k + 1))]
             g == [i \in BitIndex |-> Bit(to_num(s), from(i, 1))]
  <2>1. \A i \in BitIndex : from(i, 1) \in BitIndex /\ from(from(i, 1), k) = from(i, k + 1)
    BY DEF BitIndex
  <2>2. \A i \in BitIndex : Bit(to_num(s), i) <=> s[i]
    BY BitsOfNumber
  <2>3. /\ ArithmeticShiftRight(x, k + 1) = to_num(f) /\ ArithmeticShiftRight(x, k) = to_num(s)
        /\ ArithmeticShiftRight(to_num(s), 1) = to_num(g)
    BY DEF ArithmeticShiftRight
  <2> HIDE DEF from
  <2>4. \A i \in BitIndex : f[i] <=> g[i]
    BY <2>1, <2>2, Zenon
  <2> HIDE DEF s, f, g
  <2> QED BY <2>3, <2>4, SameBits
<1> QED BY <1>1, <1>2, <1>3

(* A word as a two's complement number. *)
LEMMA SignedWord ==
  ASSUME NEW x \in Word
  PROVE  /\ Signed(x, 16) = IF x >= 32768 THEN x - 65536 ELSE x
         /\ Signed(x, 16) \in Int /\ Signed(x, 16) < 32768 /\ -32768 <= Signed(x, 16)
         /\ Signed(x, 16) % WordSize = x
<1>1. x \in Nat /\ x < 65536
  BY WordIsNat, Sizes
<1>2. 2^16 = 65536 /\ 2^(16 - 1) = 32768
  OBVIOUS
<1>3. x % 65536 = x
  BY <1>1
<1>4. Signed(x, 16) = IF x >= 32768 THEN x - 65536 ELSE x
  BY <1>2, <1>3 DEF Signed, Low
<1>5. x >= 32768 => (x - 65536) % 65536 = x
  BY <1>1
<1>6. Signed(x, 16) % 65536 = x
  BY <1>3, <1>4, <1>5
<1> QED BY <1>1, <1>4, <1>6 DEF WordSize

LEMMA Halved ==
  ASSUME NEW x \in Word
  PROVE  /\ ShiftRight(x, 1) = x \div 2
         /\ Signed(ArithmeticShiftRight(x, 1), 16) = Signed(x, 16) \div 2
<1> DEFINE b == [i \in BitIndex |-> Bit(x, i)]
           r == [i \in BitIndex |-> i + 1 <= 15 /\ Bit(x, i + 1)]
           a == [i \in BitIndex |-> Bit(x, IF i + 1 > 15 THEN 15 ELSE i + 1)]
<1>1. \A i \in 0..14 : (r[i] <=> b[i + 1]) /\ (a[i] <=> b[i + 1])
  <2>1. \A i \in 0..14 : i \in BitIndex /\ i + 1 \in BitIndex /\ i + 1 <= 15 /\ ~(i + 1 > 15)
    BY DEF BitIndex
  <2> QED BY <2>1, Zenon
<1>2. ~r[15] /\ (a[15] <=> b[15])
  <2>1. 15 \in BitIndex /\ ~(15 + 1 <= 15) /\ 15 + 1 > 15
    BY DEF BitIndex
  <2> QED BY <2>1, Zenon
<1>3. x \in Nat /\ x < 65536 /\ to_num(b) = x
  BY WordIsNat, Sizes, NumberOfBits
<1>4. ShiftRight(x, 1) = to_num(r) /\ ArithmeticShiftRight(x, 1) = to_num(a)
  BY DEF ShiftRight, ArithmeticShiftRight
<1>5. b[15] <=> x >= 32768
  <2>1. b[15] <=> Bit(x, 15)
    <3>1. 15 \in BitIndex
      BY DEF BitIndex
    <3> QED BY <3>1, Zenon
  <2>2. (x \div 32768) % 2 = 1 <=> x >= 32768
    BY <1>3
  <2> QED BY <2>1, <2>2, Powers DEF Bit
<1> HIDE DEF b, r, a
<1>6. /\ (r[0] <=> b[1]) /\ (r[1] <=> b[2]) /\ (r[2] <=> b[3]) /\ (r[3] <=> b[4]) /\ (r[4] <=> b[5])
      /\ (r[5] <=> b[6]) /\ (r[6] <=> b[7]) /\ (r[7] <=> b[8]) /\ (r[8] <=> b[9]) /\ (r[9] <=> b[10])
      /\ (r[10] <=> b[11]) /\ (r[11] <=> b[12]) /\ (r[12] <=> b[13]) /\ (r[13] <=> b[14])
      /\ (r[14] <=> b[15])
  BY <1>1
<1>7. /\ (a[0] <=> b[1]) /\ (a[1] <=> b[2]) /\ (a[2] <=> b[3]) /\ (a[3] <=> b[4]) /\ (a[4] <=> b[5])
      /\ (a[5] <=> b[6]) /\ (a[6] <=> b[7]) /\ (a[7] <=> b[8]) /\ (a[8] <=> b[9]) /\ (a[9] <=> b[10])
      /\ (a[10] <=> b[11]) /\ (a[11] <=> b[12]) /\ (a[12] <=> b[13]) /\ (a[13] <=> b[14])
      /\ (a[14] <=> b[15])
  BY <1>1
<1>8. to_num(r) = From1(b)
  BY <1>2, <1>6, SMTT(60) DEF to_num, Weighted, Digit, From1, From2, From3, From4, From5,
     From6, From7, From8, From9, From10, From11, From12, From13, From14, From15
<1>9. to_num(a) = From1(b) + (IF b[15] THEN 32768 ELSE 0)
  BY <1>2, <1>7, SMTT(60) DEF to_num, Weighted, Digit, From1, From2, From3, From4, From5,
     From6, From7, From8, From9, From10, From11, From12, From13, From14, From15
<1>10. From1(b) = x \div 2
  BY <1>3, QuotientsOfNumber
<1>11. to_num(a) \in Word
  BY ToNumWord
<1>12. CASE x >= 32768
  <2>1. to_num(a) = x \div 2 + 32768 /\ to_num(a) >= 32768
    BY <1>3, <1>5, <1>9, <1>10, <1>12
  <2>2. Signed(x, 16) = x - 65536 /\ Signed(to_num(a), 16) = to_num(a) - 65536
    BY <1>11, <1>12, <2>1, SignedWord
  <2>3. (x - 65536) \div 2 = to_num(a) - 65536
    BY <1>3, <2>1
  <2> QED BY <1>4, <1>8, <1>10, <2>2, <2>3
<1>13. CASE ~(x >= 32768)
  <2>1. to_num(a) = x \div 2 /\ ~(to_num(a) >= 32768)
    BY <1>3, <1>5, <1>9, <1>10, <1>13
  <2>2. Signed(x, 16) = x /\ Signed(to_num(a), 16) = x \div 2
    BY <1>11, <1>13, <2>1, SignedWord
  <2> QED BY <1>4, <1>8, <1>10, <2>2
<1> QED BY <1>12, <1>13

LEMMA ShiftByNothing ==
  ASSUME NEW x \in Word
  PROVE  ShiftLeft(x, 0) = x /\ ShiftRight(x, 0) = x /\ ArithmeticShiftRight(x, 0) = x
<1> DEFINE l == [i \in BitIndex |-> i >= 0 /\ Bit(x, i - 0)]
           r == [i \in BitIndex |-> i + 0 <= 15 /\ Bit(x, i + 0)]
           a == [i \in BitIndex |-> Bit(x, IF i + 0 > 15 THEN 15 ELSE i + 0)]
<1>1. \A i \in BitIndex : i >= 0 /\ i - 0 = i /\ i + 0 = i /\ i <= 15 /\ ~(i > 15)
  BY DEF BitIndex
<1>2. \A i \in BitIndex : (l[i] <=> Bit(x, i)) /\ (r[i] <=> Bit(x, i)) /\ (a[i] <=> Bit(x, i))
  BY <1>1, Zenon
<1>3. ShiftLeft(x, 0) = to_num(l) /\ ShiftRight(x, 0) = to_num(r) /\ ArithmeticShiftRight(x, 0) = to_num(a)
  BY DEF ShiftLeft, ShiftRight, ArithmeticShiftRight
<1> HIDE DEF l, r, a
<1> QED BY <1>2, <1>3, NumberOfBits

(* What the shift by k comes to. *)
ShiftedBy(x, k) ==
  /\ ShiftLeft(x, k) = (x * 2^k) % 65536
  /\ ShiftRight(x, k) = x \div 2^k
  /\ Signed(ArithmeticShiftRight(x, k), 16) = Signed(x, 16) \div 2^k

LEMMA ShiftOnce ==
  ASSUME NEW x \in Word, NEW k \in 0..14, NEW p \in Nat, p > 0, 2^k = p, 2^(k + 1) = 2 * p, ShiftedBy(x, k)
  PROVE  ShiftedBy(x, k + 1)
<1>1. x \in Nat /\ k \in Nat
  BY WordIsNat
<1>2. ShiftLeft(x, k) \in Word /\ ShiftRight(x, k) \in Word /\ ArithmeticShiftRight(x, k) \in Word
  BY <1>1, WordOperators
<1>3. ShiftLeft(x, k + 1) = (2 * ((x * p) % 65536)) % 65536
  BY <1>2, ShiftsCompose, Doubled DEF ShiftedBy
<1>4. x * p \in Nat /\ x * (2 * p) = 2 * (x * p)
  BY <1>1
<1>5. \A n \in Nat : (2 * (n % 65536)) % 65536 = (2 * n) % 65536
  OBVIOUS
<1>6. ShiftLeft(x, k + 1) = (x * 2^(k + 1)) % 65536
  BY <1>3, <1>4, <1>5
<1>7. ShiftRight(x, k + 1) = (x \div p) \div 2
  BY <1>2, ShiftsCompose, Halved DEF ShiftedBy
<1>8. Signed(ArithmeticShiftRight(x, k + 1), 16) = (Signed(x, 16) \div p) \div 2
  BY <1>2, ShiftsCompose, Halved DEF ShiftedBy
<1>9. \A n \in Int : (n \div p) \div 2 = n \div (2 * p)
  <2> SUFFICES ASSUME NEW n \in Int PROVE (n \div p) \div 2 = n \div (2 * p)
    OBVIOUS
  <2> DEFINE q == n \div p
             h == q \div 2
  <2>1. q \in Int /\ p * q <= n /\ n < p * q + p
    BY SMTT(30)
  <2> HIDE DEF q
  <2>2. h \in Int /\ 2 * h <= q /\ q <= 2 * h + 1
    BY <2>1
  <2> HIDE DEF h
  <2>3. p * (2 * h) <= p * q /\ p * q <= p * (2 * h + 1)
    BY <2>1, <2>2, SMTT(30)
  <2>4. (2 * p) * h <= n /\ n < (2 * p) * h + 2 * p
    BY <2>1, <2>2, <2>3, SMTT(30)
  <2>5. n \div (2 * p) = h
    BY <2>2, <2>4, SMTT(30)
  <2> QED BY <2>5 DEF q, h
<1> QED BY <1>1, <1>6, <1>7, <1>8, <1>9, SignedWord DEF ShiftedBy

LEMMA Shifts ==
  ASSUME NEW x \in Word, NEW k \in 0..15
  PROVE  ShiftedBy(x, k)
<1>0. ShiftedBy(x, 0)
  <2>1. x \in Nat /\ x < 65536 /\ Signed(x, 16) \in Int
    BY WordIsNat, Sizes, SignedWord
  <2> QED BY <2>1, Powers, ShiftByNothing DEF ShiftedBy
<1>1. ShiftedBy(x, 1)
  <2>1. 2^0 = 1 /\ 2^(0 + 1) = 2 * 1 /\ 0 + 1 = 1
    OBVIOUS
  <2> QED BY <1>0, <2>1, ShiftOnce
<1>2. ShiftedBy(x, 2)
  <2>1. 2^1 = 2 /\ 2^(1 + 1) = 2 * 2 /\ 1 + 1 = 2
    OBVIOUS
  <2> QED BY <1>1, <2>1, ShiftOnce
<1>3. ShiftedBy(x, 3)
  <2>1. 2^2 = 4 /\ 2^(2 + 1) = 2 * 4 /\ 2 + 1 = 3
    OBVIOUS
  <2> QED BY <1>2, <2>1, ShiftOnce
<1>4. ShiftedBy(x, 4)
  <2>1. 2^3 = 8 /\ 2^(3 + 1) = 2 * 8 /\ 3 + 1 = 4
    OBVIOUS
  <2> QED BY <1>3, <2>1, ShiftOnce
<1>5. ShiftedBy(x, 5)
  <2>1. 2^4 = 16 /\ 2^(4 + 1) = 2 * 16 /\ 4 + 1 = 5
    OBVIOUS
  <2> QED BY <1>4, <2>1, ShiftOnce
<1>6. ShiftedBy(x, 6)
  <2>1. 2^5 = 32 /\ 2^(5 + 1) = 2 * 32 /\ 5 + 1 = 6
    OBVIOUS
  <2> QED BY <1>5, <2>1, ShiftOnce
<1>7. ShiftedBy(x, 7)
  <2>1. 2^6 = 64 /\ 2^(6 + 1) = 2 * 64 /\ 6 + 1 = 7
    OBVIOUS
  <2> QED BY <1>6, <2>1, ShiftOnce
<1>8. ShiftedBy(x, 8)
  <2>1. 2^7 = 128 /\ 2^(7 + 1) = 2 * 128 /\ 7 + 1 = 8
    OBVIOUS
  <2> QED BY <1>7, <2>1, ShiftOnce
<1>9. ShiftedBy(x, 9)
  <2>1. 2^8 = 256 /\ 2^(8 + 1) = 2 * 256 /\ 8 + 1 = 9
    OBVIOUS
  <2> QED BY <1>8, <2>1, ShiftOnce
<1>10. ShiftedBy(x, 10)
  <2>1. 2^9 = 512 /\ 2^(9 + 1) = 2 * 512 /\ 9 + 1 = 10
    OBVIOUS
  <2> QED BY <1>9, <2>1, ShiftOnce
<1>11. ShiftedBy(x, 11)
  <2>1. 2^10 = 1024 /\ 2^(10 + 1) = 2 * 1024 /\ 10 + 1 = 11
    OBVIOUS
  <2> QED BY <1>10, <2>1, ShiftOnce
<1>12. ShiftedBy(x, 12)
  <2>1. 2^11 = 2048 /\ 2^(11 + 1) = 2 * 2048 /\ 11 + 1 = 12
    OBVIOUS
  <2> QED BY <1>11, <2>1, ShiftOnce
<1>13. ShiftedBy(x, 13)
  <2>1. 2^12 = 4096 /\ 2^(12 + 1) = 2 * 4096 /\ 12 + 1 = 13
    OBVIOUS
  <2> QED BY <1>12, <2>1, ShiftOnce
<1>14. ShiftedBy(x, 14)
  <2>1. 2^13 = 8192 /\ 2^(13 + 1) = 2 * 8192 /\ 13 + 1 = 14
    OBVIOUS
  <2> QED BY <1>13, <2>1, ShiftOnce
<1>15. ShiftedBy(x, 15)
  <2>1. 2^14 = 16384 /\ 2^(14 + 1) = 2 * 16384 /\ 14 + 1 = 15
    OBVIOUS
  <2> QED BY <1>14, <2>1, ShiftOnce
<1> QED BY <1>0, <1>1, <1>2, <1>3, <1>4, <1>5, <1>6, <1>7, <1>8, <1>9, <1>10, <1>11, <1>12, <1>13, <1>14, <1>15

(* The shifter's output for the kinds of shift there are. *)
LEMMA ShiftOutput ==
  ASSUME NEW i \in Instruction
  PROVE  LET power == 2^Low(i.IR, 4)
             kind  == Low(i.IR \div 16, 2)
         IN  /\ kind = 0 => Shift(i) = (i.SR1 * power) % WordSize
             /\ kind = 1 => Shift(i) = i.SR1 \div power
             /\ kind = 3 => Shift(i) = (Signed(i.SR1, 16) \div power) % WordSize
<1> DEFINE amount == Low(i.IR, 4)
           kind == Low(i.IR \div 16, 2)
<1>1. i.IR \in Word /\ i.SR1 \in Word
  BY DEF Instruction
<1>2. range(i.IR, 3, 0) = amount /\ amount \in 0..15 /\ range(i.IR, 5, 4) = kind
  BY <1>1, ShiftFields
<1> HIDE DEF amount, kind
<1>3. ShiftedBy(i.SR1, amount)
  BY <1>1, <1>2, Shifts
<1>4. ArithmeticShiftRight(i.SR1, amount) \in Word
  BY <1>1, <1>2, WordOperators
<1>5. kind = 0 => Shift(i) = (i.SR1 * 2^amount) % WordSize
  BY <1>2, <1>3 DEF Shift, ShiftedBy, WordSize
<1>6. kind = 1 => Shift(i) = i.SR1 \div 2^amount
  BY <1>2, <1>3 DEF Shift, ShiftedBy
<1>7. kind = 3 => Shift(i) = ArithmeticShiftRight(i.SR1, amount)
  BY <1>2 DEF Shift
<1>8. ArithmeticShiftRight(i.SR1, amount) = (Signed(i.SR1, 16) \div 2^amount) % WordSize
  BY <1>3, <1>4, SignedWord DEF ShiftedBy
<1> QED BY <1>5, <1>6, <1>7, <1>8 DEF amount, kind

-----------------------------------------------------------------------------
(* ADD, AND and XOR go through the ALU, the shifts around it. *)
LEMMA AluSignals ==
  /\ "ALU_RESULTMUX" \in ADD_R /\ {"ALUK1", "ALUK0", "SR2MUX"} \cap ADD_R = {}
  /\ {"ALU_RESULTMUX", "SR2MUX"} \subseteq ADD_I /\ {"ALUK1", "ALUK0"} \cap ADD_I = {}
  /\ {"ALU_RESULTMUX", "ALUK0"} \subseteq AND_R /\ {"ALUK1", "SR2MUX"} \cap AND_R = {}
  /\ {"ALU_RESULTMUX", "ALUK0", "SR2MUX"} \subseteq AND_I /\ "ALUK1" \notin AND_I
  /\ {"ALU_RESULTMUX", "ALUK1"} \subseteq XOR_R /\ {"ALUK0", "SR2MUX"} \cap XOR_R = {}
  /\ {"ALU_RESULTMUX", "ALUK1", "SR2MUX"} \subseteq XOR_I /\ "ALUK0" \notin XOR_I
  /\ "ALU_RESULTMUX" \notin SHF
<1>1. "ALU_RESULTMUX" \in ADD_R /\ {"ALUK1", "ALUK0", "SR2MUX"} \cap ADD_R = {}
  BY SignalsOfRow DEF ADD_R
<1>2. {"ALU_RESULTMUX", "SR2MUX"} \subseteq ADD_I /\ {"ALUK1", "ALUK0"} \cap ADD_I = {}
  BY SignalsOfRow DEF ADD_I
<1>3. {"ALU_RESULTMUX", "ALUK0"} \subseteq AND_R /\ {"ALUK1", "SR2MUX"} \cap AND_R = {}
  BY SignalsOfRow DEF AND_R
<1>4. {"ALU_RESULTMUX", "ALUK0", "SR2MUX"} \subseteq AND_I /\ "ALUK1" \notin AND_I
  BY SignalsOfRow DEF AND_I
<1>5. {"ALU_RESULTMUX", "ALUK1"} \subseteq XOR_R /\ {"ALUK0", "SR2MUX"} \cap XOR_R = {}
  BY SignalsOfRow DEF XOR_R
<1>6. {"ALU_RESULTMUX", "ALUK1", "SR2MUX"} \subseteq XOR_I /\ "ALUK0" \notin XOR_I
  BY SignalsOfRow DEF XOR_I
<1>7. "ALU_RESULTMUX" \notin SHF
  BY SignalsOfRow DEF SHF
<1> QED BY <1>1, <1>2, <1>3, <1>4, <1>5, <1>6, <1>7

(* The result an instruction carries out of AGEX is the one its opcode asks for. *)
LEMMA ResultFollows == SomeInstruction => AluComputes /\ ShifterComputes
<1> SUFFICES ASSUME SomeInstruction PROVE AluComputes /\ ShifterComputes
  OBVIOUS
<1>1. PICK ir \in Word, npc \in Word, sr1 \in Word, sr2 \in Word : inst = Computed(ir, npc, sr1, sr2)
  BY DEF SomeInstruction
<1> DEFINE ucode == CONTROL_STORE[CONTROL_STORE_ADDRESS(ir)]
           immediate == Signed(inst.IR, 5) % WordSize
           isImmediate == (inst.IR \div 32) % 2 = 1
           operand2 == IF isImmediate THEN immediate ELSE inst.SR2
<1>2. /\ inst.IR = ir /\ inst.AGEX_CS = ToAGEX_CS(ucode) /\ inst.ALU_RESULT = AluShifterOutput(inst)
      /\ inst.SR1 = sr1 /\ inst.SR2 = sr2 /\ inst \in Instruction
  BY <1>1, ComputedFields, SMTT(60)
<1>3. ucode \in ControlWord
  BY RowsAreControlWords
<1>4. \A signal \in {"SR2MUX", "ALUK1", "ALUK0", "ALU_RESULTMUX"} : signal \in inst.AGEX_CS <=> signal \in ucode
  BY <1>2, <1>3, SignalsArrive
<1>5. Opcode = ir \div 4096
  BY <1>2 DEF Opcode
<1>6. /\ Opcode = 1 => ucode = IF isImmediate THEN ADD_I ELSE ADD_R
      /\ Opcode = 5 => ucode = IF isImmediate THEN AND_I ELSE AND_R
      /\ Opcode = 9 => ucode = IF isImmediate THEN XOR_I ELSE XOR_R
      /\ Opcode = 13 => ucode = SHF
  BY <1>2, <1>5, Microcode
<1> HIDE DEF ucode
<1>7. sign_ext(inst.IR, 4) = immediate /\ sign_ext(inst.IR, 4) \in Word
  BY <1>2, LowFiveBits, WordOperators
<1>8. operand2 \in Word
  BY <1>2, <1>7
<1> HIDE DEF immediate, isImmediate
<1>9. Opcode \in {1, 5, 9} => /\ "ALU_RESULTMUX" \in inst.AGEX_CS
                              /\ "SR2MUX" \in inst.AGEX_CS <=> isImmediate
                              /\ Get_ALUK(inst.AGEX_CS) = CASE Opcode = 1 -> 0 [] Opcode = 5 -> 1 [] OTHER -> 2
  BY <1>4, <1>6, AluSignals DEF Get_ALUK, Mux
<1>10. Opcode \in {1, 5, 9} =>
         inst.ALU_RESULT = CASE Opcode = 1 -> Add(inst.SR1, operand2)
                             [] Opcode = 5 -> And(inst.SR1, operand2)
                             [] OTHER -> Xor(inst.SR1, operand2)
  BY <1>2, <1>7, <1>9 DEF AluShifterOutput, Alu
<1> HIDE DEF operand2
<1>11. Opcode = 1 => inst.ALU_RESULT = (inst.SR1 + operand2) % WordSize
  BY <1>10 DEF Add
<1>12. Opcode = 5 => inst.ALU_RESULT = Conjunction[<<inst.SR1, operand2>>]
  BY <1>2, <1>8, <1>10, ConjunctionIsAnd
<1>13. Opcode = 9 => inst.ALU_RESULT = inst.SR1 + operand2 - 2 * Conjunction[<<inst.SR1, operand2>>]
  BY <1>2, <1>8, <1>10, ConjunctionIsAnd, XorIsSum
<1>14. AluComputes
  BY <1>11, <1>12, <1>13 DEF AluComputes, operand2, immediate, isImmediate
<1>15. Opcode = 13 => inst.ALU_RESULT = Shift(inst)
  BY <1>2, <1>4, <1>6, AluSignals DEF AluShifterOutput
<1>16. ShifterComputes
  BY <1>2, <1>15, ShiftOutput DEF ShifterComputes
<1> QED BY <1>14, <1>16
-----------------------------------------------------------------------------
(* Every instruction addresses what its offset field means as a signed number, for all
   instruction words, program counters and base registers (PipeLine.cpp, agex_stage). *)
THEOREM AddressComputesHolds == Spec => []AddressComputes
BY SomeInstructionHolds, AddressFollows, PTL

(* A word or a byte that was stored comes back from a load of its size, and a byte store
   leaves the other half of its word alone, for all addresses and values (PipeLine.cpp,
   mem_stage, and MainMemory.cpp). *)
THEOREM StoredThenLoadedHolds == Spec => []StoredThenLoaded
BY SomeInstructionHolds, StoredFollows, PTL

(* ADD, AND and XOR compute the sum, the conjunction and the exclusive or of the register
   and of either the second register or the signed immediate, for all instruction words
   and operands (PipeLine.cpp, agex_stage). *)
THEOREM AluComputesHolds == Spec => []AluComputes
BY SomeInstructionHolds, ResultFollows, PTL

(* The shifts multiply or divide by a power of two, RSHFA the signed number (PipeLine.cpp,
   agex_stage). *)
THEOREM ShifterComputesHolds == Spec => []ShifterComputes
BY SomeInstructionHolds, ResultFollows, PTL
=============================================================================
