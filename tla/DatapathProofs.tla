--------------------------- MODULE DatapathProofs ---------------------------
(***************************************************************************)
(* Lemmas about the words, the control words and the memory: what every    *)
(* operator of the data path returns, for every word.                      *)
(***************************************************************************)
EXTENDS Instruction, Ucode, TwosComplement, TLAPS

(* The sizes, as bounds: the provers enumerate an interval between two numerals. *)
LEMMA Sizes ==
  /\ WordSize \in Nat /\ 65536 <= WordSize /\ WordSize <= 65536
  /\ WORDS_IN_MEM \in Nat /\ 32768 <= WORDS_IN_MEM
BY DEF WordSize, WORDS_IN_MEM

LEMMA WordIsNat == ASSUME NEW x \in Word PROVE x \in Nat /\ x < WordSize
BY Sizes DEF Word

LEMMA WeightedBound ==
  ASSUME NEW bit, NEW weight \in Nat
  PROVE  /\ Weighted(bit, weight) \in Nat
         /\ Weighted(bit, weight) <= weight
BY DEF Weighted

(* Whatever the bits are, to_num() returns a 16-bit word (bitfield<16>::to_num). *)
LEMMA ToNumWord ==
  ASSUME NEW b
  PROVE  to_num(b) \in Word
<1>1. /\ Weighted(b[0], 1) \in Nat /\ Weighted(b[0], 1) <= 1
      /\ Weighted(b[1], 2) \in Nat /\ Weighted(b[1], 2) <= 2
      /\ Weighted(b[2], 4) \in Nat /\ Weighted(b[2], 4) <= 4
      /\ Weighted(b[3], 8) \in Nat /\ Weighted(b[3], 8) <= 8
  BY WeightedBound
<1>2. /\ Weighted(b[4], 16) \in Nat /\ Weighted(b[4], 16) <= 16
      /\ Weighted(b[5], 32) \in Nat /\ Weighted(b[5], 32) <= 32
      /\ Weighted(b[6], 64) \in Nat /\ Weighted(b[6], 64) <= 64
      /\ Weighted(b[7], 128) \in Nat /\ Weighted(b[7], 128) <= 128
  BY WeightedBound
<1>3. /\ Weighted(b[8], 256) \in Nat /\ Weighted(b[8], 256) <= 256
      /\ Weighted(b[9], 512) \in Nat /\ Weighted(b[9], 512) <= 512
      /\ Weighted(b[10], 1024) \in Nat /\ Weighted(b[10], 1024) <= 1024
      /\ Weighted(b[11], 2048) \in Nat /\ Weighted(b[11], 2048) <= 2048
  BY WeightedBound
<1>4. /\ Weighted(b[12], 4096) \in Nat /\ Weighted(b[12], 4096) <= 4096
      /\ Weighted(b[13], 8192) \in Nat /\ Weighted(b[13], 8192) <= 8192
      /\ Weighted(b[14], 16384) \in Nat /\ Weighted(b[14], 16384) <= 16384
      /\ Weighted(b[15], 32768) \in Nat /\ Weighted(b[15], 32768) <= 32768
  BY WeightedBound
<1> QED BY <1>1, <1>2, <1>3, <1>4, Sizes DEF to_num, Word

(* With only the low n bits set it returns a number below 2^n: n = 3 and n = 5. *)
LEMMA ToNumLow ==
  ASSUME NEW b, \A i \in 5..15 : ~b[i]
  PROVE  /\ to_num(b) \in 0..31
         /\ ~b[3] /\ ~b[4] => to_num(b) \in 0..7
<1>1. \A i \in 5..15 : \A weight : Weighted(b[i], weight) = 0
  BY DEF Weighted
<1>2. /\ Weighted(b[0], 1) \in Nat /\ Weighted(b[0], 1) <= 1
      /\ Weighted(b[1], 2) \in Nat /\ Weighted(b[1], 2) <= 2
      /\ Weighted(b[2], 4) \in Nat /\ Weighted(b[2], 4) <= 4
      /\ Weighted(b[3], 8) \in Nat /\ Weighted(b[3], 8) <= 8
      /\ Weighted(b[4], 16) \in Nat /\ Weighted(b[4], 16) <= 16
  BY WeightedBound
<1>3. ~b[3] /\ ~b[4] => Weighted(b[3], 8) = 0 /\ Weighted(b[4], 16) = 0
  BY DEF Weighted
<1> QED BY <1>1, <1>2, <1>3 DEF to_num

(* The word operators return words. *)
LEMMA WordOperators ==
  ASSUME NEW x \in Word, NEW y \in Word, NEW k \in Nat
  PROVE  /\ sign_ext(x, k) \in Word
         /\ zero_ext(x, k) \in Word
         /\ Add(x, y) \in Word
         /\ ShiftLeft(x, k) \in Word
         /\ ShiftRight(x, k) \in Word
         /\ And(x, y) \in Word
         /\ Xor(x, y) \in Word
         /\ ArithmeticShiftRight(x, k) \in Word
<1>1. sign_ext(x, k) \in Word
  BY ToNumWord DEF sign_ext
<1>2. zero_ext(x, k) \in Word
  BY ToNumWord DEF zero_ext
<1>3. Add(x, y) \in Word
  <2>1. x + y \in Nat
    BY WordIsNat
  <2>2. (x + y) % WordSize \in 0..(WordSize - 1)
    BY <2>1, Sizes
  <2> QED BY <2>2 DEF Add, Word
<1>4. ShiftLeft(x, k) \in Word
  BY ToNumWord DEF ShiftLeft
<1>5. ShiftRight(x, k) \in Word
  BY ToNumWord DEF ShiftRight
<1>6. And(x, y) \in Word
  BY ToNumWord DEF And
<1>7. Xor(x, y) \in Word
  BY ToNumWord DEF Xor
<1>8. ArithmeticShiftRight(x, k) \in Word
  BY ToNumWord DEF ArithmeticShiftRight
<1> QED BY <1>1, <1>2, <1>3, <1>4, <1>5, <1>6, <1>7, <1>8

(* A range of three bits is a register number, one of five a row prefix (range<e,b>). *)
LEMMA RegisterRange ==
  ASSUME NEW x \in Word, NEW b \in 0..13
  PROVE  range(x, b + 2, b) \in 0..7
<1> DEFINE bits == [i \in BitIndex |-> i + b <= b + 2 /\ Bit(x, i + b)]
<1>1. \A i \in 3..15 : ~bits[i]
  <2>1. \A i \in 3..15 : i \in BitIndex /\ ~(i + b <= b + 2)
    BY DEF BitIndex
  <2> QED BY <2>1, Zenon
<1> HIDE DEF bits
<1>2. to_num(bits) \in 0..7
  BY <1>1, ToNumLow
<1> QED BY <1>2 DEF range, bits

LEMMA RegisterNumbers ==
  ASSUME NEW ir \in Word, NEW ucode
  PROVE  /\ SR1_ID(ir) \in RegisterId
         /\ SR2_ID(ir) \in RegisterId
         /\ DR_ID(ir, ucode) \in RegisterId
<1>1. range(ir, 8, 6) \in 0..7 /\ range(ir, 11, 9) \in 0..7 /\ range(ir, 2, 0) \in 0..7
  BY RegisterRange
<1> QED BY <1>1 DEF SR1_ID, SR2_ID, DR_ID, RegisterId

(* Every instruction selects a row that exists (CONTROL_STORE_ADDRESS in DE_stage). *)
LEMMA RowExists ==
  ASSUME NEW ir \in Word
  PROVE  CONTROL_STORE_ADDRESS(ir) \in 0..(CONTROL_STORE_ROWS - 1)
<1> DEFINE bits == [i \in BitIndex |-> i + 11 <= 15 /\ Bit(ir, i + 11)]
<1>1. \A i \in 5..15 : ~bits[i]
  <2>1. \A i \in 5..15 : i \in BitIndex /\ ~(i + 11 <= 15)
    BY DEF BitIndex
  <2> QED BY <2>1, Zenon
<1> HIDE DEF bits
<1>2. to_num(bits) \in 0..31
  BY <1>1, ToNumLow
<1>3. range(ir, 15, 11) \in 0..31
  BY <1>2 DEF range, bits
<1> QED BY <1>3 DEF CONTROL_STORE_ADDRESS, CONTROL_STORE_ROWS

(* Range widths used as shift amounts and multiplexer selects. *)
LEMMA RangeWord ==
  ASSUME NEW x \in Word, NEW e \in Nat, NEW b \in Nat
  PROVE  range(x, e, b) \in Word
BY ToNumWord DEF range

(* MEM_CS<10,0> = AGEX_CS<19,9> and the other slices keep every enumeration aligned:
   a signal has the same meaning in the word of the next stage. *)
LEMMA SliceAlignment ==
  /\ \A k \in 1..20 : AGEX_CS_BITS[k] = CS_BITS[k + 3]
  /\ \A k \in 1..11 : MEM_CS_BITS[k] = AGEX_CS_BITS[k + 9]
  /\ \A k \in 1..4 : SR_CS_BITS[k] = MEM_CS_BITS[k + 7]
<1>1. \A k \in 1..20 : AGEX_CS_BITS[k] = CS_BITS[k + 3]
  BY DEF AGEX_CS_BITS, CS_BITS
<1>2. \A k \in 1..11 : MEM_CS_BITS[k] = AGEX_CS_BITS[k + 9]
  BY DEF AGEX_CS_BITS, MEM_CS_BITS
<1>3. \A k \in 1..4 : SR_CS_BITS[k] = MEM_CS_BITS[k + 7]
  BY DEF SR_CS_BITS, MEM_CS_BITS
<1> QED BY <1>1, <1>2, <1>3

LEMMA SliceDomains ==
  DOMAIN AGEX_CS_BITS = 1..20 /\ DOMAIN MEM_CS_BITS = 1..11 /\ DOMAIN SR_CS_BITS = 1..4
BY DEF AGEX_CS_BITS, MEM_CS_BITS, SR_CS_BITS

(* Latched copies exactly the signals the next enumeration names. *)
LEMMA ControlWordSlices ==
  ASSUME NEW cs \in ControlWord
  PROVE  /\ ToAGEX_CS(cs) = cs \cap {AGEX_CS_BITS[k] : k \in 1..20}
         /\ ToMEM_CS(cs) = cs \cap {MEM_CS_BITS[k] : k \in 1..11}
         /\ ToSR_CS(cs) = cs \cap {SR_CS_BITS[k] : k \in 1..4}
<1>1. ToAGEX_CS(cs) = cs \cap {AGEX_CS_BITS[k] : k \in 1..20}
  BY SliceAlignment, SliceDomains DEF ToAGEX_CS, Latched
<1>2. ToMEM_CS(cs) = cs \cap {MEM_CS_BITS[k] : k \in 1..11}
  BY SliceAlignment, SliceDomains DEF ToMEM_CS, Latched
<1>3. ToSR_CS(cs) = cs \cap {SR_CS_BITS[k] : k \in 1..4}
  BY SliceAlignment, SliceDomains DEF ToSR_CS, Latched
<1> QED BY <1>1, <1>2, <1>3

(* The memory operators: a read is a word, a write leaves a memory. *)
LEMMA MemoryRead ==
  ASSUME NEW m, IsMemory(m), NEW a
  PROVE  GetWordAt(m, a) \in Word
<1>1. 0 \in Word
  BY Sizes DEF Word
<1> QED BY <1>1 DEF GetWordAt, IsMemory

LEMMA WordAddressInMemory ==
  ASSUME NEW address \in Word
  PROVE  WordAddress(address) \in 0..(WORDS_IN_MEM - 1)
<1>1. address \in Nat /\ address < 65536
  BY WordIsNat, Sizes
<1>2. address \div 2 \in Nat /\ address \div 2 < 32768
  BY <1>1
<1> QED BY <1>2, Sizes DEF WordAddress

LEMMA MemoryWritten ==
  ASSUME NEW m, IsMemory(m), NEW a \in 0..(WORDS_IN_MEM - 1), NEW word, NEW mem_w0, NEW mem_w1
  PROVE  IsMemory(SetBytesAt(m, a, word, mem_w0, mem_w1))
<1> DEFINE old == GetWordAt(m, a)
           new == to_num([i \in BitIndex |-> IF i < 8 THEN Bit(IF mem_w0 THEN word ELSE old, i)
                                                    ELSE Bit(IF mem_w1 THEN word ELSE old, i)])
           written == [b \in DOMAIN m \cup {a} |-> IF b = a THEN new ELSE m[b]]
<1>1. new \in Word
  BY ToNumWord
<1> HIDE DEF new
<1>2. IsMemory(written)
  BY <1>1 DEF IsMemory
<1>3. SetBytesAt(m, a, word, mem_w0, mem_w1) = IF mem_w0 \/ mem_w1 THEN written ELSE m
  BY DEF SetBytesAt, new
<1> QED BY <1>2, <1>3

(* What the stages compute from an instruction are words. *)
LEMMA StageValues ==
  ASSUME NEW inst \in Instruction
  PROVE  /\ MemAddress(inst) \in Word
         /\ AluShifterOutput(inst) \in Word
         /\ WritebackValue(inst) \in Word
<1>0. 0 \in Word /\ 5 \in Nat /\ 8 \in Nat /\ 10 \in Nat /\ 4 \in Nat /\ 7 \in Nat /\ 1 \in Nat
  BY Sizes DEF Word
<1>1. /\ inst.IR \in Word /\ inst.NPC \in Word /\ inst.SR1 \in Word /\ inst.SR2 \in Word
      /\ inst.ADDRESS \in Word /\ inst.DATA \in Word /\ inst.ALU_RESULT \in Word
  BY DEF Instruction
<1>2. AddressOffset(inst) \in Word
  BY <1>0, <1>1, WordOperators DEF AddressOffset
<1>3. MemAddress(inst) \in Word
  BY <1>0, <1>1, <1>2, WordOperators DEF MemAddress
<1>4. Alu(inst) \in Word
  BY <1>0, <1>1, WordOperators DEF Alu
<1>5. Shift(inst) \in Word
  <2>1. range(inst.IR, 3, 0) \in Nat
    BY <1>1, RangeWord, WordIsNat
  <2> QED BY <1>0, <1>1, <2>1, WordOperators DEF Shift
<1>6. WritebackValue(inst) \in Word
  BY <1>1 DEF WritebackValue
<1> QED BY <1>3, <1>4, <1>5, <1>6 DEF AluShifterOutput

LEMMA LoadedWord ==
  ASSUME NEW inst, NEW word \in Word
  PROVE  LoadedValue(inst, word) \in Word
<1>1. 7 \in Nat /\ 8 \in Nat
  OBVIOUS
<1> QED BY <1>1, WordOperators DEF LoadedValue

LEMMA ConditionCodesRange == ASSUME NEW value PROVE ConditionCodes(value) \in RegisterId
BY DEF ConditionCodes, RegisterId

-----------------------------------------------------------------------------
(* The powers of two the bits of a word weigh. *)
LEMMA Powers ==
  /\ 2^0 = 1 /\ 2^1 = 2 /\ 2^2 = 4 /\ 2^3 = 8 /\ 2^4 = 16 /\ 2^5 = 32 /\ 2^6 = 64 /\ 2^7 = 128
  /\ 2^8 = 256 /\ 2^9 = 512 /\ 2^10 = 1024 /\ 2^11 = 2048 /\ 2^12 = 4096 /\ 2^13 = 8192
  /\ 2^14 = 16384 /\ 2^15 = 32768
OBVIOUS

(* Halving again and again is division by the powers. *)
LEMMA Halving ==
  ASSUME NEW x \in Nat
  PROVE  /\ (x \div 2) \div 2 = x \div 4         /\ (x \div 4) \div 2 = x \div 8
         /\ (x \div 8) \div 2 = x \div 16        /\ (x \div 16) \div 2 = x \div 32
         /\ (x \div 32) \div 2 = x \div 64       /\ (x \div 64) \div 2 = x \div 128
         /\ (x \div 128) \div 2 = x \div 256     /\ (x \div 256) \div 2 = x \div 512
         /\ (x \div 512) \div 2 = x \div 1024    /\ (x \div 1024) \div 2 = x \div 2048
         /\ (x \div 2048) \div 2 = x \div 4096   /\ (x \div 4096) \div 2 = x \div 8192
         /\ (x \div 8192) \div 2 = x \div 16384  /\ (x \div 16384) \div 2 = x \div 32768
OBVIOUS

(* A number is its last digit and twice its half. *)
Digit(bit) == Weighted(bit, 1)

(* to_num() by halves: the number that the bits from the i-th on are. *)
From15(b) == Digit(b[15])
From14(b) == Digit(b[14]) + 2 * From15(b)
From13(b) == Digit(b[13]) + 2 * From14(b)
From12(b) == Digit(b[12]) + 2 * From13(b)
From11(b) == Digit(b[11]) + 2 * From12(b)
From10(b) == Digit(b[10]) + 2 * From11(b)
From9(b) == Digit(b[9]) + 2 * From10(b)
From8(b) == Digit(b[8]) + 2 * From9(b)
From7(b) == Digit(b[7]) + 2 * From8(b)
From6(b) == Digit(b[6]) + 2 * From7(b)
From5(b) == Digit(b[5]) + 2 * From6(b)
From4(b) == Digit(b[4]) + 2 * From5(b)
From3(b) == Digit(b[3]) + 2 * From4(b)
From2(b) == Digit(b[2]) + 2 * From3(b)
From1(b) == Digit(b[1]) + 2 * From2(b)
From0(b) == Digit(b[0]) + 2 * From1(b)

LEMMA ToNumByHalves == ASSUME NEW b PROVE to_num(b) = From0(b)
BY SMTT(30) DEF to_num, From0, From1, From2, From3, From4, From5, From6, From7, From8, From9, From10,
  From11, From12, From13, From14, From15, Weighted, Digit

LEMMA HalvesAreNumbers ==
  ASSUME NEW b
  PROVE  /\ From15(b) \in Nat /\ From15(b) <= 1
         /\ From14(b) \in Nat /\ From14(b) <= 3
         /\ From13(b) \in Nat /\ From13(b) <= 7
         /\ From12(b) \in Nat /\ From12(b) <= 15
         /\ From11(b) \in Nat /\ From11(b) <= 31
         /\ From10(b) \in Nat /\ From10(b) <= 63
         /\ From9(b) \in Nat /\ From9(b) <= 127
         /\ From8(b) \in Nat /\ From8(b) <= 255
         /\ From7(b) \in Nat /\ From7(b) <= 511
         /\ From6(b) \in Nat /\ From6(b) <= 1023
         /\ From5(b) \in Nat /\ From5(b) <= 2047
         /\ From4(b) \in Nat /\ From4(b) <= 4095
         /\ From3(b) \in Nat /\ From3(b) <= 8191
         /\ From2(b) \in Nat /\ From2(b) <= 16383
         /\ From1(b) \in Nat /\ From1(b) <= 32767
         /\ From0(b) \in Nat /\ From0(b) <= 65535
<1>1. \A bit : Digit(bit) \in Nat /\ Digit(bit) <= 1
  BY DEF Digit, Weighted
<1>2. From15(b) \in Nat /\ From15(b) <= 1
  BY <1>1 DEF From15
<1>3. From14(b) \in Nat /\ From14(b) <= 3
  BY <1>1, <1>2 DEF From14
<1>4. From13(b) \in Nat /\ From13(b) <= 7
  BY <1>1, <1>3 DEF From13
<1>5. From12(b) \in Nat /\ From12(b) <= 15
  BY <1>1, <1>4 DEF From12
<1>6. From11(b) \in Nat /\ From11(b) <= 31
  BY <1>1, <1>5 DEF From11
<1>7. From10(b) \in Nat /\ From10(b) <= 63
  BY <1>1, <1>6 DEF From10
<1>8. From9(b) \in Nat /\ From9(b) <= 127
  BY <1>1, <1>7 DEF From9
<1>9. From8(b) \in Nat /\ From8(b) <= 255
  BY <1>1, <1>8 DEF From8
<1>10. From7(b) \in Nat /\ From7(b) <= 511
  BY <1>1, <1>9 DEF From7
<1>11. From6(b) \in Nat /\ From6(b) <= 1023
  BY <1>1, <1>10 DEF From6
<1>12. From5(b) \in Nat /\ From5(b) <= 2047
  BY <1>1, <1>11 DEF From5
<1>13. From4(b) \in Nat /\ From4(b) <= 4095
  BY <1>1, <1>12 DEF From4
<1>14. From3(b) \in Nat /\ From3(b) <= 8191
  BY <1>1, <1>13 DEF From3
<1>15. From2(b) \in Nat /\ From2(b) <= 16383
  BY <1>1, <1>14 DEF From2
<1>16. From1(b) \in Nat /\ From1(b) <= 32767
  BY <1>1, <1>15 DEF From1
<1>17. From0(b) \in Nat /\ From0(b) <= 65535
  BY <1>1, <1>16 DEF From0
<1> QED BY <1>2, <1>3, <1>4, <1>5, <1>6, <1>7, <1>8, <1>9, <1>10, <1>11, <1>12, <1>13, <1>14, <1>15, <1>16, <1>17

(* The quotients of to_num(b) by the powers are its halves, and its bits are b. *)
LEMMA QuotientsOfNumber ==
  ASSUME NEW b
  PROVE  /\ to_num(b) \div 2 = From1(b)
         /\ to_num(b) \div 4 = From2(b)
         /\ to_num(b) \div 8 = From3(b)
         /\ to_num(b) \div 16 = From4(b)
         /\ to_num(b) \div 32 = From5(b)
         /\ to_num(b) \div 64 = From6(b)
         /\ to_num(b) \div 128 = From7(b)
         /\ to_num(b) \div 256 = From8(b)
         /\ to_num(b) \div 512 = From9(b)
         /\ to_num(b) \div 1024 = From10(b)
         /\ to_num(b) \div 2048 = From11(b)
         /\ to_num(b) \div 4096 = From12(b)
         /\ to_num(b) \div 8192 = From13(b)
         /\ to_num(b) \div 16384 = From14(b)
         /\ to_num(b) \div 32768 = From15(b)
<1> DEFINE n == to_num(b)
<1>1. n = From0(b) /\ n \in Nat
  BY ToNumByHalves, HalvesAreNumbers
<1>2. n \div 2 = From1(b)
  <2>1. From1(b) \in Nat
    BY HalvesAreNumbers
  <2> QED BY <1>1, <2>1 DEF From0, Digit, Weighted
<1> HIDE DEF n
<1>3. n \div 4 = From2(b)
  <2>1. From2(b) \in Nat
    BY HalvesAreNumbers
  <2>2. From1(b) \div 2 = From2(b)
    BY <2>1 DEF From1, Digit, Weighted
  <2> QED BY <1>1, <1>2, <2>2, Halving
<1>4. n \div 8 = From3(b)
  <2>1. From3(b) \in Nat
    BY HalvesAreNumbers
  <2>2. From2(b) \div 2 = From3(b)
    BY <2>1 DEF From2, Digit, Weighted
  <2> QED BY <1>1, <1>3, <2>2, Halving
<1>5. n \div 16 = From4(b)
  <2>1. From4(b) \in Nat
    BY HalvesAreNumbers
  <2>2. From3(b) \div 2 = From4(b)
    BY <2>1 DEF From3, Digit, Weighted
  <2> QED BY <1>1, <1>4, <2>2, Halving
<1>6. n \div 32 = From5(b)
  <2>1. From5(b) \in Nat
    BY HalvesAreNumbers
  <2>2. From4(b) \div 2 = From5(b)
    BY <2>1 DEF From4, Digit, Weighted
  <2> QED BY <1>1, <1>5, <2>2, Halving
<1>7. n \div 64 = From6(b)
  <2>1. From6(b) \in Nat
    BY HalvesAreNumbers
  <2>2. From5(b) \div 2 = From6(b)
    BY <2>1 DEF From5, Digit, Weighted
  <2> QED BY <1>1, <1>6, <2>2, Halving
<1>8. n \div 128 = From7(b)
  <2>1. From7(b) \in Nat
    BY HalvesAreNumbers
  <2>2. From6(b) \div 2 = From7(b)
    BY <2>1 DEF From6, Digit, Weighted
  <2> QED BY <1>1, <1>7, <2>2, Halving
<1>9. n \div 256 = From8(b)
  <2>1. From8(b) \in Nat
    BY HalvesAreNumbers
  <2>2. From7(b) \div 2 = From8(b)
    BY <2>1 DEF From7, Digit, Weighted
  <2> QED BY <1>1, <1>8, <2>2, Halving
<1>10. n \div 512 = From9(b)
  <2>1. From9(b) \in Nat
    BY HalvesAreNumbers
  <2>2. From8(b) \div 2 = From9(b)
    BY <2>1 DEF From8, Digit, Weighted
  <2> QED BY <1>1, <1>9, <2>2, Halving
<1>11. n \div 1024 = From10(b)
  <2>1. From10(b) \in Nat
    BY HalvesAreNumbers
  <2>2. From9(b) \div 2 = From10(b)
    BY <2>1 DEF From9, Digit, Weighted
  <2> QED BY <1>1, <1>10, <2>2, Halving
<1>12. n \div 2048 = From11(b)
  <2>1. From11(b) \in Nat
    BY HalvesAreNumbers
  <2>2. From10(b) \div 2 = From11(b)
    BY <2>1 DEF From10, Digit, Weighted
  <2> QED BY <1>1, <1>11, <2>2, Halving
<1>13. n \div 4096 = From12(b)
  <2>1. From12(b) \in Nat
    BY HalvesAreNumbers
  <2>2. From11(b) \div 2 = From12(b)
    BY <2>1 DEF From11, Digit, Weighted
  <2> QED BY <1>1, <1>12, <2>2, Halving
<1>14. n \div 8192 = From13(b)
  <2>1. From13(b) \in Nat
    BY HalvesAreNumbers
  <2>2. From12(b) \div 2 = From13(b)
    BY <2>1 DEF From12, Digit, Weighted
  <2> QED BY <1>1, <1>13, <2>2, Halving
<1>15. n \div 16384 = From14(b)
  <2>1. From14(b) \in Nat
    BY HalvesAreNumbers
  <2>2. From13(b) \div 2 = From14(b)
    BY <2>1 DEF From13, Digit, Weighted
  <2> QED BY <1>1, <1>14, <2>2, Halving
<1>16. n \div 32768 = From15(b)
  <2>1. From15(b) \in Nat
    BY HalvesAreNumbers
  <2>2. From14(b) \div 2 = From15(b)
    BY <2>1 DEF From14, Digit, Weighted
  <2> QED BY <1>1, <1>15, <2>2, Halving
<1> QED BY <1>2, <1>3, <1>4, <1>5, <1>6, <1>7, <1>8, <1>9, <1>10, <1>11, <1>12, <1>13, <1>14, <1>15, <1>16 DEF n

LEMMA BitsOfNumber ==
  ASSUME NEW b, NEW i \in BitIndex
  PROVE  Bit(to_num(b), i) <=> b[i]
<1> DEFINE n == to_num(b)
<1>1. n = From0(b) /\ n \in Nat
  BY ToNumByHalves, HalvesAreNumbers
<1>2. n \div 1 = From0(b)
  BY <1>1
<1> HIDE DEF n
<1>3. Bit(n, 0) <=> b[0]
  <2>1. n \div 1 = From0(b) /\ From1(b) \in Nat
    BY <1>2, QuotientsOfNumber, HalvesAreNumbers DEF n
  <2>2. (From0(b) % 2 = 1) <=> b[0]
    BY <2>1 DEF From0, Digit, Weighted
  <2> QED BY <2>1, <2>2, Powers DEF Bit
<1>4. Bit(n, 1) <=> b[1]
  <2>1. n \div 2 = From1(b) /\ From2(b) \in Nat
    BY <1>2, QuotientsOfNumber, HalvesAreNumbers DEF n
  <2>2. (From1(b) % 2 = 1) <=> b[1]
    BY <2>1 DEF From1, Digit, Weighted
  <2> QED BY <2>1, <2>2, Powers DEF Bit
<1>5. Bit(n, 2) <=> b[2]
  <2>1. n \div 4 = From2(b) /\ From3(b) \in Nat
    BY <1>2, QuotientsOfNumber, HalvesAreNumbers DEF n
  <2>2. (From2(b) % 2 = 1) <=> b[2]
    BY <2>1 DEF From2, Digit, Weighted
  <2> QED BY <2>1, <2>2, Powers DEF Bit
<1>6. Bit(n, 3) <=> b[3]
  <2>1. n \div 8 = From3(b) /\ From4(b) \in Nat
    BY <1>2, QuotientsOfNumber, HalvesAreNumbers DEF n
  <2>2. (From3(b) % 2 = 1) <=> b[3]
    BY <2>1 DEF From3, Digit, Weighted
  <2> QED BY <2>1, <2>2, Powers DEF Bit
<1>7. Bit(n, 4) <=> b[4]
  <2>1. n \div 16 = From4(b) /\ From5(b) \in Nat
    BY <1>2, QuotientsOfNumber, HalvesAreNumbers DEF n
  <2>2. (From4(b) % 2 = 1) <=> b[4]
    BY <2>1 DEF From4, Digit, Weighted
  <2> QED BY <2>1, <2>2, Powers DEF Bit
<1>8. Bit(n, 5) <=> b[5]
  <2>1. n \div 32 = From5(b) /\ From6(b) \in Nat
    BY <1>2, QuotientsOfNumber, HalvesAreNumbers DEF n
  <2>2. (From5(b) % 2 = 1) <=> b[5]
    BY <2>1 DEF From5, Digit, Weighted
  <2> QED BY <2>1, <2>2, Powers DEF Bit
<1>9. Bit(n, 6) <=> b[6]
  <2>1. n \div 64 = From6(b) /\ From7(b) \in Nat
    BY <1>2, QuotientsOfNumber, HalvesAreNumbers DEF n
  <2>2. (From6(b) % 2 = 1) <=> b[6]
    BY <2>1 DEF From6, Digit, Weighted
  <2> QED BY <2>1, <2>2, Powers DEF Bit
<1>10. Bit(n, 7) <=> b[7]
  <2>1. n \div 128 = From7(b) /\ From8(b) \in Nat
    BY <1>2, QuotientsOfNumber, HalvesAreNumbers DEF n
  <2>2. (From7(b) % 2 = 1) <=> b[7]
    BY <2>1 DEF From7, Digit, Weighted
  <2> QED BY <2>1, <2>2, Powers DEF Bit
<1>11. Bit(n, 8) <=> b[8]
  <2>1. n \div 256 = From8(b) /\ From9(b) \in Nat
    BY <1>2, QuotientsOfNumber, HalvesAreNumbers DEF n
  <2>2. (From8(b) % 2 = 1) <=> b[8]
    BY <2>1 DEF From8, Digit, Weighted
  <2> QED BY <2>1, <2>2, Powers DEF Bit
<1>12. Bit(n, 9) <=> b[9]
  <2>1. n \div 512 = From9(b) /\ From10(b) \in Nat
    BY <1>2, QuotientsOfNumber, HalvesAreNumbers DEF n
  <2>2. (From9(b) % 2 = 1) <=> b[9]
    BY <2>1 DEF From9, Digit, Weighted
  <2> QED BY <2>1, <2>2, Powers DEF Bit
<1>13. Bit(n, 10) <=> b[10]
  <2>1. n \div 1024 = From10(b) /\ From11(b) \in Nat
    BY <1>2, QuotientsOfNumber, HalvesAreNumbers DEF n
  <2>2. (From10(b) % 2 = 1) <=> b[10]
    BY <2>1 DEF From10, Digit, Weighted
  <2> QED BY <2>1, <2>2, Powers DEF Bit
<1>14. Bit(n, 11) <=> b[11]
  <2>1. n \div 2048 = From11(b) /\ From12(b) \in Nat
    BY <1>2, QuotientsOfNumber, HalvesAreNumbers DEF n
  <2>2. (From11(b) % 2 = 1) <=> b[11]
    BY <2>1 DEF From11, Digit, Weighted
  <2> QED BY <2>1, <2>2, Powers DEF Bit
<1>15. Bit(n, 12) <=> b[12]
  <2>1. n \div 4096 = From12(b) /\ From13(b) \in Nat
    BY <1>2, QuotientsOfNumber, HalvesAreNumbers DEF n
  <2>2. (From12(b) % 2 = 1) <=> b[12]
    BY <2>1 DEF From12, Digit, Weighted
  <2> QED BY <2>1, <2>2, Powers DEF Bit
<1>16. Bit(n, 13) <=> b[13]
  <2>1. n \div 8192 = From13(b) /\ From14(b) \in Nat
    BY <1>2, QuotientsOfNumber, HalvesAreNumbers DEF n
  <2>2. (From13(b) % 2 = 1) <=> b[13]
    BY <2>1 DEF From13, Digit, Weighted
  <2> QED BY <2>1, <2>2, Powers DEF Bit
<1>17. Bit(n, 14) <=> b[14]
  <2>1. n \div 16384 = From14(b) /\ From15(b) \in Nat
    BY <1>2, QuotientsOfNumber, HalvesAreNumbers DEF n
  <2>2. (From14(b) % 2 = 1) <=> b[14]
    BY <2>1 DEF From14, Digit, Weighted
  <2> QED BY <2>1, <2>2, Powers DEF Bit
<1>18. Bit(n, 15) <=> b[15]
  <2>1. n \div 32768 = From15(b)
    BY QuotientsOfNumber DEF n
  <2>2. (From15(b) % 2 = 1) <=> b[15]
    BY DEF From15, Digit, Weighted
  <2> QED BY <2>1, <2>2, Powers DEF Bit
<1> QED BY <1>3, <1>4, <1>5, <1>6, <1>7, <1>8, <1>9, <1>10, <1>11, <1>12, <1>13, <1>14, <1>15, <1>16, <1>17, <1>18 DEF n, BitIndex

(* A word is what to_num() makes of its bits. *)
LEMMA NumberOfBits ==
  ASSUME NEW x \in Word, NEW b, \A i \in BitIndex : b[i] <=> Bit(x, i)
  PROVE  to_num(b) = x
<1>1. x \in Nat /\ x < 65536
  BY WordIsNat, Sizes
<1>2. From15(b) = x \div 32768
  <2>1. b[15] <=> (x \div 32768) % 2 = 1
    BY Powers DEF BitIndex, Bit
  <2> QED BY <1>1, <2>1 DEF From15, Digit, Weighted
<1>3. From14(b) = x \div 16384
  <2>1. b[14] <=> (x \div 16384) % 2 = 1
    BY Powers DEF BitIndex, Bit
  <2>2. (x \div 16384) \div 2 = x \div 32768 /\ (x \div 16384) \in Nat
    BY <1>1, Halving
  <2> QED BY <1>1, <1>2, <2>1, <2>2 DEF From14, Digit, Weighted
<1>4. From13(b) = x \div 8192
  <2>1. b[13] <=> (x \div 8192) % 2 = 1
    BY Powers DEF BitIndex, Bit
  <2>2. (x \div 8192) \div 2 = x \div 16384 /\ (x \div 8192) \in Nat
    BY <1>1, Halving
  <2> QED BY <1>1, <1>3, <2>1, <2>2 DEF From13, Digit, Weighted
<1>5. From12(b) = x \div 4096
  <2>1. b[12] <=> (x \div 4096) % 2 = 1
    BY Powers DEF BitIndex, Bit
  <2>2. (x \div 4096) \div 2 = x \div 8192 /\ (x \div 4096) \in Nat
    BY <1>1, Halving
  <2> QED BY <1>1, <1>4, <2>1, <2>2 DEF From12, Digit, Weighted
<1>6. From11(b) = x \div 2048
  <2>1. b[11] <=> (x \div 2048) % 2 = 1
    BY Powers DEF BitIndex, Bit
  <2>2. (x \div 2048) \div 2 = x \div 4096 /\ (x \div 2048) \in Nat
    BY <1>1, Halving
  <2> QED BY <1>1, <1>5, <2>1, <2>2 DEF From11, Digit, Weighted
<1>7. From10(b) = x \div 1024
  <2>1. b[10] <=> (x \div 1024) % 2 = 1
    BY Powers DEF BitIndex, Bit
  <2>2. (x \div 1024) \div 2 = x \div 2048 /\ (x \div 1024) \in Nat
    BY <1>1, Halving
  <2> QED BY <1>1, <1>6, <2>1, <2>2 DEF From10, Digit, Weighted
<1>8. From9(b) = x \div 512
  <2>1. b[9] <=> (x \div 512) % 2 = 1
    BY Powers DEF BitIndex, Bit
  <2>2. (x \div 512) \div 2 = x \div 1024 /\ (x \div 512) \in Nat
    BY <1>1, Halving
  <2> QED BY <1>1, <1>7, <2>1, <2>2 DEF From9, Digit, Weighted
<1>9. From8(b) = x \div 256
  <2>1. b[8] <=> (x \div 256) % 2 = 1
    BY Powers DEF BitIndex, Bit
  <2>2. (x \div 256) \div 2 = x \div 512 /\ (x \div 256) \in Nat
    BY <1>1, Halving
  <2> QED BY <1>1, <1>8, <2>1, <2>2 DEF From8, Digit, Weighted
<1>10. From7(b) = x \div 128
  <2>1. b[7] <=> (x \div 128) % 2 = 1
    BY Powers DEF BitIndex, Bit
  <2>2. (x \div 128) \div 2 = x \div 256 /\ (x \div 128) \in Nat
    BY <1>1, Halving
  <2> QED BY <1>1, <1>9, <2>1, <2>2 DEF From7, Digit, Weighted
<1>11. From6(b) = x \div 64
  <2>1. b[6] <=> (x \div 64) % 2 = 1
    BY Powers DEF BitIndex, Bit
  <2>2. (x \div 64) \div 2 = x \div 128 /\ (x \div 64) \in Nat
    BY <1>1, Halving
  <2> QED BY <1>1, <1>10, <2>1, <2>2 DEF From6, Digit, Weighted
<1>12. From5(b) = x \div 32
  <2>1. b[5] <=> (x \div 32) % 2 = 1
    BY Powers DEF BitIndex, Bit
  <2>2. (x \div 32) \div 2 = x \div 64 /\ (x \div 32) \in Nat
    BY <1>1, Halving
  <2> QED BY <1>1, <1>11, <2>1, <2>2 DEF From5, Digit, Weighted
<1>13. From4(b) = x \div 16
  <2>1. b[4] <=> (x \div 16) % 2 = 1
    BY Powers DEF BitIndex, Bit
  <2>2. (x \div 16) \div 2 = x \div 32 /\ (x \div 16) \in Nat
    BY <1>1, Halving
  <2> QED BY <1>1, <1>12, <2>1, <2>2 DEF From4, Digit, Weighted
<1>14. From3(b) = x \div 8
  <2>1. b[3] <=> (x \div 8) % 2 = 1
    BY Powers DEF BitIndex, Bit
  <2>2. (x \div 8) \div 2 = x \div 16 /\ (x \div 8) \in Nat
    BY <1>1, Halving
  <2> QED BY <1>1, <1>13, <2>1, <2>2 DEF From3, Digit, Weighted
<1>15. From2(b) = x \div 4
  <2>1. b[2] <=> (x \div 4) % 2 = 1
    BY Powers DEF BitIndex, Bit
  <2>2. (x \div 4) \div 2 = x \div 8 /\ (x \div 4) \in Nat
    BY <1>1, Halving
  <2> QED BY <1>1, <1>14, <2>1, <2>2 DEF From2, Digit, Weighted
<1>16. From1(b) = x \div 2
  <2>1. b[1] <=> (x \div 2) % 2 = 1
    BY Powers DEF BitIndex, Bit
  <2>2. (x \div 2) \div 2 = x \div 4 /\ (x \div 2) \in Nat
    BY <1>1, Halving
  <2> QED BY <1>1, <1>15, <2>1, <2>2 DEF From1, Digit, Weighted
<1>17. From0(b) = x
  <2>1. b[0] <=> (x) % 2 = 1
    BY <1>1, Powers DEF BitIndex, Bit
  <2>2. x \div 2 = x \div 2 /\ (x) \in Nat
    BY <1>1, Halving
  <2> QED BY <1>1, <1>16, <2>1, <2>2 DEF From0, Digit, Weighted
<1> QED BY <1>17, ToNumByHalves

(* A field: the low bits of a word are the remainder (zero_ext), and with the bits above
   them copied from the field's own sign they are its signed number modulo 2^16 (sign_ext).
   One lemma for each of the widths the datapath uses. *)
LEMMA LowFiveBits ==
  ASSUME NEW x \in Word
  PROVE  /\ zero_ext(x, 4) = Low(x, 5)
         /\ sign_ext(x, 4) = Signed(x, 5) % WordSize
         /\ Low(x, 5) \in Nat /\ Low(x, 5) <= 31
<1> DEFINE b == [i \in BitIndex |-> Bit(x, i)]
           z == [i \in BitIndex |-> i <= 4 /\ Bit(x, i)]
           e == [i \in BitIndex |-> Bit(x, IF i > 4 THEN 4 ELSE i)]
<1>1. \A i \in 0..4 : (z[i] <=> b[i]) /\ (e[i] <=> b[i])
  <2>1. \A i \in 0..4 : i \in BitIndex /\ i <= 4 /\ ~(i > 4)
    BY DEF BitIndex
  <2> QED BY <2>1, Zenon
<1>2. \A i \in 5..15 : ~z[i] /\ (e[i] <=> b[4])
  <2>1. \A i \in 5..15 : i \in BitIndex /\ ~(i <= 4) /\ i > 4
    BY DEF BitIndex
  <2>2. 4 \in BitIndex
    BY DEF BitIndex
  <2> QED BY <2>1, <2>2, Zenon
<1>3. x \in Nat /\ x < 65536 /\ to_num(b) = x
  BY WordIsNat, Sizes, NumberOfBits
<1>4. zero_ext(x, 4) = to_num(z) /\ sign_ext(x, 4) = to_num(e)
  BY DEF zero_ext, sign_ext
<1> HIDE DEF b, z, e
<1>5. to_num(b) = to_num(z) + 32 * From5(b)
  BY <1>1, <1>2, SMTT(60) DEF to_num, Weighted, Digit, From5, From6, From7, From8, From9, From10, From11, From12, From13, From14, From15
<1>6. to_num(z) \in Nat /\ to_num(z) <= 31 /\ (b[4] <=> to_num(z) >= 16)
  <2>1. /\ Weighted(z[0], 1) \in Nat /\ Weighted(z[0], 1) <= 1
        /\ Weighted(z[1], 2) \in Nat /\ Weighted(z[1], 2) <= 2
        /\ Weighted(z[2], 4) \in Nat /\ Weighted(z[2], 4) <= 4
        /\ Weighted(z[3], 8) \in Nat /\ Weighted(z[3], 8) <= 8
    BY WeightedBound
  <2>2. /\ Weighted(z[5], 32) = 0
        /\ Weighted(z[6], 64) = 0
        /\ Weighted(z[7], 128) = 0
        /\ Weighted(z[8], 256) = 0
        /\ Weighted(z[9], 512) = 0
        /\ Weighted(z[10], 1024) = 0
        /\ Weighted(z[11], 2048) = 0
        /\ Weighted(z[12], 4096) = 0
        /\ Weighted(z[13], 8192) = 0
        /\ Weighted(z[14], 16384) = 0
        /\ Weighted(z[15], 32768) = 0
    BY <1>2 DEF Weighted
  <2> DEFINE lo == Weighted(z[0], 1) + Weighted(z[1], 2) + Weighted(z[2], 4) + Weighted(z[3], 8)
  <2>3. lo \in Nat /\ lo <= 15
    BY <2>1
  <2> HIDE DEF lo
  <2>5. CASE b[4]
    <3>1. Weighted(z[4], 16) = 16
      BY <1>1, <2>5 DEF Weighted
    <3>2. to_num(z) = lo + 16
      BY <2>1, <2>2, <3>1 DEF to_num, lo
    <3> QED BY <2>3, <2>5, <3>2
  <2>6. CASE ~b[4]
    <3>1. Weighted(z[4], 16) = 0
      BY <1>1, <2>6 DEF Weighted
    <3>2. to_num(z) = lo
      BY <2>1, <2>2, <3>1 DEF to_num, lo
    <3> QED BY <2>3, <2>6, <3>2
  <2> QED BY <2>5, <2>6
<1>7. to_num(e) = to_num(z) + (IF b[4] THEN 65504 ELSE 0)
  BY <1>1, <1>2, SMTT(60) DEF to_num, Weighted
<1>8. to_num(z) = x % 32
  BY <1>3, <1>5, <1>6, HalvesAreNumbers
<1>9. 2^5 = 32 /\ 2^(5 - 1) = 16
  OBVIOUS
<1>10. Low(x, 5) = to_num(z)
  BY <1>8, <1>9 DEF Low
<1>11. Signed(x, 5) = IF b[4] THEN to_num(z) - 32 ELSE to_num(z)
  BY <1>6, <1>9, <1>10 DEF Signed
<1>12. Signed(x, 5) % WordSize = to_num(e)
  <2>1. CASE b[4]
    <3>1. Signed(x, 5) = to_num(z) - 32 /\ to_num(e) = to_num(z) + 65504
      BY <2>1, <1>7, <1>11
    <3>2. (to_num(z) - 32) % 65536 = to_num(z) + 65504
      BY <1>6
    <3> QED BY <3>1, <3>2 DEF WordSize
  <2>2. CASE ~b[4]
    <3>1. Signed(x, 5) = to_num(z) /\ to_num(e) = to_num(z)
      BY <2>2, <1>6, <1>7, <1>11
    <3>2. to_num(z) % 65536 = to_num(z)
      BY <1>6
    <3> QED BY <3>1, <3>2 DEF WordSize
  <2> QED BY <2>1, <2>2
<1> QED BY <1>4, <1>6, <1>10, <1>12

LEMMA LowSixBits ==
  ASSUME NEW x \in Word
  PROVE  /\ zero_ext(x, 5) = Low(x, 6)
         /\ sign_ext(x, 5) = Signed(x, 6) % WordSize
         /\ Low(x, 6) \in Nat /\ Low(x, 6) <= 63
<1> DEFINE b == [i \in BitIndex |-> Bit(x, i)]
           z == [i \in BitIndex |-> i <= 5 /\ Bit(x, i)]
           e == [i \in BitIndex |-> Bit(x, IF i > 5 THEN 5 ELSE i)]
<1>1. \A i \in 0..5 : (z[i] <=> b[i]) /\ (e[i] <=> b[i])
  <2>1. \A i \in 0..5 : i \in BitIndex /\ i <= 5 /\ ~(i > 5)
    BY DEF BitIndex
  <2> QED BY <2>1, Zenon
<1>2. \A i \in 6..15 : ~z[i] /\ (e[i] <=> b[5])
  <2>1. \A i \in 6..15 : i \in BitIndex /\ ~(i <= 5) /\ i > 5
    BY DEF BitIndex
  <2>2. 5 \in BitIndex
    BY DEF BitIndex
  <2> QED BY <2>1, <2>2, Zenon
<1>3. x \in Nat /\ x < 65536 /\ to_num(b) = x
  BY WordIsNat, Sizes, NumberOfBits
<1>4. zero_ext(x, 5) = to_num(z) /\ sign_ext(x, 5) = to_num(e)
  BY DEF zero_ext, sign_ext
<1> HIDE DEF b, z, e
<1>5. to_num(b) = to_num(z) + 64 * From6(b)
  BY <1>1, <1>2, SMTT(60) DEF to_num, Weighted, Digit, From6, From7, From8, From9, From10, From11, From12, From13, From14, From15
<1>6. to_num(z) \in Nat /\ to_num(z) <= 63 /\ (b[5] <=> to_num(z) >= 32)
  <2>1. /\ Weighted(z[0], 1) \in Nat /\ Weighted(z[0], 1) <= 1
        /\ Weighted(z[1], 2) \in Nat /\ Weighted(z[1], 2) <= 2
        /\ Weighted(z[2], 4) \in Nat /\ Weighted(z[2], 4) <= 4
        /\ Weighted(z[3], 8) \in Nat /\ Weighted(z[3], 8) <= 8
        /\ Weighted(z[4], 16) \in Nat /\ Weighted(z[4], 16) <= 16
    BY WeightedBound
  <2>2. /\ Weighted(z[6], 64) = 0
        /\ Weighted(z[7], 128) = 0
        /\ Weighted(z[8], 256) = 0
        /\ Weighted(z[9], 512) = 0
        /\ Weighted(z[10], 1024) = 0
        /\ Weighted(z[11], 2048) = 0
        /\ Weighted(z[12], 4096) = 0
        /\ Weighted(z[13], 8192) = 0
        /\ Weighted(z[14], 16384) = 0
        /\ Weighted(z[15], 32768) = 0
    BY <1>2 DEF Weighted
  <2> DEFINE lo == Weighted(z[0], 1) + Weighted(z[1], 2) + Weighted(z[2], 4) + Weighted(z[3], 8) + Weighted(z[4], 16)
  <2>3. lo \in Nat /\ lo <= 31
    BY <2>1
  <2> HIDE DEF lo
  <2>5. CASE b[5]
    <3>1. Weighted(z[5], 32) = 32
      BY <1>1, <2>5 DEF Weighted
    <3>2. to_num(z) = lo + 32
      BY <2>1, <2>2, <3>1 DEF to_num, lo
    <3> QED BY <2>3, <2>5, <3>2
  <2>6. CASE ~b[5]
    <3>1. Weighted(z[5], 32) = 0
      BY <1>1, <2>6 DEF Weighted
    <3>2. to_num(z) = lo
      BY <2>1, <2>2, <3>1 DEF to_num, lo
    <3> QED BY <2>3, <2>6, <3>2
  <2> QED BY <2>5, <2>6
<1>7. to_num(e) = to_num(z) + (IF b[5] THEN 65472 ELSE 0)
  BY <1>1, <1>2, SMTT(60) DEF to_num, Weighted
<1>8. to_num(z) = x % 64
  BY <1>3, <1>5, <1>6, HalvesAreNumbers
<1>9. 2^6 = 64 /\ 2^(6 - 1) = 32
  OBVIOUS
<1>10. Low(x, 6) = to_num(z)
  BY <1>8, <1>9 DEF Low
<1>11. Signed(x, 6) = IF b[5] THEN to_num(z) - 64 ELSE to_num(z)
  BY <1>6, <1>9, <1>10 DEF Signed
<1>12. Signed(x, 6) % WordSize = to_num(e)
  <2>1. CASE b[5]
    <3>1. Signed(x, 6) = to_num(z) - 64 /\ to_num(e) = to_num(z) + 65472
      BY <2>1, <1>7, <1>11
    <3>2. (to_num(z) - 64) % 65536 = to_num(z) + 65472
      BY <1>6
    <3> QED BY <3>1, <3>2 DEF WordSize
  <2>2. CASE ~b[5]
    <3>1. Signed(x, 6) = to_num(z) /\ to_num(e) = to_num(z)
      BY <2>2, <1>6, <1>7, <1>11
    <3>2. to_num(z) % 65536 = to_num(z)
      BY <1>6
    <3> QED BY <3>1, <3>2 DEF WordSize
  <2> QED BY <2>1, <2>2
<1> QED BY <1>4, <1>6, <1>10, <1>12

LEMMA LowEightBits ==
  ASSUME NEW x \in Word
  PROVE  /\ zero_ext(x, 7) = Low(x, 8)
         /\ sign_ext(x, 7) = Signed(x, 8) % WordSize
         /\ Low(x, 8) \in Nat /\ Low(x, 8) <= 255
<1> DEFINE b == [i \in BitIndex |-> Bit(x, i)]
           z == [i \in BitIndex |-> i <= 7 /\ Bit(x, i)]
           e == [i \in BitIndex |-> Bit(x, IF i > 7 THEN 7 ELSE i)]
<1>1. \A i \in 0..7 : (z[i] <=> b[i]) /\ (e[i] <=> b[i])
  <2>1. \A i \in 0..7 : i \in BitIndex /\ i <= 7 /\ ~(i > 7)
    BY DEF BitIndex
  <2> QED BY <2>1, Zenon
<1>2. \A i \in 8..15 : ~z[i] /\ (e[i] <=> b[7])
  <2>1. \A i \in 8..15 : i \in BitIndex /\ ~(i <= 7) /\ i > 7
    BY DEF BitIndex
  <2>2. 7 \in BitIndex
    BY DEF BitIndex
  <2> QED BY <2>1, <2>2, Zenon
<1>3. x \in Nat /\ x < 65536 /\ to_num(b) = x
  BY WordIsNat, Sizes, NumberOfBits
<1>4. zero_ext(x, 7) = to_num(z) /\ sign_ext(x, 7) = to_num(e)
  BY DEF zero_ext, sign_ext
<1> HIDE DEF b, z, e
<1>5. to_num(b) = to_num(z) + 256 * From8(b)
  BY <1>1, <1>2, SMTT(60) DEF to_num, Weighted, Digit, From8, From9, From10, From11, From12, From13, From14, From15
<1>6. to_num(z) \in Nat /\ to_num(z) <= 255 /\ (b[7] <=> to_num(z) >= 128)
  <2>1. /\ Weighted(z[0], 1) \in Nat /\ Weighted(z[0], 1) <= 1
        /\ Weighted(z[1], 2) \in Nat /\ Weighted(z[1], 2) <= 2
        /\ Weighted(z[2], 4) \in Nat /\ Weighted(z[2], 4) <= 4
        /\ Weighted(z[3], 8) \in Nat /\ Weighted(z[3], 8) <= 8
        /\ Weighted(z[4], 16) \in Nat /\ Weighted(z[4], 16) <= 16
        /\ Weighted(z[5], 32) \in Nat /\ Weighted(z[5], 32) <= 32
        /\ Weighted(z[6], 64) \in Nat /\ Weighted(z[6], 64) <= 64
    BY WeightedBound
  <2>2. /\ Weighted(z[8], 256) = 0
        /\ Weighted(z[9], 512) = 0
        /\ Weighted(z[10], 1024) = 0
        /\ Weighted(z[11], 2048) = 0
        /\ Weighted(z[12], 4096) = 0
        /\ Weighted(z[13], 8192) = 0
        /\ Weighted(z[14], 16384) = 0
        /\ Weighted(z[15], 32768) = 0
    BY <1>2 DEF Weighted
  <2> DEFINE lo == Weighted(z[0], 1) + Weighted(z[1], 2) + Weighted(z[2], 4) + Weighted(z[3], 8) + Weighted(z[4], 16)
             mid == Weighted(z[5], 32) + Weighted(z[6], 64)
  <2>3. lo \in Nat /\ lo <= 31
    BY <2>1
  <2>4. mid \in Nat /\ mid <= 96
    BY <2>1
  <2> HIDE DEF lo, mid
  <2>5. CASE b[7]
    <3>1. Weighted(z[7], 128) = 128
      BY <1>1, <2>5 DEF Weighted
    <3>2. to_num(z) = lo + mid + 128
      BY <2>1, <2>2, <3>1 DEF to_num, lo, mid
    <3> QED BY <2>3, <2>4, <2>5, <3>2
  <2>6. CASE ~b[7]
    <3>1. Weighted(z[7], 128) = 0
      BY <1>1, <2>6 DEF Weighted
    <3>2. to_num(z) = lo + mid
      BY <2>1, <2>2, <3>1 DEF to_num, lo, mid
    <3> QED BY <2>3, <2>4, <2>6, <3>2
  <2> QED BY <2>5, <2>6
<1>7. to_num(e) = to_num(z) + (IF b[7] THEN 65280 ELSE 0)
  BY <1>1, <1>2, SMTT(60) DEF to_num, Weighted
<1>8. to_num(z) = x % 256
  BY <1>3, <1>5, <1>6, HalvesAreNumbers
<1>9. 2^8 = 256 /\ 2^(8 - 1) = 128
  OBVIOUS
<1>10. Low(x, 8) = to_num(z)
  BY <1>8, <1>9 DEF Low
<1>11. Signed(x, 8) = IF b[7] THEN to_num(z) - 256 ELSE to_num(z)
  BY <1>6, <1>9, <1>10 DEF Signed
<1>12. Signed(x, 8) % WordSize = to_num(e)
  <2>1. CASE b[7]
    <3>1. Signed(x, 8) = to_num(z) - 256 /\ to_num(e) = to_num(z) + 65280
      BY <2>1, <1>7, <1>11
    <3>2. (to_num(z) - 256) % 65536 = to_num(z) + 65280
      BY <1>6
    <3> QED BY <3>1, <3>2 DEF WordSize
  <2>2. CASE ~b[7]
    <3>1. Signed(x, 8) = to_num(z) /\ to_num(e) = to_num(z)
      BY <2>2, <1>6, <1>7, <1>11
    <3>2. to_num(z) % 65536 = to_num(z)
      BY <1>6
    <3> QED BY <3>1, <3>2 DEF WordSize
  <2> QED BY <2>1, <2>2
<1> QED BY <1>4, <1>6, <1>10, <1>12

LEMMA LowNineBits ==
  ASSUME NEW x \in Word
  PROVE  /\ zero_ext(x, 8) = Low(x, 9)
         /\ sign_ext(x, 8) = Signed(x, 9) % WordSize
         /\ Low(x, 9) \in Nat /\ Low(x, 9) <= 511
<1> DEFINE b == [i \in BitIndex |-> Bit(x, i)]
           z == [i \in BitIndex |-> i <= 8 /\ Bit(x, i)]
           e == [i \in BitIndex |-> Bit(x, IF i > 8 THEN 8 ELSE i)]
<1>1. \A i \in 0..8 : (z[i] <=> b[i]) /\ (e[i] <=> b[i])
  <2>1. \A i \in 0..8 : i \in BitIndex /\ i <= 8 /\ ~(i > 8)
    BY DEF BitIndex
  <2> QED BY <2>1, Zenon
<1>2. \A i \in 9..15 : ~z[i] /\ (e[i] <=> b[8])
  <2>1. \A i \in 9..15 : i \in BitIndex /\ ~(i <= 8) /\ i > 8
    BY DEF BitIndex
  <2>2. 8 \in BitIndex
    BY DEF BitIndex
  <2> QED BY <2>1, <2>2, Zenon
<1>3. x \in Nat /\ x < 65536 /\ to_num(b) = x
  BY WordIsNat, Sizes, NumberOfBits
<1>4. zero_ext(x, 8) = to_num(z) /\ sign_ext(x, 8) = to_num(e)
  BY DEF zero_ext, sign_ext
<1> HIDE DEF b, z, e
<1>5. to_num(b) = to_num(z) + 512 * From9(b)
  BY <1>1, <1>2, SMTT(60) DEF to_num, Weighted, Digit, From9, From10, From11, From12, From13, From14, From15
<1>6. to_num(z) \in Nat /\ to_num(z) <= 511 /\ (b[8] <=> to_num(z) >= 256)
  <2>1. /\ Weighted(z[0], 1) \in Nat /\ Weighted(z[0], 1) <= 1
        /\ Weighted(z[1], 2) \in Nat /\ Weighted(z[1], 2) <= 2
        /\ Weighted(z[2], 4) \in Nat /\ Weighted(z[2], 4) <= 4
        /\ Weighted(z[3], 8) \in Nat /\ Weighted(z[3], 8) <= 8
        /\ Weighted(z[4], 16) \in Nat /\ Weighted(z[4], 16) <= 16
        /\ Weighted(z[5], 32) \in Nat /\ Weighted(z[5], 32) <= 32
        /\ Weighted(z[6], 64) \in Nat /\ Weighted(z[6], 64) <= 64
        /\ Weighted(z[7], 128) \in Nat /\ Weighted(z[7], 128) <= 128
    BY WeightedBound
  <2>2. /\ Weighted(z[9], 512) = 0
        /\ Weighted(z[10], 1024) = 0
        /\ Weighted(z[11], 2048) = 0
        /\ Weighted(z[12], 4096) = 0
        /\ Weighted(z[13], 8192) = 0
        /\ Weighted(z[14], 16384) = 0
        /\ Weighted(z[15], 32768) = 0
    BY <1>2 DEF Weighted
  <2> DEFINE lo == Weighted(z[0], 1) + Weighted(z[1], 2) + Weighted(z[2], 4) + Weighted(z[3], 8) + Weighted(z[4], 16)
             mid == Weighted(z[5], 32) + Weighted(z[6], 64) + Weighted(z[7], 128)
  <2>3. lo \in Nat /\ lo <= 31
    BY <2>1
  <2>4. mid \in Nat /\ mid <= 224
    BY <2>1
  <2> HIDE DEF lo, mid
  <2>5. CASE b[8]
    <3>1. Weighted(z[8], 256) = 256
      BY <1>1, <2>5 DEF Weighted
    <3>2. to_num(z) = lo + mid + 256
      BY <2>1, <2>2, <3>1 DEF to_num, lo, mid
    <3> QED BY <2>3, <2>4, <2>5, <3>2
  <2>6. CASE ~b[8]
    <3>1. Weighted(z[8], 256) = 0
      BY <1>1, <2>6 DEF Weighted
    <3>2. to_num(z) = lo + mid
      BY <2>1, <2>2, <3>1 DEF to_num, lo, mid
    <3> QED BY <2>3, <2>4, <2>6, <3>2
  <2> QED BY <2>5, <2>6
<1>7. to_num(e) = to_num(z) + (IF b[8] THEN 65024 ELSE 0)
  BY <1>1, <1>2, SMTT(60) DEF to_num, Weighted
<1>8. to_num(z) = x % 512
  BY <1>3, <1>5, <1>6, HalvesAreNumbers
<1>9. 2^9 = 512 /\ 2^(9 - 1) = 256
  OBVIOUS
<1>10. Low(x, 9) = to_num(z)
  BY <1>8, <1>9 DEF Low
<1>11. Signed(x, 9) = IF b[8] THEN to_num(z) - 512 ELSE to_num(z)
  BY <1>6, <1>9, <1>10 DEF Signed
<1>12. Signed(x, 9) % WordSize = to_num(e)
  <2>1. CASE b[8]
    <3>1. Signed(x, 9) = to_num(z) - 512 /\ to_num(e) = to_num(z) + 65024
      BY <2>1, <1>7, <1>11
    <3>2. (to_num(z) - 512) % 65536 = to_num(z) + 65024
      BY <1>6
    <3> QED BY <3>1, <3>2 DEF WordSize
  <2>2. CASE ~b[8]
    <3>1. Signed(x, 9) = to_num(z) /\ to_num(e) = to_num(z)
      BY <2>2, <1>6, <1>7, <1>11
    <3>2. to_num(z) % 65536 = to_num(z)
      BY <1>6
    <3> QED BY <3>1, <3>2 DEF WordSize
  <2> QED BY <2>1, <2>2
<1> QED BY <1>4, <1>6, <1>10, <1>12

LEMMA LowElevenBits ==
  ASSUME NEW x \in Word
  PROVE  /\ zero_ext(x, 10) = Low(x, 11)
         /\ sign_ext(x, 10) = Signed(x, 11) % WordSize
         /\ Low(x, 11) \in Nat /\ Low(x, 11) <= 2047
<1> DEFINE b == [i \in BitIndex |-> Bit(x, i)]
           z == [i \in BitIndex |-> i <= 10 /\ Bit(x, i)]
           e == [i \in BitIndex |-> Bit(x, IF i > 10 THEN 10 ELSE i)]
<1>1. \A i \in 0..10 : (z[i] <=> b[i]) /\ (e[i] <=> b[i])
  <2>1. \A i \in 0..10 : i \in BitIndex /\ i <= 10 /\ ~(i > 10)
    BY DEF BitIndex
  <2> QED BY <2>1, Zenon
<1>2. \A i \in 11..15 : ~z[i] /\ (e[i] <=> b[10])
  <2>1. \A i \in 11..15 : i \in BitIndex /\ ~(i <= 10) /\ i > 10
    BY DEF BitIndex
  <2>2. 10 \in BitIndex
    BY DEF BitIndex
  <2> QED BY <2>1, <2>2, Zenon
<1>3. x \in Nat /\ x < 65536 /\ to_num(b) = x
  BY WordIsNat, Sizes, NumberOfBits
<1>4. zero_ext(x, 10) = to_num(z) /\ sign_ext(x, 10) = to_num(e)
  BY DEF zero_ext, sign_ext
<1> HIDE DEF b, z, e
<1>5. to_num(b) = to_num(z) + 2048 * From11(b)
  BY <1>1, <1>2, SMTT(60) DEF to_num, Weighted, Digit, From11, From12, From13, From14, From15
<1>6. to_num(z) \in Nat /\ to_num(z) <= 2047 /\ (b[10] <=> to_num(z) >= 1024)
  <2>1. /\ Weighted(z[0], 1) \in Nat /\ Weighted(z[0], 1) <= 1
        /\ Weighted(z[1], 2) \in Nat /\ Weighted(z[1], 2) <= 2
        /\ Weighted(z[2], 4) \in Nat /\ Weighted(z[2], 4) <= 4
        /\ Weighted(z[3], 8) \in Nat /\ Weighted(z[3], 8) <= 8
        /\ Weighted(z[4], 16) \in Nat /\ Weighted(z[4], 16) <= 16
        /\ Weighted(z[5], 32) \in Nat /\ Weighted(z[5], 32) <= 32
        /\ Weighted(z[6], 64) \in Nat /\ Weighted(z[6], 64) <= 64
        /\ Weighted(z[7], 128) \in Nat /\ Weighted(z[7], 128) <= 128
        /\ Weighted(z[8], 256) \in Nat /\ Weighted(z[8], 256) <= 256
        /\ Weighted(z[9], 512) \in Nat /\ Weighted(z[9], 512) <= 512
    BY WeightedBound
  <2>2. /\ Weighted(z[11], 2048) = 0
        /\ Weighted(z[12], 4096) = 0
        /\ Weighted(z[13], 8192) = 0
        /\ Weighted(z[14], 16384) = 0
        /\ Weighted(z[15], 32768) = 0
    BY <1>2 DEF Weighted
  <2> DEFINE lo == Weighted(z[0], 1) + Weighted(z[1], 2) + Weighted(z[2], 4) + Weighted(z[3], 8) + Weighted(z[4], 16)
             mid == Weighted(z[5], 32) + Weighted(z[6], 64) + Weighted(z[7], 128) + Weighted(z[8], 256) + Weighted(z[9], 512)
  <2>3. lo \in Nat /\ lo <= 31
    BY <2>1
  <2>4. mid \in Nat /\ mid <= 992
    BY <2>1
  <2> HIDE DEF lo, mid
  <2>5. CASE b[10]
    <3>1. Weighted(z[10], 1024) = 1024
      BY <1>1, <2>5 DEF Weighted
    <3>2. to_num(z) = lo + mid + 1024
      BY <2>1, <2>2, <3>1 DEF to_num, lo, mid
    <3> QED BY <2>3, <2>4, <2>5, <3>2
  <2>6. CASE ~b[10]
    <3>1. Weighted(z[10], 1024) = 0
      BY <1>1, <2>6 DEF Weighted
    <3>2. to_num(z) = lo + mid
      BY <2>1, <2>2, <3>1 DEF to_num, lo, mid
    <3> QED BY <2>3, <2>4, <2>6, <3>2
  <2> QED BY <2>5, <2>6
<1>7. to_num(e) = to_num(z) + (IF b[10] THEN 63488 ELSE 0)
  BY <1>1, <1>2, SMTT(60) DEF to_num, Weighted
<1>8. to_num(z) = x % 2048
  BY <1>3, <1>5, <1>6, HalvesAreNumbers
<1>9. 2^11 = 2048 /\ 2^(11 - 1) = 1024
  OBVIOUS
<1>10. Low(x, 11) = to_num(z)
  BY <1>8, <1>9 DEF Low
<1>11. Signed(x, 11) = IF b[10] THEN to_num(z) - 2048 ELSE to_num(z)
  BY <1>6, <1>9, <1>10 DEF Signed
<1>12. Signed(x, 11) % WordSize = to_num(e)
  <2>1. CASE b[10]
    <3>1. Signed(x, 11) = to_num(z) - 2048 /\ to_num(e) = to_num(z) + 63488
      BY <2>1, <1>7, <1>11
    <3>2. (to_num(z) - 2048) % 65536 = to_num(z) + 63488
      BY <1>6
    <3> QED BY <3>1, <3>2 DEF WordSize
  <2>2. CASE ~b[10]
    <3>1. Signed(x, 11) = to_num(z) /\ to_num(e) = to_num(z)
      BY <2>2, <1>6, <1>7, <1>11
    <3>2. to_num(z) % 65536 = to_num(z)
      BY <1>6
    <3> QED BY <3>1, <3>2 DEF WordSize
  <2> QED BY <2>1, <2>2
<1> QED BY <1>4, <1>6, <1>10, <1>12

(* The kind and the amount of a shift. *)
LEMMA ShiftFields ==
  ASSUME NEW x \in Word
  PROVE  /\ range(x, 3, 0) = Low(x, 4) /\ Low(x, 4) \in 0..15
         /\ range(x, 5, 4) = Low(x \div 16, 2)
<1> DEFINE b == [i \in BitIndex |-> Bit(x, i)]
           a == [i \in BitIndex |-> i + 0 <= 3 /\ Bit(x, i + 0)]
           c == [i \in BitIndex |-> i + 4 <= 5 /\ Bit(x, i + 4)]
<1>1. \A i \in 0..3 : a[i] <=> b[i]
  <2>1. \A i \in 0..3 : i \in BitIndex /\ i + 0 = i /\ i + 0 <= 3
    BY DEF BitIndex
  <2> QED BY <2>1, Zenon
<1>2. \A i \in 4..15 : ~a[i]
  <2>1. \A i \in 4..15 : i \in BitIndex /\ ~(i + 0 <= 3)
    BY DEF BitIndex
  <2> QED BY <2>1, Zenon
<1>3. \A i \in 0..1 : c[i] <=> b[i + 4]
  <2>1. \A i \in 0..1 : i \in BitIndex /\ i + 4 \in BitIndex /\ i + 4 <= 5
    BY DEF BitIndex
  <2> QED BY <2>1, Zenon
<1>4. \A i \in 2..15 : ~c[i]
  <2>1. \A i \in 2..15 : i \in BitIndex /\ ~(i + 4 <= 5)
    BY DEF BitIndex
  <2> QED BY <2>1, Zenon
<1>5. x \in Nat /\ to_num(b) = x
  BY WordIsNat, NumberOfBits
<1>6. range(x, 3, 0) = to_num(a) /\ range(x, 5, 4) = to_num(c)
  BY DEF range
<1> HIDE DEF a, b, c
<1>7. (c[0] <=> b[4]) /\ (c[1] <=> b[5])
  BY <1>3
<1>8. to_num(a) = Digit(b[0]) + 2 * Digit(b[1]) + 4 * Digit(b[2]) + 8 * Digit(b[3])
  BY <1>1, <1>2 DEF to_num, Weighted, Digit
<1>9. to_num(c) = Digit(b[4]) + 2 * Digit(b[5])
  BY <1>4, <1>7 DEF to_num, Weighted, Digit
<1>10. \A i \in BitIndex : Digit(b[i]) \in 0..1
  BY DEF Digit, Weighted
<1>11. x = to_num(a) + 16 * From4(b)
  <2>1. x = Digit(b[0]) + 2 * (Digit(b[1]) + 2 * (Digit(b[2]) + 2 * (Digit(b[3]) + 2 * From4(b))))
    BY <1>5, ToNumByHalves DEF From0, From1, From2, From3
  <2> QED BY <1>8, <1>10, <2>1, HalvesAreNumbers DEF BitIndex
<1>12. to_num(a) \in 0..15 /\ to_num(c) \in 0..3
  BY <1>8, <1>9, <1>10 DEF BitIndex
<1>13. From4(b) = to_num(c) + 4 * From6(b)
  BY <1>9, <1>10, HalvesAreNumbers DEF From4, From5, BitIndex
<1>14. 2^4 = 16 /\ 2^2 = 4
  OBVIOUS
<1>15. x % 16 = to_num(a)
  BY <1>11, <1>12, HalvesAreNumbers
<1>16. (x \div 16) % 4 = to_num(c)
  <2>1. x \div 16 = From4(b)
    BY <1>5, QuotientsOfNumber
  <2> QED BY <2>1, <1>12, <1>13, HalvesAreNumbers
<1> QED BY <1>6, <1>12, <1>14, <1>15, <1>16 DEF Low

-----------------------------------------------------------------------------
(* The opcode is the quarter of the row an instruction selects in the control store. *)
LEMMA RowOfOpcode ==
  ASSUME NEW ir \in Word
  PROVE  /\ CONTROL_STORE_ADDRESS(ir) \in 0..(CONTROL_STORE_ROWS - 1)
         /\ CONTROL_STORE_ADDRESS(ir) \div 4 = ir \div 4096
         /\ (CONTROL_STORE_ADDRESS(ir) \div 2) % 2 = (ir \div 2048) % 2
         /\ CONTROL_STORE_ADDRESS(ir) % 2 = (ir \div 32) % 2
<1> DEFINE b == [i \in BitIndex |-> Bit(ir, i)]
           f == [i \in BitIndex |-> i + 11 <= 15 /\ Bit(ir, i + 11)]
<1>1. \A i \in 0..4 : f[i] <=> b[i + 11]
  <2>1. \A i \in 0..4 : i \in BitIndex /\ i + 11 \in BitIndex /\ i + 11 <= 15
    BY DEF BitIndex
  <2> QED BY <2>1, Zenon
<1>2. \A i \in 5..15 : ~f[i]
  <2>1. \A i \in 5..15 : i \in BitIndex /\ ~(i + 11 <= 15)
    BY DEF BitIndex
  <2> QED BY <2>1, Zenon
<1>3. ir \in Nat /\ to_num(b) = ir
  BY WordIsNat, NumberOfBits
<1>4. range(ir, 15, 11) = to_num(f)
  BY DEF range
<1> HIDE DEF b, f
<1>5. (f[0] <=> b[11]) /\ (f[1] <=> b[12]) /\ (f[2] <=> b[13]) /\ (f[3] <=> b[14]) /\ (f[4] <=> b[15])
  BY <1>1
<1>6. to_num(f) = From11(b)
  BY <1>2, <1>5, SMTT(60) DEF to_num, Weighted, Digit, From11, From12, From13, From14, From15
<1>7. range(ir, 15, 11) = ir \div 2048
  BY <1>3, <1>4, <1>6, QuotientsOfNumber
<1>8. (2 * (ir \div 2048) + 0) \div 2 = ir \div 2048 /\ (2 * (ir \div 2048) + 1) \div 2 = ir \div 2048
  BY <1>3
<1>9. CONTROL_STORE_ADDRESS(ir) \div 2 = ir \div 2048
  BY <1>7, <1>8 DEF CONTROL_STORE_ADDRESS
<1>10. CONTROL_STORE_ADDRESS(ir) \in 0..(CONTROL_STORE_ROWS - 1)
  BY RowExists
<1>11. (CONTROL_STORE_ADDRESS(ir) \div 2) \div 2 = CONTROL_STORE_ADDRESS(ir) \div 4
  BY <1>10, Halving DEF CONTROL_STORE_ROWS
<1>12. /\ (2 * (ir \div 2048) + 0) % 2 = 0 /\ (2 * (ir \div 2048) + 1) % 2 = 1
       /\ (ir \div 32) % 2 = 0 \/ (ir \div 32) % 2 = 1
  BY <1>3
<1>13. CONTROL_STORE_ADDRESS(ir) % 2 = (ir \div 32) % 2
  BY <1>7, <1>12, Powers DEF CONTROL_STORE_ADDRESS, Bit
<1> QED BY <1>3, <1>9, <1>10, <1>11, <1>13, Halving

(* The shipped microcode of an instruction, by its opcode (doc/test/ucode). *)
LEMMA Microcode ==
  ASSUME NEW ir \in Word
  PROVE  LET ucode  == CONTROL_STORE[CONTROL_STORE_ADDRESS(ir)]
             opcode == ir \div 4096
         IN  /\ opcode = 0 => ucode = BR
             /\ opcode = 1 => ucode = IF (ir \div 32) % 2 = 1 THEN ADD_I ELSE ADD_R
             /\ opcode = 2 => ucode = LDB
             /\ opcode = 3 => ucode = STB
             /\ opcode = 4 => ucode = IF (ir \div 2048) % 2 = 1 THEN JSR ELSE JSRR
             /\ opcode = 5 => ucode = IF (ir \div 32) % 2 = 1 THEN AND_I ELSE AND_R
             /\ opcode = 6 => ucode = LDW
             /\ opcode = 7 => ucode = STW
             /\ opcode = 9 => ucode = IF (ir \div 32) % 2 = 1 THEN XOR_I ELSE XOR_R
             /\ opcode = 12 => ucode = JMP
             /\ opcode = 13 => ucode = SHF
             /\ opcode = 14 => ucode = LEA
             /\ opcode = 15 => ucode = TRAP
             /\ opcode \notin {3, 7} =>
                  ucode \in {BR, ADD_R, ADD_I, LDB, JSR, JSRR, AND_R, AND_I, LDW, XOR_R, XOR_I, JMP, SHF, LEA, TRAP, Unused}
<1> DEFINE row == CONTROL_STORE_ADDRESS(ir)
<1>1. /\ row \in 0..(CONTROL_STORE_ROWS - 1) /\ row \div 4 = ir \div 4096
      /\ (row \div 2) % 2 = (ir \div 2048) % 2 /\ row % 2 = (ir \div 32) % 2
  BY RowOfOpcode
<1> HIDE DEF row
<1>2. row \div 4 = 0 => CONTROL_STORE[row] = BR
  BY <1>1 DEF CONTROL_STORE
<1>3. row \div 4 = 2 => CONTROL_STORE[row] = LDB
  BY <1>1 DEF CONTROL_STORE
<1>4. row \div 4 = 3 => CONTROL_STORE[row] = STB
  BY <1>1 DEF CONTROL_STORE
<1>5. row \div 4 = 4 => CONTROL_STORE[row] = IF (row \div 2) % 2 = 1 THEN JSR ELSE JSRR
  BY <1>1 DEF CONTROL_STORE
<1>6. row \div 4 = 6 => CONTROL_STORE[row] = LDW
  BY <1>1 DEF CONTROL_STORE
<1>7. row \div 4 = 7 => CONTROL_STORE[row] = STW
  BY <1>1 DEF CONTROL_STORE
<1>8. row \div 4 = 12 => CONTROL_STORE[row] = JMP
  BY <1>1 DEF CONTROL_STORE
<1>9. row \div 4 = 14 => CONTROL_STORE[row] = LEA
  BY <1>1 DEF CONTROL_STORE
<1>10. row \div 4 = 15 => CONTROL_STORE[row] = TRAP
  BY <1>1 DEF CONTROL_STORE
<1>11. row \div 4 \notin {3, 7} =>
         CONTROL_STORE[row] \in {BR, ADD_R, ADD_I, LDB, JSR, JSRR, AND_R, AND_I, LDW, XOR_R, XOR_I, JMP, SHF, LEA, TRAP, Unused}
  BY <1>1 DEF CONTROL_STORE
<1>12. row \div 4 = 1 => CONTROL_STORE[row] = IF row % 2 = 1 THEN ADD_I ELSE ADD_R
  BY <1>1 DEF CONTROL_STORE
<1>13. row \div 4 = 5 => CONTROL_STORE[row] = IF row % 2 = 1 THEN AND_I ELSE AND_R
  BY <1>1 DEF CONTROL_STORE
<1>14. row \div 4 = 9 => CONTROL_STORE[row] = IF row % 2 = 1 THEN XOR_I ELSE XOR_R
  BY <1>1 DEF CONTROL_STORE
<1>15. row \div 4 = 13 => CONTROL_STORE[row] = SHF
  BY <1>1 DEF CONTROL_STORE
<1> QED BY <1>1, <1>2, <1>3, <1>4, <1>5, <1>6, <1>7, <1>8, <1>9, <1>10, <1>11, <1>12, <1>13, <1>14, <1>15 DEF row

(* The signals of a row are its characters that are 1. *)
LEMMA SignalsOfRow ==
  ASSUME NEW bits
  PROVE  /\ Row(bits) \in ControlWord
         /\ "ADDR1MUX" \in Row(bits) <=> bits[4] = 1
         /\ "ADDR2MUX1" \in Row(bits) <=> bits[5] = 1
         /\ "ADDR2MUX0" \in Row(bits) <=> bits[6] = 1
         /\ "LSHF1" \in Row(bits) <=> bits[7] = 1
         /\ "ADDRESSMUX" \in Row(bits) <=> bits[8] = 1
         /\ "SR2MUX" \in Row(bits) <=> bits[9] = 1
         /\ "ALUK1" \in Row(bits) <=> bits[10] = 1
         /\ "ALUK0" \in Row(bits) <=> bits[11] = 1
         /\ "ALU_RESULTMUX" \in Row(bits) <=> bits[12] = 1
         /\ "DCACHE_RW" \in Row(bits) <=> bits[18] = 1
         /\ "DATA_SIZE" \in Row(bits) <=> bits[19] = 1
<1>1. \A k \in 1..23 : CS_BITS[k] \in Row(bits) <=> \E j \in 1..23 : bits[j] = 1 /\ CS_BITS[j] = CS_BITS[k]
  BY DEF Row
<1>2. CS_BITS[4] = "ADDR1MUX" /\ \A j \in 1..23 : CS_BITS[j] = "ADDR1MUX" => j = 4
  BY DEF CS_BITS
<1>3. CS_BITS[5] = "ADDR2MUX1" /\ \A j \in 1..23 : CS_BITS[j] = "ADDR2MUX1" => j = 5
  BY DEF CS_BITS
<1>4. CS_BITS[6] = "ADDR2MUX0" /\ \A j \in 1..23 : CS_BITS[j] = "ADDR2MUX0" => j = 6
  BY DEF CS_BITS
<1>5. CS_BITS[7] = "LSHF1" /\ \A j \in 1..23 : CS_BITS[j] = "LSHF1" => j = 7
  BY DEF CS_BITS
<1>6. CS_BITS[8] = "ADDRESSMUX" /\ \A j \in 1..23 : CS_BITS[j] = "ADDRESSMUX" => j = 8
  BY DEF CS_BITS
<1>7. CS_BITS[9] = "SR2MUX" /\ \A j \in 1..23 : CS_BITS[j] = "SR2MUX" => j = 9
  BY DEF CS_BITS
<1>8. CS_BITS[10] = "ALUK1" /\ \A j \in 1..23 : CS_BITS[j] = "ALUK1" => j = 10
  BY DEF CS_BITS
<1>9. CS_BITS[11] = "ALUK0" /\ \A j \in 1..23 : CS_BITS[j] = "ALUK0" => j = 11
  BY DEF CS_BITS
<1>10. CS_BITS[12] = "ALU_RESULTMUX" /\ \A j \in 1..23 : CS_BITS[j] = "ALU_RESULTMUX" => j = 12
  BY DEF CS_BITS
<1>11. CS_BITS[18] = "DCACHE_RW" /\ \A j \in 1..23 : CS_BITS[j] = "DCACHE_RW" => j = 18
  BY DEF CS_BITS
<1>12. CS_BITS[19] = "DATA_SIZE" /\ \A j \in 1..23 : CS_BITS[j] = "DATA_SIZE" => j = 19
  BY DEF CS_BITS
<1>13. Row(bits) \in ControlWord
  BY DEF Row, ControlWord, Signals
<1> QED BY <1>1, <1>2, <1>3, <1>4, <1>5, <1>6, <1>7, <1>8, <1>9, <1>10, <1>11, <1>12, <1>13

(* The inputs of the address adder, row by row. *)
LEMMA AdderSignals ==
  /\ {"ADDR2MUX1", "LSHF1", "ADDRESSMUX"} \subseteq BR /\ {"ADDR1MUX", "ADDR2MUX0"} \cap BR = {}
  /\ {"ADDR1MUX", "ADDR2MUX0", "ADDRESSMUX"} \subseteq LDB /\ {"ADDR2MUX1", "LSHF1"} \cap LDB = {}
  /\ {"ADDR1MUX", "ADDR2MUX0", "ADDRESSMUX"} \subseteq STB /\ {"ADDR2MUX1", "LSHF1"} \cap STB = {}
  /\ {"ADDR2MUX1", "ADDR2MUX0", "LSHF1", "ADDRESSMUX"} \subseteq JSR /\ {"ADDR1MUX"} \cap JSR = {}
  /\ {"ADDR1MUX", "ADDRESSMUX"} \subseteq JSRR /\ {"ADDR2MUX1", "ADDR2MUX0", "LSHF1"} \cap JSRR = {}
  /\ {"ADDR1MUX", "ADDR2MUX0", "LSHF1", "ADDRESSMUX"} \subseteq LDW /\ {"ADDR2MUX1"} \cap LDW = {}
  /\ {"ADDR1MUX", "ADDR2MUX0", "LSHF1", "ADDRESSMUX"} \subseteq STW /\ {"ADDR2MUX1"} \cap STW = {}
  /\ {"ADDR1MUX", "ADDRESSMUX"} \subseteq JMP /\ {"ADDR2MUX1", "ADDR2MUX0", "LSHF1"} \cap JMP = {}
  /\ {"ADDR2MUX1", "LSHF1", "ADDRESSMUX"} \subseteq LEA /\ {"ADDR1MUX", "ADDR2MUX0"} \cap LEA = {}
  /\ {"ADDR1MUX", "ADDR2MUX1", "ADDR2MUX0", "LSHF1", "ADDRESSMUX"} \cap TRAP = {}
<1>1. {"ADDR2MUX1", "LSHF1", "ADDRESSMUX"} \subseteq BR /\ {"ADDR1MUX", "ADDR2MUX0"} \cap BR = {}
  BY SignalsOfRow DEF BR
<1>2. {"ADDR1MUX", "ADDR2MUX0", "ADDRESSMUX"} \subseteq LDB /\ {"ADDR2MUX1", "LSHF1"} \cap LDB = {}
  BY SignalsOfRow DEF LDB
<1>3. {"ADDR1MUX", "ADDR2MUX0", "ADDRESSMUX"} \subseteq STB /\ {"ADDR2MUX1", "LSHF1"} \cap STB = {}
  BY SignalsOfRow DEF STB
<1>4. {"ADDR2MUX1", "ADDR2MUX0", "LSHF1", "ADDRESSMUX"} \subseteq JSR /\ {"ADDR1MUX"} \cap JSR = {}
  BY SignalsOfRow DEF JSR
<1>5. {"ADDR1MUX", "ADDRESSMUX"} \subseteq JSRR /\ {"ADDR2MUX1", "ADDR2MUX0", "LSHF1"} \cap JSRR = {}
  BY SignalsOfRow DEF JSRR
<1>6. {"ADDR1MUX", "ADDR2MUX0", "LSHF1", "ADDRESSMUX"} \subseteq LDW /\ {"ADDR2MUX1"} \cap LDW = {}
  BY SignalsOfRow DEF LDW
<1>7. {"ADDR1MUX", "ADDR2MUX0", "LSHF1", "ADDRESSMUX"} \subseteq STW /\ {"ADDR2MUX1"} \cap STW = {}
  BY SignalsOfRow DEF STW
<1>8. {"ADDR1MUX", "ADDRESSMUX"} \subseteq JMP /\ {"ADDR2MUX1", "ADDR2MUX0", "LSHF1"} \cap JMP = {}
  BY SignalsOfRow DEF JMP
<1>9. {"ADDR2MUX1", "LSHF1", "ADDRESSMUX"} \subseteq LEA /\ {"ADDR1MUX", "ADDR2MUX0"} \cap LEA = {}
  BY SignalsOfRow DEF LEA
<1>10. {"ADDR1MUX", "ADDR2MUX1", "ADDR2MUX0", "LSHF1", "ADDRESSMUX"} \cap TRAP = {}
  BY SignalsOfRow DEF TRAP
<1> QED BY <1>1, <1>2, <1>3, <1>4, <1>5, <1>6, <1>7, <1>8, <1>9, <1>10

(* A store takes its value through the ALU, and STW is the one of a whole word; nothing
   else has the write enable. *)
LEMMA StoreSignals ==
  /\ {"ALUK1", "ALUK0", "ALU_RESULTMUX", "DCACHE_RW"} \subseteq STB /\ {"SR2MUX", "DATA_SIZE"} \cap STB = {}
  /\ {"ALUK1", "ALUK0", "ALU_RESULTMUX", "DCACHE_RW", "DATA_SIZE"} \subseteq STW /\ "SR2MUX" \notin STW
  /\ \A row \in {BR, ADD_R, ADD_I, LDB, JSR, JSRR, AND_R, AND_I, LDW, XOR_R, XOR_I, JMP, SHF, LEA, TRAP, Unused} :
       "DCACHE_RW" \notin row
<1>1. {"ALUK1", "ALUK0", "ALU_RESULTMUX", "DCACHE_RW"} \subseteq STB /\ {"SR2MUX", "DATA_SIZE"} \cap STB = {}
  BY SignalsOfRow DEF STB
<1>2. {"ALUK1", "ALUK0", "ALU_RESULTMUX", "DCACHE_RW", "DATA_SIZE"} \subseteq STW /\ "SR2MUX" \notin STW
  BY SignalsOfRow DEF STW
<1>3. "DCACHE_RW" \notin BR
  BY SignalsOfRow DEF BR
<1>4. "DCACHE_RW" \notin ADD_R
  BY SignalsOfRow DEF ADD_R
<1>5. "DCACHE_RW" \notin ADD_I
  BY SignalsOfRow DEF ADD_I
<1>6. "DCACHE_RW" \notin LDB
  BY SignalsOfRow DEF LDB
<1>7. "DCACHE_RW" \notin JSR
  BY SignalsOfRow DEF JSR
<1>8. "DCACHE_RW" \notin JSRR
  BY SignalsOfRow DEF JSRR
<1>9. "DCACHE_RW" \notin AND_R
  BY SignalsOfRow DEF AND_R
<1>10. "DCACHE_RW" \notin AND_I
  BY SignalsOfRow DEF AND_I
<1>11. "DCACHE_RW" \notin LDW
  BY SignalsOfRow DEF LDW
<1>12. "DCACHE_RW" \notin XOR_R
  BY SignalsOfRow DEF XOR_R
<1>13. "DCACHE_RW" \notin XOR_I
  BY SignalsOfRow DEF XOR_I
<1>14. "DCACHE_RW" \notin JMP
  BY SignalsOfRow DEF JMP
<1>15. "DCACHE_RW" \notin SHF
  BY SignalsOfRow DEF SHF
<1>16. "DCACHE_RW" \notin LEA
  BY SignalsOfRow DEF LEA
<1>17. "DCACHE_RW" \notin TRAP
  BY SignalsOfRow DEF TRAP
<1>18. "DCACHE_RW" \notin Unused
  BY SignalsOfRow DEF Unused
<1> QED BY <1>1, <1>2, <1>3, <1>4, <1>5, <1>6, <1>7, <1>8, <1>9, <1>10, <1>11, <1>12, <1>13, <1>14, <1>15, <1>16, <1>17, <1>18

(* Every row is a control word. *)
LEMMA RowsAreControlWords ==
  ASSUME NEW ir \in Word
  PROVE  CONTROL_STORE[CONTROL_STORE_ADDRESS(ir)] \in ControlWord
<1>1. {BR, ADD_R, ADD_I, LDB, STB, JSR, JSRR, AND_R, AND_I, LDW, STW, XOR_R, XOR_I, JMP, SHF, LEA, TRAP, Unused}
        \subseteq ControlWord
  BY SignalsOfRow DEF BR, ADD_R, ADD_I, LDB, STB, JSR, JSRR, AND_R, AND_I, LDW, STW, XOR_R, XOR_I, JMP, SHF, LEA, TRAP, Unused
<1> QED BY <1>1, Microcode

(* What reaches AGEX and MEMORY of a control word. *)
LEMMA SignalsArrive ==
  ASSUME NEW cs \in ControlWord
  PROVE  /\ ToAGEX_CS(cs) \in ControlWord /\ ToMEM_CS(ToAGEX_CS(cs)) \in ControlWord
         /\ "ADDR1MUX" \in ToAGEX_CS(cs) <=> "ADDR1MUX" \in cs
         /\ "ADDR2MUX1" \in ToAGEX_CS(cs) <=> "ADDR2MUX1" \in cs
         /\ "ADDR2MUX0" \in ToAGEX_CS(cs) <=> "ADDR2MUX0" \in cs
         /\ "LSHF1" \in ToAGEX_CS(cs) <=> "LSHF1" \in cs
         /\ "ADDRESSMUX" \in ToAGEX_CS(cs) <=> "ADDRESSMUX" \in cs
         /\ "SR2MUX" \in ToAGEX_CS(cs) <=> "SR2MUX" \in cs
         /\ "ALUK1" \in ToAGEX_CS(cs) <=> "ALUK1" \in cs
         /\ "ALUK0" \in ToAGEX_CS(cs) <=> "ALUK0" \in cs
         /\ "ALU_RESULTMUX" \in ToAGEX_CS(cs) <=> "ALU_RESULTMUX" \in cs
         /\ "DCACHE_RW" \in ToMEM_CS(ToAGEX_CS(cs)) <=> "DCACHE_RW" \in cs
         /\ "DATA_SIZE" \in ToMEM_CS(ToAGEX_CS(cs)) <=> "DATA_SIZE" \in cs
<1>1. ToAGEX_CS(cs) = cs \cap {AGEX_CS_BITS[k] : k \in 1..20}
  BY ControlWordSlices
<1>2. ToAGEX_CS(cs) \in ControlWord
  BY <1>1 DEF ControlWord
<1>3. ToMEM_CS(ToAGEX_CS(cs)) = ToAGEX_CS(cs) \cap {MEM_CS_BITS[k] : k \in 1..11}
  BY <1>2, ControlWordSlices
<1>4. ToMEM_CS(ToAGEX_CS(cs)) \in ControlWord
  BY <1>2, <1>3 DEF ControlWord
<1>5. /\ AGEX_CS_BITS[1] = "ADDR1MUX" /\ AGEX_CS_BITS[2] = "ADDR2MUX1" /\ AGEX_CS_BITS[3] = "ADDR2MUX0"
      /\ AGEX_CS_BITS[4] = "LSHF1" /\ AGEX_CS_BITS[5] = "ADDRESSMUX" /\ AGEX_CS_BITS[6] = "SR2MUX"
      /\ AGEX_CS_BITS[7] = "ALUK1" /\ AGEX_CS_BITS[8] = "ALUK0" /\ AGEX_CS_BITS[9] = "ALU_RESULTMUX"
      /\ AGEX_CS_BITS[15] = "DCACHE_RW" /\ AGEX_CS_BITS[16] = "DATA_SIZE"
      /\ MEM_CS_BITS[6] = "DCACHE_RW" /\ MEM_CS_BITS[7] = "DATA_SIZE"
  BY DEF AGEX_CS_BITS, MEM_CS_BITS
<1> QED BY <1>1, <1>2, <1>3, <1>4, <1>5

-----------------------------------------------------------------------------
(* << 1 doubles a word, and the adder adds modulo 2^16 whatever its inputs were cut to. *)
LEMMA Doubled ==
  ASSUME NEW x \in Word
  PROVE  ShiftLeft(x, 1) = (2 * x) % 65536
<1> DEFINE b == [i \in BitIndex |-> Bit(x, i)]
           f == [i \in BitIndex |-> i >= 1 /\ Bit(x, i - 1)]
<1>1. \A i \in 0..14 : f[i + 1] <=> b[i]
  <2>1. \A i \in 0..14 : i \in BitIndex /\ i + 1 \in BitIndex /\ i + 1 >= 1 /\ (i + 1) - 1 = i
    BY DEF BitIndex
  <2>2. \A i \in 0..14 : f[i + 1] <=> Bit(x, (i + 1) - 1)
    BY <2>1, Zenon
  <2> QED BY <2>1, <2>2, Zenon
<1>2. ~f[0]
  <2>1. 0 \in BitIndex /\ ~(0 >= 1)
    BY DEF BitIndex
  <2> QED BY <2>1, Zenon
<1>3. x \in Nat /\ x < 65536 /\ to_num(b) = x
  BY WordIsNat, Sizes, NumberOfBits
<1>4. ShiftLeft(x, 1) = to_num(f)
  BY DEF ShiftLeft
<1> HIDE DEF b, f
<1>5. /\ (f[1] <=> b[0]) /\ (f[2] <=> b[1]) /\ (f[3] <=> b[2]) /\ (f[4] <=> b[3])
      /\ (f[5] <=> b[4]) /\ (f[6] <=> b[5]) /\ (f[7] <=> b[6]) /\ (f[8] <=> b[7])
      /\ (f[9] <=> b[8]) /\ (f[10] <=> b[9]) /\ (f[11] <=> b[10]) /\ (f[12] <=> b[11])
      /\ (f[13] <=> b[12]) /\ (f[14] <=> b[13]) /\ (f[15] <=> b[14])
  BY <1>1
<1>6. to_num(f) = 2 * to_num(b) - 65536 * Digit(b[15])
  BY <1>2, <1>5, SMTT(60) DEF to_num, Weighted, Digit
<1>7. to_num(f) \in Nat /\ to_num(f) < 65536
  BY ToNumWord, WordIsNat, Sizes
<1>8. Digit(b[15]) = 0 \/ Digit(b[15]) = 1
  BY DEF Digit, Weighted
<1> HIDE DEF f
<1> DEFINE y == to_num(f)
<1>9. y \in Nat /\ y < 65536 /\ (y = 2 * x \/ y = 2 * x - 65536)
  BY <1>3, <1>6, <1>7, <1>8
<1> HIDE DEF y
<1>10. (2 * x) % 65536 = y
  BY <1>3, <1>9
<1> QED BY <1>4, <1>10 DEF y

LEMMA SumOfRemainders ==
  ASSUME NEW base \in Word, NEW offset \in Int
  PROVE  /\ Add(base, offset % WordSize) = (base + offset) % WordSize
         /\ Add(base, (2 * (offset % WordSize)) % 65536) = (base + 2 * offset) % WordSize
<1>1. base \in Int
  BY WordIsNat
<1>2. \A n \in Int : (base + (n % 65536)) % 65536 = (base + n) % 65536
  BY <1>1
<1>3. (2 * (offset % 65536)) % 65536 = (2 * offset) % 65536
  OBVIOUS
<1>4. 2 * offset \in Int
  OBVIOUS
<1>5. (base + ((2 * offset) % 65536)) % 65536 = (base + 2 * offset) % 65536
  BY <1>2, <1>4
<1>6. Add(base, offset % 65536) = (base + (offset % 65536)) % 65536
  BY DEF Add, WordSize
<1>7. Add(base, (2 * offset) % 65536) = (base + ((2 * offset) % 65536)) % 65536
  BY DEF Add, WordSize
<1>8. WordSize = 65536
  BY DEF WordSize
<1>9. Add(base, offset % WordSize) = (base + offset) % WordSize
  BY <1>2, <1>6, <1>8
<1>10. Add(base, (2 * (offset % WordSize)) % 65536) = (base + 2 * offset) % WordSize
  BY <1>3, <1>5, <1>7, <1>8
<1> QED BY <1>9, <1>10

LEMMA SignedIsInt ==
  ASSUME NEW x \in Word
  PROVE  Signed(x, 6) \in Int /\ Signed(x, 9) \in Int /\ Signed(x, 11) \in Int
BY LowSixBits, LowNineBits, LowElevenBits DEF Signed

(* What the address adder makes of the mux settings that occur. *)
LEMMA AdderOutput ==
  ASSUME NEW i \in Instruction
  PROVE  LET cs   == i.AGEX_CS
             base == IF "ADDR1MUX" \in cs THEN i.SR1 ELSE i.NPC
             sum(offset) == MemAddress(i) = (base + offset) % WordSize
         IN  /\ "ADDRESSMUX" \in cs =>
                  /\ {"ADDR2MUX1", "ADDR2MUX0", "LSHF1"} \cap cs = {} => sum(0)
                  /\ "ADDR2MUX1" \notin cs /\ {"ADDR2MUX0", "LSHF1"} \subseteq cs => sum(2 * Signed(i.IR, 6))
                  /\ {"ADDR2MUX1", "LSHF1"} \cap cs = {} /\ "ADDR2MUX0" \in cs => sum(Signed(i.IR, 6))
                  /\ "ADDR2MUX0" \notin cs /\ {"ADDR2MUX1", "LSHF1"} \subseteq cs => sum(2 * Signed(i.IR, 9))
                  /\ {"ADDR2MUX1", "ADDR2MUX0", "LSHF1"} \subseteq cs => sum(2 * Signed(i.IR, 11))
             /\ "ADDRESSMUX" \notin cs => MemAddress(i) = (0 + 2 * Low(i.IR, 8)) % WordSize
<1> DEFINE cs   == i.AGEX_CS
           base == IF "ADDR1MUX" \in cs THEN i.SR1 ELSE i.NPC
           sum(offset) == MemAddress(i) = (base + offset) % WordSize
<1>1. i.IR \in Word /\ base \in Word
  BY DEF Instruction
<1>2. /\ sign_ext(i.IR, 5) = Signed(i.IR, 6) % WordSize
      /\ sign_ext(i.IR, 8) = Signed(i.IR, 9) % WordSize
      /\ sign_ext(i.IR, 10) = Signed(i.IR, 11) % WordSize
      /\ zero_ext(i.IR, 7) = Low(i.IR, 8)
  BY <1>1, LowSixBits, LowEightBits, LowNineBits, LowElevenBits
<1>3. /\ sign_ext(i.IR, 5) \in Word /\ sign_ext(i.IR, 8) \in Word /\ sign_ext(i.IR, 10) \in Word
      /\ zero_ext(i.IR, 7) \in Word
  BY <1>1, WordOperators
<1>4. Signed(i.IR, 6) \in Int /\ Signed(i.IR, 9) \in Int /\ Signed(i.IR, 11) \in Int
  BY <1>1, SignedIsInt
<1>5. ASSUME "ADDRESSMUX" \in cs, {"ADDR2MUX1", "ADDR2MUX0", "LSHF1"} \cap cs = {} PROVE sum(0)
  <2>1. MemAddress(i) = Add(base, 0)
    BY <1>5 DEF MemAddress, AddressOffset, Get_ADDR2MUX, Mux
  <2> QED BY <2>1 DEF Add
<1>6. ASSUME "ADDRESSMUX" \in cs, "ADDR2MUX1" \notin cs, {"ADDR2MUX0", "LSHF1"} \subseteq cs
      PROVE  sum(2 * Signed(i.IR, 6))
  <2>1. MemAddress(i) = Add(base, ShiftLeft(sign_ext(i.IR, 5), 1))
    BY <1>6 DEF MemAddress, AddressOffset, Get_ADDR2MUX, Mux
  <2> HIDE DEF base
  <2>2. MemAddress(i) = Add(base, (2 * (Signed(i.IR, 6) % WordSize)) % 65536)
    BY <2>1, <1>2, <1>3, Doubled
  <2> QED BY <2>2, <1>1, <1>4, SumOfRemainders
<1>7. ASSUME "ADDRESSMUX" \in cs, {"ADDR2MUX1", "LSHF1"} \cap cs = {}, "ADDR2MUX0" \in cs
      PROVE  sum(Signed(i.IR, 6))
  <2>1. MemAddress(i) = Add(base, sign_ext(i.IR, 5))
    BY <1>7 DEF MemAddress, AddressOffset, Get_ADDR2MUX, Mux
  <2> HIDE DEF base
  <2> QED BY <2>1, <1>1, <1>2, <1>4, SumOfRemainders
<1>8. ASSUME "ADDRESSMUX" \in cs, "ADDR2MUX0" \notin cs, {"ADDR2MUX1", "LSHF1"} \subseteq cs
      PROVE  sum(2 * Signed(i.IR, 9))
  <2>1. MemAddress(i) = Add(base, ShiftLeft(sign_ext(i.IR, 8), 1))
    BY <1>8 DEF MemAddress, AddressOffset, Get_ADDR2MUX, Mux
  <2> HIDE DEF base
  <2>2. MemAddress(i) = Add(base, (2 * (Signed(i.IR, 9) % WordSize)) % 65536)
    BY <2>1, <1>2, <1>3, Doubled
  <2> QED BY <2>2, <1>1, <1>4, SumOfRemainders
<1>9. ASSUME "ADDRESSMUX" \in cs, {"ADDR2MUX1", "ADDR2MUX0", "LSHF1"} \subseteq cs
      PROVE  sum(2 * Signed(i.IR, 11))
  <2>1. MemAddress(i) = Add(base, ShiftLeft(sign_ext(i.IR, 10), 1))
    BY <1>9 DEF MemAddress, AddressOffset, Get_ADDR2MUX, Mux
  <2> HIDE DEF base
  <2>2. MemAddress(i) = Add(base, (2 * (Signed(i.IR, 11) % WordSize)) % 65536)
    BY <2>1, <1>2, <1>3, Doubled
  <2> QED BY <2>2, <1>1, <1>4, SumOfRemainders
<1>10. ASSUME "ADDRESSMUX" \notin cs PROVE MemAddress(i) = (0 + 2 * Low(i.IR, 8)) % WordSize
  <2>1. MemAddress(i) = ShiftLeft(zero_ext(i.IR, 7), 1)
    BY <1>10 DEF MemAddress
  <2>2. MemAddress(i) = (2 * Low(i.IR, 8)) % 65536
    BY <2>1, <1>2, <1>3, Doubled
  <2>3. Low(i.IR, 8) \in Nat
    BY <1>1, LowEightBits
  <2> QED BY <2>2, <2>3 DEF WordSize
<1> HIDE DEF sum
<1>11. /\ "ADDRESSMUX" \in cs =>
            /\ {"ADDR2MUX1", "ADDR2MUX0", "LSHF1"} \cap cs = {} => sum(0)
            /\ "ADDR2MUX1" \notin cs /\ {"ADDR2MUX0", "LSHF1"} \subseteq cs => sum(2 * Signed(i.IR, 6))
            /\ {"ADDR2MUX1", "LSHF1"} \cap cs = {} /\ "ADDR2MUX0" \in cs => sum(Signed(i.IR, 6))
            /\ "ADDR2MUX0" \notin cs /\ {"ADDR2MUX1", "LSHF1"} \subseteq cs => sum(2 * Signed(i.IR, 9))
            /\ {"ADDR2MUX1", "ADDR2MUX0", "LSHF1"} \subseteq cs => sum(2 * Signed(i.IR, 11))
  BY <1>5, <1>6, <1>7, <1>8, <1>9
<1> QED BY <1>10, <1>11 DEF sum

(* The instruction as DE leaves it. *)
LEMMA DecodedFields ==
  ASSUME NEW ir \in Word, NEW npc \in Word, NEW sr1 \in Word, NEW sr2 \in Word
  PROVE  LET ucode == CONTROL_STORE[CONTROL_STORE_ADDRESS(ir)]
             d     == Decoded(Create(ir, npc), ucode, sr1, sr2, 2)
         IN  /\ d.IR = ir /\ d.NPC = npc /\ d.SR1 = sr1 /\ d.SR2 = sr2 /\ d.AGEX_CS = ToAGEX_CS(ucode)
             /\ d \in Instruction
<1> DEFINE ucode == CONTROL_STORE[CONTROL_STORE_ADDRESS(ir)]
<1>1. ucode \in ControlWord /\ ToAGEX_CS(ucode) \in ControlWord
  BY RowsAreControlWords, SignalsArrive
<1> HIDE DEF ucode
<1>2. DR_ID(ir, ucode) \in RegisterId
  BY RegisterNumbers
<1>3. 0 \in Word /\ 0 \in RegisterId /\ 2 \in RegisterId /\ {} \in ControlWord
  BY Sizes DEF Word, RegisterId, ControlWord
<1>4. Create(ir, npc) \in Instruction
  BY <1>3 DEF Create, Instruction
<1>5. Create(ir, npc).IR = ir /\ Create(ir, npc).NPC = npc
  BY DEF Create
<1> DEFINE d == Decoded(Create(ir, npc), ucode, sr1, sr2, 2)
<1>6. /\ d.IR = ir /\ d.NPC = npc /\ d.SR1 = sr1 /\ d.SR2 = sr2 /\ d.AGEX_CS = ToAGEX_CS(ucode)
      /\ d \in Instruction
  BY <1>1, <1>2, <1>3, <1>4, <1>5 DEF Decoded, Instruction
<1> QED BY <1>6 DEF ucode

(* What BR, LEA and JSR compute from the next instruction on. *)
LEMMA RelativeAddress ==
  ASSUME NEW ir \in Word, NEW npc \in Word, NEW sr1 \in Word, NEW sr2 \in Word
  PROVE  LET d == Decoded(Create(ir, npc), CONTROL_STORE[CONTROL_STORE_ADDRESS(ir)], sr1, sr2, 2)
         IN  /\ ir \div 4096 \in {0, 14} => MemAddress(d) = (npc + 2 * Signed(ir, 9)) % WordSize
             /\ ir \div 4096 = 4 /\ (ir \div 2048) % 2 = 1 =>
                  MemAddress(d) = (npc + 2 * Signed(ir, 11)) % WordSize
<1> DEFINE ucode == CONTROL_STORE[CONTROL_STORE_ADDRESS(ir)]
<1>1. PICK d : d = Decoded(Create(ir, npc), ucode, sr1, sr2, 2)
  OBVIOUS
<1>2. d.IR = ir /\ d.NPC = npc /\ d.AGEX_CS = ToAGEX_CS(ucode) /\ d \in Instruction
  BY <1>1, DecodedFields
<1>3. ucode \in ControlWord
  BY RowsAreControlWords
<1>4. /\ ir \div 4096 \in {0, 14} => ucode = BR \/ ucode = LEA
      /\ ir \div 4096 = 4 /\ (ir \div 2048) % 2 = 1 => ucode = JSR
  BY Microcode
<1> HIDE DEF ucode
<1>5. \A signal \in {"ADDR1MUX", "ADDR2MUX1", "ADDR2MUX0", "LSHF1", "ADDRESSMUX"} :
        signal \in d.AGEX_CS <=> signal \in ucode
  BY <1>2, <1>3, SignalsArrive
<1>6. ir \div 4096 \in {0, 14} => MemAddress(d) = (npc + 2 * Signed(ir, 9)) % WordSize
  BY <1>2, <1>4, <1>5, AdderSignals, AdderOutput
<1>7. ir \div 4096 = 4 /\ (ir \div 2048) % 2 = 1 => MemAddress(d) = (npc + 2 * Signed(ir, 11)) % WordSize
  BY <1>2, <1>4, <1>5, AdderSignals, AdderOutput
<1> QED BY <1>1, <1>6, <1>7 DEF ucode
=============================================================================
