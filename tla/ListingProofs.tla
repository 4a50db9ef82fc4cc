--------------------------- MODULE ListingProofs ----------------------------
(***************************************************************************)
(* What the assembler makes of a statement is listed as that statement,    *)
(* and what it rejects has no word: proved for every set of files.         *)
(***************************************************************************)
EXTENDS AssemblerProofs

-----------------------------------------------------------------------------
(* The fields the disassembler reads. *)
LEMMA ThreeBits ==
  ASSUME NEW c, \A i \in 3..15 : ~c[i], NEW y \in Nat,
         c[0] <=> y % 2 = 1, c[1] <=> (y \div 2) % 2 = 1, c[2] <=> (y \div 4) % 2 = 1
  PROVE  to_num(c) = y % 8
<1>1. to_num(c) = Weighted(c[0], 1) + Weighted(c[1], 2) + Weighted(c[2], 4)
  BY DEF to_num, Weighted
<1>2. y % 2 \in 0..1 /\ (y \div 2) % 2 \in 0..1 /\ (y \div 4) % 2 \in 0..1
  OBVIOUS
<1>3. to_num(c) = (y % 2) + 2 * ((y \div 2) % 2) + 4 * ((y \div 4) % 2)
  BY <1>1, <1>2 DEF Weighted
<1>4. (y % 2) + 2 * ((y \div 2) % 2) + 4 * ((y \div 4) % 2) = y % 8
  OBVIOUS
<1> QED BY <1>3, <1>4

LEMMA RegisterFields ==
  ASSUME NEW x \in Word
  PROVE  /\ range(x, 2, 0) = x % 8
         /\ range(x, 8, 6) = (x \div 64) % 8
         /\ range(x, 11, 9) = (x \div 512) % 8
<1>1. x \in Nat
  BY WordIsNat
<1>2. range(x, 2, 0) = x % 8
  <2> DEFINE c == [i \in BitIndex |-> i + 0 <= 2 /\ Bit(x, i + 0)]
  <2>1. \A i \in 3..15 : i \in BitIndex /\ ~(i + 0 <= 2)
    BY DEF BitIndex
  <2>2. \A i \in 3..15 : ~c[i]
    BY <2>1, Zenon
  <2>3. (c[0] <=> Bit(x, 0)) /\ (c[1] <=> Bit(x, 1)) /\ (c[2] <=> Bit(x, 2))
    <3>1. /\ 0 \in BitIndex /\ 0 + 0 = 0 /\ 0 <= 2
          /\ 1 \in BitIndex /\ 1 + 0 = 1 /\ 1 <= 2
          /\ 2 \in BitIndex /\ 2 + 0 = 2 /\ 2 <= 2
      BY DEF BitIndex
    <3> QED BY <3>1, Zenon
  <2>4. range(x, 2, 0) = to_num(c)
    BY DEF range
  <2> HIDE DEF c
  <2>5. /\ c[0] <=> x % 2 = 1
        /\ c[1] <=> (x \div 2) % 2 = 1
        /\ c[2] <=> (x \div 4) % 2 = 1
    BY <1>1, <2>3, Powers DEF Bit
  <2> QED BY <1>1, <2>2, <2>4, <2>5, ThreeBits
<1>3. range(x, 8, 6) = (x \div 64) % 8
  <2> DEFINE c == [i \in BitIndex |-> i + 6 <= 8 /\ Bit(x, i + 6)]
  <2>1. \A i \in 3..15 : i \in BitIndex /\ ~(i + 6 <= 8)
    BY DEF BitIndex
  <2>2. \A i \in 3..15 : ~c[i]
    BY <2>1, Zenon
  <2>3. (c[0] <=> Bit(x, 6)) /\ (c[1] <=> Bit(x, 7)) /\ (c[2] <=> Bit(x, 8))
    <3>1. /\ 0 \in BitIndex /\ 0 + 6 = 6 /\ 6 <= 8
          /\ 1 \in BitIndex /\ 1 + 6 = 7 /\ 7 <= 8
          /\ 2 \in BitIndex /\ 2 + 6 = 8 /\ 8 <= 8
      BY DEF BitIndex
    <3> QED BY <3>1, Zenon
  <2>4. range(x, 8, 6) = to_num(c)
    BY DEF range
  <2> HIDE DEF c
  <2>5. /\ c[0] <=> (x \div 64) % 2 = 1
        /\ c[1] <=> ((x \div 64) \div 2) % 2 = 1
        /\ c[2] <=> ((x \div 64) \div 4) % 2 = 1
    BY <1>1, <2>3, Powers DEF Bit
  <2> QED BY <1>1, <2>2, <2>4, <2>5, ThreeBits
<1>4. range(x, 11, 9) = (x \div 512) % 8
  <2> DEFINE c == [i \in BitIndex |-> i + 9 <= 11 /\ Bit(x, i + 9)]
  <2>1. \A i \in 3..15 : i \in BitIndex /\ ~(i + 9 <= 11)
    BY DEF BitIndex
  <2>2. \A i \in 3..15 : ~c[i]
    BY <2>1, Zenon
  <2>3. (c[0] <=> Bit(x, 9)) /\ (c[1] <=> Bit(x, 10)) /\ (c[2] <=> Bit(x, 11))
    <3>1. /\ 0 \in BitIndex /\ 0 + 9 = 9 /\ 9 <= 11
          /\ 1 \in BitIndex /\ 1 + 9 = 10 /\ 10 <= 11
          /\ 2 \in BitIndex /\ 2 + 9 = 11 /\ 11 <= 11
      BY DEF BitIndex
    <3> QED BY <3>1, Zenon
  <2>4. range(x, 11, 9) = to_num(c)
    BY DEF range
  <2> HIDE DEF c
  <2>5. /\ c[0] <=> (x \div 512) % 2 = 1
        /\ c[1] <=> ((x \div 512) \div 2) % 2 = 1
        /\ c[2] <=> ((x \div 512) \div 4) % 2 = 1
    BY <1>1, <2>3, Powers DEF Bit
  <2> QED BY <1>1, <2>2, <2>4, <2>5, ThreeBits
<1> QED BY <1>2, <1>3, <1>4

LEMMA OpcodeField ==
  ASSUME NEW x \in Word
  PROVE  range(x, 15, 12) = x \div 4096
<1> DEFINE b == [i \in BitIndex |-> Bit(x, i)]
           f == [i \in BitIndex |-> i + 12 <= 15 /\ Bit(x, i + 12)]
<1>1. \A i \in 0..3 : f[i] <=> b[i + 12]
  <2>1. \A i \in 0..3 : i \in BitIndex /\ i + 12 \in BitIndex /\ i + 12 <= 15
    BY DEF BitIndex
  <2> QED BY <2>1, Zenon
<1>2. \A i \in 4..15 : ~f[i]
  <2>1. \A i \in 4..15 : i \in BitIndex /\ ~(i + 12 <= 15)
    BY DEF BitIndex
  <2> QED BY <2>1, Zenon
<1>3. to_num(b) = x
  BY NumberOfBits
<1>4. range(x, 15, 12) = to_num(f)
  BY DEF range
<1> HIDE DEF b, f
<1>5. (f[0] <=> b[12]) /\ (f[1] <=> b[13]) /\ (f[2] <=> b[14]) /\ (f[3] <=> b[15])
  BY <1>1
<1>6. to_num(f) = From12(b)
  BY <1>2, <1>5 DEF to_num, Weighted, Digit, From12, From13, From14, From15
<1> QED BY <1>3, <1>4, <1>6, QuotientsOfNumber

(* range<s,0>().sign_ext() as an int16_t is the field as a signed number. *)
LEMMA SignedOffset ==
  ASSUME NEW v \in Int, -32768 <= v, v < 32768
  PROVE  int16_t(v % WordSize) = v
<1>1. v % 65536 = IF v < 0 THEN v + 65536 ELSE v
  OBVIOUS
<1>2. (v + 65536) \div 32768 = 1 \/ v >= 0
  OBVIOUS
<1>3. v \div 32768 = 0 \/ v < 0
  OBVIOUS
<1> QED BY <1>1, <1>2, <1>3, Powers, Sizes DEF int16_t, Bit

LEMMA OffsetFields ==
  ASSUME NEW x \in Word
  PROVE  /\ Offset(x, 4) = Signed(x, 5) /\ Signed(x, 5) \in -16..15
         /\ Offset(x, 5) = Signed(x, 6) /\ Signed(x, 6) \in -32..31
         /\ Offset(x, 8) = Signed(x, 9) /\ Signed(x, 9) \in -256..255
         /\ Offset(x, 10) = Signed(x, 11) /\ Signed(x, 11) \in -1024..1023
<1>1. /\ 2^5 = 32 /\ 2^(5 - 1) = 16 /\ 2^6 = 64 /\ 2^(6 - 1) = 32
      /\ 2^9 = 512 /\ 2^(9 - 1) = 256 /\ 2^11 = 2048 /\ 2^(11 - 1) = 1024
  OBVIOUS
<1>2. x \in Nat
  BY WordIsNat
<1>3. /\ x % 32 \in 0..31 /\ x % 64 \in 0..63 /\ x % 512 \in 0..511 /\ x % 2048 \in 0..2047
  BY <1>2
<1>4. Signed(x, 5) \in -16..15
  BY <1>1, <1>3 DEF Signed, Low
<1>5. Signed(x, 6) \in -32..31
  BY <1>1, <1>3 DEF Signed, Low
<1>6. Signed(x, 9) \in -256..255
  BY <1>1, <1>3 DEF Signed, Low
<1>7. Signed(x, 11) \in -1024..1023
  BY <1>1, <1>3 DEF Signed, Low
<1> DEFINE Near == -1024..1023
<1>8. \A v \in Near : int16_t(v % WordSize) = v
  <2> TAKE v \in Near
  <2>1. v \in -1024..1023
    OBVIOUS
  <2>2. v \in Int /\ -32768 <= v /\ v < 32768
    BY <2>1
  <2> QED BY <2>2, SignedOffset
<1>9. Signed(x, 5) \in Near /\ Signed(x, 6) \in Near /\ Signed(x, 9) \in Near /\ Signed(x, 11) \in Near
  BY <1>4, <1>5, <1>6, <1>7
<1> HIDE DEF Near
<1>10. Offset(x, 4) = Signed(x, 5)
  <2>1. int16_t(Signed(x, 5) % WordSize) = Signed(x, 5)
    BY <1>8, <1>9
  <2>2. sign_ext(x, 4) = Signed(x, 5) % WordSize
    BY LowFiveBits
  <2> QED BY <2>1, <2>2, Zenon DEF Offset
<1>11. Offset(x, 5) = Signed(x, 6)
  <2>1. int16_t(Signed(x, 6) % WordSize) = Signed(x, 6)
    BY <1>8, <1>9
  <2>2. sign_ext(x, 5) = Signed(x, 6) % WordSize
    BY LowSixBits
  <2> QED BY <2>1, <2>2, Zenon DEF Offset
<1>12. Offset(x, 8) = Signed(x, 9)
  <2>1. int16_t(Signed(x, 9) % WordSize) = Signed(x, 9)
    BY <1>8, <1>9
  <2>2. sign_ext(x, 8) = Signed(x, 9) % WordSize
    BY LowNineBits
  <2> QED BY <2>1, <2>2, Zenon DEF Offset
<1>13. Offset(x, 10) = Signed(x, 11)
  <2>1. int16_t(Signed(x, 11) % WordSize) = Signed(x, 11)
    BY <1>8, <1>9
  <2>2. sign_ext(x, 10) = Signed(x, 11) % WordSize
    BY LowElevenBits
  <2> QED BY <2>1, <2>2, Zenon DEF Offset
<1> QED BY <1>4, <1>5, <1>6, <1>7, <1>10, <1>11, <1>12, <1>13

LEMMA OtherFields ==
  ASSUME NEW x \in Word
  PROVE  /\ range(x, 5, 0) = x % 64
         /\ range(x, 7, 0) = x % 256
         /\ range(x, 3, 0) = x % 16
         /\ range(x, 5, 4) = (x \div 16) % 4
         /\ Bit(x, 5) <=> (x \div 32) % 2 = 1
         /\ Bit(x, 11) <=> (x \div 2048) % 2 = 1
<1>1. 2^6 = 64 /\ 2^8 = 256 /\ 2^4 = 16 /\ 2^2 = 4
  OBVIOUS
<1>2. \A i \in BitIndex : i + 0 = i
  BY DEF BitIndex
<1>3. range(x, 5, 0) = zero_ext(x, 5)
  <2>1. [i \in BitIndex |-> i + 0 <= 5 /\ Bit(x, i + 0)] = [i \in BitIndex |-> i <= 5 /\ Bit(x, i)]
    BY <1>2, Zenon
  <2> QED BY <2>1 DEF range, zero_ext
<1>4. range(x, 7, 0) = zero_ext(x, 7)
  <2>1. [i \in BitIndex |-> i + 0 <= 7 /\ Bit(x, i + 0)] = [i \in BitIndex |-> i <= 7 /\ Bit(x, i)]
    BY <1>2, Zenon
  <2> QED BY <2>1 DEF range, zero_ext
<1>5. range(x, 5, 0) = x % 64 /\ range(x, 7, 0) = x % 256
  BY <1>1, <1>3, <1>4, LowSixBits, LowEightBits DEF Low
<1>6. range(x, 3, 0) = x % 16 /\ range(x, 5, 4) = (x \div 16) % 4
  BY <1>1, ShiftFields DEF Low
<1> QED BY <1>5, <1>6, Powers DEF Bit

-----------------------------------------------------------------------------
(* The fields of an encoding are those that were put together. *)
LEMMA FieldsOf ==
  ASSUME NEW op \in Field(16), NEW dr \in Field(8), NEW sr \in Field(8), NEW low \in Field(64)
  PROVE  LET w == op * 4096 + dr * 512 + sr * 64 + low
         IN  /\ w \in Word /\ w \div 4096 = op /\ (w \div 512) % 8 = dr /\ (w \div 64) % 8 = sr
             /\ w % 64 = low /\ w % 32 = low % 32 /\ w % 16 = low % 16 /\ w % 8 = low % 8
             /\ (w \div 16) % 4 = low \div 16 /\ (w \div 32) % 2 = low \div 32
<1>1. op \in Nat /\ dr \in Nat /\ dr < 8 /\ sr \in Nat /\ sr < 8 /\ low \in Nat /\ low < 64
  BY DEF Field
<1>2. PICK w : w = op * 4096 + dr * 512 + sr * 64 + low
  OBVIOUS
<1>3. w \in Word
  BY <1>2, FieldsAreWord
<1>4. w \div 4096 = op
  BY <1>1, <1>2
<1>5. w \div 512 = op * 8 + dr
  BY <1>1, <1>2
<1>6. w \div 64 = op * 64 + dr * 8 + sr
  BY <1>1, <1>2
<1>7. (w \div 512) % 8 = dr /\ (w \div 64) % 8 = sr
  BY <1>1, <1>5, <1>6
<1>8. PICK high \in Nat : w = high * 64 + low
  <2>1. op * 64 + dr * 8 + sr \in Nat
    BY <1>1
  <2> QED BY <1>1, <1>2, <2>1
<1>9. w % 64 = low /\ w % 32 = low % 32 /\ w % 16 = low % 16 /\ w % 8 = low % 8
  BY <1>1, <1>8
<1>10. w \div 16 = high * 4 + (low \div 16) /\ low \div 16 \in 0..3
  BY <1>1, <1>8
<1>11. w \div 32 = high * 2 + (low \div 32) /\ low \div 32 \in 0..1
  BY <1>1, <1>8
<1>12. (w \div 16) % 4 = low \div 16 /\ (w \div 32) % 2 = low \div 32
  BY <1>10, <1>11
<1> QED BY <1>2, <1>3, <1>4, <1>7, <1>9, <1>12

LEMMA LongFieldsOf ==
  /\ \A op \in Field(16), dr \in Field(8), low \in Field(512) :
       LET w == op * 4096 + dr * 512 + low
       IN  w \in Word /\ w \div 4096 = op /\ (w \div 512) % 8 = dr /\ w % 512 = low
  /\ \A op \in Field(16), top \in Field(2), low \in Field(2048) :
       LET w == op * 4096 + top * 2048 + low
       IN  w \in Word /\ w \div 4096 = op /\ (w \div 2048) % 2 = top /\ w % 2048 = low
  /\ \A op \in Field(16), low \in Field(256) :
       LET w == op * 4096 + low
       IN  w \in Word /\ w \div 4096 = op /\ w % 256 = low
<1>1. ASSUME NEW op \in Field(16), NEW dr \in Field(8), NEW low \in Field(512), NEW w, w = op * 4096 + dr * 512 + low
      PROVE  w \in Word /\ w \div 4096 = op /\ (w \div 512) % 8 = dr /\ w % 512 = low
  <2>1. op \in Nat /\ dr \in Nat /\ dr < 8 /\ low \in Nat /\ low < 512
    BY DEF Field
  <2>2. w \in Word
    BY <1>1, FieldsAreWord
  <2>3. w \div 512 = op * 8 + dr /\ w \div 4096 = op
    BY <1>1, <2>1
  <2>4. (w \div 512) % 8 = dr
    BY <2>1, <2>3
  <2>5. w % 512 = low
    BY <1>1, <2>1
  <2> QED BY <2>2, <2>3, <2>4, <2>5
<1>2. ASSUME NEW op \in Field(16), NEW top \in Field(2), NEW low \in Field(2048), NEW w,
             w = op * 4096 + top * 2048 + low
      PROVE  w \in Word /\ w \div 4096 = op /\ (w \div 2048) % 2 = top /\ w % 2048 = low
  <2>1. op \in Nat /\ op < 16 /\ top \in 0..1 /\ low \in Nat /\ low < 2048
    BY DEF Field
  <2>2. w \in Word
    <3>1. top * 2048 + low \in Field(4096)
      BY <2>1 DEF Field
    <3>2. w = op * 4096 + (top * 2048 + low)
      BY <1>2, <2>1
    <3> QED BY <3>1, <3>2, FieldsAreWord
  <2>3. w \div 2048 = op * 2 + top /\ w \div 4096 = op
    BY <1>2, <2>1
  <2>4. (w \div 2048) % 2 = top
    BY <2>1, <2>3
  <2>5. w % 2048 = low
    BY <1>2, <2>1
  <2> QED BY <2>2, <2>3, <2>4, <2>5
<1>3. ASSUME NEW op \in Field(16), NEW low \in Field(256), NEW w, w = op * 4096 + low
      PROVE  w \in Word /\ w \div 4096 = op /\ w % 256 = low
  <2>1. op \in Nat /\ low \in Nat /\ low < 256 /\ low \in Field(4096)
    BY DEF Field
  <2> QED BY <1>3, <2>1, FieldsAreWord
<1> QED BY <1>1, <1>2, <1>3

(* A field is listed with the number it was made from. *)
LEMMA SignedField ==
  ASSUME NEW x \in Word, NEW v \in Int
  PROVE  /\ InRange(v, 6) /\ x % 64 = v % 64 => Signed(x, 6) = v
         /\ InRange(v, 9) /\ x % 512 = v % 512 => Signed(x, 9) = v
         /\ InRange(v, 11) /\ x % 2048 = v % 2048 => Signed(x, 11) = v
<1>1. /\ 2^6 = 64 /\ 2^(6 - 1) = 32
      /\ 2^9 = 512 /\ 2^(9 - 1) = 256 /\ 2^11 = 2048 /\ 2^(11 - 1) = 1024
  OBVIOUS
<1>3. -32 <= v /\ v <= 31 => v % 64 = IF v < 0 THEN v + 64 ELSE v
  OBVIOUS
<1>4. -256 <= v /\ v <= 255 => v % 512 = IF v < 0 THEN v + 512 ELSE v
  OBVIOUS
<1>5. -1024 <= v /\ v <= 1023 => v % 2048 = IF v < 0 THEN v + 2048 ELSE v
  OBVIOUS
<1>7. InRange(v, 6) /\ x % 64 = v % 64 => Signed(x, 6) = v
  BY <1>1, <1>3 DEF Signed, Low, InRange
<1>8. InRange(v, 9) /\ x % 512 = v % 512 => Signed(x, 9) = v
  BY <1>1, <1>4 DEF Signed, Low, InRange
<1>9. InRange(v, 11) /\ x % 2048 = v % 2048 => Signed(x, 11) = v
  BY <1>1, <1>5 DEF Signed, Low, InRange
<1> QED BY <1>7, <1>8, <1>9

LEMMA FiveBits ==
  ASSUME NEW x \in Word, NEW v \in Int, InRange(v, 5), x % 32 = v % 32
  PROVE  Signed(x, 5) = v
<1>1. 2^5 = 32 /\ 2^(5 - 1) = 16
  OBVIOUS
<1>2. -16 <= v /\ v <= 15
  BY <1>1 DEF InRange
<1>3. v % 32 = IF v < 0 THEN v + 32 ELSE v
  BY <1>2
<1> QED BY <1>1, <1>2, <1>3 DEF Signed, Low

-----------------------------------------------------------------------------
(* The operands as they are listed. *)
ListedOperands(l, address) ==
  [k \in DOMAIN l.operands |-> IF TakesLabel(l) THEN Resolved(l.operands[k], address) ELSE l.operands[k]]

LEMMA Mnemonics ==
  /\ DOMAIN nzp = {"BR", "BRN", "BRZ", "BRP", "BRNZ", "BRNP", "BRZP", "BRNZP"}
  /\ DOMAIN shift_type = {"LSHF", "RSHFL", "RSHFA"}
BY DEF nzp, shift_type

ListedForm(mnemonic, ops, listed) ==
  /\ mnemonic \in {"HALT", "RET", "RTI"} => listed = Statement(mnemonic, <<>>)
  /\ mnemonic = "JMP" => listed = IF ops = <<R(7)>> THEN Statement("RET", <<>>) ELSE Statement("JMP", ops)
  /\ mnemonic = "XOR" =>
       listed = IF Len(ops) = 3 /\ ops[3] = N(-1) THEN Statement("NOT", <<ops[1], ops[2]>>) ELSE Statement("XOR", ops)
  /\ mnemonic = "TRAP" =>
       listed = IF Len(ops) # 1 THEN Statement("TRAP", ops)
                ELSE IF ops[1][1] = "#" /\ ops[1][2] \in DOMAIN trap_map THEN Statement(trap_map[ops[1][2]], <<>>)
                ELSE Statement("TRAP", <<Modulo(ops[1], 256)>>)
  /\ mnemonic \in DOMAIN shift_type =>
       listed = IF Len(ops) = 3 THEN Statement(mnemonic, <<ops[1], ops[2], Modulo(ops[3], 16)>>)
                ELSE Statement(mnemonic, ops)
  /\ mnemonic \in {"ADD", "AND", "LDB", "STB", "LEA", "JSR", "JSRR"} => listed = Statement(mnemonic, ops)
  /\ mnemonic = "LDW" => listed = Statement("LDR", ops)
  /\ mnemonic = "STW" => listed = Statement("STR", ops)
  /\ mnemonic \in DOMAIN nzp => listed = Statement(IF mnemonic = "BR" THEN "BRNZP" ELSE mnemonic, ops)

LEMMA ListedAs ==
  ASSUME NEW l, NEW address, NEW ops, ops = ListedOperands(l, address)
  PROVE  ListedForm(l.mnemonic, ops, Listed(l, address))
<1>1. l.mnemonic \in {"HALT", "RET", "RTI"} => Listed(l, address) = Statement(l.mnemonic, <<>>)
  BY Mnemonics DEF Listed, ListedOperands
<1>2. l.mnemonic = "JMP" =>
        Listed(l, address) = IF ops = <<R(7)>> THEN Statement("RET", <<>>) ELSE Statement("JMP", ops)
  BY Mnemonics DEF Listed, ListedOperands, Name
<1>3. l.mnemonic = "XOR" =>
        Listed(l, address) = IF Len(ops) = 3 /\ ops[3] = N(-1) THEN Statement("NOT", <<ops[1], ops[2]>>)
                                                              ELSE Statement("XOR", ops)
  BY Mnemonics DEF Listed, ListedOperands, Name
<1>4. l.mnemonic = "TRAP" =>
        Listed(l, address) = IF Len(ops) # 1 THEN Statement("TRAP", ops)
                             ELSE IF ops[1][1] = "#" /\ ops[1][2] \in DOMAIN trap_map
                                  THEN Statement(trap_map[ops[1][2]], <<>>)
                                  ELSE Statement("TRAP", <<Modulo(ops[1], 256)>>)
  BY Mnemonics DEF Listed, ListedOperands, Name
<1>5. l.mnemonic \in DOMAIN shift_type =>
        Listed(l, address) = IF Len(ops) = 3 THEN Statement(l.mnemonic, <<ops[1], ops[2], Modulo(ops[3], 16)>>)
                                             ELSE Statement(l.mnemonic, ops)
  BY Mnemonics DEF Listed, ListedOperands, Name
<1>6. l.mnemonic \in {"ADD", "AND", "LDB", "STB", "LEA", "JSR", "JSRR"} =>
        Listed(l, address) = Statement(l.mnemonic, ops)
  BY Mnemonics DEF Listed, ListedOperands, Name
<1>7. /\ l.mnemonic = "LDW" => Listed(l, address) = Statement("LDR", ops)
      /\ l.mnemonic = "STW" => Listed(l, address) = Statement("STR", ops)
  BY Mnemonics DEF Listed, ListedOperands, Name
<1>8. l.mnemonic \in DOMAIN nzp =>
        Listed(l, address) = Statement(IF l.mnemonic = "BR" THEN "BRNZP" ELSE l.mnemonic, ops)
  BY Mnemonics DEF Listed, ListedOperands, Name
<1> QED BY <1>1, <1>2, <1>3, <1>4, <1>5, <1>6, <1>7, <1>8 DEF ListedForm

LEMMA ResolvedOperand ==
  ASSUME NEW operand \in Operand, current_address \in Nat, \A name \in DOMAIN symbols : symbols[name] \in Nat
  PROVE  /\ operand = <<operand[1], operand[2]>>
         /\ Resolved(operand, current_address) \in Operand
         /\ parse_register(operand) = parse_register(Resolved(operand, current_address))
         /\ \A bits : parse_offset(operand, bits) = parse_immediate(Resolved(operand, current_address), bits)
<1>1. operand = <<operand[1], operand[2]>>
  BY DEF Operand
<1>2. CASE IsSymbol(operand)
  <2> DEFINE d == (symbols[operand[2]] - (current_address + 2)) \div 2
  <2>1. d \in Int
    BY <1>2 DEF IsSymbol
  <2>2. \A bits : parse_offset(operand, bits) = Unsigned(d, bits)
    BY <1>2 DEF parse_offset
  <2>3. Resolved(operand, current_address) = N(d)
    BY <1>2 DEF Resolved
  <2>4. parse_register(operand) = {}
    BY <1>2 DEF IsSymbol, parse_register
  <2> HIDE DEF d
  <2>5. N(d) \in Operand /\ parse_register(N(d)) = {} /\ \A bits : parse_immediate(N(d), bits) = Unsigned(d, bits)
    BY <2>1 DEF N, Operand, parse_register, parse_immediate
  <2> QED BY <1>1, <2>2, <2>3, <2>4, <2>5
<1>3. CASE ~IsSymbol(operand)
  BY <1>1, <1>3 DEF Resolved, parse_offset
<1> QED BY <1>2, <1>3

LEMMA ListedOperand ==
  ASSUME NEW l \in SourceLine, current_address \in Nat, \A name \in DOMAIN symbols : symbols[name] \in Nat,
         NEW ops, ops = ListedOperands(l, current_address)
  PROVE  /\ ops \in Seq(Operand) /\ Len(ops) = Len(l.operands) /\ DOMAIN ops = DOMAIN l.operands
         /\ ~TakesLabel(l) => ops = l.operands
         /\ TakesLabel(l) => \A k \in DOMAIN l.operands : ops[k] = Resolved(l.operands[k], current_address)
         /\ \A k \in DOMAIN l.operands : l.operands[k] \in Operand
<1>1. PICK given : given = l.operands
  OBVIOUS
<1>2. given \in Seq(Operand)
  BY <1>1 DEF SourceLine
<1>3. \A k \in DOMAIN given : given[k] \in Operand
  BY <1>2
<1>4. ops = [k \in DOMAIN given |-> IF TakesLabel(l) THEN Resolved(given[k], current_address) ELSE given[k]]
  BY <1>1 DEF ListedOperands
<1>5. \A k \in DOMAIN given : ops[k] \in Operand
  BY <1>3, <1>4, ResolvedOperand
<1>6. ops \in Seq(Operand) /\ Len(ops) = Len(given) /\ DOMAIN ops = DOMAIN given
  <2>1. Len(given) \in Nat /\ DOMAIN given = 1..Len(given)
    BY <1>2
  <2>2. DOMAIN ops = 1..Len(given) /\ ops = [k \in 1..Len(given) |-> ops[k]]
    BY <1>4, <2>1
  <2> QED BY <1>5, <2>1, <2>2
<1>7. ~TakesLabel(l) => ops = given
  <2>1. given = [k \in DOMAIN given |-> given[k]]
    BY <1>2
  <2>2. ~TakesLabel(l) => ops = [k \in DOMAIN given |-> given[k]]
    BY <1>4
  <2> QED BY <2>1, <2>2
<1> QED BY <1>1, <1>3, <1>4, <1>6, <1>7

LEMMA Tuples ==
  ASSUME NEW ops \in Seq(Operand)
  PROVE  /\ Len(ops) = 1 => ops = <<ops[1]>> /\ ops[1] \in Operand
         /\ Len(ops) = 2 => ops = <<ops[1], ops[2]>> /\ ops[1] \in Operand /\ ops[2] \in Operand
         /\ Len(ops) = 3 => ops = <<ops[1], ops[2], ops[3]>> /\ ops[1] \in Operand /\ ops[2] \in Operand
                            /\ ops[3] \in Operand
OBVIOUS

LEMMA ParsedRegister ==
  ASSUME NEW operand \in Operand, NEW n \in parse_register(operand)
  PROVE  operand = R(n) /\ n \in Field(8)
<1>1. operand = <<operand[1], operand[2]>>
  BY DEF Operand
<1>2. operand[1] = "R" /\ n = operand[2]
  BY DEF parse_register
<1> QED BY <1>1, <1>2, ParsedOperand DEF R

LEMMA ParsedNumber ==
  ASSUME NEW operand \in Operand, NEW bits, NEW value \in parse_immediate(operand, bits)
  PROVE  \E v \in Int : operand = N(v) /\ InRange(v, bits) /\ value = v % 2^bits
<1>1. operand = <<operand[1], operand[2]>>
  BY DEF Operand
<1>2. operand[1] = "#" /\ value \in Unsigned(operand[2], bits)
  BY DEF parse_immediate
<1>3. operand[2] \in Int
  BY <1>2, OperandKinds
<1>4. operand = N(operand[2])
  BY <1>1, <1>2 DEF N
<1> QED BY <1>2, <1>3, <1>4 DEF Unsigned

-----------------------------------------------------------------------------
(* The disassembler by opcode. *)
LEMMA Disassembled ==
  ASSUME NEW w \in Word
  PROVE  /\ w \div 4096 \in 0..15
         /\ w \div 4096 = 0 => disassemble(w) = format_branch(w)
         /\ w \div 4096 = 1 => disassemble(w) = format_operate("ADD", w)
         /\ w \div 4096 = 2 => disassemble(w) = RegisterOffset9("LD", w)
         /\ w \div 4096 = 3 => disassemble(w) = RegisterOffset9("ST", w)
         /\ w \div 4096 = 4 => disassemble(w) = IF Bit(w, 11) THEN Statement("JSR", <<N(Offset(w, 10))>>)
                                                              ELSE Statement("JSRR", <<SR1(w)>>)
         /\ w \div 4096 = 5 => disassemble(w) = format_operate("AND", w)
         /\ w \div 4096 = 6 => disassemble(w) = BaseOffset6("LDR", w)
         /\ w \div 4096 = 7 => disassemble(w) = BaseOffset6("STR", w)
         /\ w \div 4096 = 8 => disassemble(w) = Statement("RTI", <<>>)
         /\ w \div 4096 = 9 => disassemble(w) = format_operate("XOR", w)
         /\ w \div 4096 = 10 => disassemble(w) = RegisterOffset9("LDI", w)
         /\ w \div 4096 = 11 => disassemble(w) = RegisterOffset9("STI", w)
         /\ w \div 4096 = 12 => disassemble(w) = IF range(w, 8, 6) = 7 THEN Statement("RET", <<>>)
                                                                       ELSE Statement("JMP", <<SR1(w)>>)
         /\ w \div 4096 = 13 => disassemble(w) = format_shift(w)
         /\ w \div 4096 = 14 => disassemble(w) = RegisterOffset9("LEA", w)
         /\ w \div 4096 = 15 => disassemble(w) = Trap(w)
<1>1. w \div 4096 \in 0..15
  BY WordIsNat, Sizes
<1>2. range(w, 15, 12) = w \div 4096
  BY OpcodeField
<1> QED BY <1>1, <1>2 DEF disassemble

(* The disassembler's fields as numbers. *)
LEMMA ListedFields ==
  ASSUME NEW w \in Word
  PROVE  /\ DR(w) = R((w \div 512) % 8) /\ SR1(w) = R((w \div 64) % 8)
         /\ (w \div 512) % 8 \in 0..7 /\ (w \div 64) % 8 \in 0..7 /\ w % 8 \in 0..7
BY WordIsNat, RegisterFields DEF DR, SR1

-----------------------------------------------------------------------------
(* What is assembled from a statement is listed as the statement: first the words by their fields. *)
Packed(op, dr, sr, low) == op * 4096 + dr * 512 + sr * 64 + low
Operates(mnemonic, op) ==
  \/ mnemonic = "ADD" /\ op = 1
  \/ mnemonic = "AND" /\ op = 5
  \/ mnemonic = "XOR" /\ op = 9

LEMMA OperateWord ==
  ASSUME NEW mnemonic, NEW op \in Field(16), NEW dr \in Field(8), NEW sr \in Field(8), NEW low \in Field(64),
         Operates(mnemonic, op), NEW w, w = Packed(op, dr, sr, low)
  PROVE  /\ w \in Word /\ w % 32 = low % 32
         /\ disassemble(w) = format_operate(mnemonic, w)
         /\ DR(w) = R(dr) /\ SR1(w) = R(sr)
         /\ range(w, 5, 0) = low /\ range(w, 2, 0) = low % 8
         /\ Bit(w, 5) <=> low \div 32 = 1
<1>1. /\ w \in Word /\ w \div 4096 = op /\ (w \div 512) % 8 = dr /\ (w \div 64) % 8 = sr /\ w % 64 = low
      /\ w % 8 = low % 8 /\ (w \div 32) % 2 = low \div 32 /\ w % 32 = low % 32
  BY FieldsOf DEF Packed
<1>2. DR(w) = R(dr) /\ SR1(w) = R(sr)
  BY <1>1, ListedFields
<1>3. disassemble(w) = format_operate(mnemonic, w)
  <2>1. op = 1 => disassemble(w) = format_operate("ADD", w)
    BY <1>1, OpcodeField DEF disassemble
  <2>2. op = 5 => disassemble(w) = format_operate("AND", w)
    BY <1>1, OpcodeField DEF disassemble
  <2>3. op = 9 => disassemble(w) = format_operate("XOR", w)
    BY <1>1, OpcodeField DEF disassemble
  <2> QED BY <2>1, <2>2, <2>3 DEF Operates
<1>4. range(w, 5, 0) = low /\ (Bit(w, 5) <=> low \div 32 = 1)
  BY <1>1, OtherFields
<1>5. range(w, 2, 0) = low % 8
  BY <1>1, RegisterFields
<1> QED BY <1>1, <1>2, <1>3, <1>4, <1>5

LEMMA OperateRegister ==
  ASSUME NEW mnemonic, NEW op \in Field(16), Operates(mnemonic, op), NEW dr \in Field(8), NEW sr \in Field(8),
         NEW n \in Field(8), NEW w, w = Packed(op, dr, sr, n)
  PROVE  disassemble(w) = Statement(mnemonic, <<R(dr), R(sr), R(n)>>)
<1>1. n \in Field(64) /\ n \div 32 = 0 /\ n % 8 = n /\ n # 63
  BY DEF Field
<1>2. /\ disassemble(w) = format_operate(mnemonic, w)
      /\ DR(w) = R(dr) /\ SR1(w) = R(sr)
      /\ range(w, 5, 0) = n /\ range(w, 2, 0) = n % 8
      /\ Bit(w, 5) <=> n \div 32 = 1
  BY <1>1, OperateWord
<1> QED BY <1>1, <1>2 DEF format_operate

OperateNumber(mnemonic, dr, sr, v) ==
  IF mnemonic = "XOR" /\ v = -1 THEN Statement("NOT", <<dr, sr>>) ELSE Statement(mnemonic, <<dr, sr, N(v)>>)

LEMMA OperateImmediate ==
  ASSUME NEW mnemonic, NEW op \in Field(16), Operates(mnemonic, op), NEW dr \in Field(8), NEW sr \in Field(8),
         NEW v \in Int, InRange(v, 5), NEW low, low = 32 + (v % 32), NEW w, w = Packed(op, dr, sr, low)
  PROVE  disassemble(w) = OperateNumber(mnemonic, R(dr), R(sr), v)
<1>1. low \in Field(64) /\ low \div 32 = 1 /\ low % 32 = v % 32
  BY DEF Field
<1>2. low = 63 <=> v = -1
  <2>1. 2^(5 - 1) = 16
    OBVIOUS
  <2>2. -16 <= v /\ v <= 15
    BY <2>1 DEF InRange
  <2> QED BY <2>2
<1>3. /\ w \in Word /\ w % 32 = low % 32
      /\ disassemble(w) = format_operate(mnemonic, w)
      /\ DR(w) = R(dr) /\ SR1(w) = R(sr)
      /\ range(w, 5, 0) = low /\ range(w, 2, 0) = low % 8
      /\ Bit(w, 5) <=> low \div 32 = 1
  BY <1>1, OperateWord
<1>4. Offset(w, 4) = v
  <2>1. w \in Word /\ w % 32 = v % 32
    BY <1>1, <1>3
  <2>2. Signed(w, 5) = v
    BY <2>1, FiveBits
  <2> QED BY <2>1, <2>2, OffsetFields
<1> QED BY <1>1, <1>2, <1>3, <1>4 DEF format_operate, OperateNumber

LEMMA LoadStoreWord ==
  ASSUME NEW mnemonic, NEW op \in Field(16), NEW dr \in Field(8), NEW base \in Field(8), NEW v \in Int, InRange(v, 6),
         (mnemonic = "LDR" /\ op = 6) \/ (mnemonic = "STR" /\ op = 7),
         NEW w, w = op * 4096 + dr * 512 + base * 64 + (v % 64)
  PROVE  disassemble(w) = Statement(mnemonic, <<R(dr), R(base), N(v)>>)
<1>1. v % 64 \in Field(64) /\ (v % 64) % 64 = v % 64
  BY DEF Field
<1>2. w \in Word /\ w \div 4096 = op /\ (w \div 512) % 8 = dr /\ (w \div 64) % 8 = base /\ w % 64 = v % 64
  BY <1>1, FieldsOf
<1>3. DR(w) = R(dr) /\ SR1(w) = R(base)
  BY <1>2, ListedFields
<1>4. Offset(w, 5) = v
  <2>1. Signed(w, 6) = v
    BY <1>2, SignedField
  <2> QED BY <1>2, <2>1, OffsetFields
<1>5. op = 6 => disassemble(w) = BaseOffset6("LDR", w)
  BY <1>2, OpcodeField DEF disassemble
<1>6. op = 7 => disassemble(w) = BaseOffset6("STR", w)
  BY <1>2, OpcodeField DEF disassemble
<1> QED BY <1>3, <1>4, <1>5, <1>6 DEF BaseOffset6

LEMMA ShiftFormat ==
  ASSUME NEW w, range(w, 5, 4) # 2
  PROVE  format_shift(w) = Statement(ShiftName[range(w, 5, 4)], <<DR(w), SR1(w), N(range(w, 3, 0))>>)
BY DEF format_shift

ShiftPacked(dr, sr, kind, amount) == 13 * 4096 + dr * 512 + sr * 64 + kind * 16 + amount

LEMMA ShiftWord ==
  ASSUME NEW kind \in Field(4), kind # 2, NEW dr \in Field(8), NEW sr \in Field(8), NEW amount \in Field(16),
         NEW w, w = ShiftPacked(dr, sr, kind, amount)
  PROVE  disassemble(w) = Statement(ShiftName[kind], <<R(dr), R(sr), N(amount)>>)
<1>1. amount \in Nat /\ amount < 16 /\ dr \in Nat /\ sr \in Nat /\ kind \in 0..3
  BY DEF Field
<1>2. /\ kind * 16 + amount \in Field(64) /\ (kind * 16 + amount) % 16 = amount /\ (kind * 16 + amount) \div 16 = kind
      /\ 13 \in Field(16)
  BY <1>1 DEF Field
<1>3. w = 13 * 4096 + dr * 512 + sr * 64 + (kind * 16 + amount)
  BY <1>1 DEF ShiftPacked
<1>4. /\ w \in Word /\ w \div 4096 = 13 /\ (w \div 512) % 8 = dr /\ (w \div 64) % 8 = sr
      /\ w % 16 = amount /\ (w \div 16) % 4 = kind
  BY <1>2, <1>3, FieldsOf
<1>5. DR(w) = R(dr) /\ SR1(w) = R(sr)
  BY <1>4, ListedFields
<1>6. range(w, 3, 0) = amount /\ range(w, 5, 4) = kind
  BY <1>4, OtherFields
<1>7. disassemble(w) = format_shift(w)
  BY <1>4, OpcodeField DEF disassemble
<1>8. format_shift(w) = Statement(ShiftName[range(w, 5, 4)], <<DR(w), SR1(w), N(range(w, 3, 0))>>)
  <2>1. range(w, 5, 4) # 2
    BY <1>6
  <2> QED BY <2>1, ShiftFormat
<1> QED BY <1>5, <1>6, <1>7, <1>8

LEMMA BranchWord ==
  ASSUME NEW codes \in 1..7, NEW v \in Int, InRange(v, 9), NEW w, w = codes * 512 + (v % 512)
  PROVE  disassemble(w) = Statement(BranchName[codes], <<N(v)>>)
<1>1. v % 512 \in Field(512) /\ codes \in Field(8) /\ 0 \in Field(16) /\ w = 0 * 4096 + codes * 512 + (v % 512)
  BY DEF Field
<1>2. w \in Word /\ w \div 4096 = 0 /\ (w \div 512) % 8 = codes /\ w % 512 = v % 512
  BY <1>1, LongFieldsOf
<1>3. range(w, 11, 9) = codes
  BY <1>2, RegisterFields
<1>4. Offset(w, 8) = v
  BY <1>2, OffsetFields, SignedField
<1>5. disassemble(w) = format_branch(w)
  <2>1. range(w, 15, 12) = 0
    BY <1>2, OpcodeField
  <2> QED BY <2>1 DEF disassemble
<1> QED BY <1>3, <1>4, <1>5 DEF format_branch

LEMMA AddressWord ==
  ASSUME NEW dr \in Field(8), NEW v \in Int, InRange(v, 9), NEW w, w = 14 * 4096 + dr * 512 + (v % 512)
  PROVE  disassemble(w) = Statement("LEA", <<R(dr), N(v)>>)
<1>1. v % 512 \in Field(512) /\ 14 \in Field(16)
  BY DEF Field
<1>2. w \in Word /\ w \div 4096 = 14 /\ (w \div 512) % 8 = dr /\ w % 512 = v % 512
  BY <1>1, LongFieldsOf
<1>3. DR(w) = R(dr)
  BY <1>2, ListedFields
<1>4. Offset(w, 8) = v
  BY <1>2, OffsetFields, SignedField
<1>5. disassemble(w) = RegisterOffset9("LEA", w)
  BY <1>2, OpcodeField DEF disassemble
<1> QED BY <1>3, <1>4, <1>5 DEF RegisterOffset9

LEMMA SubroutineWord ==
  ASSUME NEW v \in Int, InRange(v, 11), NEW w, w = 4 * 4096 + 2048 + (v % 2048)
  PROVE  disassemble(w) = Statement("JSR", <<N(v)>>)
<1>1. v % 2048 \in Field(2048) /\ 4 \in Field(16) /\ 1 \in Field(2) /\ w = 4 * 4096 + 1 * 2048 + (v % 2048)
  BY DEF Field
<1>2. w \in Word /\ w \div 4096 = 4 /\ (w \div 2048) % 2 = 1 /\ w % 2048 = v % 2048
  BY <1>1, LongFieldsOf
<1>3. Bit(w, 11)
  BY <1>2, OtherFields
<1>4. Offset(w, 10) = v
  BY <1>2, OffsetFields, SignedField
<1>5. disassemble(w) = IF Bit(w, 11) THEN Statement("JSR", <<N(Offset(w, 10))>>) ELSE Statement("JSRR", <<SR1(w)>>)
  BY <1>2, OpcodeField DEF disassemble
<1> QED BY <1>3, <1>4, <1>5

LEMMA BaseWord ==
  ASSUME NEW base \in Field(8), NEW w, w = 4 * 4096 + base * 64, NEW x, x = 12 * 4096 + base * 64
  PROVE  /\ disassemble(w) = Statement("JSRR", <<R(base)>>)
         /\ disassemble(x) = IF base = 7 THEN Statement("RET", <<>>) ELSE Statement("JMP", <<R(base)>>)
<1>1. 0 \in Field(8) /\ 0 \in Field(64) /\ 4 \in Field(16) /\ 12 \in Field(16) /\ base \in Nat /\ base < 8
  BY DEF Field
<1>2. w = 4 * 4096 + 0 * 512 + base * 64 + 0 /\ x = 12 * 4096 + 0 * 512 + base * 64 + 0
  BY <1>1
<1>3. w \in Word /\ w \div 4096 = 4 /\ (w \div 64) % 8 = base /\ (w \div 512) % 8 = 0
  BY <1>1, <1>2, FieldsOf
<1>4. x \in Word /\ x \div 4096 = 12 /\ (x \div 64) % 8 = base
  BY <1>1, <1>2, FieldsOf
<1>5. (w \div 2048) % 2 = 0
  BY <1>1
<1>6. ~Bit(w, 11)
  BY <1>3, <1>5, OtherFields
<1>7. SR1(w) = R(base) /\ SR1(x) = R(base) /\ range(x, 8, 6) = base
  BY <1>3, <1>4, ListedFields, RegisterFields
<1>8. disassemble(w) = IF Bit(w, 11) THEN Statement("JSR", <<N(Offset(w, 10))>>) ELSE Statement("JSRR", <<SR1(w)>>)
  BY <1>3, OpcodeField DEF disassemble
<1>9. disassemble(x) = IF range(x, 8, 6) = 7 THEN Statement("RET", <<>>) ELSE Statement("JMP", <<SR1(x)>>)
  BY <1>4, OpcodeField DEF disassemble
<1> QED BY <1>6, <1>7, <1>8, <1>9

LEMMA TrapWord ==
  ASSUME NEW vector \in Field(256), NEW w, w = 15 * 4096 + vector
  PROVE  disassemble(w) =
           IF vector \in DOMAIN trap_map THEN Statement(trap_map[vector], <<>>) ELSE Statement("TRAP", <<N(vector)>>)
<1>1. 15 \in Field(16)
  BY DEF Field
<1>2. w \in Word /\ w \div 4096 = 15 /\ w % 256 = vector
  BY <1>1, LongFieldsOf
<1>3. range(w, 7, 0) = vector
  BY <1>2, OtherFields
<1>4. disassemble(w) = Trap(w)
  BY <1>2, OpcodeField DEF disassemble
<1> QED BY <1>3, <1>4 DEF Trap

LEMMA PlainWords ==
  /\ disassemble(61477) = Statement("HALT", <<>>)
  /\ disassemble(49600) = Statement("RET", <<>>)
  /\ disassemble(32768) = Statement("RTI", <<>>)
<1>1. disassemble(61477) = Statement("HALT", <<>>)
  <2>1. 61477 \in Word /\ 61477 \div 4096 = 15 /\ 61477 % 256 = 37
    BY Sizes DEF Word
  <2>2. disassemble(61477) = Trap(61477) /\ range(61477, 7, 0) = 37
    BY <2>1, OpcodeField, OtherFields DEF disassemble
  <2>3. 37 \in DOMAIN trap_map /\ trap_map[37] = "HALT"
    BY DEF trap_map
  <2> QED BY <2>2, <2>3 DEF Trap
<1>2. disassemble(49600) = Statement("RET", <<>>)
  <2>1. 49600 \in Word /\ 49600 \div 4096 = 12 /\ (49600 \div 64) % 8 = 7
    BY Sizes DEF Word
  <2>2. range(49600, 8, 6) = 7 /\ range(49600, 15, 12) = 12
    BY <2>1, OpcodeField, RegisterFields
  <2> QED BY <2>2 DEF disassemble
<1>3. disassemble(32768) = Statement("RTI", <<>>)
  <2>1. 32768 \in Word /\ 32768 \div 4096 = 8
    BY Sizes DEF Word
  <2> QED BY <2>1, OpcodeField DEF disassemble
<1> QED BY <1>1, <1>2, <1>3

(* The same in terms of the operands. *)
LEMMA OperateListed ==
  ASSUME NEW mnemonic \in {"ADD", "AND", "XOR"}, NEW ops \in Seq(Operand), Len(ops) = 3,
         NEW w \in assemble_add_and(opcodes[mnemonic], ops)
  PROVE  disassemble(w) = IF mnemonic = "XOR" /\ ops[3] = N(-1) THEN Statement("NOT", <<ops[1], ops[2]>>)
                                                                ELSE Statement(mnemonic, ops)
<1>1. ops[1] \in Operand /\ ops[2] \in Operand /\ ops[3] \in Operand /\ ops = <<ops[1], ops[2], ops[3]>>
  BY Tuples
<1>2. PICK op : op = opcodes[mnemonic]
  OBVIOUS
<1>3. op \in Field(16) /\ Operates(mnemonic, op)
  <2>1. opcodes["ADD"] = 1 /\ opcodes["AND"] = 5 /\ opcodes["XOR"] = 9
    BY DEF opcodes
  <2>2. 1 \in Field(16) /\ 5 \in Field(16) /\ 9 \in Field(16)
    BY DEF Field
  <2> QED BY <1>2, <2>1, <2>2 DEF Operates
<1>4. PICK dr \in parse_register(ops[1]), sr1 \in parse_register(ops[2]),
           operand2 \in parse_register(ops[3]) \cup {32 + imm5 : imm5 \in parse_immediate(ops[3], 5)} :
        w = Packed(op, dr, sr1, operand2)
  BY <1>2 DEF assemble_add_and, Packed
<1>5. dr \in Field(8) /\ sr1 \in Field(8) /\ ops[1] = R(dr) /\ ops[2] = R(sr1)
  BY <1>1, ParsedRegister
<1>6. CASE operand2 \in parse_register(ops[3])
  <2>1. operand2 \in Field(8) /\ ops[3] = R(operand2)
    BY <1>1, <1>6, ParsedRegister
  <2>2. disassemble(w) = Statement(mnemonic, <<R(dr), R(sr1), R(operand2)>>)
    BY <1>3, <1>4, <1>5, <2>1, OperateRegister
  <2>3. ops[3] # N(-1)
    BY <2>1 DEF R, N
  <2> QED BY <1>1, <1>5, <2>1, <2>2, <2>3
<1>7. CASE operand2 \in {32 + imm5 : imm5 \in parse_immediate(ops[3], 5)}
  <2>1. PICK imm5 \in parse_immediate(ops[3], 5) : operand2 = 32 + imm5
    BY <1>7
  <2>2. PICK v \in Int : ops[3] = N(v) /\ InRange(v, 5) /\ imm5 = v % 2^5
    BY <1>1, ParsedNumber
  <2>3. operand2 = 32 + (v % 32)
    <3>1. 2^5 = 32
      OBVIOUS
    <3> QED BY <2>1, <2>2, <3>1
  <2>4. disassemble(w) = OperateNumber(mnemonic, R(dr), R(sr1), v)
    BY <1>3, <1>4, <1>5, <2>2, <2>3, OperateImmediate
  <2>5. ops[3] = N(-1) <=> v = -1
    BY <2>2 DEF N
  <2> QED BY <1>1, <1>5, <2>2, <2>4, <2>5 DEF OperateNumber
<1> QED BY <1>4, <1>6, <1>7

LEMMA LoadStoreListed ==
  ASSUME NEW mnemonic \in {"LDW", "STW"}, NEW ops \in Seq(Operand), Len(ops) = 3,
         NEW w \in assemble_load_store(opcodes[mnemonic], ops)
  PROVE  disassemble(w) = Statement(IF mnemonic = "LDW" THEN "LDR" ELSE "STR", ops)
<1>1. ops[1] \in Operand /\ ops[2] \in Operand /\ ops[3] \in Operand /\ ops = <<ops[1], ops[2], ops[3]>>
  BY Tuples
<1>2. PICK op, name : op = opcodes[mnemonic] /\ name = IF mnemonic = "LDW" THEN "LDR" ELSE "STR"
  OBVIOUS
<1>3. op \in Field(16) /\ ((name = "LDR" /\ op = 6) \/ (name = "STR" /\ op = 7))
  <2>1. opcodes["LDW"] = 6 /\ opcodes["STW"] = 7
    BY DEF opcodes
  <2>2. 6 \in Field(16) /\ 7 \in Field(16)
    BY DEF Field
  <2> QED BY <1>2, <2>1, <2>2
<1>4. PICK dr_sr \in parse_register(ops[1]), base_r \in parse_register(ops[2]), offset6 \in parse_immediate(ops[3], 6) :
        w = op * 4096 + dr_sr * 512 + base_r * 64 + offset6
  BY <1>2 DEF assemble_load_store
<1>5. dr_sr \in Field(8) /\ base_r \in Field(8) /\ ops[1] = R(dr_sr) /\ ops[2] = R(base_r)
  BY <1>1, ParsedRegister
<1>6. PICK v \in Int : ops[3] = N(v) /\ InRange(v, 6) /\ offset6 = v % 2^6
  BY <1>1, ParsedNumber
<1>7. 2^6 = 64
  OBVIOUS
<1>8. disassemble(w) = Statement(name, <<R(dr_sr), R(base_r), N(v)>>)
  BY <1>3, <1>4, <1>5, <1>6, <1>7, LoadStoreWord
<1> QED BY <1>1, <1>2, <1>5, <1>6, <1>8

LEMMA ShiftListed ==
  ASSUME NEW mnemonic \in DOMAIN shift_type, NEW ops \in Seq(Operand), Len(ops) = 3, NEW w \in assemble_shift(mnemonic, ops)
  PROVE  disassemble(w) = Statement(mnemonic, <<ops[1], ops[2], Modulo(ops[3], 16)>>)
<1>1. ops[1] \in Operand /\ ops[2] \in Operand /\ ops[3] \in Operand
  BY Tuples
<1>2. PICK kind : kind = shift_type[mnemonic]
  OBVIOUS
<1>3. kind \in Field(4) /\ kind # 2 /\ ShiftName[kind] = mnemonic
  BY <1>2 DEF shift_type, ShiftName, Field
<1>4. PICK dr \in parse_register(ops[1]), sr \in parse_register(ops[2]), amount \in parse_immediate(ops[3], 4) :
        w = ShiftPacked(dr, sr, kind, amount)
  BY <1>2 DEF assemble_shift, ShiftPacked
<1>5. dr \in Field(8) /\ sr \in Field(8) /\ ops[1] = R(dr) /\ ops[2] = R(sr)
  BY <1>1, ParsedRegister
<1>6. PICK v \in Int : ops[3] = N(v) /\ InRange(v, 4) /\ amount = v % 2^4
  BY <1>1, ParsedNumber
<1>7. 2^4 = 16 /\ 2^(4 - 1) = 8
  OBVIOUS
<1>8. -8 <= v /\ v <= 7 /\ amount = v % 16 /\ amount \in Field(16)
  BY <1>6, <1>7 DEF InRange, Field
<1>9. disassemble(w) = Statement(ShiftName[kind], <<R(dr), R(sr), N(amount)>>)
  <2>1. kind \in Field(4) /\ kind # 2 /\ amount \in Field(16) /\ dr \in Field(8) /\ sr \in Field(8)
    BY <1>3, <1>5, <1>8
  <2> QED BY <2>1, <1>4, ShiftWord
<1>10. Modulo(ops[3], 16) = N(amount)
  BY <1>6, <1>8 DEF Modulo, N
<1> QED BY <1>3, <1>5, <1>9, <1>10

LEMMA RelativeListed ==
  ASSUME NEW operand \in Operand
  PROVE  /\ \A mnemonic \in DOMAIN nzp : \A offset9 \in parse_immediate(operand, 9) :
              disassemble(nzp[mnemonic] * 512 + offset9) =
                Statement(IF mnemonic = "BR" THEN "BRNZP" ELSE mnemonic, <<operand>>)
         /\ \A offset11 \in parse_immediate(operand, 11) :
              disassemble(4 * 4096 + 2048 + offset11) = Statement("JSR", <<operand>>)
<1>1. 2^9 = 512 /\ 2^11 = 2048
  OBVIOUS
<1>2. ASSUME NEW mnemonic \in DOMAIN nzp, NEW offset9 \in parse_immediate(operand, 9), NEW w,
             w = nzp[mnemonic] * 512 + offset9
      PROVE  disassemble(w) = Statement(IF mnemonic = "BR" THEN "BRNZP" ELSE mnemonic, <<operand>>)
  <2>1. PICK v \in Int : operand = N(v) /\ InRange(v, 9) /\ offset9 = v % 2^9
    BY ParsedNumber
  <2>2. PICK codes : codes = nzp[mnemonic]
    OBVIOUS
  <2>3. codes \in 1..7 /\ BranchName[codes] = IF mnemonic = "BR" THEN "BRNZP" ELSE mnemonic
    BY <2>2 DEF nzp, BranchName
  <2>4. disassemble(w) = Statement(BranchName[codes], <<N(v)>>)
    BY <1>1, <1>2, <2>1, <2>2, <2>3, BranchWord
  <2> QED BY <2>1, <2>3, <2>4
<1>3. ASSUME NEW offset11 \in parse_immediate(operand, 11), NEW w, w = 4 * 4096 + 2048 + offset11
      PROVE  disassemble(w) = Statement("JSR", <<operand>>)
  <2>1. PICK v \in Int : operand = N(v) /\ InRange(v, 11) /\ offset11 = v % 2^11
    BY ParsedNumber
  <2> QED BY <1>1, <1>3, <2>1, SubroutineWord
<1> QED BY <1>2, <1>3

LEMMA AddressListed ==
  ASSUME NEW operand \in Operand, NEW dr \in Field(8), NEW offset9 \in parse_immediate(operand, 9),
         NEW w, w = 14 * 4096 + dr * 512 + offset9
  PROVE  disassemble(w) = Statement("LEA", <<R(dr), operand>>)
<1>1. 2^9 = 512
  OBVIOUS
<1>2. PICK v \in Int : operand = N(v) /\ InRange(v, 9) /\ offset9 = v % 2^9
  BY ParsedNumber
<1> QED BY <1>1, <1>2, AddressWord

LEMMA TrapListed ==
  ASSUME NEW operand \in Operand, NEW trapvect \in parse_immediate(operand, 8)
  PROVE  disassemble(15 * 4096 + trapvect) =
           IF operand[1] = "#" /\ operand[2] \in DOMAIN trap_map THEN Statement(trap_map[operand[2]], <<>>)
           ELSE Statement("TRAP", <<Modulo(operand, 256)>>)
<1>1. PICK v \in Int : operand = N(v) /\ InRange(v, 8) /\ trapvect = v % 2^8
  BY ParsedNumber
<1>2. 2^8 = 256 /\ 2^(8 - 1) = 128
  OBVIOUS
<1>3. -128 <= v /\ v <= 127 /\ trapvect = v % 256 /\ trapvect \in Field(256)
  BY <1>1, <1>2 DEF InRange, Field
<1>4. DOMAIN trap_map = 32..37
  BY DEF trap_map
<1>5. /\ v \in DOMAIN trap_map <=> trapvect \in DOMAIN trap_map
      /\ v \in DOMAIN trap_map => trapvect = v
  BY <1>3, <1>4
<1>6. operand[1] = "#" /\ operand[2] = v
  BY <1>1 DEF N
<1>7. Modulo(operand, 256) = N(trapvect)
  BY <1>3, <1>6 DEF Modulo
<1>8. disassemble(15 * 4096 + trapvect) =
        IF trapvect \in DOMAIN trap_map THEN Statement(trap_map[trapvect], <<>>) ELSE Statement("TRAP", <<N(trapvect)>>)
  BY <1>3, TrapWord
<1> QED BY <1>5, <1>6, <1>7, <1>8

LEMMA TargetListed ==
  ASSUME NEW l \in SourceLine, current_address \in Nat, \A name \in DOMAIN symbols : symbols[name] \in Nat,
         NEW ops, ops = ListedOperands(l, current_address), TakesLabel(l)
  PROVE  /\ l.mnemonic \in DOMAIN nzp /\ Len(l.operands) = 1 =>
              \A w \in assemble_branch(l.mnemonic, l.operands) :
                disassemble(w) = Statement(IF l.mnemonic = "BR" THEN "BRNZP" ELSE l.mnemonic, ops)
         /\ Len(l.operands) = 2 => \A w \in assemble_lea(l.operands) : disassemble(w) = Statement("LEA", ops)
         /\ Len(l.operands) = 1 => \A w \in assemble_jsr(l.operands) : disassemble(w) = Statement("JSR", ops)
<1>1. PICK given : given = l.operands
  OBVIOUS
<1>2. given \in Seq(Operand) /\ DOMAIN given = 1..Len(given)
  BY <1>1 DEF SourceLine
<1>3. ops \in Seq(Operand) /\ Len(ops) = Len(given)
  BY <1>1, ListedOperand
<1>4. \A k \in DOMAIN given : given[k] \in Operand /\ ops[k] = Resolved(given[k], current_address)
  BY <1>1, ListedOperand
<1>5. \A k \in DOMAIN given : \A bits : parse_offset(given[k], bits) = parse_immediate(ops[k], bits)
  BY <1>4, ResolvedOperand
<1>6. \A k \in DOMAIN given : parse_register(given[k]) = parse_register(ops[k])
  BY <1>4, ResolvedOperand
<1>7. ASSUME Len(given) = 1
      PROVE  ops = <<ops[1]>> /\ ops[1] \in Operand /\ \A bits : parse_offset(given[1], bits) = parse_immediate(ops[1], bits)
  BY <1>2, <1>3, <1>5, <1>7, Tuples
<1>8. ASSUME l.mnemonic \in DOMAIN nzp, Len(given) = 1, NEW w \in assemble_branch(l.mnemonic, given)
      PROVE  disassemble(w) = Statement(IF l.mnemonic = "BR" THEN "BRNZP" ELSE l.mnemonic, ops)
  <2>1. PICK offset9 \in parse_immediate(ops[1], 9) : w = nzp[l.mnemonic] * 512 + offset9
    BY <1>7, <1>8 DEF assemble_branch
  <2> QED BY <1>7, <1>8, <2>1, RelativeListed
<1>9. ASSUME Len(given) = 2, NEW w \in assemble_lea(given)
      PROVE  disassemble(w) = Statement("LEA", ops)
  <2>1. 1 \in DOMAIN given /\ 2 \in DOMAIN given
    BY <1>2, <1>9
  <2>2. ops = <<ops[1], ops[2]>> /\ ops[1] \in Operand /\ ops[2] \in Operand
    BY <1>3, <1>9, Tuples
  <2>3. PICK dr \in parse_register(ops[1]), offset9 \in parse_immediate(ops[2], 9) : w = 14 * 4096 + dr * 512 + offset9
    BY <1>5, <1>6, <2>1 DEF assemble_lea
  <2>4. dr \in Field(8) /\ ops[1] = R(dr)
    BY <2>2, <2>3, ParsedRegister
  <2>5. disassemble(w) = Statement("LEA", <<R(dr), ops[2]>>)
    BY <2>2, <2>3, <2>4, AddressListed
  <2> QED BY <2>2, <2>4, <2>5
<1>10. ASSUME Len(given) = 1, NEW w \in assemble_jsr(given)
       PROVE  disassemble(w) = Statement("JSR", ops)
  <2>1. PICK offset11 \in parse_immediate(ops[1], 11) : w = 4 * 4096 + 2048 + offset11
    BY <1>7, <1>10 DEF assemble_jsr
  <2> QED BY <1>7, <1>10, <2>1, RelativeListed
<1> QED BY <1>1, <1>8, <1>9, <1>10

LEMMA BaseListed ==
  ASSUME NEW ops \in Seq(Operand), Len(ops) = 1
  PROVE  /\ \A w \in assemble_jsrr(ops) : disassemble(w) = Statement("JSRR", ops)
         /\ \A w \in assemble_jmp(ops) :
              disassemble(w) = IF ops = <<R(7)>> THEN Statement("RET", <<>>) ELSE Statement("JMP", ops)
<1>1. ops = <<ops[1]>> /\ ops[1] \in Operand
  BY Tuples
<1>2. ASSUME NEW w \in assemble_jsrr(ops)
      PROVE  disassemble(w) = Statement("JSRR", ops)
  <2>1. PICK base_r \in parse_register(ops[1]) : w = 4 * 4096 + base_r * 64
    BY <1>2 DEF assemble_jsrr
  <2>2. base_r \in Field(8) /\ ops = <<R(base_r)>>
    BY <1>1, ParsedRegister
  <2> QED BY <2>1, <2>2, BaseWord
<1>3. ASSUME NEW w \in assemble_jmp(ops)
      PROVE  disassemble(w) = IF ops = <<R(7)>> THEN Statement("RET", <<>>) ELSE Statement("JMP", ops)
  <2>1. PICK base_r \in parse_register(ops[1]) : w = 12 * 4096 + base_r * 64
    BY <1>3 DEF assemble_jmp
  <2>2. base_r \in Field(8) /\ ops = <<R(base_r)>>
    BY <1>1, ParsedRegister
  <2>3. base_r = 7 <=> ops = <<R(7)>>
    BY <2>2 DEF R
  <2>4. disassemble(w) = IF base_r = 7 THEN Statement("RET", <<>>) ELSE Statement("JMP", <<R(base_r)>>)
    BY <2>1, <2>2, BaseWord
  <2> QED BY <2>2, <2>3, <2>4
<1> QED BY <1>2, <1>3

(* The words of a statement are listed as the statement. *)
LEMMA Lists ==
  ASSUME NEW l \in SourceLine, current_address \in Nat, \A name \in DOMAIN symbols : symbols[name] \in Nat,
         l.mnemonic \in DOMAIN opcodes \cup {"RET"}, l.mnemonic \notin {"LDB", "STB"},
         NEW w \in Encoding(l.mnemonic, l.operands)
  PROVE  disassemble(w) = Listed(l, current_address)
<1>1. PICK mnemonic, given, ops, listed :
        /\ mnemonic = l.mnemonic /\ given = l.operands /\ ops = ListedOperands(l, current_address)
        /\ listed = Listed(l, current_address)
  OBVIOUS
<1>2. given \in Seq(Operand) /\ w \in Encoding(mnemonic, given)
  BY <1>1 DEF SourceLine
<1>3. mnemonic \notin DOMAIN nzp \cup {"JSR", "LEA"} => ops = given
  BY <1>1, ListedOperand DEF TakesLabel
<1>4. ListedForm(mnemonic, ops, listed)
  BY <1>1, ListedAs
<1> SUFFICES disassemble(w) = listed
  BY <1>1
<1>5. CASE mnemonic \in {"HALT", "RET", "RTI"}
  BY <1>4, <1>2, <1>5, EncodingOf, PlainWords DEF ListedForm
<1>6. CASE mnemonic \in {"ADD", "AND", "XOR"}
  <2>1. Len(given) = 3 /\ w \in assemble_add_and(opcodes[mnemonic], given) /\ ops = given
    BY <1>2, <1>3, <1>6, EncodingOf, Mnemonics
  <2>2. disassemble(w) = IF mnemonic = "XOR" /\ given[3] = N(-1) THEN Statement("NOT", <<given[1], given[2]>>)
                                                                   ELSE Statement(mnemonic, given)
    BY <1>2, <1>6, <2>1, OperateListed
  <2>3. mnemonic = "XOR" => listed = IF given[3] = N(-1) THEN Statement("NOT", <<given[1], given[2]>>)
                                                         ELSE Statement("XOR", given)
    BY <1>4, <2>1 DEF ListedForm
  <2>4. mnemonic # "XOR" => listed = Statement(mnemonic, given)
    BY <1>4, <1>6, <2>1 DEF ListedForm
  <2> QED BY <2>2, <2>3, <2>4
<1>7. CASE mnemonic \in {"LDW", "STW"}
  <2>1. Len(given) = 3 /\ w \in assemble_load_store(opcodes[mnemonic], given) /\ ops = given
    BY <1>2, <1>3, <1>7, EncodingOf, Mnemonics
  <2>2. disassemble(w) = Statement(IF mnemonic = "LDW" THEN "LDR" ELSE "STR", given)
    BY <1>2, <1>7, <2>1, LoadStoreListed
  <2>3. listed = Statement(IF mnemonic = "LDW" THEN "LDR" ELSE "STR", given)
    BY <1>4, <1>7, <2>1 DEF ListedForm
  <2> QED BY <2>2, <2>3
<1>8. CASE mnemonic \in DOMAIN shift_type
  <2>1. Len(given) = 3 /\ w \in assemble_shift(mnemonic, given) /\ ops = given
    BY <1>2, <1>3, <1>8, EncodingOf, Mnemonics
  <2>2. disassemble(w) = Statement(mnemonic, <<given[1], given[2], Modulo(given[3], 16)>>)
    BY <1>2, <1>8, <2>1, ShiftListed
  <2>3. listed = Statement(mnemonic, <<given[1], given[2], Modulo(given[3], 16)>>)
    BY <1>4, <1>8, <2>1 DEF ListedForm
  <2> QED BY <2>2, <2>3
<1>9. CASE mnemonic \in DOMAIN nzp
  <2>1. Len(given) = 1 /\ w \in assemble_branch(mnemonic, given) /\ TakesLabel(l)
    BY <1>1, <1>2, <1>9, EncodingOf DEF TakesLabel
  <2>2. disassemble(w) = Statement(IF mnemonic = "BR" THEN "BRNZP" ELSE mnemonic, ops)
    BY <1>1, <1>9, <2>1, TargetListed
  <2> QED BY <1>4, <1>9, <2>2 DEF ListedForm
<1>10. CASE mnemonic = "LEA"
  <2>1. Len(given) = 2 /\ w \in assemble_lea(given) /\ TakesLabel(l)
    BY <1>1, <1>2, <1>10, EncodingOf DEF TakesLabel
  <2> QED BY <1>4, <1>1, <1>10, <2>1, TargetListed DEF ListedForm
<1>11. CASE mnemonic = "JSR"
  <2>1. Len(given) = 1 /\ w \in assemble_jsr(given) /\ TakesLabel(l)
    BY <1>1, <1>2, <1>11, EncodingOf DEF TakesLabel
  <2> QED BY <1>4, <1>1, <1>11, <2>1, TargetListed DEF ListedForm
<1>12. CASE mnemonic \in {"JSRR", "JMP"}
  <2>1. Len(given) = 1 /\ ops = given
    BY <1>2, <1>3, <1>12, EncodingOf, Mnemonics
  <2>2. mnemonic = "JSRR" => disassemble(w) = Statement("JSRR", given) /\ listed = Statement("JSRR", given)
    BY <1>4, <1>2, <2>1, EncodingOf, BaseListed DEF ListedForm
  <2>3. mnemonic = "JMP" =>
          /\ disassemble(w) = IF given = <<R(7)>> THEN Statement("RET", <<>>) ELSE Statement("JMP", given)
          /\ listed = IF given = <<R(7)>> THEN Statement("RET", <<>>) ELSE Statement("JMP", given)
    BY <1>4, <1>2, <2>1, EncodingOf, BaseListed DEF ListedForm
  <2> QED BY <1>12, <2>2, <2>3
<1>13. CASE mnemonic = "TRAP"
  <2>1. Len(given) = 1 /\ w \in assemble_trap(given) /\ ops = given
    BY <1>2, <1>3, <1>13, EncodingOf, Mnemonics
  <2>2. given[1] \in Operand
    BY <1>2, <2>1, Tuples
  <2>3. PICK trapvect \in parse_immediate(given[1], 8) : w = 15 * 4096 + trapvect
    BY <2>1 DEF assemble_trap
  <2>4. disassemble(w) = IF given[1][1] = "#" /\ given[1][2] \in DOMAIN trap_map THEN Statement(trap_map[given[1][2]], <<>>)
                         ELSE Statement("TRAP", <<Modulo(given[1], 256)>>)
    BY <2>2, <2>3, TrapListed
  <2>5. listed =
          IF given[1][1] = "#" /\ given[1][2] \in DOMAIN trap_map THEN Statement(trap_map[given[1][2]], <<>>)
          ELSE Statement("TRAP", <<Modulo(given[1], 256)>>)
    BY <1>4, <1>13, <2>1 DEF ListedForm
  <2> QED BY <2>4, <2>5
<1>14. mnemonic \in {"HALT", "RET", "RTI", "ADD", "AND", "XOR", "LDW", "STW", "LEA", "JSR", "JSRR", "JMP", "TRAP"}
         \cup DOMAIN nzp \cup DOMAIN shift_type
  BY <1>1, Mnemonics DEF opcodes
<1> QED BY <1>5, <1>6, <1>7, <1>8, <1>9, <1>10, <1>11, <1>12, <1>13, <1>14

-----------------------------------------------------------------------------
(* The listing of what has been made. *)
ListedRight(l, e) ==
  IsInstruction(l) /\ l.mnemonic \notin {"LDB", "STB"} => disassemble(e.word) = Listed(l, e.address)

LEMMA ListedStays ==
  ASSUME symbols' = symbols, NEW l, NEW e, ListedRight(l, e)
  PROVE  ListedRight(l, e)'
<1>1. \A operand, address : Resolved(operand, address)' = Resolved(operand, address)
  BY DEF Resolved, IsSymbol
<1>2. Listed(l, e.address)' = Listed(l, e.address)
  BY <1>1 DEF Listed
<1>3. IsInstruction(l)' <=> IsInstruction(l)
  BY DEF IsInstruction, Misread, HasLabel
<1>4. disassemble(e.word)' = disassemble(e.word)
  OBVIOUS
<1> QED BY <1>2, <1>3, <1>4 DEF ListedRight

LEMMA ListedNow ==
  ASSUME NEW l \in SourceLine, current_address \in Nat, \A name \in DOMAIN symbols : symbols[name] \in Nat,
         NEW words \in Words(l), NEW i \in 1..Len(words), NEW line, NEW e, e = RowOf(words, current_address, line, i)
  PROVE  ListedRight(l, e)
<1> SUFFICES ASSUME IsInstruction(l), l.mnemonic \notin {"LDB", "STB"}
             PROVE  disassemble(e.word) = Listed(l, e.address)
  BY DEF ListedRight
<1>1. ~Misread(l) /\ l.mnemonic \in DOMAIN opcodes \cup {"RET"}
  BY DEF IsInstruction
<1>2. l.mnemonic \notin {"", ".FILL", ".BLKW", ".STRINGZ"}
  BY <1>1 DEF opcodes
<1>3. PICK word \in Encoding(l.mnemonic, l.operands) : words = <<word>>
  BY <1>1, <1>2 DEF Words
<1>4. e.word = word /\ e.address = current_address
  <2>1. Len(words) = 1 /\ words[1] = word
    BY <1>3
  <2>2. i = 1
    BY <2>1
  <2> QED BY <2>1, <2>2 DEF RowOf
<1>5. disassemble(word) = Listed(l, current_address)
  BY <1>1, Lists
<1> QED BY <1>4, <1>5

LEMMA ListingKept ==
  ASSUME AssemblyInvariant, ListingFaithful, [AsmNext]_asmVars
  PROVE  ListingFaithful'
<1>1. AsmTypes
  BY DEF AssemblyInvariant
<1>2. PICK made, lines : made = instructions /\ lines = source
  OBVIOUS
<1>3. \A k \in DOMAIN made : ListedRight(lines[made[k].line_num], made[k])
  BY <1>2 DEF ListingFaithful, ListedRight
<1>4. ASSUME NEW all, all = instructions', lines = source', \A k \in DOMAIN all : ListedRight(lines[all[k].line_num], all[k])'
      PROVE  ListingFaithful'
  BY <1>4 DEF ListingFaithful, ListedRight
<1>5. ASSUME UNCHANGED <<source, symbols, instructions>>
      PROVE  ListingFaithful'
  <2>1. \A k \in DOMAIN made : ListedRight(lines[made[k].line_num], made[k])'
    BY <1>3, <1>5, ListedStays
  <2> QED BY <1>2, <1>4, <1>5, <2>1
<1>6. CASE UNCHANGED asmVars
  BY <1>5, <1>6 DEF asmVars
<1>7. CASE AssemblerError
  BY <1>5, <1>7 DEF AssemblerError
<1>8. CASE ORIG /\ ~AssemblerError
  BY <1>5, <1>8 DEF ORIG
<1>9. CASE first_pass /\ ~AssemblerError
  <2>1. instructions = <<>>
    BY <1>9 DEF first_pass, AssemblyInvariant, FirstPass
  <2>2. instructions' = <<>> /\ source' = source
    BY <1>9, <2>1 DEF first_pass
  <2>3. DOMAIN <<>> = {}
    OBVIOUS
  <2> QED BY <2>2, <2>3 DEF ListingFaithful
<1>10. CASE second_pass_starts \/ assemble_file
  BY <1>5, <1>10 DEF second_pass_starts, assemble_file
<1>11. CASE second_pass /\ ~AssemblerError
  <2>1. PICK n, a : n = line_num /\ a = current_address
    OBVIOUS
  <2>2. AtLine
    BY <1>11 DEF second_pass, Ends
  <2>3. Current \in SourceLine /\ Current = lines[n] /\ n \in Nat
    BY <1>1, <1>2, <2>1, <2>2, CurrentLine DEF Current, AsmTypes
  <2>4. PICK words \in Words(Current) :
          /\ instructions' = made \o RowsOf(words, a, n)
          /\ UNCHANGED <<source, symbols>>
    BY <1>2, <1>11, <2>1 DEF second_pass, RowsOf, RowOf
  <2>5. current_address \in Nat /\ \A name \in DOMAIN symbols : symbols[name] \in Nat
    BY <1>1 DEF AsmTypes, AsmTypeOK
  <2>6. words \in Seq(CodePoint)
    BY <2>3, <2>5, WordsOfLine
  <2>7. PICK all : all = instructions'
    OBVIOUS
  <2>8. Lengthened(made, words, a, n, all)
    BY <1>1, <1>2, <2>1, <2>3, <2>4, <2>5, <2>6, <2>7, NewWords DEF AsmTypes
  <2>9. ASSUME NEW k \in DOMAIN all
        PROVE  ListedRight(lines[all[k].line_num], all[k])
    <3>1. made \in Seq(Assembled) /\ Len(made) \in Nat /\ DOMAIN made = 1..Len(made)
      BY <1>1, <1>2 DEF AsmTypes
    <3>2. CASE k \in 1..Len(made)
      BY <1>3, <2>8, <3>1, <3>2 DEF Lengthened
    <3>3. CASE k \in (Len(made) + 1)..Len(all)
      <4>1. PICK i \in 1..Len(words) : all[k] = RowOf(words, a, n, i)
        BY <2>8, <3>3 DEF Lengthened
      <4>2. all[k].line_num = n
        BY <4>1 DEF RowOf
      <4>3. ListedRight(Current, all[k])
        BY <2>1, <2>3, <2>5, <4>1, ListedNow
      <4> QED BY <2>3, <4>2, <4>3
    <3>4. k \in 1..Len(made) \/ k \in (Len(made) + 1)..Len(all)
      BY <2>8, <3>1 DEF Lengthened
    <3> QED BY <3>2, <3>3, <3>4
  <2>10. \A k \in DOMAIN all : ListedRight(lines[all[k].line_num], all[k])'
    BY <2>4, <2>9, ListedStays
  <2> QED BY <1>2, <1>4, <2>4, <2>7, <2>10
<1> QED BY <1>6, <1>7, <1>8, <1>9, <1>10, <1>11 DEF AsmNext

(* Every word that is made of an instruction other than LDB or STB is disassembled to the
   statement it was made from, with no field mixed up or lost and no sign (second_pass of the
   assembler, Disassembler::disassemble). *)
THEOREM ListingFaithfulHolds == AsmSpec => []ListingFaithful
<1>1. AsmInit => ListingFaithful
  <2>1. DOMAIN <<>> = {}
    OBVIOUS
  <2> QED BY <2>1 DEF AsmInit, ListingFaithful
<1>2. AssemblyInvariant /\ ListingFaithful /\ [AsmNext]_asmVars => ListingFaithful'
  BY ListingKept
<1> QED BY <1>1, <1>2, AssemblyInvariantHolds, PTL DEF AsmSpec

-----------------------------------------------------------------------------
(* What can be listed at all: the statements by their forms. *)
Operand2(third) == (\E n \in Field(8) : third = R(n)) \/ (\E v \in Int : InRange(v, 5) /\ third = N(v))
OperateForm(s) ==
  /\ s.mnemonic \in {"ADD", "AND", "XOR"}
  /\ \E dr, sr \in Field(8) : \E third : Operand2(third) /\ s.operands = <<R(dr), R(sr), third>>
NotForm(s) == s.mnemonic = "NOT" /\ \E dr, sr \in Field(8) : s.operands = <<R(dr), R(sr)>>
LoadStoreForm(s) ==
  /\ s.mnemonic \in {"LDR", "STR"}
  /\ \E dr, base \in Field(8), v \in Int : InRange(v, 6) /\ s.operands = <<R(dr), R(base), N(v)>>
ShiftForm(s) ==
  /\ s.mnemonic \in DOMAIN shift_type
  /\ \E dr, sr \in Field(8), amount \in Field(16) : s.operands = <<R(dr), R(sr), N(amount)>>
BranchForm(s) == s.mnemonic \in DOMAIN nzp \ {"BR"} /\ \E v \in Int : InRange(v, 9) /\ s.operands = <<N(v)>>
LeaForm(s) ==
  s.mnemonic = "LEA" /\ \E dr \in Field(8), v \in Int : InRange(v, 9) /\ s.operands = <<R(dr), N(v)>>
JsrForm(s) == s.mnemonic = "JSR" /\ \E v \in Int : InRange(v, 11) /\ s.operands = <<N(v)>>
BaseForm(s) == s.mnemonic \in {"JSRR", "JMP"} /\ \E base \in Field(8) : s.operands = <<R(base)>>
TrapForm(s) == s.mnemonic = "TRAP" /\ \E vector \in Field(256) : s.operands = <<N(vector)>>
OtherForm(s) ==
  s.mnemonic \in {"NOP", "LD", "ST", "LDI", "STI", "RTI", "RET", "UNKNOWN SHIFT"} \cup
                 {"GETC", "OUT", "PUTS", "IN", "PUTSP", "HALT"}

HasForm(s) ==
  \/ OperateForm(s) \/ NotForm(s) \/ LoadStoreForm(s) \/ ShiftForm(s) \/ BranchForm(s)
  \/ LeaForm(s) \/ JsrForm(s) \/ BaseForm(s) \/ TrapForm(s) \/ OtherForm(s)

LEMMA SignedInRange ==
  ASSUME NEW x \in Word
  PROVE  /\ Offset(x, 4) \in Int /\ InRange(Offset(x, 4), 5)
         /\ Offset(x, 5) \in Int /\ InRange(Offset(x, 5), 6)
         /\ Offset(x, 8) \in Int /\ InRange(Offset(x, 8), 9)
         /\ Offset(x, 10) \in Int /\ InRange(Offset(x, 10), 11)
<1>1. 2^(5 - 1) = 16 /\ 2^(6 - 1) = 32 /\ 2^(9 - 1) = 256 /\ 2^(11 - 1) = 1024
  OBVIOUS
<1>2. /\ Offset(x, 4) \in -16..15 /\ Offset(x, 5) \in -32..31
      /\ Offset(x, 8) \in -256..255 /\ Offset(x, 10) \in -1024..1023
  BY OffsetFields
<1>3. Offset(x, 4) \in Int /\ InRange(Offset(x, 4), 5)
  <2>1. PICK v : v = Offset(x, 4)
    OBVIOUS
  <2>2. v \in -16..15
    BY <1>2, <2>1
  <2>3. v \in Int /\ InRange(v, 5)
    BY <1>1, <2>2 DEF InRange
  <2> QED BY <2>1, <2>3
<1>4. Offset(x, 5) \in Int /\ InRange(Offset(x, 5), 6)
  <2>1. PICK v : v = Offset(x, 5)
    OBVIOUS
  <2>2. v \in -32..31
    BY <1>2, <2>1
  <2>3. v \in Int /\ InRange(v, 6)
    BY <1>1, <2>2 DEF InRange
  <2> QED BY <2>1, <2>3
<1>5. Offset(x, 8) \in Int /\ InRange(Offset(x, 8), 9)
  <2>1. PICK v : v = Offset(x, 8)
    OBVIOUS
  <2>2. v \in -256..255
    BY <1>2, <2>1
  <2>3. v \in Int /\ InRange(v, 9)
    BY <1>1, <2>2 DEF InRange
  <2> QED BY <2>1, <2>3
<1>6. Offset(x, 10) \in Int /\ InRange(Offset(x, 10), 11)
  <2>1. PICK v : v = Offset(x, 10)
    OBVIOUS
  <2>2. v \in -1024..1023
    BY <1>2, <2>1
  <2>3. v \in Int /\ InRange(v, 11)
    BY <1>1, <2>2 DEF InRange
  <2> QED BY <2>1, <2>3
<1> QED BY <1>3, <1>4, <1>5, <1>6

LEMMA RegistersInRange ==
  ASSUME NEW x \in Word
  PROVE  /\ \E dr \in Field(8) : DR(x) = R(dr)
         /\ \E sr \in Field(8) : SR1(x) = R(sr)
         /\ range(x, 2, 0) \in Field(8) /\ range(x, 3, 0) \in Field(16) /\ range(x, 7, 0) \in Field(256)
         /\ range(x, 5, 4) \in 0..3 /\ range(x, 11, 9) \in 0..7
<1>1. x \in Nat
  BY WordIsNat
<1>2. (x \div 512) % 8 \in Field(8) /\ (x \div 64) % 8 \in Field(8) /\ x % 8 \in Field(8)
  BY <1>1 DEF Field
<1>3. x % 16 \in Field(16) /\ x % 256 \in Field(256) /\ (x \div 16) % 4 \in 0..3 /\ (x \div 512) % 8 \in 0..7
  BY <1>1 DEF Field
<1>4. DR(x) = R((x \div 512) % 8) /\ SR1(x) = R((x \div 64) % 8)
  BY ListedFields
<1>5. /\ range(x, 2, 0) = x % 8 /\ range(x, 3, 0) = x % 16 /\ range(x, 7, 0) = x % 256
      /\ range(x, 5, 4) = (x \div 16) % 4 /\ range(x, 11, 9) = (x \div 512) % 8
  BY RegisterFields, OtherFields
<1> QED BY <1>2, <1>3, <1>4, <1>5

LEMMA Forms ==
  ASSUME NEW x \in Word
  PROVE  HasForm(disassemble(x))
<1>1. PICK dr \in Field(8), sr \in Field(8) : DR(x) = R(dr) /\ SR1(x) = R(sr)
  BY RegistersInRange
<1>2. ASSUME NEW mnemonic \in {"ADD", "AND", "XOR"}
      PROVE  HasForm(format_operate(mnemonic, x))
  <2>1. CASE mnemonic = "XOR" /\ range(x, 5, 0) = 63
    BY <1>1, <2>1 DEF format_operate, HasForm, NotForm, Statement
  <2>2. CASE ~(mnemonic = "XOR" /\ range(x, 5, 0) = 63)
    <3>1. PICK third : third = IF Bit(x, 5) THEN N(Offset(x, 4)) ELSE R(range(x, 2, 0))
      OBVIOUS
    <3>2. Operand2(third)
      BY <3>1, SignedInRange, RegistersInRange DEF Operand2
    <3>3. format_operate(mnemonic, x) = Statement(mnemonic, <<R(dr), R(sr), third>>)
      BY <1>1, <2>2, <3>1 DEF format_operate
    <3> QED BY <3>2, <3>3 DEF HasForm, OperateForm, Statement
  <2> QED BY <2>1, <2>2
<1>3. HasForm(BaseOffset6("LDR", x)) /\ HasForm(BaseOffset6("STR", x))
  BY <1>1, SignedInRange DEF BaseOffset6, HasForm, LoadStoreForm, Statement
<1>4. HasForm(format_shift(x))
  <2>1. range(x, 5, 4) \in 0..3 /\ range(x, 3, 0) \in Field(16)
    BY RegistersInRange
  <2>2. CASE range(x, 5, 4) = 2
    BY <2>2 DEF format_shift, HasForm, OtherForm, Statement
  <2>3. CASE range(x, 5, 4) # 2
    <3>1. ShiftName[range(x, 5, 4)] \in DOMAIN shift_type
      BY <2>1, <2>3, Mnemonics DEF ShiftName
    <3>2. format_shift(x) = Statement(ShiftName[range(x, 5, 4)], <<R(dr), R(sr), N(range(x, 3, 0))>>)
      BY <1>1, <2>3, ShiftFormat
    <3> QED BY <2>1, <3>1, <3>2 DEF HasForm, ShiftForm, Statement
  <2> QED BY <2>2, <2>3
<1>5. HasForm(format_branch(x))
  <2>1. range(x, 11, 9) \in 0..7
    BY RegistersInRange
  <2>2. CASE range(x, 11, 9) = 0
    BY <2>2 DEF format_branch, HasForm, OtherForm, Statement
  <2>3. CASE range(x, 11, 9) # 0
    <3>1. BranchName[range(x, 11, 9)] \in DOMAIN nzp \ {"BR"}
      BY <2>1, <2>3, Mnemonics DEF BranchName
    <3>2. format_branch(x) = Statement(BranchName[range(x, 11, 9)], <<N(Offset(x, 8))>>)
      BY <2>3 DEF format_branch
    <3> QED BY <3>1, <3>2, SignedInRange DEF HasForm, BranchForm, Statement
  <2> QED BY <2>2, <2>3
<1>6. /\ HasForm(RegisterOffset9("LD", x)) /\ HasForm(RegisterOffset9("ST", x))
      /\ HasForm(RegisterOffset9("LDI", x)) /\ HasForm(RegisterOffset9("STI", x))
  BY DEF RegisterOffset9, HasForm, OtherForm, Statement
<1>7. HasForm(RegisterOffset9("LEA", x))
  BY <1>1, SignedInRange DEF RegisterOffset9, HasForm, LeaForm, Statement
<1>8. HasForm(Statement("JSR", <<N(Offset(x, 10))>>))
  BY SignedInRange DEF HasForm, JsrForm, Statement
<1>9. HasForm(Statement("JSRR", <<SR1(x)>>)) /\ HasForm(Statement("JMP", <<SR1(x)>>))
  BY <1>1 DEF HasForm, BaseForm, Statement
<1>10. HasForm(Statement("RTI", <<>>)) /\ HasForm(Statement("RET", <<>>))
  BY DEF HasForm, OtherForm, Statement
<1>11. HasForm(Trap(x))
  <2>1. CASE range(x, 7, 0) \in DOMAIN trap_map
    <3>1. trap_map[range(x, 7, 0)] \in {"GETC", "OUT", "PUTS", "IN", "PUTSP", "HALT"}
      BY <2>1 DEF trap_map
    <3> QED BY <2>1, <3>1 DEF Trap, HasForm, OtherForm, Statement
  <2>2. CASE range(x, 7, 0) \notin DOMAIN trap_map
    BY <2>2, RegistersInRange DEF Trap, HasForm, TrapForm, Statement
  <2> QED BY <2>1, <2>2
<1> QED BY <1>2, <1>3, <1>4, <1>5, <1>6, <1>7, <1>8, <1>9, <1>10, <1>11, Disassembled

-----------------------------------------------------------------------------
(* Whatever can be listed can be encoded. *)
LEMMA Parsed ==
  /\ \A n : parse_register(R(n)) = {n}
  /\ \A v, bits : InRange(v, bits) => \E value : value \in parse_immediate(N(v), bits)
BY DEF parse_register, R, parse_immediate, N, Unsigned

LEMMA OperateEncodes ==
  ASSUME NEW op, NEW ops, NEW dr, NEW sr, NEW third, ops = <<R(dr), R(sr), third>>, Operand2(third)
  PROVE  assemble_add_and(op, ops) # {}
<1>1. PICK low : low \in parse_register(third) \cup {32 + imm5 : imm5 \in parse_immediate(third, 5)}
  <2>1. CASE \E n \in Field(8) : third = R(n)
    BY <2>1, Parsed
  <2>2. CASE \E v \in Int : InRange(v, 5) /\ third = N(v)
    <3>1. PICK value : value \in parse_immediate(third, 5)
      BY <2>2, Parsed
    <3>2. 32 + value \in {32 + imm5 : imm5 \in parse_immediate(third, 5)}
      BY <3>1
    <3> QED BY <3>2
  <2> QED BY <2>1, <2>2 DEF Operand2
<1>2. dr \in parse_register(ops[1]) /\ sr \in parse_register(ops[2]) /\ ops[3] = third
  BY Parsed
<1>3. op * 4096 + dr * 512 + sr * 64 + low \in assemble_add_and(op, ops)
  BY <1>1, <1>2 DEF assemble_add_and
<1> QED BY <1>3

LEMMA LoadStoreEncodes ==
  ASSUME NEW op, NEW ops, NEW dr, NEW base, NEW v \in Int, InRange(v, 6), ops = <<R(dr), R(base), N(v)>>
  PROVE  assemble_load_store(op, ops) # {}
<1>1. PICK offset6 : offset6 \in parse_immediate(ops[3], 6)
  BY Parsed
<1>2. dr \in parse_register(ops[1]) /\ base \in parse_register(ops[2])
  BY Parsed
<1>3. op * 4096 + dr * 512 + base * 64 + offset6 \in assemble_load_store(op, ops)
  BY <1>1, <1>2 DEF assemble_load_store
<1> QED BY <1>3

LEMMA ShiftEncodes ==
  ASSUME NEW mnemonic, NEW ops, NEW dr, NEW sr, NEW v \in Int, InRange(v, 4), ops = <<R(dr), R(sr), N(v)>>
  PROVE  assemble_shift(mnemonic, ops) # {}
<1>1. PICK amount : amount \in parse_immediate(ops[3], 4)
  BY Parsed
<1>2. dr \in parse_register(ops[1]) /\ sr \in parse_register(ops[2])
  BY Parsed
<1>3. 13 * 4096 + dr * 512 + sr * 64 + shift_type[mnemonic] * 16 + amount \in assemble_shift(mnemonic, ops)
  BY <1>1, <1>2 DEF assemble_shift
<1> QED BY <1>3

(* What fits a field of n values when it is put into it fits the n / 2 of the assembler, too,
   unless it is one of those it takes for negative. *)
LEMMA FieldFits ==
  ASSUME NEW operand \in Operand
  PROVE  /\ \A amount \in Field(16) : Modulo(operand, 16) = N(amount) =>
              \E v \in Int : operand = N(v) /\ (v \in 8..15 \/ InRange(v, 4))
         /\ \A vector \in Field(256) : Modulo(operand, 256) = N(vector) =>
              \E v \in Int : operand = N(v) /\ (v \in 128..255 \/ InRange(v, 8))
<1>1. operand = <<operand[1], operand[2]>>
  BY DEF Operand
<1>2. operand[1] = "#" => operand[2] \in Int /\ operand = N(operand[2])
  BY <1>1, OperandKinds DEF N
<1>3. 2^(4 - 1) = 8 /\ 2^(8 - 1) = 128
  OBVIOUS
<1>4. ASSUME NEW n \in {16, 256}, NEW value \in Field(n), Modulo(operand, n) = N(value)
      PROVE  operand[1] = "#" /\ -(n \div 2) <= operand[2] /\ operand[2] < n
  <2>1. value \in Int /\ 0 <= value /\ value < n
    BY DEF Field
  <2>2. CASE operand[1] = "#" /\ operand[2] \in -(n \div 2)..(n - 1)
    BY <2>2
  <2>3. CASE ~(operand[1] = "#" /\ operand[2] \in -(n \div 2)..(n - 1))
    <3>1. operand = N(value)
      BY <1>4, <2>3 DEF Modulo
    <3>2. operand[1] = "#" /\ operand[2] = value
      BY <3>1 DEF N
    <3> QED BY <2>1, <3>2
  <2> QED BY <2>2, <2>3
<1>5. ASSUME NEW amount \in Field(16), Modulo(operand, 16) = N(amount)
      PROVE  \E v \in Int : operand = N(v) /\ (v \in 8..15 \/ InRange(v, 4))
  <2>1. operand[1] = "#" /\ -8 <= operand[2] /\ operand[2] < 16
    BY <1>4, <1>5
  <2> QED BY <1>2, <1>3, <2>1 DEF InRange
<1>6. ASSUME NEW vector \in Field(256), Modulo(operand, 256) = N(vector)
      PROVE  \E v \in Int : operand = N(v) /\ (v \in 128..255 \/ InRange(v, 8))
  <2>1. operand[1] = "#" /\ -128 <= operand[2] /\ operand[2] < 256
    BY <1>4, <1>6
  <2> QED BY <1>2, <1>3, <2>1 DEF InRange
<1> QED BY <1>5, <1>6

LEMMA FormOf ==
  ASSUME NEW s, HasForm(s)
  PROVE  /\ s.mnemonic \in {"ADD", "AND", "XOR"} => OperateForm(s)
         /\ s.mnemonic = "NOT" => NotForm(s)
         /\ s.mnemonic \in {"LDR", "STR"} => LoadStoreForm(s)
         /\ s.mnemonic \in DOMAIN shift_type => ShiftForm(s)
         /\ s.mnemonic \in DOMAIN nzp => BranchForm(s)
         /\ s.mnemonic = "LEA" => LeaForm(s)
         /\ s.mnemonic = "JSR" => JsrForm(s)
         /\ s.mnemonic \in {"JSRR", "JMP"} => BaseForm(s)
         /\ s.mnemonic = "TRAP" => TrapForm(s)
         /\ s.mnemonic \notin {"LDB", "STB"}
<1>1. PICK mnemonic : mnemonic = s.mnemonic
  OBVIOUS
<1>2. /\ OperateForm(s) => mnemonic \in {"ADD", "AND", "XOR"}
      /\ NotForm(s) => mnemonic = "NOT"
      /\ LoadStoreForm(s) => mnemonic \in {"LDR", "STR"}
      /\ ShiftForm(s) => mnemonic \in DOMAIN shift_type
      /\ BranchForm(s) => mnemonic \in DOMAIN nzp
      /\ LeaForm(s) => mnemonic = "LEA"
      /\ JsrForm(s) => mnemonic = "JSR"
      /\ BaseForm(s) => mnemonic \in {"JSRR", "JMP"}
      /\ TrapForm(s) => mnemonic = "TRAP"
      /\ OtherForm(s) => mnemonic \in {"NOP", "LD", "ST", "LDI", "STI", "RTI", "RET", "UNKNOWN SHIFT"} \cup
                                      {"GETC", "OUT", "PUTS", "IN", "PUTSP", "HALT"}
  BY <1>1 DEF OperateForm, NotForm, LoadStoreForm, ShiftForm, BranchForm, LeaForm, JsrForm, BaseForm, TrapForm, OtherForm
<1> QED BY <1>1, <1>2, Mnemonics DEF HasForm

LEMMA Encodes ==
  ASSUME NEW l \in SourceLine, current_address \in Nat, \A name \in DOMAIN symbols : symbols[name] \in Nat,
         l.mnemonic \in DOMAIN opcodes \cup {"RET"}, ~OverRejected(l),
         NEW x \in Word, disassemble(x) = Listed(l, current_address)
  PROVE  Encoding(l.mnemonic, l.operands) # {}
<1>1. PICK mnemonic, given, ops, listed :
        /\ mnemonic = l.mnemonic /\ given = l.operands /\ ops = ListedOperands(l, current_address)
        /\ listed = Listed(l, current_address)
  OBVIOUS
<1>2. given \in Seq(Operand) /\ ops \in Seq(Operand) /\ Len(given) = Len(ops)
  BY <1>1, ListedOperand DEF SourceLine
<1>3. mnemonic \notin DOMAIN nzp \cup {"JSR", "LEA"} => ops = given
  BY <1>1, ListedOperand DEF TakesLabel
<1>4. ListedForm(mnemonic, ops, listed)
  BY <1>1, ListedAs
<1>5. HasForm(listed)
  BY <1>1, Forms
<1>6. mnemonic \in DOMAIN nzp \cup {"JSR", "LEA"} =>
        \A k \in 1..Len(ops) :
          /\ parse_register(given[k]) = parse_register(ops[k])
          /\ \A bits : parse_offset(given[k], bits) = parse_immediate(ops[k], bits)
  <2>1. DOMAIN given = 1..Len(ops)
    BY <1>2
  <2>2. ASSUME TakesLabel(l), NEW k \in 1..Len(ops)
        PROVE  /\ parse_register(given[k]) = parse_register(ops[k])
               /\ \A bits : parse_offset(given[k], bits) = parse_immediate(ops[k], bits)
    <3>1. given[k] \in Operand /\ ops[k] = Resolved(given[k], current_address)
      BY <1>1, <2>1, <2>2, ListedOperand
    <3> QED BY <3>1, ResolvedOperand
  <2> QED BY <1>1, <2>2 DEF TakesLabel
<1>7. SUFFICES Encoding(mnemonic, given) # {}
  BY <1>1
<1>8. CASE mnemonic \in {"HALT", "RET", "RTI"}
  BY <1>8, EncodingOf
<1>9. CASE mnemonic \in {"ADD", "AND", "XOR"}
  <2>1. ops = given
    BY <1>3, <1>9, Mnemonics
  <2>2. \E dr, sr \in Field(8) : \E third : Operand2(third) /\ ops = <<R(dr), R(sr), third>>
    <3>1. CASE mnemonic = "XOR" /\ Len(ops) = 3 /\ ops[3] = N(-1)
      <4>1. listed = Statement("NOT", <<ops[1], ops[2]>>)
        BY <1>4, <3>1 DEF ListedForm
      <4>2. NotForm(listed)
        BY <1>5, <4>1, FormOf DEF Statement
      <4>3. PICK dr \in Field(8), sr \in Field(8) : ops[1] = R(dr) /\ ops[2] = R(sr)
        BY <4>1, <4>2 DEF NotForm, Statement
      <4>4. ops = <<ops[1], ops[2], ops[3]>>
        BY <1>2, <3>1, Tuples
      <4>5. Operand2(N(-1))
        <5>1. 2^(5 - 1) = 16
          OBVIOUS
        <5>2. -1 \in Int /\ InRange(-1, 5)
          BY <5>1 DEF InRange
        <5> QED BY <5>2 DEF Operand2
      <4> QED BY <3>1, <4>3, <4>4, <4>5
    <3>2. CASE ~(mnemonic = "XOR" /\ Len(ops) = 3 /\ ops[3] = N(-1))
      <4>1. listed = Statement(mnemonic, ops)
        BY <1>4, <1>9, <3>2 DEF ListedForm
      <4>2. OperateForm(listed)
        BY <1>5, <1>9, <4>1, FormOf DEF Statement
      <4> QED BY <4>1, <4>2 DEF OperateForm, Statement
    <3> QED BY <3>1, <3>2
  <2>3. Len(ops) = 3
    BY <2>2
  <2>4. assemble_add_and(opcodes[mnemonic], ops) # {}
    BY <2>2, OperateEncodes
  <2> QED BY <1>9, <2>1, <2>3, <2>4, EncodingOf
<1>10. CASE mnemonic \in {"LDB", "STB"}
  <2>1. listed = Statement(mnemonic, ops)
    BY <1>4, <1>10 DEF ListedForm
  <2> QED BY <1>5, <1>10, <2>1, FormOf DEF Statement
<1>11. CASE mnemonic \in {"LDW", "STW"}
  <2>1. ops = given
    BY <1>3, <1>11, Mnemonics
  <2>2. listed = Statement(IF mnemonic = "LDW" THEN "LDR" ELSE "STR", ops)
    BY <1>4, <1>11 DEF ListedForm
  <2>3. LoadStoreForm(listed)
    BY <1>5, <2>2, FormOf DEF Statement
  <2>4. PICK dr \in Field(8), base \in Field(8), v \in Int : InRange(v, 6) /\ ops = <<R(dr), R(base), N(v)>>
    BY <2>2, <2>3 DEF LoadStoreForm, Statement
  <2>5. Len(ops) = 3 /\ assemble_load_store(opcodes[mnemonic], ops) # {}
    BY <2>4, LoadStoreEncodes
  <2> QED BY <1>11, <2>1, <2>5, EncodingOf
<1>12. CASE mnemonic \in DOMAIN shift_type
  <2>1. ops = given
    BY <1>3, <1>12, Mnemonics
  <2>2. listed.mnemonic = mnemonic
    BY <1>4, <1>12 DEF ListedForm, Statement
  <2>3. PICK dr \in Field(8), sr \in Field(8), amount \in Field(16) : listed.operands = <<R(dr), R(sr), N(amount)>>
    BY <1>5, <1>12, <2>2, FormOf DEF ShiftForm
  <2>4. Len(ops) = 3
    <3>1. CASE Len(ops) # 3
      <4>1. listed.operands = ops
        BY <1>4, <1>12, <3>1 DEF ListedForm, Statement
      <4> QED BY <2>3, <4>1
    <3> QED BY <3>1
  <2>5. listed.operands = <<ops[1], ops[2], Modulo(ops[3], 16)>>
    BY <1>4, <1>12, <2>4 DEF ListedForm, Statement
  <2>6. ops[1] = R(dr) /\ ops[2] = R(sr) /\ Modulo(ops[3], 16) = N(amount)
    BY <2>3, <2>5
  <2>7. ops = <<ops[1], ops[2], ops[3]>> /\ ops[3] \in Operand
    BY <1>2, <2>4, Tuples
  <2>8. PICK v \in Int : ops[3] = N(v) /\ (v \in 8..15 \/ InRange(v, 4))
    BY <2>6, <2>7, FieldFits
  <2>9. ops[3][1] = "#" /\ ops[3][2] = v
    BY <2>8 DEF N
  <2>10. InRange(v, 4)
    BY <1>1, <1>12, <2>1, <2>4, <2>8, <2>9 DEF OverRejected
  <2>11. assemble_shift(mnemonic, ops) # {}
    BY <2>6, <2>7, <2>8, <2>10, ShiftEncodes
  <2> QED BY <1>12, <2>1, <2>4, <2>11, EncodingOf
<1>13. CASE mnemonic = "LEA"
  <2>1. listed = Statement("LEA", ops)
    BY <1>4, <1>13 DEF ListedForm
  <2>2. PICK dr \in Field(8), v \in Int : InRange(v, 9) /\ ops = <<R(dr), N(v)>>
    BY <1>5, <2>1, FormOf DEF LeaForm, Statement
  <2>3. PICK offset9 : offset9 \in parse_immediate(ops[2], 9)
    BY <2>2, Parsed
  <2>4. Len(ops) = 2 /\ 1 \in 1..Len(ops) /\ 2 \in 1..Len(ops) /\ dr \in parse_register(ops[1])
    BY <2>2, Parsed
  <2>5. dr \in parse_register(given[1]) /\ offset9 \in parse_offset(given[2], 9)
    BY <1>6, <1>13, <2>3, <2>4
  <2>6. 14 * 4096 + dr * 512 + offset9 \in assemble_lea(given)
    BY <2>5 DEF assemble_lea
  <2> QED BY <1>2, <1>13, <2>4, <2>6, EncodingOf
<1>14. CASE mnemonic \in DOMAIN nzp
  <2>1. listed = Statement(IF mnemonic = "BR" THEN "BRNZP" ELSE mnemonic, ops)
    BY <1>4, <1>14 DEF ListedForm
  <2>2. listed.mnemonic \in DOMAIN nzp
    BY <1>14, <2>1, Mnemonics DEF Statement
  <2>3. PICK v \in Int : InRange(v, 9) /\ ops = <<N(v)>>
    BY <1>5, <2>1, <2>2, FormOf DEF BranchForm, Statement
  <2>4. PICK offset9 : offset9 \in parse_immediate(ops[1], 9)
    BY <2>3, Parsed
  <2>5. Len(ops) = 1 /\ 1 \in 1..Len(ops)
    BY <2>3
  <2>6. offset9 \in parse_offset(given[1], 9)
    BY <1>6, <1>14, <2>4, <2>5
  <2>7. nzp[mnemonic] * 512 + offset9 \in assemble_branch(mnemonic, given)
    BY <2>6 DEF assemble_branch
  <2> QED BY <1>2, <1>14, <2>5, <2>7, EncodingOf
<1>15. CASE mnemonic = "JSR"
  <2>1. listed = Statement("JSR", ops)
    BY <1>4, <1>15 DEF ListedForm
  <2>2. PICK v \in Int : InRange(v, 11) /\ ops = <<N(v)>>
    BY <1>5, <2>1, FormOf DEF JsrForm, Statement
  <2>3. PICK offset11 : offset11 \in parse_immediate(ops[1], 11)
    BY <2>2, Parsed
  <2>4. Len(ops) = 1 /\ 1 \in 1..Len(ops)
    BY <2>2
  <2>5. offset11 \in parse_offset(given[1], 11)
    BY <1>6, <1>15, <2>3, <2>4
  <2>6. 4 * 4096 + 2048 + offset11 \in assemble_jsr(given)
    BY <2>5 DEF assemble_jsr
  <2> QED BY <1>2, <1>15, <2>4, <2>6, EncodingOf
<1>16. CASE mnemonic \in {"JSRR", "JMP"}
  <2>1. ops = given
    BY <1>3, <1>16, Mnemonics
  <2>2. \E base : ops = <<R(base)>>
    <3>1. CASE mnemonic = "JMP" /\ ops = <<R(7)>>
      BY <3>1
    <3>2. CASE ~(mnemonic = "JMP" /\ ops = <<R(7)>>)
      <4>1. listed = Statement(mnemonic, ops)
        BY <1>4, <1>16, <3>2 DEF ListedForm
      <4>2. BaseForm(listed)
        BY <1>5, <1>16, <4>1, FormOf DEF Statement
      <4> QED BY <4>1, <4>2 DEF BaseForm, Statement
    <3> QED BY <3>1, <3>2
  <2>3. PICK base : Len(ops) = 1 /\ base \in parse_register(ops[1])
    BY <2>2, Parsed
  <2>4. 4 * 4096 + base * 64 \in assemble_jsrr(ops) /\ 12 * 4096 + base * 64 \in assemble_jmp(ops)
    BY <2>3 DEF assemble_jsrr, assemble_jmp
  <2> QED BY <1>16, <2>1, <2>3, <2>4, EncodingOf
<1>17. CASE mnemonic = "TRAP"
  <2>1. ops = given
    BY <1>3, <1>17, Mnemonics
  <2>2. Len(ops) = 1
    <3>1. CASE Len(ops) # 1
      <4>1. listed = Statement("TRAP", ops)
        BY <1>4, <1>17, <3>1 DEF ListedForm
      <4>2. PICK vector \in Field(256) : ops = <<N(vector)>>
        BY <1>5, <4>1, FormOf DEF TrapForm, Statement
      <4> QED BY <3>1, <4>2
    <3> QED BY <3>1
  <2>3. ops[1] \in Operand
    BY <1>2, <2>2, Tuples
  <2>4. PICK v \in Int : ops[1] = N(v) /\ InRange(v, 8)
    <3>1. CASE ops[1][1] = "#" /\ ops[1][2] \in DOMAIN trap_map
      <4>1. ops[1] = N(ops[1][2])
        BY <2>3, <3>1 DEF Operand, N
      <4>2. 2^(8 - 1) = 128
        OBVIOUS
      <4>3. ops[1][2] \in Int /\ InRange(ops[1][2], 8)
        BY <3>1, <4>2 DEF trap_map, InRange
      <4> QED BY <4>1, <4>3
    <3>2. CASE ~(ops[1][1] = "#" /\ ops[1][2] \in DOMAIN trap_map)
      <4>1. listed = Statement("TRAP", <<Modulo(ops[1], 256)>>)
        BY <1>4, <1>17, <2>2, <3>2 DEF ListedForm
      <4>2. PICK vector \in Field(256) : Modulo(ops[1], 256) = N(vector)
        BY <1>5, <4>1, FormOf DEF TrapForm, Statement
      <4>3. PICK v \in Int : ops[1] = N(v) /\ (v \in 128..255 \/ InRange(v, 8))
        BY <2>3, <4>2, FieldFits
      <4>4. ops[1][1] = "#" /\ ops[1][2] = v
        BY <4>3 DEF N
      <4>5. InRange(v, 8)
        BY <1>1, <1>17, <2>1, <2>2, <4>3, <4>4 DEF OverRejected
      <4> QED BY <4>3, <4>5
    <3> QED BY <3>1, <3>2
  <2>5. PICK trapvect : trapvect \in parse_immediate(ops[1], 8)
    BY <2>4, Parsed
  <2>6. 15 * 4096 + trapvect \in assemble_trap(ops)
    BY <2>5 DEF assemble_trap
  <2> QED BY <1>17, <2>1, <2>2, <2>6, EncodingOf
<1>18. mnemonic \in {"HALT", "RET", "RTI", "ADD", "AND", "XOR", "LDB", "STB", "LDW", "STW", "LEA", "JSR", "JSRR", "JMP",
                     "TRAP"} \cup DOMAIN nzp \cup DOMAIN shift_type
  BY <1>1, Mnemonics DEF opcodes
<1> QED BY <1>8, <1>9, <1>10, <1>11, <1>12, <1>13, <1>14, <1>15, <1>16, <1>17, <1>18

-----------------------------------------------------------------------------
(* What is rejected. *)
LEMMA RejectionKept ==
  ASSUME AssemblyInvariant, Rejection, [AsmNext]_asmVars
  PROVE  Rejection'
<1>1. AsmTypes
  BY DEF AssemblyInvariant
<1>2. PICK n, lines : n = line_num /\ lines = source
  OBVIOUS
<1>3. Current = lines[n]
  BY <1>2 DEF Current
<1>4. ASSUME AssemblerError, AtLine, IsInstruction(Current) => Duplicate(n) \/ Words(Current) = {}
      PROVE  Rejection'
  <2>1. UNCHANGED <<source, line_num, symbols, current_address>>
    BY <1>4 DEF AssemblerError
  <2>2. AtLine' /\ Current' = lines[n] /\ line_num' = n
    BY <1>2, <1>4, <2>1 DEF AtLine, Current
  <2>3. Duplicate(n)' <=> Duplicate(n)
    BY <1>2, <2>1 DEF Duplicate, HasLabel
  <2>4. Words(lines[n])' = Words(lines[n])
    BY <2>1 DEF Words, Misread, HasLabel, Fill, Count, IsText, IsSymbol, parse_immediate, Encoding, parse_offset,
       assemble_branch, assemble_jsr, assemble_lea
  <2>5. IsInstruction(lines[n])' <=> IsInstruction(lines[n])
    BY DEF IsInstruction, Misread, HasLabel
  <2> QED BY <1>3, <1>4, <2>2, <2>3, <2>4, <2>5 DEF Rejection
<1>5. CASE UNCHANGED asmVars
  <2>1. UNCHANGED <<source, pass, line_num, symbols, current_address>>
    BY <1>5 DEF asmVars
  <2>2. CASE pass = "error"
    <3>1. AssemblerError
      BY <1>5, <2>2 DEF AssemblerError, asmVars
    <3>2. AtLine /\ (IsInstruction(Current) => Duplicate(n) \/ Words(Current) = {})
      BY <1>2, <2>2 DEF Rejection
    <3> QED BY <1>4, <3>1, <3>2
  <2>3. CASE pass # "error"
    BY <2>1, <2>3 DEF Rejection
  <2> QED BY <2>2, <2>3
<1>6. CASE ORIG /\ AssemblerError
  <2>1. AtLine /\ Current.mnemonic = ".ORIG"
    BY <1>6 DEF ORIG, IsDirective
  <2>2. ~IsInstruction(Current)
    BY <2>1 DEF IsInstruction, opcodes
  <2> QED BY <1>4, <1>6, <2>1, <2>2
<1>7. CASE first_pass /\ AssemblerError
  <2>1. AtLine /\ n \in Nat \ {0} /\ n \in DOMAIN source
    BY <1>1, <1>2, <1>7, CurrentLine DEF first_pass, Ends, AsmTypes, AsmTypeOK
  <2>2. ASSUME IsInstruction(Current)
        PROVE  Duplicate(n)
    <3>1. Size(Current) = {2}
      <4>1. Current.mnemonic \notin {"", ".BLKW", ".STRINGZ"}
        BY <2>2 DEF IsInstruction, opcodes
      <4> QED BY <4>1 DEF Size
    <3>2. HasLabel(Current) /\ Current.label \in DOMAIN symbols
      <4>1. line_num' = line_num
        BY <1>7 DEF AssemblerError
      <4>2. line_num \in Nat
        BY <1>1 DEF AsmTypes
      <4> QED BY <1>7, <3>1, <4>1, <4>2 DEF first_pass
    <3>3. PICK place \in [Nat -> Nat] : FirstPass(place)
      BY <1>7 DEF first_pass, AssemblyInvariant
    <3>4. PICK j \in 1..(n - 1) : HasLabel(source[j]) /\ source[j].label = Current.label
      <4>1. Labelled(place, n)
        BY <1>2, <3>3 DEF FirstPass
      <4>2. Current.label \in {source[i].label : i \in {j \in 1..(n - 1) : HasLabel(source[j])}}
        BY <3>2, <4>1 DEF Labelled
      <4> QED BY <4>2
    <3> QED BY <1>2, <1>3, <3>2, <3>4 DEF Duplicate
  <2> QED BY <1>4, <1>7, <2>1, <2>2
<1>8. CASE second_pass /\ AssemblerError
  <2>1. AtLine
    BY <1>8 DEF second_pass, Ends
  <2>2. Words(Current) = {}
    <3>1. line_num' = line_num /\ line_num \in Nat
      BY <1>1, <1>8 DEF AssemblerError, AsmTypes
    <3> QED BY <1>8, <3>1 DEF second_pass
  <2> QED BY <1>4, <1>8, <2>1, <2>2
<1>9. CASE AsmNext /\ ~AssemblerError
  <2>1. pass' # "error"
    BY <1>9 DEF AsmNext, ORIG, first_pass, second_pass_starts, second_pass, assemble_file
  <2> QED BY <2>1 DEF Rejection
<1>10. CASE (second_pass_starts \/ assemble_file) /\ AssemblerError
  BY <1>10 DEF second_pass_starts, assemble_file, AssemblerError
<1> QED BY <1>5, <1>6, <1>7, <1>8, <1>9, <1>10 DEF AsmNext

(* An instruction ends the process only if its label has been met before, if its amount or its
   vector is one the assembler takes for a signed number, or if no word at all is listed as the
   statement (first_pass, second_pass, parse_immediate). *)
THEOREM RejectsOnlyTheUnencodableHolds == AsmSpec => []RejectsOnlyTheUnencodable
<1>1. AsmInit => Rejection
  BY DEF AsmInit, Rejection
<1>2. AssemblyInvariant /\ Rejection /\ [AsmNext]_asmVars => Rejection'
  BY RejectionKept
<1>3. AssemblyInvariant /\ Rejection => RejectsOnlyTheUnencodable
  <2> SUFFICES ASSUME AssemblyInvariant, Rejection, pass = "error", IsInstruction(Current), ~Duplicate(line_num),
                      ~OverRejected(Current), NEW x \in Word, disassemble(x) = Listed(Current, current_address)
               PROVE  FALSE
    BY DEF RejectsOnlyTheUnencodable, Listings
  <2>1. AsmTypes /\ AtLine /\ Words(Current) = {}
    BY DEF AssemblyInvariant, Rejection
  <2>2. PICK l \in SourceLine : l = Current
    BY <2>1, CurrentLine DEF Current
  <2>3. current_address \in Nat /\ \A name \in DOMAIN symbols : symbols[name] \in Nat
    BY <2>1 DEF AsmTypes, AsmTypeOK
  <2>4. ~Misread(l) /\ l.mnemonic \in DOMAIN opcodes \cup {"RET"}
    BY <2>2 DEF IsInstruction
  <2>5. PICK word : word \in Encoding(l.mnemonic, l.operands)
    BY <2>2, <2>3, <2>4, Encodes
  <2>6. l.mnemonic \notin {"", ".FILL", ".BLKW", ".STRINGZ"}
    BY <2>4 DEF opcodes
  <2>7. <<word>> \in Words(l)
    BY <2>4, <2>5, <2>6 DEF Words
  <2> QED BY <2>1, <2>2, <2>7
<1> QED BY <1>1, <1>2, <1>3, AssemblyInvariantHolds, PTL DEF AsmSpec
=============================================================================
