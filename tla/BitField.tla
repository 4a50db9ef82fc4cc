------------------------------ MODULE BitField ------------------------------
(***************************************************************************)
(* The 16-bit words of the simulator (bitfield<16> of include/BitField.h). *)
(* A word is the number to_num() returns; every operation works on its     *)
(* bits, as the std::bitset below the class does, so results are cut to    *)
(* 16 bits exactly where the conversion to native_type cuts them.          *)
(***************************************************************************)
EXTENDS Integers

WordSize == 65536
Word == 0..(WordSize - 1)
BitIndex == 0..15

(* operator[]: bit i of x. *)
Bit(x, i) == (x \div 2^i) % 2 = 1

(* to_num(): the number whose bits are b, b[0] the least significant. *)
Weighted(bit, weight) == IF bit THEN weight ELSE 0
to_num(b) ==
  Weighted(b[0], 1) + Weighted(b[1], 2) + Weighted(b[2], 4) + Weighted(b[3], 8)
  + Weighted(b[4], 16) + Weighted(b[5], 32) + Weighted(b[6], 64) + Weighted(b[7], 128)
  + Weighted(b[8], 256) + Weighted(b[9], 512) + Weighted(b[10], 1024)
  + Weighted(b[11], 2048) + Weighted(b[12], 4096) + Weighted(b[13], 8192)
  + Weighted(b[14], 16384) + Weighted(b[15], 32768)

(* range<e,b>(): bits e down to b of x, moved down to bit 0. *)
range(x, e, b) == to_num([i \in BitIndex |-> i + b <= e /\ Bit(x, i + b)])

(* Mistakes the checks must notice: the sign bit looked for one place too high, a sum
   that is not cut to 16 bits. *)
sign_ext_high(x, s) == to_num([i \in BitIndex |-> Bit(x, IF i > s + 1 THEN s + 1 ELSE i)])
Add_uncut(x, y) == x + y

(* sign_ext(s): every bit above s becomes a copy of bit s. *)
sign_ext(x, s) == to_num([i \in BitIndex |-> Bit(x, IF i > s THEN s ELSE i)])

(* zero_ext(s): every bit above s becomes 0. *)
zero_ext(x, s) == to_num([i \in BitIndex |-> i <= s /\ Bit(x, i)])

(* The operators +, <<, >>, & and ^ of bits16. *)
Add(x, y) == (x + y) % WordSize
ShiftLeft(x, k) == to_num([i \in BitIndex |-> i >= k /\ Bit(x, i - k)])
ShiftRight(x, k) == to_num([i \in BitIndex |-> i + k <= 15 /\ Bit(x, i + k)])
And(x, y) == to_num([i \in BitIndex |-> Bit(x, i) /\ Bit(y, i)])
Xor(x, y) == to_num([i \in BitIndex |-> Bit(x, i) # Bit(y, i)])
=============================================================================
