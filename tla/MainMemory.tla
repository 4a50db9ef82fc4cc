----------------------------- MODULE MainMemory -----------------------------
(***************************************************************************)
(* The byte-addressable memory.  MEMORY is an array of 32768 words of two  *)
(* bytes that init_memory zeroes.  It is modelled by the function from the *)
(* word addresses written so far to the words there; every other word is   *)
(* still 0.                                                                *)
(***************************************************************************)
EXTENDS BitField

WORDS_IN_MEM == 32768

IsMemory(m) ==
  /\ m = [a \in DOMAIN m |-> m[a]]
  /\ DOMAIN m \subseteq 0..(WORDS_IN_MEM - 1)
  /\ \A a \in DOMAIN m : m[a] \in Word

(* dcache_addr >> 1: the word a byte address lies in. *)
WordAddress(address) == address \div 2

(* GetUpperByteAt and GetLowerByteAt of one word, put together. *)
GetWordAt(m, a) == IF a \in DOMAIN m THEN m[a] ELSE 0

(* SetLowerByteAt when mem_w0, SetUpperByteAt when mem_w1. *)
SetBytesAt(m, a, word, mem_w0, mem_w1) ==
  LET old == GetWordAt(m, a)
      new == to_num([i \in BitIndex |-> IF i < 8 THEN Bit(IF mem_w0 THEN word ELSE old, i)
                                                 ELSE Bit(IF mem_w1 THEN word ELSE old, i)])
  IN  IF mem_w0 \/ mem_w1
      THEN [b \in DOMAIN m \cup {a} |-> IF b = a THEN new ELSE m[b]]
      ELSE m

(* What the caches put on the bus while they are not ready (0xfeed). *)
NotReadyWord == 65261
=============================================================================
