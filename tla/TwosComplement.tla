--------------------------- MODULE TwosComplement ---------------------------
(***************************************************************************)
(* The arithmetic a field of a word is meant by: the reference the         *)
(* operations on bits are compared with.                                   *)
(***************************************************************************)
EXTENDS Integers

(* The n low bits of a word as a number, and as a two's complement number. *)
Low(x, n) == x % 2^n
Signed(x, n) == IF Low(x, n) >= 2^(n - 1) THEN Low(x, n) - 2^n ELSE Low(x, n)
=============================================================================
