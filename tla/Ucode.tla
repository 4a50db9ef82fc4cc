------------------------------- MODULE Ucode --------------------------------
(***************************************************************************)
(* The control store init_control_store builds from doc/test/ucode: 64     *)
(* rows of 23 characters, character j of a row being the signal with       *)
(* number j in CS_BITS.  Row r belongs to the instructions with            *)
(* IR[15:12] = r \div 4, IR[11] = (r \div 2) % 2 and IR[5] = r % 2.        *)
(***************************************************************************)
EXTENDS MicroSequencer

Row(bits) == {CS_BITS[j] : j \in {k \in 1..23 : bits[k] = 1}}

BR    == Row(<<0,0,0,0,1,0,1,1,0,0,0,0,1,0,0,1,0,0,0,0,0,0,0>>)
ADD_R == Row(<<1,1,0,0,0,0,0,0,0,0,0,1,0,0,0,0,0,0,0,1,1,1,1>>)
ADD_I == Row(<<1,0,0,0,0,0,0,0,1,0,0,1,0,0,0,0,0,0,0,1,1,1,1>>)
LDB   == Row(<<1,0,0,1,0,1,0,1,0,0,0,0,0,0,0,0,1,0,0,0,1,1,1>>)
STB   == Row(<<1,1,0,1,0,1,0,1,0,1,1,1,0,0,0,0,1,1,0,0,0,0,0>>)
JSRR  == Row(<<1,0,1,1,0,0,0,1,0,0,0,0,0,1,0,1,0,0,0,1,0,1,0>>)
JSR   == Row(<<0,0,1,0,1,1,1,1,0,0,0,0,0,1,0,1,0,0,0,1,0,1,0>>)
AND_R == Row(<<1,1,0,0,0,0,0,0,0,0,1,1,0,0,0,0,0,0,0,1,1,1,1>>)
AND_I == Row(<<1,0,0,0,0,0,0,0,1,0,1,1,0,0,0,0,0,0,0,1,1,1,1>>)
LDW   == Row(<<1,0,0,1,0,1,1,1,0,0,0,0,0,0,0,0,1,0,1,0,1,1,1>>)
STW   == Row(<<1,1,0,1,0,1,1,1,0,1,1,1,0,0,0,0,1,1,1,0,0,0,0>>)
XOR_R == Row(<<1,1,0,0,0,0,0,0,0,1,0,1,0,0,0,0,0,0,0,1,1,1,1>>)
XOR_I == Row(<<1,0,0,0,0,0,0,0,1,1,0,1,0,0,0,0,0,0,0,1,1,1,1>>)
JMP   == Row(<<1,0,0,1,0,0,0,1,0,0,0,0,0,1,0,1,0,0,0,0,0,0,0>>)
SHF   == Row(<<1,0,0,0,0,0,0,0,0,0,0,0,0,0,0,0,0,0,0,1,1,1,1>>)
LEA   == Row(<<0,0,0,0,1,0,1,1,0,0,0,0,0,0,0,0,0,0,0,0,0,1,1>>)
TRAP  == Row(<<0,0,1,0,0,0,0,0,0,0,0,0,0,0,1,1,1,0,1,1,0,1,0>>)
Unused == Row([k \in 1..23 |-> 0])

(* RTI (8) and the reserved opcodes 10 and 11 have all-zero rows. *)
CONTROL_STORE ==
  [r \in 0..(CONTROL_STORE_ROWS - 1) |->
     LET ir11 == (r \div 2) % 2
         ir5  == r % 2
     IN  CASE r \div 4 = 0  -> BR
           [] r \div 4 = 1  -> IF ir5 = 1 THEN ADD_I ELSE ADD_R
           [] r \div 4 = 2  -> LDB
           [] r \div 4 = 3  -> STB
           [] r \div 4 = 4  -> IF ir11 = 1 THEN JSR ELSE JSRR
           [] r \div 4 = 5  -> IF ir5 = 1 THEN AND_I ELSE AND_R
           [] r \div 4 = 6  -> LDW
           [] r \div 4 = 7  -> STW
           [] r \div 4 = 9  -> IF ir5 = 1 THEN XOR_I ELSE XOR_R
           [] r \div 4 = 12 -> JMP
           [] r \div 4 = 13 -> SHF
           [] r \div 4 = 14 -> LEA
           [] r \div 4 = 15 -> TRAP
           [] OTHER         -> Unused]
=============================================================================
