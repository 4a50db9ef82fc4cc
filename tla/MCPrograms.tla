----------------------------- MODULE MCPrograms -----------------------------
(***************************************************************************)
(* Programs for TLC: code placed at Entry and followed by branches to      *)
(* themselves.  The numbers are the assembled instructions.                *)
(***************************************************************************)
EXTENDS Integers, Sequences, TLC

Entry == 12288                  \* 0x3000
SelfBranch == 4095              \* 0x0FFF  BRnzp #-1

(* Low memory: the vector of TRAP 0x25 points to a service routine at      *)
(* 0x0400 that branches to itself; address 0 does too.                     *)
Vectors == (0 :> SelfBranch) @@ (37 :> 1024) @@ (512 :> SelfBranch)

Program(code) ==
  LET base == Entry \div 2
      word(i) == IF i <= Len(code) THEN code[i] ELSE SelfBranch
  IN  [i \in base..(base + Len(code) + 2) |-> word(i - base + 1)]

Image(code) == [entry |-> Entry, memory |-> Vectors @@ Program(code)]

(* The instructions that share registers, condition codes and control flow. *)
Instructions ==
  { 4129,       \* 0x1021 ADD R0, R0, #1
    4671,       \* 0x123F ADD R1, R0, #-1
    20512,      \* 0x5020 AND R0, R0, #0
    4672,       \* 0x1240 ADD R1, R1, R0
    36927,      \* 0x903F XOR R0, R0, #-1
    53329,      \* 0xD051 RSHF R0, R1, #1
    57345,      \* 0xE001 LEA R0, #1
    24576,      \* 0x6000 LDW R0, R0, #0
    8769,       \* 0x2241 LDB R1, R1, #1
    1025,       \* 0x0401 BRz #1
    3074,       \* 0x0C02 BRnz #2
    61477 }     \* 0xF025 TRAP 0x25

(* Every program of three of them. *)
Images3 == {Image(code) : code \in [1..3 -> Instructions]}

(* Two of them and a branch back to the start: programs that do not end, but come back
   to the same registers. *)
LoopImages ==
  {Image(<<a, b, 4093>>) : a, b \in {4671, 20512, 36927, 57345, 24576, 1025}}  \* 0x0FFD BRnzp #-3

(* A load feeding an operation that feeds a branch, a load behind a store of the
   codes, a trap behind a load, a branch over a load. *)
LatencyImages ==
  { Image(<<24576, 4672, 1025>>),      \* LDW R0, R0, #0;  ADD R1, R1, R0;  BRz #1
    Image(<<57345, 24576, 8769>>),     \* LEA R0, #1;  LDW R0, R0, #0;  LDB R1, R1, #1
    Image(<<8769, 61477, 4129>>),      \* LDB R1, R1, #1;  TRAP 0x25;  ADD R0, R0, #1
    Image(<<20512, 1025, 24576>>) }    \* AND R0, R0, #0;  BRz #1;  LDW R0, R0, #0

(* The first instructions of doc/test/example.asm: the sum is stored at DATA. *)
StoreImages ==
  { Image(<<20512,      \* 0x5020 AND R0, R0, #0
            4133,       \* 0x1025 ADD R0, R0, #5
            4650,       \* 0x122A ADD R1, R0, #10
            58373,      \* 0xE405 LEA R2, DATA
            29312>>) }  \* 0x7280 STW R1, R2, #0

(* A subroutine call, a call through a register and a jump. *)
TransferImages ==
  { Image(<<57346, 18433, 4129>>),   \* 0xE002 LEA R0, #2;  0x4801 JSR #1;  ADD R0, R0, #1
    Image(<<57346, 16384, 4129>>),   \* 0xE002 LEA R0, #2;  0x4000 JSRR R0
    Image(<<57346, 49152, 4129>>) }  \* 0xE002 LEA R0, #2;  0xC000 JMP R0

(* The dependent pair of the README's timing diagram: a load and an addition of it. *)
LoadUseImages == {Image(<<57349, 25088, 5221>>)}  \* LEA R0, #5;  LDW R1, R0, #0;  ADD R2, R1, #5
=============================================================================
