------------------------------ MODULE Datapath ------------------------------
(***************************************************************************)
(* The combinational logic of the stages: what an instruction computes     *)
(* from its own fields and its control word.  inst is a record with the    *)
(* fields of class Instruction the operator reads.                         *)
(***************************************************************************)
EXTENDS MicroSequencer, MainMemory

(* DE: the register numbers an instruction names (SR2 is IR[11:9] when IR[13]). *)
SR1_ID(ir) == range(ir, 8, 6)
SR2_ID(ir) == IF Bit(ir, 13) THEN range(ir, 11, 9) ELSE range(ir, 2, 0)
DR_ID(ir, ucode) == IF "DRMUX" \in ucode THEN 7 ELSE range(ir, 11, 9)

(* AGEX: the address adder. *)
AddressOffset(inst) ==
  LET select == Get_ADDR2MUX(inst.AGEX_CS)
  IN  CASE select = 0 -> 0
        [] select = 1 -> sign_ext(inst.IR, 5)
        [] select = 2 -> sign_ext(inst.IR, 8)
        [] OTHER      -> sign_ext(inst.IR, 10)

MemAddress(inst) ==
  LET base   == IF "ADDR1MUX" \in inst.AGEX_CS THEN inst.SR1 ELSE inst.NPC
      offset == IF "LSHF1" \in inst.AGEX_CS THEN ShiftLeft(AddressOffset(inst), 1)
                                            ELSE AddressOffset(inst)
  IN  IF "ADDRESSMUX" \in inst.AGEX_CS THEN Add(base, offset)
                                       ELSE ShiftLeft(zero_ext(inst.IR, 7), 1)

(* AGEX: the ALU and the shifter. *)
Alu(inst) ==
  LET input2 == IF "SR2MUX" \in inst.AGEX_CS THEN sign_ext(inst.IR, 4) ELSE inst.SR2
      aluk   == Get_ALUK(inst.AGEX_CS)
  IN  CASE aluk = 0 -> Add(inst.SR1, input2)
        [] aluk = 1 -> And(inst.SR1, input2)
        [] aluk = 2 -> Xor(inst.SR1, input2)
        [] OTHER    -> input2

(* A mistake the checks must notice: zeros are shifted in. *)
ArithmeticShiftRight_logical(x, k) == ShiftRight(x, k)

ArithmeticShiftRight(x, k) ==
  to_num([i \in BitIndex |-> Bit(x, IF i + k > 15 THEN 15 ELSE i + k)])

Shift(inst) ==
  LET kind   == range(inst.IR, 5, 4)
      amount == range(inst.IR, 3, 0)
  IN  CASE kind = 0 -> ShiftLeft(inst.SR1, amount)
        [] kind = 1 -> ShiftRight(inst.SR1, amount)
        [] kind = 3 -> ArithmeticShiftRight(inst.SR1, amount)
        [] OTHER    -> 0

AluShifterOutput(inst) ==
  IF "ALU_RESULTMUX" \in inst.AGEX_CS THEN Alu(inst) ELSE Shift(inst)

(* A mistake the checks must notice: a byte is always put on the low half. *)
MDR_IN_low(inst) ==
  IF "DATA_SIZE" \in inst.MEM_CS THEN inst.ALU_RESULT ELSE zero_ext(inst.ALU_RESULT, 7)

(* MEM: the word handed to the data cache; a byte is put on the half its address selects. *)
MDR_IN(inst) ==
  IF "DATA_SIZE" \in inst.MEM_CS THEN inst.ALU_RESULT
  ELSE IF Bit(inst.ADDRESS, 0) THEN ShiftLeft(inst.ALU_RESULT, 8)
                               ELSE zero_ext(inst.ALU_RESULT, 7)

(* MEM: the write enables; rw is the DCACHE.RW signal the stage was given. *)
WE_LOW(inst, rw) == rw /\ ("DATA_SIZE" \in inst.MEM_CS \/ ~Bit(inst.ADDRESS, 0))
WE_HIGH(inst, rw) == rw /\ ("DATA_SIZE" \in inst.MEM_CS \/ Bit(inst.ADDRESS, 0))

(* MEM: what is made of the word the data cache returns; a byte is sign-extended. *)
LoadedValue(inst, mdr_out) ==
  IF "DATA_SIZE" \in inst.MEM_CS THEN mdr_out
  ELSE sign_ext(IF Bit(inst.ADDRESS, 0) THEN ShiftRight(mdr_out, 8) ELSE mdr_out, 7)

(* MEM: the condition a BR tests, IR[11:9] against the latched N, Z and P. *)
ConditionHolds(inst) == \E i \in 0..2 : Bit(inst.IR, 9 + i) /\ Bit(inst.CC, i)

(* SR: the value written back, and the condition codes it sets (N = 4, Z = 2, P = 1). *)
WritebackValue(inst) ==
  LET select == Get_DR_VALUEMUX(inst.SR_CS)
  IN  CASE select = 0 -> inst.ADDRESS
        [] select = 1 -> inst.DATA
        [] select = 2 -> inst.NPC
        [] OTHER      -> inst.ALU_RESULT

ConditionCodes(value) == IF Bit(value, 15) THEN 4 ELSE IF value = 0 THEN 2 ELSE 1
=============================================================================
