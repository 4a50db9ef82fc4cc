----------------------------- MODULE Sequential -----------------------------
(***************************************************************************)
(* What the pipeline promises: the programmer's machine.  One instruction  *)
(* at a time is fetched, decoded, executed, given its memory access and    *)
(* written back, with the same microcode and the same combinational logic, *)
(* and only then the next one is fetched.                                  *)
(***************************************************************************)
EXTENDS Instruction

CONSTANTS ControlStore, Images

VARIABLES pc, regs, nzp, mem

vars == <<pc, regs, nzp, mem>>

Init ==
  /\ \E image \in Images : pc = image.entry /\ mem = image.memory
  /\ regs = [r \in RegisterId |-> 0]
  /\ nzp = 2

(* The instruction at pc with everything the stages up to AGEX latch into it. *)
Current ==
  LET ir    == GetWordAt(mem, WordAddress(pc))
      ucode == ControlStore[CONTROL_STORE_ADDRESS(ir)]
  IN  Executed(Decoded(Create(ir, Add(pc, 2)), ucode,
                       regs[SR1_ID(ir)], regs[SR2_ID(ir)], nzp))

(* The instruction once it has seen memory. *)
Completed(inst) ==
  LET word == GetWordAt(mem, WordAddress(inst.ADDRESS))
  IN  Accessed(inst, IF "DCACHE_EN" \in inst.MEM_CS THEN LoadedValue(inst, word) ELSE 0)

NextPC(inst) ==
  IF \/ "BR_OP" \in inst.MEM_CS /\ ConditionHolds(inst)
     \/ "UNCOND_OP" \in inst.MEM_CS
  THEN inst.ADDRESS
  ELSE IF "TRAP_OP" \in inst.MEM_CS THEN inst.DATA ELSE inst.NPC

(* One instruction, from its fetch to its write-back. *)
Step ==
  LET inst  == Completed(Current)
      store == "DCACHE_EN" \in inst.MEM_CS /\ "DCACHE_RW" \in inst.MEM_CS
  IN  /\ pc' = NextPC(inst)
      /\ regs' = IF "LD_REG" \in inst.SR_CS
                 THEN [regs EXCEPT ![inst.DRID] = WritebackValue(inst)] ELSE regs
      /\ nzp' = IF "LD_CC" \in inst.SR_CS THEN ConditionCodes(WritebackValue(inst)) ELSE nzp
      /\ mem' = SetBytesAt(mem, WordAddress(inst.ADDRESS), MDR_IN(inst),
                           WE_LOW(inst, store), WE_HIGH(inst, store))

Spec == Init /\ [][Step]_vars
=============================================================================
