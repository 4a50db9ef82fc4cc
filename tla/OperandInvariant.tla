-------------------------- MODULE OperandInvariant --------------------------
(***************************************************************************)
(* The inductive invariant behind the operands: every instruction that is  *)
(* going to write a register or the codes is announced to DE_stage by the  *)
(* signals of the stage it is in, so that what an instruction has read in  *)
(* DECODE stays right until it has left the pipeline.                      *)
(***************************************************************************)
EXTENDS PipeLineInvariant

(* The effects of the instruction in a latch, by its microcode. *)
Dest(o) == DR_ID(heap[o].IR, UcodeOf(o))
Writes(latch, r) == latch.V /\ "LD_REG" \in UcodeOf(latch.instruction) /\ Dest(latch.instruction) = r
SetsCodes(latch) == latch.V /\ "LD_CC" \in UcodeOf(latch.instruction)

(* The destination and the control words of an object are those of its microcode row. *)
DestinationsFollow ==
  \A o \in Obj :
    /\ o \in Past("AGEX") \cup Past("MEMORY") \cup Past("STORE") => heap[o].DRID = Dest(o)
    /\ o \in Past("STORE") => /\ heap[o].AGEX_CS = ToAGEX_CS(UcodeOf(o))
                              /\ heap[o].MEM_CS = ToMEM_CS(heap[o].AGEX_CS)
                              /\ heap[o].SR_CS = ToSR_CS(heap[o].MEM_CS)

(* SR_stage selects the write-back of the valid instruction in STORE and no other. *)
WriteBackSelected ==
  /\ PS["STORE"].instruction = NULL => ~store_sigs.v_sr_ld_reg /\ ~store_sigs.v_sr_ld_cc
  /\ at # "SR" =>
       /\ \A r \in RegisterId :
            store_sigs.v_sr_ld_reg /\ store_sigs.sr_drid = r <=> Writes(PS["STORE"], r)
       /\ store_sigs.v_sr_ld_cc <=> SetsCodes(PS["STORE"])

(* MEM_stage and AGEX_stage announce theirs. *)
ProducersAnnounced ==
  /\ AfterMEM =>
       /\ \A r \in RegisterId :
            Writes(PS["MEMORY"], r) => memory_sigs.v_mem_ld_reg /\ memory_sigs.mem_drid = r
       /\ SetsCodes(PS["MEMORY"]) => memory_sigs.v_mem_ld_cc
  /\ AfterAGEX =>
       /\ \A r \in RegisterId :
            Writes(PS["AGEX"], r) => agex_sigs.v_agex_ld_reg /\ agex_sigs.agex_drid = r
       /\ SetsCodes(PS["AGEX"]) => agex_sigs.v_agex_ld_cc

(* The instruction in latch s has what it needs, and nothing older is going to change it. *)
Older(s) == CASE s = "AGEX" -> {"MEMORY", "STORE"} [] s = "MEMORY" -> {"STORE"} [] s = "STORE" -> {}
Fresh(latches, s) ==
  LET inst  == heap[latches[s].instruction]
      ucode == UcodeOf(latches[s].instruction)
  IN  latches[s].V =>
        /\ "SR1_NEEDED" \in ucode =>
             /\ inst.SR1 = REGS[SR1_ID(inst.IR)]
             /\ \A t \in Older(s) : ~Writes(latches[t], SR1_ID(inst.IR))
        /\ "SR2_NEEDED" \in ucode =>
             /\ inst.SR2 = REGS[SR2_ID(inst.IR)]
             /\ \A t \in Older(s) : ~Writes(latches[t], SR2_ID(inst.IR))
        /\ "BR_OP" \in ucode =>
             /\ inst.CC = NZP
             /\ \A t \in Older(s) : ~SetsCodes(latches[t])

(* DE_stage writes back: from then on it is what the instructions move to that counts. *)
OperandsHold ==
  \A s \in {"AGEX", "MEMORY", "STORE"} : Fresh(IF AfterDE THEN NEW_PS ELSE PS, s)

OperandsInvariant ==
  /\ DestinationsFollow
  /\ WriteBackSelected
  /\ ProducersAnnounced
  /\ OperandsHold
=============================================================================
