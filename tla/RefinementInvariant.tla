------------------------ MODULE RefinementInvariant -------------------------
(***************************************************************************)
(* The inductive invariant behind the refinement: the valid instructions   *)
(* in flight are the next ones of the programmer's machine, in its order,  *)
(* and each has what that machine would give it so far.                    *)
(***************************************************************************)
EXTENDS OperandInvariant

(* What the refinement needs of a row of the microcode, and TLC evaluates for the shipped
   one: an instruction that uses a register has said so. *)
ASSUME NeedsAssumption ==
  \A row \in 0..(CONTROL_STORE_ROWS - 1) :
    LET cs == ControlStore[row]
    IN  /\ "ADDR1MUX" \in cs => "SR1_NEEDED" \in cs
        /\ Get_DR_VALUEMUX(cs) = 3 /\ {"LD_REG", "LD_CC"} \cap cs # {} =>
             /\ "SR1_NEEDED" \in cs
             /\ "ALU_RESULTMUX" \in cs /\ "SR2MUX" \notin cs => "SR2_NEEDED" \in cs
        /\ ~({"BR_OP", "TRAP_OP"} \subseteq cs)

(* Programs without stores and unconditional transfers, which the pipeline does not
   execute as the programmer's machine does. *)
Plain(ucode) == "UNCOND_OP" \notin ucode /\ ~({"DCACHE_EN", "DCACHE_RW"} \subseteq ucode)
PlainImage(image) ==
  /\ Plain(MicroCode(0))
  /\ \A a \in DOMAIN image.memory : Plain(MicroCode(image.memory[a]))
PlainPrograms == \A image \in Images : PlainImage(image)
-----------------------------------------------------------------------------
(* MEM_stage finds no write enable in any latch, so memory stays as it was loaded. *)
MemoryUnwritten ==
  /\ \E image \in Images : memory = image.memory
  /\ \A s \in Stages : PS[s].MEM_CS = {} /\ NEW_PS[s].MEM_CS = {}

(* A valid instruction is the word at its address. *)
Fetched(latch) ==
  LET inst == heap[latch.instruction]
  IN  latch.V => inst.IR = GetWordAt(memory, WordAddress(AddressOf(inst)))
InstructionsFetched == \A s \in Stages : Fetched(PS[s]) /\ Fetched(NEW_PS[s])

(* One that has left AGEX has its address and its result, from the operands it still has;
   one that has left MEMORY has what is in memory at that address. *)
Computed(latch) ==
  LET inst == heap[latch.instruction]
  IN  latch.V => inst.ADDRESS = MemAddress(inst) /\ inst.ALU_RESULT = AluShifterOutput(inst)
Delivered(latch) ==
  LET inst == heap[latch.instruction]
  IN  latch.V =>
        inst.DATA = IF "DCACHE_EN" \in inst.MEM_CS
                    THEN LoadedValue(inst, GetWordAt(memory, WordAddress(inst.ADDRESS))) ELSE 0
ResultsFollow ==
  /\ \A s \in {"MEMORY", "STORE"} : Computed(PS[s]) /\ Computed(NEW_PS[s])
  /\ Delivered(PS["STORE"]) /\ Delivered(NEW_PS["STORE"])

(* The signals of MEM_stage and SR_stage carry what the instruction in their latch has. *)
SignalsFollow ==
  /\ AfterMEM /\ PS["MEMORY"].V =>
       LET m == PS["MEMORY"].instruction
       IN  /\ memory_sigs.target_pc = heap[m].ADDRESS
           /\ memory_sigs.trap_pc = heap[m].DATA
           /\ Redirects(m) => memory_sigs.mem_pc_mux = IF "BR_OP" \in UcodeOf(m) THEN 1 ELSE 2
  /\ at \in {"MEM", "AGEX", "DE"} /\ PS["STORE"].V =>
       /\ store_sigs.sr_reg_data = WritebackValue(On("STORE"))
       /\ store_sigs.sr_nzp = ConditionCodes(WritebackValue(On("STORE")))

(* Behind every instruction comes the one the program goes on with, or the PC is there.
   While an instruction that is going to redirect the fetch waits for memory, the PC may
   be anywhere. *)
PathFollows ==
  /\ PS["STORE"].V /\ ~AfterDE => FromMEMORY = Arch!NextPC(On("STORE"))
  /\ PS["MEMORY"].V =>
       IF Redirects(PS["MEMORY"].instruction)
       THEN AfterFETCH /\ ~stall_sigs.mem_stall => FromAGEX = Arch!NextPC(On("MEMORY"))
       ELSE FromAGEX = On("MEMORY").NPC
  /\ PS["AGEX"].V => FromDECODE = On("AGEX").NPC
  /\ PS["DECODE"].V => NextFetch = On("DECODE").NPC
  /\ AfterFETCH /\ ~DecodeHeld /\ NEW_PS["DECODE"].V => PC = heap[NEW_PS["DECODE"].instruction].NPC

RefinementInvariant ==
  /\ MemoryUnwritten
  /\ InstructionsFetched
  /\ ResultsFollow
  /\ SignalsFollow
  /\ PathFollows
=============================================================================
