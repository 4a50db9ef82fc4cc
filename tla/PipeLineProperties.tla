------------------------- MODULE PipeLineProperties -------------------------
(***************************************************************************)
(* What is claimed of the pipeline.                                        *)
(***************************************************************************)
EXTENDS PipeLine, Sequences

(* Every variable holds a value of the C++ type it models. *)
TypeOK ==
  /\ at \in Steps
  /\ PC \in Word
  /\ REGS \in [RegisterId -> Word]
  /\ NZP \in RegisterId
  /\ IsMemory(memory)
  /\ heap \in [Obj -> Instruction]
  /\ PS \in [Stages -> Latch]
  /\ NEW_PS \in [Stages -> Latch]
  /\ agex_sigs \in AGEX_Stage_Entry
  /\ memory_sigs \in MEMORY_stage_Entry
  /\ store_sigs \in STORE_stage_Entry
  /\ stall_sigs \in Stall_Entry

Valid(latch) == latch.instruction # NULL /\ latch.V

(* The address of the instruction the programmer's machine executes next: that of the
   oldest valid instruction in flight, or the PC if there is none.  An instruction in STORE
   is in flight until DE_stage has written its result back, and the one FETCH_stage has
   just issued is before MoveLatch has moved it. *)
AddressIn(latch, otherwise) == IF Valid(latch) THEN AddressOf(heap[latch.instruction]) ELSE otherwise

NextFetch == IF at = "MOVE" /\ ~DecodeHeld THEN AddressIn(NEW_PS["DECODE"], PC) ELSE PC
FromDECODE == AddressIn(PS["DECODE"], NextFetch)
FromAGEX == AddressIn(PS["AGEX"], FromDECODE)
FromMEMORY == AddressIn(PS["MEMORY"], FromAGEX)
ArchitecturalPC ==
  IF at \in {"SR", "MEM", "AGEX", "DE"} THEN AddressIn(PS["STORE"], FromMEMORY) ELSE FromMEMORY

Arch == INSTANCE Sequential WITH pc <- ArchitecturalPC, regs <- REGS, nzp <- NZP, mem <- memory

(* Five instructions in flight, bubbles and redirections together do what one
   instruction at a time would have done: registers, codes, memory and control flow. *)
ImplementsSequential == Arch!Spec

(* The pipeline never wedges: again and again a valid instruction is written back. *)
InstructionsKeepRetiring == []<>(at = "SR" /\ PS["STORE"].V)

-----------------------------------------------------------------------------
(* The instruction object a latch points to. *)
On(s) == heap[PS[s].instruction]

(* While a control instruction is in AGEX or MEMORY every latch behind it holds a
   bubble: nothing is fetched down a path that has not been chosen yet. *)
ControlInterlock ==
  at = "SR" =>
    /\ Valid(PS["MEMORY"]) /\ "BR_STALL" \in On("MEMORY").MEM_CS
         => ~PS["AGEX"].V /\ ~PS["DECODE"].V
    /\ Valid(PS["AGEX"]) /\ "BR_STALL" \in On("AGEX").AGEX_CS => ~PS["DECODE"].V

(* A stalled instruction leaves its object behind as a bubble in the next latch; of
   the latches sharing an object only the one the instruction is really in is valid. *)
Behind(s) ==
  CASE s = "STORE"  -> {"MEMORY", "AGEX", "DECODE"}
    [] s = "MEMORY" -> {"AGEX", "DECODE"}
    [] s = "AGEX"   -> {"DECODE"}
    [] s = "DECODE" -> {}
SharedObjectHasOneOwner ==
  at = "SR" =>
    \A s \in Stages : \A t \in Behind(s) :
      PS[s].instruction = PS[t].instruction => ~PS[s].V

(* At the end of a cycle every valid instruction is in exactly one latch: still in its
   own when it is held, or else in the next; one in STORE has left.  A stall, a bubble or
   a redirection neither loses an instruction nor lets it run twice. *)
Onward(s) == CASE s = "DECODE" -> "AGEX" [] s = "AGEX" -> "MEMORY" [] s = "MEMORY" -> "STORE"
HoldersOf(o) == {s \in Stages : PS[s].instruction = o /\ PS[s].V}
Advance ==
  at = "MOVE" =>
    \A o \in Obj : \A s \in HoldersOf(o) :
      HoldersOf(o)' \in IF s = "STORE" THEN {{}} ELSE {{s}, {Onward(s)}}
InstructionsAdvance == [][Advance]_vars

(* What a valid instruction in AGEX read in DECODE is still right: no older
   instruction is about to change a register or the codes it uses. *)
OperandsFresh ==
  at = "SR" /\ Valid(PS["AGEX"]) =>
    LET inst   == On("AGEX")
        ucode  == MicroCode(inst.IR)
        (* An older instruction in flight, with the control word of its stage, has this effect. *)
        pending(signal, r) ==
          \/ Valid(PS["MEMORY"]) /\ signal \in On("MEMORY").MEM_CS /\ On("MEMORY").DRID \in r
          \/ Valid(PS["STORE"]) /\ signal \in On("STORE").SR_CS /\ On("STORE").DRID \in r
    IN  /\ "SR1_NEEDED" \in ucode =>
             inst.SR1 = REGS[SR1_ID(inst.IR)] /\ ~pending("LD_REG", {SR1_ID(inst.IR)})
        /\ "SR2_NEEDED" \in ucode =>
             inst.SR2 = REGS[SR2_ID(inst.IR)] /\ ~pending("LD_REG", {SR2_ID(inst.IR)})
        /\ "BR_OP" \in ucode => inst.CC = NZP /\ ~pending("LD_CC", RegisterId)

(* The PC mux, which a branch that is not taken does not reset, selects a target only
   while the instruction in MEMORY is a valid taken branch or a valid TRAP. *)
NoStaleRedirect ==
  at \in {"AGEX", "DE", "FETCH", "MOVE"} /\ IsBranchTaken =>
    /\ Valid(PS["MEMORY"])
    /\ \/ "BR_OP" \in On("MEMORY").MEM_CS /\ ConditionHolds(On("MEMORY"))
       \/ "BR_OP" \notin On("MEMORY").MEM_CS /\ "TRAP_OP" \in On("MEMORY").MEM_CS
=============================================================================
