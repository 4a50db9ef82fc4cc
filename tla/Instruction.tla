---------------------------- MODULE Instruction -----------------------------
(***************************************************************************)
(* class Instruction: the data and control words that travel with an       *)
(* instruction through the pipeline.  What is only printed is left out: PC *)
(* and fetch_cycle, and current_stage and cycle_history, which History     *)
(* has; NPC identifies the instruction's address.                          *)
(***************************************************************************)
EXTENDS Datapath

RegisterId == 0..7

Instruction ==
  [IR : Word, NPC : Word, DATA : Word, SR1 : Word, SR2 : Word,
   ALU_RESULT : Word, ADDRESS : Word, DRID : RegisterId, CC : RegisterId,
   AGEX_CS : ControlWord, MEM_CS : ControlWord, SR_CS : ControlWord]

(* Create, followed by the assignment of NPC in FETCH_stage. *)
Create(instruction_bits, npc) ==
  [IR |-> instruction_bits, NPC |-> npc, DATA |-> 0, SR1 |-> 0, SR2 |-> 0,
   ALU_RESULT |-> 0, ADDRESS |-> 0, DRID |-> 0, CC |-> 0,
   AGEX_CS |-> {}, MEM_CS |-> {}, SR_CS |-> {}]

(* The address the instruction was fetched from (UpdateHistory: NPC - 2). *)
AddressOf(inst) == Add(inst.NPC, WordSize - 2)

(* The latching of each stage into the object: DE, AGEX and MEM. *)
Decoded(inst, ucode, sr1, sr2, cc) ==
  [inst EXCEPT !.AGEX_CS = ToAGEX_CS(ucode), !.SR1 = sr1, !.SR2 = sr2, !.CC = cc,
               !.DRID = DR_ID(inst.IR, ucode)]

Executed(inst) ==
  [inst EXCEPT !.MEM_CS = ToMEM_CS(inst.AGEX_CS), !.ADDRESS = MemAddress(inst),
               !.ALU_RESULT = AluShifterOutput(inst)]

Accessed(inst, data) == [inst EXCEPT !.SR_CS = ToSR_CS(inst.MEM_CS), !.DATA = data]
=============================================================================
