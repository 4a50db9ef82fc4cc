------------------------------ MODULE PipeLine ------------------------------
(***************************************************************************)
(* The five-stage pipeline (source/PipeLine.cpp).  A clock cycle is one    *)
(* call of Cycle(): the stages run one after the other from the last to    *)
(* the first on the latches PS and fill NEW_PS, then MoveLatch copies      *)
(* NEW_PS to PS.  A stage sees what the stages that ran before it in the   *)
(* same cycle have already written (the signals, the register file, the    *)
(* condition codes, memory), and latches share Instruction objects by      *)
(* pointer.  Every call is a step; the variable at names the next one.     *)
(***************************************************************************)
EXTENDS Instruction

CONSTANTS
  ControlStore,   \* the microcode, one control word per row
  Images,         \* what load_program may have left: memory and entry point
  Obj,            \* names for the Instruction objects alive at one time
  NULL,           \* the null pointer
  DCACHE_RANDOM,  \* the values of `random' in dcache_access; {0} as built
  ICACHE_RANDOM   \* the values of `random' in icache_access; {0} as built

ASSUME ControlStoreAssumption ==
  ControlStore \in [0..(CONTROL_STORE_ROWS - 1) -> ControlWord]
(* A row that may redirect the fetch also raises BR.STALL, as in doc/test/ucode. *)
ASSUME RedirectsStallAssumption ==
  \A row \in 0..(CONTROL_STORE_ROWS - 1) :
    {"BR_OP", "TRAP_OP"} \cap ControlStore[row] # {} => "BR_STALL" \in ControlStore[row]
ASSUME ImagesAssumption ==
  \A image \in Images : IsMemory(image.memory) /\ image.entry \in Word
ASSUME ObjAssumption == Obj \subseteq Nat /\ NULL \notin Obj

VARIABLES
  at,           \* the call of Cycle() that runs next
  PC, REGS,     \* State: the program counter and the register file
  NZP,          \* State: N, Z and P as one number, N = 4, Z = 2, P = 1
  memory,       \* MainMemory
  heap,         \* the Instruction objects
  PS, NEW_PS,   \* the latches in front of DECODE, AGEX, MEMORY and STORE
  agex_sigs, memory_sigs, store_sigs, stall_sigs

State == <<PC, REGS, NZP, memory>>
Signal_Entries == <<agex_sigs, memory_sigs, store_sigs, stall_sigs>>
vars == <<at, State, heap, PS, NEW_PS, Signal_Entries>>

Steps == {"SR", "MEM", "AGEX", "DE", "FETCH", "MOVE"}
Stages == {"DECODE", "AGEX", "MEMORY", "STORE"}

(***************************************************************************)
(* class Latch.  Of its three control words no code but operator= touches  *)
(* AGEX_CS and SR_CS, which are left out.                                  *)
(***************************************************************************)
Latch == [instruction : Obj \cup {NULL}, V : BOOLEAN, MEM_CS : ControlWord]
EmptyLatch == [instruction |-> NULL, V |-> FALSE, MEM_CS |-> {}]

(* The assignment of a latch's instruction and V bit; MEM_CS stays. *)
Load(latch, o, v) == [latch EXCEPT !.instruction = o, !.V = v]

(* A mistake the checks must notice: a stalled instruction goes on as a valid one too. *)
Advances_always(v, stall) == v

(* The valid bit an instruction takes along: one that stalls leaves a bubble. *)
Advances(v, stall) == v /\ ~stall

AGEX_Stage_Entry == [v_agex_ld_reg : BOOLEAN, v_agex_ld_cc : BOOLEAN, agex_drid : RegisterId]
MEMORY_stage_Entry ==
  [target_pc : Word, trap_pc : Word, mem_pc_mux : 0..2,
   v_mem_ld_cc : BOOLEAN, v_mem_ld_reg : BOOLEAN, mem_drid : RegisterId]
STORE_stage_Entry ==
  [sr_nzp : RegisterId, v_sr_ld_cc : BOOLEAN, v_sr_ld_reg : BOOLEAN,
   sr_reg_data : Word, sr_drid : RegisterId]
Stall_Entry ==
  [dep_stall : BOOLEAN, v_de_br_stall : BOOLEAN, v_agex_br_stall : BOOLEAN,
   v_mem_br_stall : BOOLEAN, mem_stall : BOOLEAN, icache_r : BOOLEAN]

Init ==
  /\ at = "SR"
  /\ \E image \in Images : PC = image.entry /\ memory = image.memory
  /\ REGS = [r \in RegisterId |-> 0]
  /\ NZP = 2
  /\ heap = [o \in Obj |-> Create(0, 0)]
  /\ PS = [s \in Stages |-> EmptyLatch]
  /\ NEW_PS = [s \in Stages |-> EmptyLatch]
  /\ agex_sigs = [v_agex_ld_reg |-> FALSE, v_agex_ld_cc |-> FALSE, agex_drid |-> 0]
  /\ memory_sigs = [target_pc |-> 0, trap_pc |-> 0, mem_pc_mux |-> 0,
                    v_mem_ld_cc |-> FALSE, v_mem_ld_reg |-> FALSE, mem_drid |-> 0]
  /\ store_sigs = [sr_nzp |-> 0, v_sr_ld_cc |-> FALSE, v_sr_ld_reg |-> FALSE,
                   sr_reg_data |-> 0, sr_drid |-> 0]
  /\ stall_sigs = [dep_stall |-> FALSE, v_de_br_stall |-> FALSE, v_agex_br_stall |-> FALSE,
                   v_mem_br_stall |-> FALSE, mem_stall |-> FALSE, icache_r |-> FALSE]
-----------------------------------------------------------------------------
(***************************************************************************)
(* SR_stage: with an instruction in its latch, valid or not, it puts the   *)
(* value to write back on its signals; the write itself is DE_stage's.     *)
(***************************************************************************)
SR_stage ==
  /\ at = "SR"
  /\ at' = "MEM"
  /\ LET latch == PS["STORE"]
         inst  == heap[latch.instruction]
         data  == WritebackValue(inst)
     IN  IF latch.instruction = NULL
         THEN UNCHANGED store_sigs
         ELSE store_sigs' = [sr_nzp      |-> ConditionCodes(data),
                             v_sr_ld_cc  |-> "LD_CC" \in inst.SR_CS /\ latch.V,
                             v_sr_ld_reg |-> "LD_REG" \in inst.SR_CS /\ latch.V,
                             sr_reg_data |-> data,
                             sr_drid     |-> inst.DRID]
  /\ UNCHANGED <<State, heap, PS, NEW_PS, agex_sigs, memory_sigs, stall_sigs>>

(***************************************************************************)
(* MEM_stage: the data cache and the branch logic.                         *)
(***************************************************************************)

(* A mistake the checks must notice: a bubble redirects the fetch. *)
MemPcMux_bubble(inst, v) ==
  IF "BR_OP" \in inst.MEM_CS
  THEN IF ConditionHolds(inst) THEN 1 ELSE memory_sigs.mem_pc_mux
  ELSE IF "TRAP_OP" \in inst.MEM_CS THEN 2 ELSE 0

(* MEM.PCMUX.  A valid BR whose condition fails leaves the signal as it was. *)
MemPcMux(inst, v) ==
  IF ~v THEN 0
  ELSE IF "BR_OP" \in inst.MEM_CS
       THEN IF ConditionHolds(inst) THEN 1 ELSE memory_sigs.mem_pc_mux
  ELSE IF "TRAP_OP" \in inst.MEM_CS THEN 2 ELSE 0

(* READ_WRITE_EN is taken from the latch, not from the instruction. *)
DCacheRW(latch, inst) == "DCACHE_RW" \in latch.MEM_CS

MEM_stage ==
  /\ at = "MEM"
  /\ at' = "AGEX"
  /\ LET latch == PS["MEMORY"]
         o     == latch.instruction
         inst  == heap[o]
         cache_en == "DCACHE_EN" \in inst.MEM_CS /\ latch.V
         address  == WordAddress(inst.ADDRESS)
         rw       == DCacheRW(latch, inst)
     IN  IF o = NULL
         THEN UNCHANGED <<memory, heap, NEW_PS, memory_sigs, stall_sigs>>
         ELSE \E random \in DCACHE_RANDOM :
                LET ready   == random = 0
                    mdr_out == IF ready THEN GetWordAt(memory, address) ELSE NotReadyWord
                    data    == IF cache_en THEN LoadedValue(inst, mdr_out) ELSE 0
                    mem_stall == cache_en /\ ~ready
                IN  /\ memory' = IF cache_en /\ ready
                                 THEN SetBytesAt(memory, address, MDR_IN(inst),
                                                 WE_LOW(inst, rw), WE_HIGH(inst, rw))
                                 ELSE memory
                    /\ memory_sigs' =
                         [target_pc    |-> inst.ADDRESS,
                          trap_pc      |-> data,
                          mem_pc_mux   |-> MemPcMux(inst, latch.V),
                          v_mem_ld_cc  |-> latch.V /\ "LD_CC" \in inst.MEM_CS,
                          v_mem_ld_reg |-> latch.V /\ "LD_REG" \in inst.MEM_CS,
                          mem_drid     |-> inst.DRID]
                    /\ stall_sigs' =
                         [stall_sigs EXCEPT
                            !.mem_stall = mem_stall,
                            !.v_mem_br_stall = latch.V /\ "BR_STALL" \in inst.MEM_CS]
                    /\ heap' = [heap EXCEPT ![o] = Accessed(inst, data)]
                    /\ NEW_PS' = [NEW_PS EXCEPT !["STORE"] =
                                    Load(NEW_PS["STORE"], o, Advances(latch.V, mem_stall))]
  /\ UNCHANGED <<PC, REGS, NZP, PS, agex_sigs, store_sigs>>

(***************************************************************************)
(* AGEX_stage: the address adder, the ALU and the shifter.                 *)
(***************************************************************************)
AGEX_stage ==
  /\ at = "AGEX"
  /\ at' = "DE"
  /\ LET latch == PS["AGEX"]
         o     == latch.instruction
         inst  == heap[o]
     IN  IF o = NULL
         THEN UNCHANGED <<heap, NEW_PS, agex_sigs, stall_sigs>>
         ELSE /\ agex_sigs' = [v_agex_ld_reg |-> latch.V /\ "LD_REG" \in inst.AGEX_CS,
                               v_agex_ld_cc  |-> latch.V /\ "LD_CC" \in inst.AGEX_CS,
                               agex_drid     |-> inst.DRID]
              /\ stall_sigs' = [stall_sigs EXCEPT
                                  !.v_agex_br_stall = latch.V /\ "BR_STALL" \in inst.AGEX_CS]
              /\ IF stall_sigs.mem_stall
                 THEN /\ NEW_PS' = [NEW_PS EXCEPT !["MEMORY"] = PS["MEMORY"]]
                      /\ UNCHANGED heap
                 ELSE /\ NEW_PS' = [NEW_PS EXCEPT !["MEMORY"] =
                                      Load(NEW_PS["MEMORY"], o, latch.V)]
                      /\ heap' = [heap EXCEPT ![o] = Executed(inst)]
  /\ UNCHANGED <<State, PS, memory_sigs, store_sigs>>

(***************************************************************************)
(* DE_stage: control store, register file, condition codes, dependencies.  *)
(***************************************************************************)

(* GetMicroCodeAt(CONTROL_STORE_ADDRESS) *)
MicroCode(ir) == ControlStore[CONTROL_STORE_ADDRESS(ir)]

(* Mistakes the checks must notice: a register that is being written back is taken as
   written; bubbles are waited for; a branch does not wait for the codes. *)
RegisterPending_not_store(r) ==
  \/ agex_sigs.v_agex_ld_reg /\ agex_sigs.agex_drid = r
  \/ memory_sigs.v_mem_ld_reg /\ memory_sigs.mem_drid = r
RegisterPending_bubbles(r) ==
  agex_sigs.agex_drid = r \/ memory_sigs.mem_drid = r \/ store_sigs.sr_drid = r

(* A valid instruction in AGEX, MEMORY or STORE is going to write register r, or the codes. *)
RegisterPending(r) ==
  \/ agex_sigs.v_agex_ld_reg /\ agex_sigs.agex_drid = r
  \/ memory_sigs.v_mem_ld_reg /\ memory_sigs.mem_drid = r
  \/ store_sigs.v_sr_ld_reg /\ store_sigs.sr_drid = r
CodesPending ==
  agex_sigs.v_agex_ld_cc \/ memory_sigs.v_mem_ld_cc \/ store_sigs.v_sr_ld_cc

CheckForDataDependencies_not_codes(inst, v) ==
  LET ucode == MicroCode(inst.IR)
  IN  v /\ \/ "SR1_NEEDED" \in ucode /\ RegisterPending(SR1_ID(inst.IR))
           \/ "SR2_NEEDED" \in ucode /\ RegisterPending(SR2_ID(inst.IR))

CheckForDataDependencies(inst, v) ==
  LET ucode == MicroCode(inst.IR)
  IN  v /\ \/ "SR1_NEEDED" \in ucode /\ RegisterPending(SR1_ID(inst.IR))
           \/ "SR2_NEEDED" \in ucode /\ RegisterPending(SR2_ID(inst.IR))
           \/ "BR_OP" \in ucode /\ CodesPending

(* ProcessRegisterFile and GetNZP: the reads above come before these writes. *)
WriteBack ==
  /\ REGS' = IF store_sigs.v_sr_ld_reg
             THEN [REGS EXCEPT ![store_sigs.sr_drid] = store_sigs.sr_reg_data]
             ELSE REGS
  /\ NZP' = IF store_sigs.v_sr_ld_cc THEN store_sigs.sr_nzp ELSE NZP

DE_stage ==
  /\ at = "DE"
  /\ at' = "FETCH"
  /\ LET latch == PS["DECODE"]
         o     == latch.instruction
         inst  == heap[o]
         ucode == MicroCode(inst.IR)
         dep_stall == CheckForDataDependencies(inst, latch.V)
     IN  IF o = NULL
         THEN UNCHANGED <<REGS, NZP, heap, NEW_PS, stall_sigs>>
         ELSE /\ WriteBack
              /\ stall_sigs' = [stall_sigs EXCEPT
                                  !.dep_stall = dep_stall,
                                  !.v_de_br_stall = latch.V /\ "BR_STALL" \in ucode]
              /\ IF stall_sigs.mem_stall
                 THEN /\ NEW_PS' = [NEW_PS EXCEPT !["AGEX"] =
                                      Load(NEW_PS["AGEX"], PS["AGEX"].instruction, PS["AGEX"].V)]
                      /\ UNCHANGED heap
                 ELSE /\ NEW_PS' = [NEW_PS EXCEPT !["AGEX"] =
                                      Load(NEW_PS["AGEX"], o, Advances(latch.V, dep_stall))]
                      /\ heap' = [heap EXCEPT ![o] =
                                    Decoded(inst, ucode, REGS[SR1_ID(inst.IR)],
                                            REGS[SR2_ID(inst.IR)], NZP)]
  /\ UNCHANGED <<PC, memory, PS, agex_sigs, memory_sigs, store_sigs>>

(***************************************************************************)
(* FETCH_stage: the instruction cache and the program counter.             *)
(***************************************************************************)
IsBranchTaken == memory_sigs.mem_pc_mux # 0

(* Mistakes the checks must notice: a control instruction in DECODE, or in AGEX, does not
   hold up the fetch. *)
IsStallDetected_not_decode(icache_r) ==
  /\ \/ ~icache_r \/ stall_sigs.dep_stall \/ stall_sigs.mem_stall
     \/ stall_sigs.v_agex_br_stall \/ stall_sigs.v_mem_br_stall
  /\ ~(stall_sigs.v_mem_br_stall /\ IsBranchTaken)
IsStallDetected_not_agex(icache_r) ==
  /\ \/ ~icache_r \/ stall_sigs.dep_stall \/ stall_sigs.mem_stall
     \/ stall_sigs.v_de_br_stall \/ stall_sigs.v_mem_br_stall
  /\ ~(stall_sigs.v_mem_br_stall /\ IsBranchTaken)

IsStallDetected(icache_r) ==
  /\ \/ ~icache_r
     \/ stall_sigs.dep_stall
     \/ stall_sigs.mem_stall
     \/ stall_sigs.v_agex_br_stall
     \/ stall_sigs.v_de_br_stall
     \/ stall_sigs.v_mem_br_stall
  /\ ~(stall_sigs.v_mem_br_stall /\ IsBranchTaken)

(* A mistake the checks must notice: a trap goes to its vector instead of what is there. *)
NewPC_vector(de_npc) == IF IsBranchTaken THEN memory_sigs.target_pc ELSE de_npc

NewPC(de_npc) ==
  CASE memory_sigs.mem_pc_mux = 0 -> de_npc
    [] memory_sigs.mem_pc_mux = 1 -> memory_sigs.target_pc
    [] memory_sigs.mem_pc_mux = 2 -> memory_sigs.trap_pc

(* The objects a latch still points to; the latch being assigned lets go of its own. *)
Referenced ==
  {PS[s].instruction : s \in Stages} \cup {NEW_PS[s].instruction : s \in Stages \ {"DECODE"}}

(* The first free name is given to the new object: names carry no meaning. *)
IsFree(o) ==
  /\ o \notin Referenced
  /\ \A p \in Obj \ Referenced : o <= p

(* Mistakes the checks must notice: DECODE is overwritten during a stall of one kind. *)
DecodeHeld_not_memory == stall_sigs.dep_stall
DecodeHeld_not_dependency == stall_sigs.mem_stall

(* DECODE keeps its instruction. *)
DecodeHeld == stall_sigs.dep_stall \/ stall_sigs.mem_stall

FETCH_stage ==
  /\ at = "FETCH"
  /\ at' = "MOVE"
  /\ \E random \in ICACHE_RANDOM :
       LET icache_r    == random = 0
           instruction == IF icache_r THEN GetWordAt(memory, WordAddress(PC)) ELSE NotReadyWord
           de_npc      == Add(PC, 2)
           load_pc     == ~IsStallDetected(icache_r)
       IN  /\ stall_sigs' = [stall_sigs EXCEPT !.icache_r = icache_r]
           /\ PC' = IF load_pc THEN NewPC(de_npc) ELSE PC
           /\ IF DecodeHeld
              THEN /\ NEW_PS' = [NEW_PS EXCEPT !["DECODE"] =
                                   Load(NEW_PS["DECODE"], PS["DECODE"].instruction, PS["DECODE"].V)]
                   /\ UNCHANGED heap
              ELSE \E o \in Obj :
                     /\ IsFree(o)
                     /\ heap' = [heap EXCEPT ![o] = Create(instruction, de_npc)]
                     /\ NEW_PS' = [NEW_PS EXCEPT !["DECODE"] =
                                     Load(NEW_PS["DECODE"], o,
                                          load_pc /\ ~stall_sigs.v_mem_br_stall)]
  /\ UNCHANGED <<REGS, NZP, memory, PS, agex_sigs, memory_sigs, store_sigs>>

(* The copy constructor loop at the end of Cycle(). *)
MoveLatch ==
  /\ at = "MOVE"
  /\ at' = "SR"
  /\ PS' = NEW_PS
  /\ UNCHANGED <<State, heap, NEW_PS, Signal_Entries>>
-----------------------------------------------------------------------------
Next == SR_stage \/ MEM_stage \/ AGEX_stage \/ DE_stage \/ FETCH_stage \/ MoveLatch

(* Cycle() is called again and again and always returns. *)
Spec == Init /\ [][Next]_vars /\ WF_vars(Next)
=============================================================================
