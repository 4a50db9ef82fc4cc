--------------------------- MODULE InterlockProofs --------------------------
(***************************************************************************)
(* Type correctness of the pipeline, for every control store, program, set *)
(* of object names and cache latency, and the control properties, proved   *)
(* from ControlInvariant for every program, cache latency and control      *)
(* store whose redirecting rows raise BR.STALL.  Then the operands, from   *)
(* OperandsInvariant.                                                      *)
(***************************************************************************)
EXTENDS OperandInvariant, DatapathProofs

(* The records the stages write into the heap are instructions. *)
LEMMA ControlWords ==
  ASSUME NEW cs \in ControlWord
  PROVE  /\ ToAGEX_CS(cs) \in ControlWord
         /\ ToMEM_CS(cs) \in ControlWord
         /\ ToSR_CS(cs) \in ControlWord
BY ControlWordSlices DEF ControlWord

LEMMA MicroCodeType ==
  ASSUME NEW ir \in Word
  PROVE  MicroCode(ir) \in ControlWord
BY RowExists, ControlStoreAssumption DEF MicroCode

LEMMA CreateType ==
  ASSUME NEW ir \in Word, NEW npc \in Word
  PROVE  Create(ir, npc) \in Instruction
<1>1. 0 \in Word /\ {} \in ControlWord
  BY Sizes DEF Word, ControlWord
<1> QED BY <1>1 DEF Create, Instruction, RegisterId

LEMMA DecodedType ==
  ASSUME NEW inst \in Instruction, NEW ucode \in ControlWord,
         NEW sr1 \in Word, NEW sr2 \in Word, NEW cc \in RegisterId
  PROVE  Decoded(inst, ucode, sr1, sr2, cc) \in Instruction
<1>1. inst.IR \in Word
  BY DEF Instruction
<1>2. DR_ID(inst.IR, ucode) \in RegisterId
  BY <1>1, RegisterNumbers
<1> QED BY <1>2, ControlWords DEF Decoded, Instruction

LEMMA ExecutedType ==
  ASSUME NEW inst \in Instruction
  PROVE  Executed(inst) \in Instruction
<1>1. inst.AGEX_CS \in ControlWord
  BY DEF Instruction
<1> QED BY <1>1, ControlWords, StageValues DEF Executed, Instruction

LEMMA AccessedType ==
  ASSUME NEW inst \in Instruction, NEW data \in Word
  PROVE  Accessed(inst, data) \in Instruction
<1>1. inst.MEM_CS \in ControlWord
  BY DEF Instruction
<1> QED BY <1>1, ControlWords DEF Accessed, Instruction

-----------------------------------------------------------------------------
LEMMA TypeInit == Init => TypeOK
<1> SUFFICES ASSUME Init PROVE TypeOK
  OBVIOUS
<1>0. 0 \in Word /\ {} \in ControlWord
  BY Sizes DEF Word, ControlWord
<1>1. PC \in Word /\ IsMemory(memory)
  BY ImagesAssumption DEF Init
<1>2. heap \in [Obj -> Instruction]
  BY <1>0, CreateType DEF Init
<1>3. PS \in [Stages -> Latch] /\ NEW_PS \in [Stages -> Latch]
  BY <1>0 DEF Init, EmptyLatch, Latch
<1>4. /\ agex_sigs \in AGEX_Stage_Entry /\ memory_sigs \in MEMORY_stage_Entry
      /\ store_sigs \in STORE_stage_Entry /\ stall_sigs \in Stall_Entry
  BY <1>0 DEF Init, AGEX_Stage_Entry, MEMORY_stage_Entry, STORE_stage_Entry, Stall_Entry,
              RegisterId
<1>5. at \in Steps /\ REGS \in [RegisterId -> Word] /\ NZP \in RegisterId
  BY <1>0 DEF Init, Steps, RegisterId
<1> QED BY <1>1, <1>2, <1>3, <1>4, <1>5 DEF TypeOK

(* A stage assigns a latch of NEW_PS: it stays a latch. *)
LEMMA LoadType ==
  ASSUME NEW latch \in Latch, NEW o \in Obj \cup {NULL}, NEW v \in BOOLEAN
  PROVE  Load(latch, o, v) \in Latch
BY DEF Load, Latch

LEMMA ConjunctionType == ASSUME NEW p, NEW q PROVE (p /\ q) \in BOOLEAN
OBVIOUS

LEMMA SR_stageType == TypeOK /\ SR_stage => TypeOK'
<1> SUFFICES ASSUME TypeOK, SR_stage PROVE TypeOK'
  OBVIOUS
<1>1. at' \in Steps
  BY DEF SR_stage, Steps
<1>2. store_sigs' \in STORE_stage_Entry
  <2>1. CASE PS["STORE"].instruction = NULL
    BY <2>1 DEF SR_stage, TypeOK
  <2>2. CASE PS["STORE"].instruction # NULL
    <3> DEFINE latch == PS["STORE"]
               inst  == heap[latch.instruction]
    <3>1. latch.instruction \in Obj /\ latch.V \in BOOLEAN
      BY <2>2 DEF TypeOK, Latch, Stages
    <3>2. inst \in Instruction
      BY <3>1 DEF TypeOK
    <3>3. inst.DRID \in RegisterId /\ WritebackValue(inst) \in Word
      BY <3>2, StageValues DEF Instruction
    <3>4. ConditionCodes(WritebackValue(inst)) \in RegisterId
      BY ConditionCodesRange
    <3>5. ("LD_CC" \in inst.SR_CS /\ latch.V) \in BOOLEAN
          /\ ("LD_REG" \in inst.SR_CS /\ latch.V) \in BOOLEAN
      BY ConjunctionType
    <3> DEFINE sigs == [sr_nzp      |-> ConditionCodes(WritebackValue(inst)),
                        v_sr_ld_cc  |-> "LD_CC" \in inst.SR_CS /\ latch.V,
                        v_sr_ld_reg |-> "LD_REG" \in inst.SR_CS /\ latch.V,
                        sr_reg_data |-> WritebackValue(inst),
                        sr_drid     |-> inst.DRID]
    <3>6. store_sigs' = sigs
      BY <2>2 DEF SR_stage
    <3>7. sigs \in STORE_stage_Entry
      BY <3>3, <3>4, <3>5 DEF STORE_stage_Entry
    <3> QED BY <3>6, <3>7
  <2> QED BY <2>1, <2>2
<1> QED BY <1>1, <1>2 DEF TypeOK, SR_stage, State

LEMMA MEM_stageType == TypeOK /\ MEM_stage => TypeOK'
<1> SUFFICES ASSUME TypeOK, MEM_stage PROVE TypeOK'
  OBVIOUS
<1> DEFINE latch == PS["MEMORY"]
           o     == latch.instruction
           inst  == heap[o]
           cache_en == "DCACHE_EN" \in inst.MEM_CS /\ latch.V
<1>1. at' \in Steps
  BY DEF MEM_stage, Steps
<1>2. CASE o = NULL
  BY <1>1, <1>2 DEF MEM_stage, TypeOK
<1>3. CASE o # NULL
  <2>1. o \in Obj /\ latch.V \in BOOLEAN
    BY <1>3 DEF TypeOK, Latch, Stages
  <2>2. inst \in Instruction
    BY <2>1 DEF TypeOK
  <2>3. inst.DRID \in RegisterId /\ inst.ADDRESS \in Word
    BY <2>2 DEF Instruction
  <2>4. PICK random \in DCACHE_RANDOM :
          LET ready   == random = 0
              mdr_out == IF ready THEN GetWordAt(memory, WordAddress(inst.ADDRESS)) ELSE NotReadyWord
              data    == IF cache_en THEN LoadedValue(inst, mdr_out) ELSE 0
              rw      == DCacheRW(latch, inst)
          IN  /\ memory' = IF cache_en /\ ready
                           THEN SetBytesAt(memory, WordAddress(inst.ADDRESS), MDR_IN(inst),
                                           WE_LOW(inst, rw), WE_HIGH(inst, rw))
                           ELSE memory
              /\ memory_sigs' = [target_pc    |-> inst.ADDRESS,
                                 trap_pc      |-> data,
                                 mem_pc_mux   |-> MemPcMux(inst, latch.V),
                                 v_mem_ld_cc  |-> latch.V /\ "LD_CC" \in inst.MEM_CS,
                                 v_mem_ld_reg |-> latch.V /\ "LD_REG" \in inst.MEM_CS,
                                 mem_drid     |-> inst.DRID]
              /\ stall_sigs' = [stall_sigs EXCEPT
                                  !.mem_stall = cache_en /\ ~ready,
                                  !.v_mem_br_stall = latch.V /\ "BR_STALL" \in inst.MEM_CS]
              /\ heap' = [heap EXCEPT ![o] = Accessed(inst, data)]
              /\ NEW_PS' = [NEW_PS EXCEPT !["STORE"] =
                              Load(NEW_PS["STORE"], o, Advances(latch.V, cache_en /\ ~ready))]
    BY <1>3 DEF MEM_stage
  <2> DEFINE ready   == random = 0
             mdr_out == IF ready THEN GetWordAt(memory, WordAddress(inst.ADDRESS)) ELSE NotReadyWord
             data    == IF cache_en THEN LoadedValue(inst, mdr_out) ELSE 0
  <2>5. data \in Word
    <3>1. mdr_out \in Word
      BY MemoryRead, Sizes DEF TypeOK, NotReadyWord, Word
    <3>2. 0 \in Word
      BY Sizes DEF Word
    <3> QED BY <3>1, <3>2, LoadedWord
  <2>6. IsMemory(memory')
    <3>1. IsMemory(memory) /\ WordAddress(inst.ADDRESS) \in 0..(WORDS_IN_MEM - 1)
      BY <2>3, WordAddressInMemory DEF TypeOK
    <3> QED BY <3>1, <2>4, MemoryWritten
  <2>7. MemPcMux(inst, latch.V) \in 0..2
    BY DEF MemPcMux, TypeOK, MEMORY_stage_Entry
  <2>8. memory_sigs' \in MEMORY_stage_Entry
    <3>1. (latch.V /\ "LD_CC" \in inst.MEM_CS) \in BOOLEAN
          /\ (latch.V /\ "LD_REG" \in inst.MEM_CS) \in BOOLEAN
      BY ConjunctionType
    <3> DEFINE sigs == [target_pc    |-> inst.ADDRESS,
                        trap_pc      |-> data,
                        mem_pc_mux   |-> MemPcMux(inst, latch.V),
                        v_mem_ld_cc  |-> latch.V /\ "LD_CC" \in inst.MEM_CS,
                        v_mem_ld_reg |-> latch.V /\ "LD_REG" \in inst.MEM_CS,
                        mem_drid     |-> inst.DRID]
    <3>2. memory_sigs' = sigs
      BY <2>4
    <3> HIDE DEF data
    <3>3. sigs \in MEMORY_stage_Entry
      BY <2>3, <2>5, <2>7, <3>1 DEF MEMORY_stage_Entry
    <3> QED BY <3>2, <3>3
  <2>9. stall_sigs' \in Stall_Entry
    <3>1. (cache_en /\ ~ready) \in BOOLEAN
          /\ (latch.V /\ "BR_STALL" \in inst.MEM_CS) \in BOOLEAN
      BY ConjunctionType
    <3> QED BY <2>4, <3>1 DEF TypeOK, Stall_Entry
  <2>10. heap' \in [Obj -> Instruction]
    <3>1. Accessed(inst, data) \in Instruction
      BY <2>2, <2>5, AccessedType
    <3> QED BY <2>4, <3>1 DEF TypeOK
  <2>11. NEW_PS' \in [Stages -> Latch]
    <3>1. NEW_PS["STORE"] \in Latch
      BY DEF TypeOK, Stages
    <3>2. Load(NEW_PS["STORE"], o, Advances(latch.V, cache_en /\ ~ready)) \in Latch
      BY <2>1, <3>1, LoadType, ConjunctionType DEF Advances
    <3> QED BY <2>4, <3>2 DEF TypeOK
  <2> QED BY <1>1, <2>6, <2>8, <2>9, <2>10, <2>11 DEF MEM_stage, TypeOK
<1> QED BY <1>2, <1>3

LEMMA AGEX_stageType == TypeOK /\ AGEX_stage => TypeOK'
<1> SUFFICES ASSUME TypeOK, AGEX_stage PROVE TypeOK'
  OBVIOUS
<1> DEFINE latch == PS["AGEX"]
           o     == latch.instruction
           inst  == heap[o]
<1>1. at' \in Steps
  BY DEF AGEX_stage, Steps
<1>2. CASE o = NULL
  BY <1>1, <1>2 DEF AGEX_stage, TypeOK, State
<1>3. CASE o # NULL
  <2>1. o \in Obj /\ latch.V \in BOOLEAN
    BY <1>3 DEF TypeOK, Latch, Stages
  <2>2. inst \in Instruction
    BY <2>1 DEF TypeOK
  <2>3. agex_sigs' \in AGEX_Stage_Entry
    <3>1. inst.DRID \in RegisterId
      BY <2>2 DEF Instruction
    <3>2. (latch.V /\ "LD_REG" \in inst.AGEX_CS) \in BOOLEAN
          /\ (latch.V /\ "LD_CC" \in inst.AGEX_CS) \in BOOLEAN
      BY ConjunctionType
    <3> DEFINE sigs == [v_agex_ld_reg |-> latch.V /\ "LD_REG" \in inst.AGEX_CS,
                        v_agex_ld_cc  |-> latch.V /\ "LD_CC" \in inst.AGEX_CS,
                        agex_drid     |-> inst.DRID]
    <3>3. agex_sigs' = sigs
      BY <1>3 DEF AGEX_stage
    <3>4. sigs \in AGEX_Stage_Entry
      BY <3>1, <3>2 DEF AGEX_Stage_Entry
    <3> QED BY <3>3, <3>4
  <2>4. stall_sigs' \in Stall_Entry
    <3>1. (latch.V /\ "BR_STALL" \in inst.AGEX_CS) \in BOOLEAN
      BY ConjunctionType
    <3>2. stall_sigs' = [stall_sigs EXCEPT
                           !.v_agex_br_stall = latch.V /\ "BR_STALL" \in inst.AGEX_CS]
      BY <1>3 DEF AGEX_stage
    <3> QED BY <3>1, <3>2 DEF TypeOK, Stall_Entry
  <2>5. heap' \in [Obj -> Instruction]
    <3>1. Executed(inst) \in Instruction
      BY <2>2, ExecutedType
    <3>2. heap' = heap \/ heap' = [heap EXCEPT ![o] = Executed(inst)]
      BY <1>3 DEF AGEX_stage
    <3> QED BY <3>1, <3>2 DEF TypeOK
  <2>6. NEW_PS' \in [Stages -> Latch]
    <3>1. NEW_PS["MEMORY"] \in Latch /\ PS["MEMORY"] \in Latch
      BY DEF TypeOK, Stages
    <3>2. Load(NEW_PS["MEMORY"], o, latch.V) \in Latch
      BY <2>1, <3>1, LoadType
    <3>3. \/ NEW_PS' = [NEW_PS EXCEPT !["MEMORY"] = PS["MEMORY"]]
          \/ NEW_PS' = [NEW_PS EXCEPT !["MEMORY"] = Load(NEW_PS["MEMORY"], o, latch.V)]
      BY <1>3 DEF AGEX_stage
    <3> QED BY <3>1, <3>2, <3>3 DEF TypeOK
  <2> QED BY <1>1, <2>3, <2>4, <2>5, <2>6 DEF AGEX_stage, TypeOK, State
<1> QED BY <1>2, <1>3

LEMMA DE_stageType == TypeOK /\ DE_stage => TypeOK'
<1> SUFFICES ASSUME TypeOK, DE_stage PROVE TypeOK'
  OBVIOUS
<1> DEFINE latch == PS["DECODE"]
           o     == latch.instruction
           inst  == heap[o]
           ucode == MicroCode(inst.IR)
           dep_stall == CheckForDataDependencies(inst, latch.V)
<1>1. at' \in Steps
  BY DEF DE_stage, Steps
<1>2. CASE o = NULL
  BY <1>1, <1>2 DEF DE_stage, TypeOK
<1>3. CASE o # NULL
  <2>1. o \in Obj /\ latch.V \in BOOLEAN
    BY <1>3 DEF TypeOK, Latch, Stages
  <2>2. inst \in Instruction /\ inst.IR \in Word
    BY <2>1 DEF TypeOK, Instruction
  <2>3. REGS' \in [RegisterId -> Word] /\ NZP' \in RegisterId
    <3>1. WriteBack
      BY <1>3 DEF DE_stage
    <3>2. store_sigs.sr_reg_data \in Word /\ store_sigs.sr_nzp \in RegisterId
      BY DEF TypeOK, STORE_stage_Entry
    <3> QED BY <3>1, <3>2 DEF WriteBack, TypeOK
  <2>4. dep_stall \in BOOLEAN
    BY DEF CheckForDataDependencies
  <2>5. stall_sigs' \in Stall_Entry
    <3>1. (latch.V /\ "BR_STALL" \in ucode) \in BOOLEAN
      BY ConjunctionType
    <3>2. stall_sigs' = [stall_sigs EXCEPT !.dep_stall = dep_stall,
                                           !.v_de_br_stall = latch.V /\ "BR_STALL" \in ucode]
      BY <1>3 DEF DE_stage
    <3> QED BY <2>4, <3>1, <3>2 DEF TypeOK, Stall_Entry
  <2>6. heap' \in [Obj -> Instruction]
    <3> DEFINE decoded == Decoded(inst, ucode, REGS[SR1_ID(inst.IR)], REGS[SR2_ID(inst.IR)], NZP)
    <3>1. SR1_ID(inst.IR) \in RegisterId /\ SR2_ID(inst.IR) \in RegisterId
      BY <2>2, RegisterNumbers
    <3>2. REGS[SR1_ID(inst.IR)] \in Word /\ REGS[SR2_ID(inst.IR)] \in Word /\ NZP \in RegisterId
      BY <3>1 DEF TypeOK
    <3>3. ucode \in ControlWord
      BY <2>2, MicroCodeType
    <3>4. decoded \in Instruction
      BY <2>2, <3>2, <3>3, DecodedType
    <3>5. heap' = heap \/ heap' = [heap EXCEPT ![o] = decoded]
      BY <1>3 DEF DE_stage
    <3> QED BY <3>4, <3>5 DEF TypeOK
  <2>7. NEW_PS' \in [Stages -> Latch]
    <3>1. NEW_PS["AGEX"] \in Latch /\ PS["AGEX"] \in Latch
      BY DEF TypeOK, Stages
    <3>2. PS["AGEX"].instruction \in Obj \cup {NULL} /\ PS["AGEX"].V \in BOOLEAN
      BY <3>1 DEF Latch
    <3>3. Load(NEW_PS["AGEX"], PS["AGEX"].instruction, PS["AGEX"].V) \in Latch
      BY <3>1, <3>2, LoadType
    <3>4. Load(NEW_PS["AGEX"], o, Advances(latch.V, dep_stall)) \in Latch
      BY <2>1, <3>1, LoadType, ConjunctionType DEF Advances
    <3>5. \/ NEW_PS' = [NEW_PS EXCEPT !["AGEX"] =
                          Load(NEW_PS["AGEX"], PS["AGEX"].instruction, PS["AGEX"].V)]
          \/ NEW_PS' = [NEW_PS EXCEPT !["AGEX"] = Load(NEW_PS["AGEX"], o, Advances(latch.V, dep_stall))]
      BY <1>3 DEF DE_stage
    <3> QED BY <3>3, <3>4, <3>5 DEF TypeOK
  <2> QED BY <1>1, <2>3, <2>5, <2>6, <2>7 DEF DE_stage, TypeOK
<1> QED BY <1>2, <1>3

LEMMA FETCH_stageType == TypeOK /\ FETCH_stage => TypeOK'
<1> SUFFICES ASSUME TypeOK, FETCH_stage PROVE TypeOK'
  OBVIOUS
<1>1. at' \in Steps
  BY DEF FETCH_stage, Steps
<1>2. PICK random \in ICACHE_RANDOM :
        LET icache_r    == random = 0
            instruction == IF icache_r THEN GetWordAt(memory, WordAddress(PC)) ELSE NotReadyWord
            de_npc      == Add(PC, 2)
            load_pc     == ~IsStallDetected(icache_r)
        IN  /\ stall_sigs' = [stall_sigs EXCEPT !.icache_r = icache_r]
            /\ PC' = IF load_pc THEN NewPC(de_npc) ELSE PC
            /\ IF DecodeHeld
               THEN /\ NEW_PS' = [NEW_PS EXCEPT !["DECODE"] =
                                    Load(NEW_PS["DECODE"], PS["DECODE"].instruction, PS["DECODE"].V)]
                    /\ heap' = heap
               ELSE \E o \in Obj :
                      /\ IsFree(o)
                      /\ heap' = [heap EXCEPT ![o] = Create(instruction, de_npc)]
                      /\ NEW_PS' = [NEW_PS EXCEPT !["DECODE"] =
                                      Load(NEW_PS["DECODE"], o,
                                           load_pc /\ ~stall_sigs.v_mem_br_stall)]
  BY DEF FETCH_stage
<1> DEFINE icache_r    == random = 0
           instruction == IF icache_r THEN GetWordAt(memory, WordAddress(PC)) ELSE NotReadyWord
           de_npc      == Add(PC, 2)
           load_pc     == ~IsStallDetected(icache_r)
<1>3. instruction \in Word /\ de_npc \in Word
  <2>1. NotReadyWord \in Word /\ 2 \in Word /\ 2 \in Nat
    BY Sizes DEF NotReadyWord, Word
  <2>2. GetWordAt(memory, WordAddress(PC)) \in Word
    BY MemoryRead DEF TypeOK
  <2>3. Add(PC, 2) \in Word
    BY <2>1, WordOperators DEF TypeOK
  <2> QED BY <2>1, <2>2, <2>3
<1>4. PC' \in Word
  <2>1. memory_sigs.mem_pc_mux \in 0..2 /\ memory_sigs.target_pc \in Word /\ memory_sigs.trap_pc \in Word
    BY DEF TypeOK, MEMORY_stage_Entry
  <2>2. NewPC(de_npc) \in Word
    BY <1>3, <2>1 DEF NewPC
  <2> QED BY <1>2, <2>2 DEF TypeOK
<1>5. stall_sigs' \in Stall_Entry
  BY <1>2 DEF TypeOK, Stall_Entry
<1>6. NEW_PS["DECODE"] \in Latch /\ PS["DECODE"] \in Latch
  BY DEF TypeOK, Stages
<1>7. heap' \in [Obj -> Instruction] /\ NEW_PS' \in [Stages -> Latch]
  <2>1. CASE DecodeHeld
    <3>1. Load(NEW_PS["DECODE"], PS["DECODE"].instruction, PS["DECODE"].V) \in Latch
      <4>1. PS["DECODE"].instruction \in Obj \cup {NULL} /\ PS["DECODE"].V \in BOOLEAN
        BY <1>6 DEF Latch
      <4> QED BY <1>6, <4>1, LoadType
    <3> QED BY <1>2, <2>1, <3>1 DEF TypeOK
  <2>2. CASE ~DecodeHeld
    <3>1. PICK o \in Obj :
            /\ heap' = [heap EXCEPT ![o] = Create(instruction, de_npc)]
            /\ NEW_PS' = [NEW_PS EXCEPT !["DECODE"] =
                            Load(NEW_PS["DECODE"], o, load_pc /\ ~stall_sigs.v_mem_br_stall)]
      BY <1>2, <2>2
    <3>2. Create(instruction, de_npc) \in Instruction
      BY <1>3, CreateType
    <3>3. Load(NEW_PS["DECODE"], o, load_pc /\ ~stall_sigs.v_mem_br_stall) \in Latch
      BY <1>6, LoadType, ConjunctionType
    <3> QED BY <3>1, <3>2, <3>3 DEF TypeOK
  <2> QED BY <2>1, <2>2
<1> QED BY <1>1, <1>4, <1>5, <1>7 DEF FETCH_stage, TypeOK

LEMMA MoveLatchType == TypeOK /\ MoveLatch => TypeOK'
BY DEF MoveLatch, TypeOK, Steps, State, Signal_Entries

LEMMA TypeNext == TypeOK /\ [Next]_vars => TypeOK'
<1>1. TypeOK /\ UNCHANGED vars => TypeOK'
  BY DEF TypeOK, vars, State, Signal_Entries
<1> QED BY <1>1, SR_stageType, MEM_stageType, AGEX_stageType, DE_stageType, FETCH_stageType,
           MoveLatchType DEF Next

(* No sequence of cycles takes a register, a latch, a signal or an instruction object
   out of the range of its C++ type, whatever the microcode and the program are. *)
THEOREM TypeCorrect == Spec => []TypeOK
<1>1. Init => TypeOK
  BY TypeInit
<1>2. TypeOK /\ [Next]_vars => TypeOK'
  BY TypeNext
<1> QED BY <1>1, <1>2, PTL DEF Spec

-----------------------------------------------------------------------------
(* The signals of the branch logic survive the slices of the control word. *)
LEMMA BranchSignals ==
  ASSUME NEW cs \in ControlWord
  PROVE  /\ "BR_STALL" \in ToAGEX_CS(cs) <=> "BR_STALL" \in cs
         /\ "BR_STALL" \in ToMEM_CS(ToAGEX_CS(cs)) <=> "BR_STALL" \in cs
         /\ "BR_OP" \in ToMEM_CS(ToAGEX_CS(cs)) <=> "BR_OP" \in cs
         /\ "TRAP_OP" \in ToMEM_CS(ToAGEX_CS(cs)) <=> "TRAP_OP" \in cs
<1>1. /\ AGEX_CS_BITS[13] = "BR_STALL" /\ AGEX_CS_BITS[10] = "BR_OP" /\ AGEX_CS_BITS[12] = "TRAP_OP"
      /\ MEM_CS_BITS[4] = "BR_STALL" /\ MEM_CS_BITS[1] = "BR_OP" /\ MEM_CS_BITS[3] = "TRAP_OP"
  BY DEF AGEX_CS_BITS, MEM_CS_BITS
<1>2. {"BR_STALL", "BR_OP", "TRAP_OP"} \subseteq {AGEX_CS_BITS[k] : k \in 1..20}
  BY <1>1
<1>3. {"BR_STALL", "BR_OP", "TRAP_OP"} \subseteq {MEM_CS_BITS[k] : k \in 1..11}
  BY <1>1
<1>4. ToAGEX_CS(cs) \in ControlWord
  BY ControlWords
<1>5. /\ ToAGEX_CS(cs) = cs \cap {AGEX_CS_BITS[k] : k \in 1..20}
      /\ ToMEM_CS(ToAGEX_CS(cs)) = ToAGEX_CS(cs) \cap {MEM_CS_BITS[k] : k \in 1..11}
  BY <1>4, ControlWordSlices
<1> QED BY <1>2, <1>3, <1>5

(* Every instruction object has a microcode row, and a row that can redirect stalls. *)
LEMMA UcodeOfType ==
  ASSUME TypeOK, NEW o \in Obj
  PROVE  /\ UcodeOf(o) \in ControlWord
         /\ "BR_OP" \in UcodeOf(o) \/ "TRAP_OP" \in UcodeOf(o) => "BR_STALL" \in UcodeOf(o)
<1>1. heap[o].IR \in Word
  BY DEF TypeOK, Instruction
<1> DEFINE row == CONTROL_STORE_ADDRESS(heap[o].IR)
<1>2. row \in 0..(CONTROL_STORE_ROWS - 1)
  BY <1>1, RowExists
<1>3. ControlStore[row] \in ControlWord
  BY <1>2, ControlStoreAssumption
<1>4. "BR_OP" \in ControlStore[row] \/ "TRAP_OP" \in ControlStore[row]
        => "BR_STALL" \in ControlStore[row]
  <2>1. {"BR_OP", "TRAP_OP"} \cap ControlStore[row] # {} => "BR_STALL" \in ControlStore[row]
    BY <1>2, RedirectsStallAssumption
  <2> QED BY <2>1
<1> QED BY <1>3, <1>4 DEF UcodeOf, MicroCode

(* What the stages leave alone, and what they latch. *)
LEMMA LatchedFields ==
  ASSUME NEW inst \in Instruction
  PROVE  /\ \A data : LET new == Accessed(inst, data)
                     IN  /\ new.IR = inst.IR /\ new.CC = inst.CC
                         /\ new.AGEX_CS = inst.AGEX_CS /\ new.MEM_CS = inst.MEM_CS
         /\ LET new == Executed(inst)
            IN  /\ new.IR = inst.IR /\ new.CC = inst.CC
                /\ new.AGEX_CS = inst.AGEX_CS /\ new.MEM_CS = ToMEM_CS(inst.AGEX_CS)
         /\ \A ucode, sr1, sr2, cc :
              LET new == Decoded(inst, ucode, sr1, sr2, cc)
              IN  /\ new.IR = inst.IR /\ new.MEM_CS = inst.MEM_CS
                  /\ new.AGEX_CS = ToAGEX_CS(ucode)
BY DEF Instruction, Accessed, Executed, Decoded

LEMMA LoadContent ==
  ASSUME NEW latch \in Latch, NEW o, NEW v
  PROVE  Load(latch, o, v).instruction = o /\ Load(latch, o, v).V = v
BY DEF Load, Latch

LEMMA InvariantInit == Init => ControlInvariant
<1> SUFFICES ASSUME Init PROVE ControlInvariant
  OBVIOUS
<1>1. TypeOK
  BY TypeInit
<1>2. /\ \A s \in Stages : PS[s] = EmptyLatch /\ NEW_PS[s] = EmptyLatch
      /\ at = "SR" /\ memory_sigs.mem_pc_mux = 0 /\ ~stall_sigs.dep_stall /\ ~stall_sigs.mem_stall
  BY DEF Init
<1>3. \A s \in Stages : /\ PS[s].instruction = NULL /\ PS[s].V = FALSE
                        /\ NEW_PS[s].instruction = NULL /\ NEW_PS[s].V = FALSE
  BY <1>2 DEF EmptyLatch
<1>4. ~AfterMEM /\ ~AfterAGEX /\ ~AfterDE /\ ~AfterFETCH
  BY <1>2 DEF AfterMEM, AfterAGEX, AfterDE, AfterFETCH
<1>5. Filled /\ NotYetLatched
  BY <1>2, <1>3 DEF IsBranchTaken, Filled, NotYetLatched, SameContent, Stages
<1>6. StoreLatched /\ MemoryLatched /\ AgexLatched /\ DecodeLatched /\ Announced
  BY <1>4 DEF StoreLatched, MemoryLatched, AgexLatched, DecodeLatched, Announced
<1>7. WordsFollow
  BY <1>3, ObjAssumption DEF WordsFollow, Past, Stages
<1>8. Interlocked /\ OneOwner
  BY <1>3 DEF Interlocked, OneOwner, Raises, Stages
<1>9. MuxFollows
  BY <1>2 DEF MuxFollows, IsBranchTaken
<1> QED BY <1>1, <1>5, <1>6, <1>7, <1>8, <1>9 DEF ControlInvariant

(* SR_stage touches nothing the control flow depends on. *)
LEMMA SR_stageControl == ControlInvariant /\ SR_stage => ControlInvariant'
<1> SUFFICES ASSUME ControlInvariant, SR_stage PROVE ControlInvariant'
  OBVIOUS
<1>1. TypeOK'
  BY SR_stageType DEF ControlInvariant
<1>2. /\ at = "SR" /\ at' = "MEM"
      /\ UNCHANGED <<heap, PS, NEW_PS, memory_sigs, stall_sigs>>
  BY DEF SR_stage
<1>3. /\ ~AfterMEM /\ ~AfterAGEX /\ ~AfterDE /\ ~AfterFETCH
      /\ ~AfterMEM' /\ ~AfterAGEX' /\ ~AfterDE' /\ ~AfterFETCH'
  BY <1>2 DEF AfterMEM, AfterAGEX, AfterDE, AfterFETCH
<1>4. Filled' /\ NotYetLatched'
  BY <1>2, <1>3 DEF ControlInvariant, Filled, NotYetLatched, SameContent, IsBranchTaken
<1>5. StoreLatched' /\ MemoryLatched' /\ AgexLatched' /\ DecodeLatched' /\ Announced'
  BY <1>3 DEF StoreLatched, MemoryLatched, AgexLatched, DecodeLatched, Announced
<1>6. WordsFollow'
  BY <1>2 DEF ControlInvariant, WordsFollow, Past, UcodeOf
<1>7. Interlocked' /\ OneOwner'
  BY <1>2 DEF ControlInvariant, Interlocked, OneOwner, Raises, UcodeOf
<1>8. MuxFollows'
  BY <1>2, <1>3 DEF ControlInvariant, MuxFollows, IsBranchTaken, Raises, UcodeOf
<1> QED BY <1>1, <1>4, <1>5, <1>6, <1>7, <1>8 DEF ControlInvariant

(* What MEM_stage does with an instruction in its latch, as far as control goes. *)
LEMMA MEM_stageEffect ==
  ASSUME TypeOK, MEM_stage, NEW o \in Obj, o = PS["MEMORY"].instruction
  PROVE  /\ \E data : heap' = [heap EXCEPT ![o] = Accessed(heap[o], data)]
         /\ stall_sigs' = [stall_sigs EXCEPT
                             !.mem_stall = stall_sigs'.mem_stall,
                             !.v_mem_br_stall = PS["MEMORY"].V /\ "BR_STALL" \in heap[o].MEM_CS]
         /\ NEW_PS' = [NEW_PS EXCEPT !["STORE"] =
                         Load(NEW_PS["STORE"], o, PS["MEMORY"].V /\ ~stall_sigs'.mem_stall)]
         /\ memory_sigs'.mem_pc_mux = MemPcMux(heap[o], PS["MEMORY"].V)
<1> DEFINE latch == PS["MEMORY"]
           inst  == heap[o]
           cache_en == "DCACHE_EN" \in inst.MEM_CS /\ latch.V
<1>1. o # NULL
  BY ObjAssumption
<1>2. PICK random \in DCACHE_RANDOM :
        LET ready   == random = 0
            mdr_out == IF ready THEN GetWordAt(memory, WordAddress(inst.ADDRESS)) ELSE NotReadyWord
            data    == IF cache_en THEN LoadedValue(inst, mdr_out) ELSE 0
        IN  /\ memory_sigs' = [target_pc    |-> inst.ADDRESS,
                               trap_pc      |-> data,
                               mem_pc_mux   |-> MemPcMux(inst, latch.V),
                               v_mem_ld_cc  |-> latch.V /\ "LD_CC" \in inst.MEM_CS,
                               v_mem_ld_reg |-> latch.V /\ "LD_REG" \in inst.MEM_CS,
                               mem_drid     |-> inst.DRID]
            /\ stall_sigs' = [stall_sigs EXCEPT
                                !.mem_stall = cache_en /\ ~ready,
                                !.v_mem_br_stall = latch.V /\ "BR_STALL" \in inst.MEM_CS]
            /\ heap' = [heap EXCEPT ![o] = Accessed(inst, data)]
            /\ NEW_PS' = [NEW_PS EXCEPT !["STORE"] =
                            Load(NEW_PS["STORE"], o, Advances(latch.V, cache_en /\ ~ready))]
  BY <1>1 DEF MEM_stage
<1> DEFINE data == IF cache_en
                   THEN LoadedValue(inst, IF random = 0
                                          THEN GetWordAt(memory, WordAddress(inst.ADDRESS))
                                          ELSE NotReadyWord)
                   ELSE 0
<1>3. heap' = [heap EXCEPT ![o] = Accessed(inst, data)]
  BY <1>2
<1>4. stall_sigs'.mem_stall = (cache_en /\ ~(random = 0))
  BY <1>2 DEF TypeOK, Stall_Entry
<1>5. memory_sigs'.mem_pc_mux = MemPcMux(inst, latch.V)
  BY <1>2
<1> QED BY <1>2, <1>3, <1>4, <1>5 DEF Advances

(* MEM_stage decides where the control flow goes for the instruction in MEMORY. *)
LEMMA MEM_stageControl == ControlInvariant /\ MEM_stage => ControlInvariant'
<1> SUFFICES ASSUME ControlInvariant, MEM_stage PROVE ControlInvariant'
  OBVIOUS
<1> DEFINE o == PS["MEMORY"].instruction
<1>1. TypeOK /\ TypeOK'
  BY MEM_stageType DEF ControlInvariant
<1>2. at = "MEM" /\ at' = "AGEX" /\ PS' = PS
  BY DEF MEM_stage
<1>3. /\ ~AfterMEM /\ ~AfterAGEX /\ ~AfterDE /\ ~AfterFETCH
      /\ AfterMEM' /\ ~AfterAGEX' /\ ~AfterDE' /\ ~AfterFETCH'
  BY <1>2 DEF AfterMEM, AfterAGEX, AfterDE, AfterFETCH
<1>4. MemoryLatched' /\ AgexLatched' /\ DecodeLatched'
  BY <1>3 DEF MemoryLatched, AgexLatched, DecodeLatched
<1>5. CASE o = NULL
  <2>1. UNCHANGED <<heap, NEW_PS, memory_sigs, stall_sigs>>
    BY <1>5 DEF MEM_stage
  <2>2. /\ ~PS["MEMORY"].V /\ ~PS["STORE"].V /\ PS["STORE"].instruction = NULL
        /\ ~IsBranchTaken
    BY <1>5 DEF ControlInvariant, Filled, Stages
  <2>3. Filled' /\ NotYetLatched'
    BY <1>2, <1>3, <2>1 DEF ControlInvariant, Filled, NotYetLatched, SameContent, IsBranchTaken
  <2>4. StoreLatched'
    <3>1. PS["STORE"].V \in BOOLEAN /\ PS["MEMORY"].V \in BOOLEAN
      BY <1>1 DEF TypeOK, Latch, Stages
    <3>2. NEW_PS["STORE"].instruction = NULL /\ NEW_PS["STORE"].V = PS["STORE"].V
      BY <1>3, <2>2 DEF ControlInvariant, NotYetLatched, SameContent
    <3> QED BY <1>2, <1>5, <2>1, <2>2, <3>1, <3>2 DEF StoreLatched
  <2>5. Announced'
    BY <1>2, <1>3, <2>2 DEF Announced, Raises
  <2>6. WordsFollow'
    BY <1>2, <2>1 DEF ControlInvariant, WordsFollow, Past, UcodeOf
  <2>7. Interlocked' /\ OneOwner'
    BY <1>2, <2>1 DEF ControlInvariant, Interlocked, OneOwner, Raises, UcodeOf
  <2>8. MuxFollows'
    BY <2>1, <2>2 DEF MuxFollows, IsBranchTaken
  <2> QED BY <1>1, <1>4, <2>3, <2>4, <2>5, <2>6, <2>7, <2>8 DEF ControlInvariant
<1>6. CASE o # NULL
  <2>1. o \in Obj /\ PS["MEMORY"].V \in BOOLEAN
    BY <1>1, <1>6 DEF TypeOK, Latch, Stages
  <2>2. PICK data :
          /\ heap' = [heap EXCEPT ![o] = Accessed(heap[o], data)]
          /\ stall_sigs' = [stall_sigs EXCEPT
                              !.mem_stall = stall_sigs'.mem_stall,
                              !.v_mem_br_stall = PS["MEMORY"].V /\ "BR_STALL" \in heap[o].MEM_CS]
          /\ NEW_PS' = [NEW_PS EXCEPT !["STORE"] =
                          Load(NEW_PS["STORE"], o, PS["MEMORY"].V /\ ~stall_sigs'.mem_stall)]
          /\ memory_sigs'.mem_pc_mux = MemPcMux(heap[o], PS["MEMORY"].V)
    BY <1>1, <2>1, MEM_stageEffect
  <2>3. \A x \in Obj : /\ heap'[x].IR = heap[x].IR /\ heap'[x].CC = heap[x].CC
                        /\ heap'[x].AGEX_CS = heap[x].AGEX_CS /\ heap'[x].MEM_CS = heap[x].MEM_CS
    BY <1>1, <2>1, <2>2 DEF TypeOK, Instruction, Accessed
  <2>4. \A x \in Obj : UcodeOf(x)' = UcodeOf(x) /\ ConditionHolds(heap[x])' = ConditionHolds(heap[x])
    BY <2>3 DEF UcodeOf, ConditionHolds
  <2>5. \A s \in Stages : PS[s].V => PS[s].instruction \in Obj
    BY <1>1 DEF ControlInvariant, Filled, TypeOK, Latch
  <2>6. \A s \in Stages : \A x : Raises(s, x)' <=> Raises(s, x)
    BY <1>2, <2>4, <2>5 DEF Raises
  <2>7. /\ NEW_PS' = [NEW_PS EXCEPT !["STORE"] = NEW_PS'["STORE"]]
        /\ NEW_PS'["STORE"].instruction = o
        /\ NEW_PS'["STORE"].V = (PS["MEMORY"].V /\ ~stall_sigs'.mem_stall)
    BY <1>1, <2>2 DEF Load, TypeOK, Latch, Stages
  <2>8. Filled' /\ NotYetLatched'
    <3>1. stall_sigs'.dep_stall = stall_sigs.dep_stall
      BY <1>1, <2>2 DEF TypeOK, Stall_Entry
    <3>2. Filled'
      BY <1>2, <1>6, <3>1 DEF ControlInvariant, Filled
    <3>3. NotYetLatched'
      BY <1>1, <1>2, <1>3, <2>7 DEF ControlInvariant, NotYetLatched, SameContent, TypeOK, Stages
    <3> QED BY <3>2, <3>3
  <2>9. StoreLatched'
    BY <1>2, <2>7 DEF StoreLatched
  <2>10. Announced'
    <3>1. ASSUME Raises("MEMORY", "BR_STALL") PROVE "BR_STALL" \in heap[o].MEM_CS
      <4>1. heap[o].MEM_CS = ToMEM_CS(ToAGEX_CS(UcodeOf(o)))
        BY <2>1 DEF ControlInvariant, WordsFollow, Past
      <4> QED BY <1>1, <2>1, <3>1, <4>1, UcodeOfType, BranchSignals DEF Raises
    <3>2. stall_sigs'.v_mem_br_stall = (PS["MEMORY"].V /\ "BR_STALL" \in heap[o].MEM_CS)
      BY <1>1, <2>2 DEF TypeOK, Stall_Entry
    <3>3. Raises("MEMORY", "BR_STALL")' => stall_sigs'.v_mem_br_stall
      BY <2>6, <3>1, <3>2 DEF Raises, Stages
    <3> QED BY <1>3, <3>3 DEF Announced
  <2>11. WordsFollow'
    <3>1. Past("AGEX")' = Past("AGEX") /\ Past("MEMORY")' = Past("MEMORY")
      BY <1>1, <1>2, <2>7 DEF Past, TypeOK, Stages
    <3> QED BY <2>3, <2>4, <3>1 DEF ControlInvariant, WordsFollow
  <2>12. Interlocked' /\ OneOwner'
    <3>1. Interlocked'
      BY <1>2, <2>6 DEF ControlInvariant, Interlocked, Stages
    <3>2. OneOwner'
      BY <1>2 DEF ControlInvariant, OneOwner
    <3> QED BY <3>1, <3>2
  <2>13. MuxFollows'
    <3> SUFFICES ASSUME IsBranchTaken' PROVE (PS["MEMORY"].V /\ Redirects(o))'
      BY <1>3 DEF MuxFollows
    <3>1. MemPcMux(heap[o], PS["MEMORY"].V) # 0
      BY <2>2 DEF IsBranchTaken
    <3>2. PS["MEMORY"].V
      BY <3>1 DEF MemPcMux
    <3>3. /\ "BR_OP" \in heap[o].MEM_CS <=> "BR_OP" \in UcodeOf(o)
          /\ "TRAP_OP" \in heap[o].MEM_CS <=> "TRAP_OP" \in UcodeOf(o)
      <4>1. heap[o].MEM_CS = ToMEM_CS(ToAGEX_CS(UcodeOf(o)))
        BY <2>1 DEF ControlInvariant, WordsFollow, Past
      <4> QED BY <1>1, <2>1, <4>1, UcodeOfType, BranchSignals
    <3>4. IsBranchTaken /\ "BR_OP" \in UcodeOf(o) => ConditionHolds(heap[o])
      BY <1>3, <3>2 DEF ControlInvariant, MuxFollows, Raises
    <3>5. Redirects(o)
      BY <3>1, <3>2, <3>3, <3>4 DEF MemPcMux, IsBranchTaken, Redirects
    <3>6. Redirects(o)'
      BY <1>2, <2>1, <2>4, <3>5 DEF Redirects
    <3> QED BY <1>2, <3>2, <3>6
  <2> QED BY <1>1, <1>4, <2>8, <2>9, <2>10, <2>11, <2>12, <2>13 DEF ControlInvariant
<1> QED BY <1>5, <1>6

(* AGEX_stage moves an instruction on, or leaves MEMORY as it is while memory is slow. *)
LEMMA AGEX_stageControl == ControlInvariant /\ AGEX_stage => ControlInvariant'
<1> SUFFICES ASSUME ControlInvariant, AGEX_stage PROVE ControlInvariant'
  OBVIOUS
<1> DEFINE o == PS["AGEX"].instruction
<1>1. TypeOK /\ TypeOK'
  BY AGEX_stageType DEF ControlInvariant
<1>2. at = "AGEX" /\ at' = "DE" /\ PS' = PS /\ memory_sigs' = memory_sigs
  BY DEF AGEX_stage
<1>3. /\ AfterMEM /\ ~AfterAGEX /\ ~AfterDE /\ ~AfterFETCH
      /\ AfterMEM' /\ AfterAGEX' /\ ~AfterDE' /\ ~AfterFETCH'
  BY <1>2 DEF AfterMEM, AfterAGEX, AfterDE, AfterFETCH
<1>4. AgexLatched' /\ DecodeLatched'
  BY <1>3 DEF AgexLatched, DecodeLatched
<1>5. CASE o = NULL
  <2>1. UNCHANGED <<heap, NEW_PS, stall_sigs>>
    BY <1>5 DEF AGEX_stage
  <2>2. /\ ~PS["AGEX"].V /\ ~PS["MEMORY"].V /\ PS["MEMORY"].instruction = NULL
        /\ ~stall_sigs.mem_stall
    BY <1>5 DEF ControlInvariant, Filled, Stages
  <2>3. Filled' /\ NotYetLatched' /\ StoreLatched'
    BY <1>2, <1>3, <2>1 DEF ControlInvariant, Filled, NotYetLatched, StoreLatched, SameContent,
                            IsBranchTaken
  <2>4. MemoryLatched'
    <3>1. PS["MEMORY"].V \in BOOLEAN /\ PS["AGEX"].V \in BOOLEAN
      BY <1>1 DEF TypeOK, Latch, Stages
    <3>2. NEW_PS["MEMORY"].instruction = NULL /\ NEW_PS["MEMORY"].V = PS["MEMORY"].V
      BY <1>3, <2>2 DEF ControlInvariant, NotYetLatched, SameContent
    <3> QED BY <1>2, <1>5, <2>1, <2>2, <3>1, <3>2 DEF MemoryLatched, SameContent
  <2>5. Announced'
    BY <1>2, <1>3, <2>2 DEF Announced, Raises
  <2>6. WordsFollow'
    BY <1>2, <2>1 DEF ControlInvariant, WordsFollow, Past, UcodeOf
  <2>7. Interlocked' /\ OneOwner'
    BY <1>2, <2>1 DEF ControlInvariant, Interlocked, OneOwner, Raises, UcodeOf
  <2>8. MuxFollows'
    BY <1>2, <1>3, <2>1 DEF ControlInvariant, MuxFollows, IsBranchTaken, Redirects, UcodeOf
  <2> QED BY <1>1, <1>4, <2>3, <2>4, <2>5, <2>6, <2>7, <2>8 DEF ControlInvariant
<1>6. CASE o # NULL
  <2>1. o \in Obj /\ PS["AGEX"].V \in BOOLEAN
    BY <1>1, <1>6 DEF TypeOK, Latch, Stages
  <2>2. stall_sigs' = [stall_sigs EXCEPT
                         !.v_agex_br_stall = PS["AGEX"].V /\ "BR_STALL" \in heap[o].AGEX_CS]
    BY <1>6 DEF AGEX_stage
  <2>3. /\ stall_sigs'.v_agex_br_stall = (PS["AGEX"].V /\ "BR_STALL" \in heap[o].AGEX_CS)
        /\ stall_sigs'.v_mem_br_stall = stall_sigs.v_mem_br_stall
        /\ stall_sigs'.mem_stall = stall_sigs.mem_stall
        /\ stall_sigs'.dep_stall = stall_sigs.dep_stall
    BY <1>1, <2>2 DEF TypeOK, Stall_Entry
  <2>4. IF stall_sigs.mem_stall
        THEN NEW_PS' = [NEW_PS EXCEPT !["MEMORY"] = PS["MEMORY"]] /\ heap' = heap
        ELSE /\ NEW_PS' = [NEW_PS EXCEPT !["MEMORY"] =
                             Load(NEW_PS["MEMORY"], o, PS["AGEX"].V)]
             /\ heap' = [heap EXCEPT ![o] = Executed(heap[o])]
    BY <1>6 DEF AGEX_stage
  <2>5. /\ NEW_PS' = [NEW_PS EXCEPT !["MEMORY"] = NEW_PS'["MEMORY"]]
        /\ IF stall_sigs.mem_stall
           THEN SameContent(NEW_PS'["MEMORY"], PS["MEMORY"])
           ELSE SameContent(NEW_PS'["MEMORY"], PS["AGEX"])
    <3> DEFINE new == IF stall_sigs.mem_stall THEN PS["MEMORY"]
                                              ELSE Load(NEW_PS["MEMORY"], o, PS["AGEX"].V)
    <3>1. NEW_PS' = [NEW_PS EXCEPT !["MEMORY"] = new]
      BY <2>4
    <3>2. IF stall_sigs.mem_stall THEN SameContent(new, PS["MEMORY"])
                                  ELSE SameContent(new, PS["AGEX"])
      BY <1>1, LoadContent DEF SameContent, TypeOK, Stages
    <3> HIDE DEF new
    <3>3. NEW_PS'["MEMORY"] = new
      BY <1>1, <3>1 DEF TypeOK, Stages
    <3> QED BY <3>1, <3>2, <3>3
  <2>6. \A x \in Obj :
          /\ heap'[x].IR = heap[x].IR /\ heap'[x].CC = heap[x].CC
          /\ heap'[x].AGEX_CS = heap[x].AGEX_CS
          /\ heap'[x].MEM_CS = IF x = o /\ ~stall_sigs.mem_stall THEN ToMEM_CS(heap[x].AGEX_CS)
                                                                 ELSE heap[x].MEM_CS
    <3>1. heap[o] \in Instruction
      BY <1>1, <2>1 DEF TypeOK
    <3>2. \A x \in Obj : heap'[x] = IF x = o /\ ~stall_sigs.mem_stall THEN Executed(heap[x])
                                                                       ELSE heap[x]
      BY <1>1, <2>1, <2>4 DEF TypeOK
    <3> QED BY <3>1, <3>2, LatchedFields
  <2>7. \A x \in Obj : UcodeOf(x)' = UcodeOf(x) /\ ConditionHolds(heap[x])' = ConditionHolds(heap[x])
    BY <2>6 DEF UcodeOf, ConditionHolds
  <2>8. \A s \in Stages : PS[s].V => PS[s].instruction \in Obj
    BY <1>1 DEF ControlInvariant, Filled, TypeOK, Latch
  <2>9. \A s \in Stages : \A x : Raises(s, x)' <=> Raises(s, x)
    BY <1>2, <2>7, <2>8 DEF Raises
  <2>10. Filled'
    BY <1>2, <2>3 DEF ControlInvariant, Filled, IsBranchTaken
  <2>11. NotYetLatched' /\ StoreLatched' /\ MemoryLatched'
    <3>1. \A s \in Stages \ {"MEMORY"} : NEW_PS'[s] = NEW_PS[s]
      BY <1>1, <2>5 DEF TypeOK
    <3>2. NotYetLatched'
      BY <1>2, <1>3, <3>1 DEF ControlInvariant, NotYetLatched, SameContent, Stages
    <3>3. StoreLatched'
      BY <1>2, <1>3, <2>3, <3>1 DEF ControlInvariant, StoreLatched, Stages
    <3>4. MemoryLatched'
      BY <1>2, <2>3, <2>5 DEF MemoryLatched, SameContent
    <3> QED BY <3>2, <3>3, <3>4
  <2>12. Announced'
    <3>1. ASSUME Raises("AGEX", "BR_STALL") PROVE "BR_STALL" \in heap[o].AGEX_CS
      <4>1. heap[o].AGEX_CS = ToAGEX_CS(UcodeOf(o))
        BY <2>1 DEF ControlInvariant, WordsFollow, Past
      <4> QED BY <1>1, <2>1, <3>1, <4>1, UcodeOfType, BranchSignals DEF Raises
    <3>2. Raises("AGEX", "BR_STALL")' => stall_sigs'.v_agex_br_stall
      BY <2>3, <2>9, <3>1 DEF Raises, Stages
    <3>3. Raises("MEMORY", "BR_STALL")' => stall_sigs'.v_mem_br_stall
      BY <1>3, <2>3, <2>9 DEF ControlInvariant, Announced, Stages
    <3> QED BY <1>3, <3>2, <3>3 DEF Announced
  <2>13. WordsFollow'
    <3>1. Past("AGEX")' = Past("AGEX")
      BY <1>1, <1>2, <2>5 DEF Past, TypeOK, Stages
    <3>2. \A x \in Past("MEMORY")' : x \in Past("MEMORY") \/ (x = o /\ ~stall_sigs.mem_stall)
      BY <1>2, <2>5 DEF Past, SameContent
    <3>3. o \in Past("AGEX")
      BY DEF Past
    <3> QED BY <2>1, <2>6, <2>7, <3>1, <3>2, <3>3 DEF ControlInvariant, WordsFollow
  <2>14. Interlocked' /\ OneOwner'
    <3>1. Interlocked'
      BY <1>2, <2>9 DEF ControlInvariant, Interlocked, Stages
    <3>2. OneOwner'
      BY <1>2 DEF ControlInvariant, OneOwner
    <3> QED BY <3>1, <3>2
  <2>15. MuxFollows'
    <3>1. PS["MEMORY"].V => PS["MEMORY"].instruction \in Obj
      BY <2>8 DEF Stages
    <3> QED BY <1>2, <1>3, <2>7, <3>1 DEF ControlInvariant, MuxFollows, IsBranchTaken, Redirects
  <2> QED BY <1>1, <1>4, <2>10, <2>11, <2>12, <2>13, <2>14, <2>15 DEF ControlInvariant
<1> QED BY <1>5, <1>6

(* DE_stage reads the condition codes into the object of DECODE, which is not the
   object of a valid instruction in MEMORY. *)
LEMMA DE_stageControl == ControlInvariant /\ DE_stage => ControlInvariant'
<1> SUFFICES ASSUME ControlInvariant, DE_stage PROVE ControlInvariant'
  OBVIOUS
<1> DEFINE o == PS["DECODE"].instruction
<1>1. TypeOK /\ TypeOK'
  BY DE_stageType DEF ControlInvariant
<1>2. at = "DE" /\ at' = "FETCH" /\ PS' = PS /\ memory_sigs' = memory_sigs
  BY DEF DE_stage
<1>3. /\ AfterMEM /\ AfterAGEX /\ ~AfterDE /\ ~AfterFETCH
      /\ AfterMEM' /\ AfterAGEX' /\ AfterDE' /\ ~AfterFETCH'
  BY <1>2 DEF AfterMEM, AfterAGEX, AfterDE, AfterFETCH
<1>4. DecodeLatched'
  BY <1>3 DEF DecodeLatched
<1>5. CASE o = NULL
  <2>1. UNCHANGED <<heap, NEW_PS, stall_sigs>>
    BY <1>5 DEF DE_stage
  <2>2. /\ ~PS["DECODE"].V /\ ~PS["AGEX"].V /\ PS["AGEX"].instruction = NULL
        /\ ~stall_sigs.mem_stall /\ ~stall_sigs.dep_stall
    BY <1>5 DEF ControlInvariant, Filled, Stages
  <2>3. Filled' /\ NotYetLatched' /\ StoreLatched' /\ MemoryLatched'
    BY <1>2, <1>3, <2>1 DEF ControlInvariant, Filled, NotYetLatched, StoreLatched, MemoryLatched,
                            SameContent, IsBranchTaken
  <2>4. AgexLatched'
    <3>1. PS["DECODE"].V \in BOOLEAN /\ PS["AGEX"].V \in BOOLEAN
      BY <1>1 DEF TypeOK, Latch, Stages
    <3>2. NEW_PS["AGEX"].instruction = NULL /\ NEW_PS["AGEX"].V = PS["AGEX"].V
      BY <1>3, <2>2 DEF ControlInvariant, NotYetLatched, SameContent
    <3> QED BY <1>2, <1>5, <2>1, <2>2, <3>1, <3>2 DEF AgexLatched, SameContent
  <2>5. Announced'
    BY <1>2, <1>3, <2>1, <2>2 DEF ControlInvariant, Announced, Raises, UcodeOf
  <2>6. WordsFollow'
    BY <1>2, <2>1 DEF ControlInvariant, WordsFollow, Past, UcodeOf
  <2>7. Interlocked' /\ OneOwner'
    BY <1>2, <2>1 DEF ControlInvariant, Interlocked, OneOwner, Raises, UcodeOf
  <2>8. MuxFollows'
    BY <1>2, <1>3, <2>1 DEF ControlInvariant, MuxFollows, IsBranchTaken, Redirects, UcodeOf
  <2> QED BY <1>1, <1>4, <2>3, <2>4, <2>5, <2>6, <2>7, <2>8 DEF ControlInvariant
<1>6. CASE o # NULL
  <2>1. o \in Obj /\ PS["DECODE"].V \in BOOLEAN
    BY <1>1, <1>6 DEF TypeOK, Latch, Stages
  <2> DEFINE stall == CheckForDataDependencies(heap[o], PS["DECODE"].V)
             decoded == Decoded(heap[o], UcodeOf(o), REGS[SR1_ID(heap[o].IR)],
                                REGS[SR2_ID(heap[o].IR)], NZP)
  <2>2. stall_sigs' = [stall_sigs EXCEPT !.dep_stall = stall,
                         !.v_de_br_stall = PS["DECODE"].V /\ "BR_STALL" \in UcodeOf(o)]
    BY <1>6 DEF DE_stage, UcodeOf
  <2>3. /\ stall_sigs'.v_de_br_stall = (PS["DECODE"].V /\ "BR_STALL" \in UcodeOf(o))
        /\ stall_sigs'.v_agex_br_stall = stall_sigs.v_agex_br_stall
        /\ stall_sigs'.v_mem_br_stall = stall_sigs.v_mem_br_stall
        /\ stall_sigs'.mem_stall = stall_sigs.mem_stall
        /\ stall_sigs'.dep_stall = stall
    BY <1>1, <2>2 DEF TypeOK, Stall_Entry
  <2>4. IF stall_sigs.mem_stall
        THEN /\ NEW_PS' = [NEW_PS EXCEPT !["AGEX"] =
                             Load(NEW_PS["AGEX"], PS["AGEX"].instruction, PS["AGEX"].V)]
             /\ heap' = heap
        ELSE /\ NEW_PS' = [NEW_PS EXCEPT !["AGEX"] =
                             Load(NEW_PS["AGEX"], o, Advances(PS["DECODE"].V, stall))]
             /\ heap' = [heap EXCEPT ![o] = decoded]
    BY <1>6 DEF DE_stage, UcodeOf
  <2>5. /\ NEW_PS' = [NEW_PS EXCEPT !["AGEX"] = NEW_PS'["AGEX"]]
        /\ IF stall_sigs.mem_stall
           THEN SameContent(NEW_PS'["AGEX"], PS["AGEX"])
           ELSE /\ NEW_PS'["AGEX"].instruction = o
                /\ NEW_PS'["AGEX"].V = (~stall /\ PS["DECODE"].V)
    <3> DEFINE new == IF stall_sigs.mem_stall
                      THEN Load(NEW_PS["AGEX"], PS["AGEX"].instruction, PS["AGEX"].V)
                      ELSE Load(NEW_PS["AGEX"], o, Advances(PS["DECODE"].V, stall))
    <3>1. NEW_PS' = [NEW_PS EXCEPT !["AGEX"] = new]
      BY <2>4
    <3>2. IF stall_sigs.mem_stall
          THEN SameContent(new, PS["AGEX"])
          ELSE new.instruction = o /\ new.V = (~stall /\ PS["DECODE"].V)
      <4> HIDE DEF stall
      <4> QED BY <1>1, LoadContent DEF SameContent, TypeOK, Stages, Advances
    <3> HIDE DEF new
    <3>3. NEW_PS'["AGEX"] = new
      BY <1>1, <3>1 DEF TypeOK, Stages
    <3> QED BY <3>1, <3>2, <3>3
  <2>6. \A x \in Obj :
          /\ heap'[x].IR = heap[x].IR
          /\ x # o => heap'[x].CC = heap[x].CC
          /\ heap'[x].MEM_CS = heap[x].MEM_CS
          /\ heap'[x].AGEX_CS = IF x = o /\ ~stall_sigs.mem_stall THEN ToAGEX_CS(UcodeOf(x))
                                                                  ELSE heap[x].AGEX_CS
    <3>1. heap[o] \in Instruction
      BY <1>1, <2>1 DEF TypeOK
    <3>2. \A x \in Obj : heap'[x] = IF x = o /\ ~stall_sigs.mem_stall THEN decoded ELSE heap[x]
      <4> HIDE DEF decoded
      <4> QED BY <1>1, <2>1, <2>4 DEF TypeOK
    <3>3. /\ decoded.IR = heap[o].IR /\ decoded.MEM_CS = heap[o].MEM_CS
          /\ decoded.AGEX_CS = ToAGEX_CS(UcodeOf(o))
      BY <3>1, LatchedFields
    <3> HIDE DEF decoded
    <3> QED BY <3>2, <3>3
  <2>7. \A x \in Obj : UcodeOf(x)' = UcodeOf(x)
    BY <2>6 DEF UcodeOf
  <2>8. \A s \in Stages : PS[s].V => PS[s].instruction \in Obj
    BY <1>1 DEF ControlInvariant, Filled, TypeOK, Latch
  <2>9. \A s \in Stages : \A x : Raises(s, x)' <=> Raises(s, x)
    BY <1>2, <2>7, <2>8 DEF Raises
  <2>10. Filled'
    BY <1>2, <1>6, <2>3 DEF ControlInvariant, Filled, IsBranchTaken
  <2>11. NotYetLatched' /\ StoreLatched' /\ MemoryLatched' /\ AgexLatched'
    <3>1. \A s \in Stages \ {"AGEX"} : NEW_PS'[s] = NEW_PS[s]
      BY <1>1, <2>5 DEF TypeOK
    <3>2. NotYetLatched'
      BY <1>2, <1>3, <3>1 DEF ControlInvariant, NotYetLatched, SameContent, Stages
    <3>3. StoreLatched' /\ MemoryLatched'
      BY <1>2, <1>3, <2>3, <3>1 DEF ControlInvariant, StoreLatched, MemoryLatched, SameContent, Stages
    <3>4. AgexLatched'
      <4> HIDE DEF stall
      <4> QED BY <1>2, <2>3, <2>5 DEF AgexLatched, SameContent
    <3> QED BY <3>2, <3>3, <3>4
  <2>12. Announced'
    <3>1. Raises("DECODE", "BR_STALL")' => stall_sigs'.v_de_br_stall
      BY <2>3, <2>9 DEF Raises, Stages
    <3>2. /\ Raises("MEMORY", "BR_STALL")' => stall_sigs'.v_mem_br_stall
          /\ Raises("AGEX", "BR_STALL")' => stall_sigs'.v_agex_br_stall
      BY <1>3, <2>3, <2>9 DEF ControlInvariant, Announced, Stages
    <3> QED BY <3>1, <3>2 DEF Announced
  <2>13. WordsFollow'
    <3>1. Past("MEMORY")' = Past("MEMORY")
      BY <1>1, <1>2, <2>5 DEF Past, TypeOK, Stages
    <3>2. \A x \in Past("AGEX")' : x \in Past("AGEX") \/ (x = o /\ ~stall_sigs.mem_stall)
      BY <1>2, <2>5 DEF Past, SameContent
    <3> QED BY <2>1, <2>6, <2>7, <3>1, <3>2 DEF ControlInvariant, WordsFollow
  <2>14. Interlocked' /\ OneOwner'
    <3>1. Interlocked'
      BY <1>2, <2>9 DEF ControlInvariant, Interlocked, Stages
    <3>2. OneOwner'
      BY <1>2 DEF ControlInvariant, OneOwner
    <3> QED BY <3>1, <3>2
  <2>15. MuxFollows'
    <3> DEFINE m == PS["MEMORY"].instruction
    <3>1. ASSUME PS["MEMORY"].V PROVE m \in Obj /\ m # o
      BY <2>8, <3>1 DEF ControlInvariant, OneOwner, Behind, Stages
    <3>2. ASSUME PS["MEMORY"].V PROVE ConditionHolds(heap[m])' = ConditionHolds(heap[m])
                                       /\ UcodeOf(m)' = UcodeOf(m)
      BY <1>2, <2>6, <2>7, <3>1, <3>2 DEF ConditionHolds
    <3> QED BY <1>2, <1>3, <3>2 DEF ControlInvariant, MuxFollows, IsBranchTaken, Redirects
  <2> QED BY <1>1, <1>4, <2>10, <2>11, <2>12, <2>13, <2>14, <2>15 DEF ControlInvariant
<1> QED BY <1>5, <1>6

(* FETCH_stage issues a valid instruction only when no control instruction is ahead. *)
LEMMA FETCH_stageControl == ControlInvariant /\ FETCH_stage => ControlInvariant'
<1> SUFFICES ASSUME ControlInvariant, FETCH_stage PROVE ControlInvariant'
  OBVIOUS
<1>1. TypeOK /\ TypeOK'
  BY FETCH_stageType DEF ControlInvariant
<1>2. at = "FETCH" /\ at' = "MOVE" /\ PS' = PS /\ memory_sigs' = memory_sigs
  BY DEF FETCH_stage
<1>3. /\ AfterMEM /\ AfterAGEX /\ AfterDE /\ ~AfterFETCH
      /\ AfterMEM' /\ AfterAGEX' /\ AfterDE' /\ AfterFETCH'
  BY <1>2 DEF AfterMEM, AfterAGEX, AfterDE, AfterFETCH
<1>4. PICK icache_r \in BOOLEAN, instruction \in Word, de_npc \in Word :
        /\ stall_sigs' = [stall_sigs EXCEPT !.icache_r = icache_r]
        /\ IF DecodeHeld
           THEN /\ NEW_PS' = [NEW_PS EXCEPT !["DECODE"] =
                                Load(NEW_PS["DECODE"], PS["DECODE"].instruction, PS["DECODE"].V)]
                /\ heap' = heap
           ELSE \E o \in Obj :
                  /\ IsFree(o)
                  /\ heap' = [heap EXCEPT ![o] = Create(instruction, de_npc)]
                  /\ NEW_PS' = [NEW_PS EXCEPT !["DECODE"] =
                                  Load(NEW_PS["DECODE"], o,
                                       ~IsStallDetected(icache_r) /\ ~stall_sigs.v_mem_br_stall)]
  <2>1. Add(PC, 2) \in Word /\ GetWordAt(memory, WordAddress(PC)) \in Word /\ NotReadyWord \in Word
    <3>1. PC \in Word /\ 2 \in Word /\ NotReadyWord \in Word
      BY <1>1, Sizes DEF TypeOK, Word, NotReadyWord
    <3> QED BY <1>1, <3>1, MemoryRead, WordOperators, Sizes DEF TypeOK
  <2>2. PICK random \in ICACHE_RANDOM :
          LET icache_r    == random = 0
              instruction == IF icache_r THEN GetWordAt(memory, WordAddress(PC)) ELSE NotReadyWord
              de_npc      == Add(PC, 2)
          IN  /\ stall_sigs' = [stall_sigs EXCEPT !.icache_r = icache_r]
              /\ IF DecodeHeld
                 THEN /\ NEW_PS' = [NEW_PS EXCEPT !["DECODE"] =
                                      Load(NEW_PS["DECODE"], PS["DECODE"].instruction, PS["DECODE"].V)]
                      /\ heap' = heap
                 ELSE \E o \in Obj :
                        /\ IsFree(o)
                        /\ heap' = [heap EXCEPT ![o] = Create(instruction, de_npc)]
                        /\ NEW_PS' = [NEW_PS EXCEPT !["DECODE"] =
                                        Load(NEW_PS["DECODE"], o,
                                             ~IsStallDetected(icache_r) /\ ~stall_sigs.v_mem_br_stall)]
    BY DEF FETCH_stage
  <2> DEFINE ready == random = 0
             word  == IF ready THEN GetWordAt(memory, WordAddress(PC)) ELSE NotReadyWord
  <2>3. ready \in BOOLEAN /\ word \in Word
    BY <2>1
  <2>4. /\ stall_sigs' = [stall_sigs EXCEPT !.icache_r = ready]
        /\ IF DecodeHeld
           THEN /\ NEW_PS' = [NEW_PS EXCEPT !["DECODE"] =
                                Load(NEW_PS["DECODE"], PS["DECODE"].instruction, PS["DECODE"].V)]
                /\ heap' = heap
           ELSE \E o \in Obj :
                  /\ IsFree(o)
                  /\ heap' = [heap EXCEPT ![o] = Create(word, Add(PC, 2))]
                  /\ NEW_PS' = [NEW_PS EXCEPT !["DECODE"] =
                                  Load(NEW_PS["DECODE"], o,
                                       ~IsStallDetected(ready) /\ ~stall_sigs.v_mem_br_stall)]
    BY <2>2
  <2> HIDE DEF ready, word
  <2> QED BY <2>1, <2>3, <2>4
<1>5. /\ stall_sigs'.dep_stall = stall_sigs.dep_stall /\ stall_sigs'.mem_stall = stall_sigs.mem_stall
      /\ stall_sigs'.v_de_br_stall = stall_sigs.v_de_br_stall
      /\ stall_sigs'.v_agex_br_stall = stall_sigs.v_agex_br_stall
      /\ stall_sigs'.v_mem_br_stall = stall_sigs.v_mem_br_stall
  BY <1>1, <1>4 DEF TypeOK, Stall_Entry
<1>6. \A s \in Stages \ {"DECODE"} : NEW_PS'[s] = NEW_PS[s]
  BY <1>1, <1>4 DEF TypeOK
<1>7. \A s \in Stages : PS[s].instruction \in Obj => heap'[PS[s].instruction] = heap[PS[s].instruction]
  BY <1>1, <1>4 DEF TypeOK, IsFree, Referenced
<1>8. \A s \in Stages : PS[s].V => PS[s].instruction \in Obj
  BY <1>1 DEF ControlInvariant, Filled, TypeOK, Latch
<1>9. \A s \in Stages : \A x : Raises(s, x)' <=> Raises(s, x)
  BY <1>2, <1>7, <1>8 DEF Raises, UcodeOf
<1>10. Filled' /\ NotYetLatched' /\ StoreLatched' /\ MemoryLatched' /\ AgexLatched' /\ Announced'
  <2>1. Filled'
    BY <1>2, <1>5 DEF ControlInvariant, Filled, IsBranchTaken
  <2>2. NotYetLatched'
    BY <1>3 DEF NotYetLatched
  <2>3. StoreLatched' /\ MemoryLatched' /\ AgexLatched'
    BY <1>2, <1>3, <1>5, <1>6 DEF ControlInvariant, StoreLatched, MemoryLatched, AgexLatched,
                                  SameContent, Stages
  <2>4. Announced'
    BY <1>3, <1>5, <1>9 DEF ControlInvariant, Announced, Stages
  <2> QED BY <2>1, <2>2, <2>3, <2>4
<1>11. DecodeLatched'
  <2>1. NEW_PS["DECODE"] \in Latch
    BY <1>1 DEF TypeOK, Stages
  <2>2. CASE DecodeHeld
    <3>1. NEW_PS'["DECODE"] = Load(NEW_PS["DECODE"], PS["DECODE"].instruction, PS["DECODE"].V)
      BY <1>1, <1>4, <2>2 DEF TypeOK, Stages
    <3> QED BY <1>2, <1>5, <2>1, <2>2, <3>1, LoadContent DEF DecodeHeld, DecodeLatched, SameContent
  <2>3. CASE ~DecodeHeld
    <3>1. PICK o \in Obj :
            /\ IsFree(o)
            /\ NEW_PS' = [NEW_PS EXCEPT !["DECODE"] =
                            Load(NEW_PS["DECODE"], o,
                                 ~IsStallDetected(icache_r) /\ ~stall_sigs.v_mem_br_stall)]
      BY <1>4, <2>3
    <3>2. NEW_PS'["DECODE"] = Load(NEW_PS["DECODE"], o,
                                   ~IsStallDetected(icache_r) /\ ~stall_sigs.v_mem_br_stall)
      BY <1>1, <3>1 DEF TypeOK, Stages
    <3>3. /\ NEW_PS'["DECODE"].instruction = o
          /\ NEW_PS'["DECODE"].V = (~IsStallDetected(icache_r) /\ ~stall_sigs.v_mem_br_stall)
      BY <2>1, <3>2, LoadContent
    <3>4. o # NULL /\ \A s \in Stages : o # PS[s].instruction
      BY <3>1, ObjAssumption DEF IsFree, Referenced
    <3>5. NEW_PS'["DECODE"].V => ~stall_sigs.v_agex_br_stall /\ ~stall_sigs.v_de_br_stall
      BY <3>3 DEF IsStallDetected
    <3>6. NEW_PS'["DECODE"].V => ~Raises("AGEX", "BR_STALL") /\ ~Raises("DECODE", "BR_STALL")
      BY <1>3, <3>5 DEF ControlInvariant, Announced
    <3>7. NEW_PS'["DECODE"].V => ~Raises("AGEX", "BR_STALL")' /\ ~Raises("DECODE", "BR_STALL")'
      BY <1>9, <3>6 DEF Stages
    <3> QED BY <1>2, <1>5, <2>3, <3>3, <3>4, <3>7 DEF DecodeHeld, DecodeLatched
  <2> QED BY <2>2, <2>3
<1>12. WordsFollow'
  <2>1. Past("AGEX")' = Past("AGEX") /\ Past("MEMORY")' = Past("MEMORY")
    BY <1>2, <1>6 DEF Past, Stages
  <2>2. \A x \in Past("AGEX") \cup Past("MEMORY") : x \in Obj => heap'[x] = heap[x]
    BY <1>1, <1>4 DEF Past, TypeOK, IsFree, Referenced, Stages
  <2> QED BY <2>1, <2>2 DEF ControlInvariant, WordsFollow, UcodeOf
<1>13. Interlocked' /\ OneOwner'
  <2>1. Interlocked'
    BY <1>2, <1>9 DEF ControlInvariant, Interlocked, Stages
  <2>2. OneOwner'
    BY <1>2 DEF ControlInvariant, OneOwner
  <2> QED BY <2>1, <2>2
<1>14. MuxFollows'
  <2>1. PS["MEMORY"].V => heap'[PS["MEMORY"].instruction] = heap[PS["MEMORY"].instruction]
    BY <1>7, <1>8 DEF Stages
  <2> QED BY <1>2, <1>3, <2>1 DEF ControlInvariant, MuxFollows, IsBranchTaken, Redirects, UcodeOf
<1> QED BY <1>1, <1>10, <1>11, <1>12, <1>13, <1>14 DEF ControlInvariant

(* MoveLatch ends the cycle: what was latched becomes what is seen. *)
LEMMA MoveLatchControl == ControlInvariant /\ MoveLatch => ControlInvariant'
<1> SUFFICES ASSUME ControlInvariant, MoveLatch PROVE ControlInvariant'
  OBVIOUS
<1>1. TypeOK /\ TypeOK'
  BY MoveLatchType DEF ControlInvariant
<1>2. /\ at = "MOVE" /\ at' = "SR" /\ PS' = NEW_PS
      /\ UNCHANGED <<heap, NEW_PS, memory_sigs, stall_sigs>>
  BY DEF MoveLatch, Signal_Entries
<1>3. /\ AfterMEM /\ AfterAGEX /\ AfterDE /\ AfterFETCH
      /\ ~AfterMEM' /\ ~AfterAGEX' /\ ~AfterDE' /\ ~AfterFETCH'
  BY <1>2 DEF AfterMEM, AfterAGEX, AfterDE, AfterFETCH
<1>4. NotYetLatched' /\ StoreLatched' /\ MemoryLatched' /\ AgexLatched' /\ DecodeLatched' /\ Announced'
  BY <1>2, <1>3 DEF NotYetLatched, SameContent, StoreLatched, MemoryLatched, AgexLatched,
                    DecodeLatched, Announced
<1>5. StoreLatched /\ MemoryLatched /\ AgexLatched /\ DecodeLatched /\ Filled /\ OneOwner /\ Interlocked
  BY DEF ControlInvariant
<1>6. /\ NEW_PS["STORE"].instruction = PS["MEMORY"].instruction
       /\ NEW_PS["STORE"].V = (PS["MEMORY"].V /\ ~stall_sigs.mem_stall)
  BY <1>3, <1>5 DEF StoreLatched
<1>7. IF stall_sigs.mem_stall THEN SameContent(NEW_PS["MEMORY"], PS["MEMORY"])
                               ELSE SameContent(NEW_PS["MEMORY"], PS["AGEX"])
  BY <1>3, <1>5 DEF MemoryLatched
<1>8. IF stall_sigs.mem_stall
       THEN SameContent(NEW_PS["AGEX"], PS["AGEX"])
       ELSE /\ NEW_PS["AGEX"].instruction = PS["DECODE"].instruction
            /\ NEW_PS["AGEX"].V = (~stall_sigs.dep_stall /\ PS["DECODE"].V)
  BY <1>3, <1>5 DEF AgexLatched
<1>9. IF stall_sigs.dep_stall \/ stall_sigs.mem_stall
       THEN SameContent(NEW_PS["DECODE"], PS["DECODE"])
       ELSE /\ NEW_PS["DECODE"].instruction # NULL
            /\ \A s \in Stages : NEW_PS["DECODE"].instruction # PS[s].instruction
  BY <1>3, <1>5 DEF DecodeLatched
<1>10. Filled'
  <2>1. \A s \in Stages : NEW_PS[s].V => NEW_PS[s].instruction # NULL
    BY <1>5, <1>6, <1>7, <1>8, <1>9 DEF Filled, SameContent, Stages
  <2>2. NEW_PS["DECODE"].instruction # NULL
    BY <1>5, <1>9 DEF Filled, SameContent
  <2>3. NEW_PS["AGEX"].instruction = NULL => NEW_PS["MEMORY"].instruction = NULL
    BY <1>5, <1>7, <1>8 DEF Filled, SameContent
  <2>4. NEW_PS["MEMORY"].instruction = NULL =>
          NEW_PS["STORE"].instruction = NULL /\ ~stall_sigs.mem_stall /\ ~IsBranchTaken
    BY <1>5, <1>6, <1>7 DEF Filled, SameContent
  <2> QED BY <1>2, <2>1, <2>2, <2>3, <2>4 DEF Filled, IsBranchTaken
<1>11. WordsFollow'
  <2>1. Past("AGEX")' \subseteq Past("AGEX") /\ Past("MEMORY")' \subseteq Past("MEMORY")
    BY <1>2 DEF Past
  <2> QED BY <1>2, <2>1 DEF ControlInvariant, WordsFollow, UcodeOf
<1>12. \A s \in Stages : \A x : Raises(s, x)' <=> NEW_PS[s].V /\ x \in UcodeOf(NEW_PS[s].instruction)
  BY <1>2 DEF Raises, UcodeOf
<1>13. Interlocked'
  BY <1>2, <1>3, <1>5, <1>12 DEF Interlocked, MemoryLatched, AgexLatched, DecodeLatched, SameContent,
                                Raises, Stages
<1>14. OneOwner'
  <2> DEFINE owns(s, t) == PS[s].instruction = PS[t].instruction => ~PS[s].V
             own(s, t)  == NEW_PS[s].instruction = NEW_PS[t].instruction => ~NEW_PS[s].V
  <2>1. /\ owns("STORE", "MEMORY") /\ owns("STORE", "AGEX") /\ owns("STORE", "DECODE")
        /\ owns("MEMORY", "AGEX") /\ owns("MEMORY", "DECODE") /\ owns("AGEX", "DECODE")
    BY <1>5 DEF OneOwner, Behind, Stages
  <2>2. CASE stall_sigs.mem_stall
    <3>1. /\ ~NEW_PS["STORE"].V
          /\ \A s \in Stages \ {"STORE"} : SameContent(NEW_PS[s], PS[s])
      BY <1>6, <1>7, <1>8, <1>9, <2>2 DEF Stages
    <3> QED BY <1>2, <2>1, <3>1 DEF OneOwner, Behind, SameContent, Stages
  <2>3. CASE ~stall_sigs.mem_stall
    <3>1. /\ NEW_PS["STORE"].instruction = PS["MEMORY"].instruction
          /\ NEW_PS["STORE"].V = PS["MEMORY"].V
          /\ NEW_PS["MEMORY"].instruction = PS["AGEX"].instruction
          /\ NEW_PS["MEMORY"].V = PS["AGEX"].V
          /\ NEW_PS["AGEX"].instruction = PS["DECODE"].instruction
          /\ NEW_PS["AGEX"].V => PS["DECODE"].V /\ ~stall_sigs.dep_stall
      <4>1. PS["MEMORY"].V \in BOOLEAN
        BY <1>1 DEF TypeOK, Latch, Stages
      <4> QED BY <1>6, <1>7, <1>8, <2>3, <4>1 DEF SameContent
    <3>2. own("STORE", "MEMORY") /\ own("STORE", "AGEX") /\ own("MEMORY", "AGEX")
      BY <2>1, <3>1
    <3>3. own("STORE", "DECODE") /\ own("MEMORY", "DECODE") /\ own("AGEX", "DECODE")
      <4>1. CASE stall_sigs.dep_stall
        BY <1>9, <2>1, <3>1, <4>1 DEF SameContent
      <4>2. CASE ~stall_sigs.dep_stall
        BY <1>9, <2>3, <3>1, <4>2 DEF Stages
      <4> QED BY <4>1, <4>2
    <3> QED BY <1>2, <3>2, <3>3 DEF OneOwner, Behind, Stages
  <2> QED BY <2>2, <2>3
<1>15. MuxFollows'
  <2> SUFFICES ASSUME IsBranchTaken, Raises("MEMORY", "BR_OP")'
               PROVE  ConditionHolds(heap[NEW_PS["MEMORY"].instruction])
    BY <1>2, <1>3 DEF MuxFollows, IsBranchTaken
  <2> DEFINE m == PS["MEMORY"].instruction
  <2>1. PS["MEMORY"].V /\ Redirects(m)
    BY <1>3 DEF ControlInvariant, MuxFollows
  <2>2. Raises("MEMORY", "BR_STALL")
    <3>1. m \in Obj
      BY <1>1, <1>5, <2>1 DEF Filled, TypeOK, Latch, Stages
    <3> QED BY <1>1, <2>1, <3>1, UcodeOfType DEF Redirects, Raises
  <2>3. ~PS["AGEX"].V
    BY <1>5, <2>2 DEF Interlocked
  <2>4. NEW_PS["MEMORY"].V /\ "BR_OP" \in UcodeOf(NEW_PS["MEMORY"].instruction)
    BY <1>12 DEF Stages
  <2>5. NEW_PS["MEMORY"].instruction = m
    BY <1>3, <1>5, <2>3, <2>4 DEF MemoryLatched, SameContent
  <2> QED BY <2>1, <2>4, <2>5 DEF Redirects
<1> QED BY <1>1, <1>4, <1>10, <1>11, <1>13, <1>14, <1>15 DEF ControlInvariant

LEMMA InvariantNext == ControlInvariant /\ [Next]_vars => ControlInvariant'
<1> SUFFICES ASSUME ControlInvariant, [Next]_vars PROVE ControlInvariant'
  OBVIOUS
<1>1. CASE UNCHANGED vars
  <2>1. TypeOK'
    BY TypeNext DEF ControlInvariant
  <2>2. UNCHANGED <<at, heap, PS, NEW_PS, memory_sigs, stall_sigs>>
    BY <1>1 DEF vars, Signal_Entries
  <2> QED BY <2>1, <2>2 DEF ControlInvariant, Filled, NotYetLatched, StoreLatched, MemoryLatched,
            AgexLatched, DecodeLatched, Announced, WordsFollow, Interlocked, OneOwner, MuxFollows,
            AfterMEM, AfterAGEX, AfterDE, AfterFETCH, SameContent, IsBranchTaken, Past, Raises,
            UcodeOf, Redirects
<1> QED BY <1>1, SR_stageControl, MEM_stageControl, AGEX_stageControl, DE_stageControl,
           FETCH_stageControl, MoveLatchControl DEF Next

(* The strengthening that makes the control properties inductive. *)
THEOREM ControlInvariantHolds == Spec => []ControlInvariant
<1>1. Init => ControlInvariant
  BY InvariantInit
<1>2. ControlInvariant /\ [Next]_vars => ControlInvariant'
  BY InvariantNext
<1> QED BY <1>1, <1>2, PTL DEF Spec

-----------------------------------------------------------------------------
LEMMA InterlockFollows == ControlInvariant => ControlInterlock
<1> SUFFICES ASSUME ControlInvariant PROVE ControlInterlock
  OBVIOUS
<1>1. TypeOK /\ Interlocked /\ WordsFollow
  BY DEF ControlInvariant
<1>2. ASSUME Valid(PS["MEMORY"]), "BR_STALL" \in On("MEMORY").MEM_CS
      PROVE  Raises("MEMORY", "BR_STALL")
  <2> DEFINE m == PS["MEMORY"].instruction
  <2>1. m \in Obj /\ PS["MEMORY"].V
    BY <1>1, <1>2 DEF Valid, TypeOK, Latch, Stages
  <2>2. heap[m].MEM_CS = ToMEM_CS(ToAGEX_CS(UcodeOf(m)))
    BY <1>1, <2>1 DEF WordsFollow, Past
  <2> QED BY <1>1, <1>2, <2>1, <2>2, UcodeOfType, BranchSignals DEF On, Raises
<1>3. ASSUME Valid(PS["AGEX"]), "BR_STALL" \in On("AGEX").AGEX_CS
      PROVE  Raises("AGEX", "BR_STALL")
  <2> DEFINE a == PS["AGEX"].instruction
  <2>1. a \in Obj /\ PS["AGEX"].V
    BY <1>1, <1>3 DEF Valid, TypeOK, Latch, Stages
  <2>2. heap[a].AGEX_CS = ToAGEX_CS(UcodeOf(a))
    BY <1>1, <2>1 DEF WordsFollow, Past
  <2> QED BY <1>1, <1>3, <2>1, <2>2, UcodeOfType, BranchSignals DEF On, Raises
<1> QED BY <1>1, <1>2, <1>3 DEF ControlInterlock, Interlocked

LEMMA RedirectFollows == ControlInvariant => NoStaleRedirect
<1> SUFFICES ASSUME ControlInvariant, AfterMEM, IsBranchTaken
             PROVE  /\ Valid(PS["MEMORY"])
                    /\ \/ "BR_OP" \in On("MEMORY").MEM_CS /\ ConditionHolds(On("MEMORY"))
                       \/ "BR_OP" \notin On("MEMORY").MEM_CS /\ "TRAP_OP" \in On("MEMORY").MEM_CS
  BY DEF NoStaleRedirect, AfterMEM
<1> DEFINE m == PS["MEMORY"].instruction
<1>1. PS["MEMORY"].V /\ Redirects(m)
  BY DEF ControlInvariant, MuxFollows
<1>2. m # NULL /\ m \in Obj
  BY <1>1 DEF ControlInvariant, Filled, TypeOK, Latch, Stages
<1>3. heap[m].MEM_CS = ToMEM_CS(ToAGEX_CS(UcodeOf(m)))
  BY <1>2 DEF ControlInvariant, WordsFollow, Past
<1>4. /\ "BR_OP" \in heap[m].MEM_CS <=> "BR_OP" \in UcodeOf(m)
      /\ "TRAP_OP" \in heap[m].MEM_CS <=> "TRAP_OP" \in UcodeOf(m)
  BY <1>2, <1>3, UcodeOfType, BranchSignals DEF ControlInvariant
<1> QED BY <1>1, <1>2, <1>4 DEF Valid, On, Redirects

(* The end of a cycle, latch by latch: what the invariant says of NEW_PS is where each
   valid instruction goes, and what it says of shared objects is that it goes nowhere else. *)
LEMMA AdvanceFollows == ControlInvariant /\ MoveLatch => Advance
<1> SUFFICES ASSUME ControlInvariant, MoveLatch, NEW o \in Obj, NEW s \in Stages, s \in HoldersOf(o)
             PROVE  HoldersOf(o)' \in IF s = "STORE" THEN {{}} ELSE {{s}, {Onward(s)}}
  <2>1. \A o \in Obj : HoldersOf(o) \subseteq Stages
    BY DEF HoldersOf
  <2> QED BY <2>1 DEF Advance
<1>1. PS' = NEW_PS /\ AfterMEM /\ AfterAGEX /\ AfterDE /\ AfterFETCH
  BY DEF MoveLatch, AfterMEM, AfterAGEX, AfterDE, AfterFETCH
<1>2. HoldersOf(o)' = {x \in Stages : NEW_PS[x].instruction = o /\ NEW_PS[x].V}
  BY <1>1 DEF HoldersOf
<1>3. PS[s].instruction = o /\ PS[s].V
  BY DEF HoldersOf
<1>4. \A x \in Stages : x # s /\ PS[x].instruction = o => ~PS[x].V
  BY <1>3 DEF ControlInvariant, OneOwner, Behind, Stages
<1>5. StoreLatched /\ MemoryLatched /\ AgexLatched /\ DecodeLatched
  BY DEF ControlInvariant
<1>6. \A x \in Stages : PS[x].V \in BOOLEAN /\ NEW_PS[x].V \in BOOLEAN
  BY DEF ControlInvariant, TypeOK, Latch
<1>7. CASE stall_sigs.mem_stall
  <2>1. /\ ~NEW_PS["STORE"].V
        /\ \A x \in Stages \ {"STORE"} : SameContent(NEW_PS[x], PS[x])
    BY <1>1, <1>5, <1>7 DEF StoreLatched, MemoryLatched, AgexLatched, DecodeLatched, Stages
  <2>2. \A x \in Stages : NEW_PS[x].instruction = o /\ NEW_PS[x].V <=> x = s /\ s # "STORE"
    BY <1>3, <1>4, <2>1 DEF SameContent
  <2> QED BY <1>2, <2>2
<1>8. CASE ~stall_sigs.mem_stall
  <2>1. /\ NEW_PS["STORE"].instruction = PS["MEMORY"].instruction
        /\ NEW_PS["STORE"].V = PS["MEMORY"].V
        /\ SameContent(NEW_PS["MEMORY"], PS["AGEX"])
        /\ NEW_PS["AGEX"].instruction = PS["DECODE"].instruction
    BY <1>1, <1>5, <1>6, <1>8 DEF StoreLatched, MemoryLatched, AgexLatched, Stages
  <2>2. NEW_PS["STORE"].instruction = o /\ NEW_PS["STORE"].V <=> s = "MEMORY"
    BY <1>3, <1>4, <2>1 DEF Stages
  <2>3. NEW_PS["MEMORY"].instruction = o /\ NEW_PS["MEMORY"].V <=> s = "AGEX"
    BY <1>3, <1>4, <2>1 DEF Stages, SameContent
  <2>4. CASE stall_sigs.dep_stall
    <3>1. ~NEW_PS["AGEX"].V /\ SameContent(NEW_PS["DECODE"], PS["DECODE"])
      BY <1>1, <1>5, <1>8, <2>4 DEF AgexLatched, DecodeLatched
    <3>2. NEW_PS["DECODE"].instruction = o /\ NEW_PS["DECODE"].V <=> s = "DECODE"
      BY <1>3, <1>4, <3>1 DEF Stages, SameContent
    <3> QED BY <1>2, <2>2, <2>3, <3>1, <3>2 DEF Stages, Onward
  <2>5. CASE ~stall_sigs.dep_stall
    <3>1. /\ NEW_PS["AGEX"].V = PS["DECODE"].V
          /\ \A x \in Stages : NEW_PS["DECODE"].instruction # PS[x].instruction
      BY <1>1, <1>5, <1>6, <1>8, <2>5 DEF AgexLatched, DecodeLatched, Stages
    <3>2. NEW_PS["AGEX"].instruction = o /\ NEW_PS["AGEX"].V <=> s = "DECODE"
      BY <1>3, <1>4, <2>1, <3>1 DEF Stages
    <3>3. NEW_PS["DECODE"].instruction # o
      BY <1>3, <3>1
    <3> QED BY <1>2, <2>2, <2>3, <3>2, <3>3 DEF Stages, Onward
  <2> QED BY <2>4, <2>5
<1> QED BY <1>7, <1>8

(* Nothing is fetched down a path that a control instruction in AGEX or MEMORY has not
   chosen yet, however often the memory or the register file stalls the pipeline. *)
THEOREM ControlInterlockHolds == Spec => []ControlInterlock
BY ControlInvariantHolds, InterlockFollows, PTL

(* An object shared by two latches is valid in the youngest only, so no stage writes
   into an instruction that another stage is still executing. *)
THEOREM SharedObjectHolds == Spec => []SharedObjectHasOneOwner
<1>1. ControlInvariant => SharedObjectHasOneOwner
  BY DEF ControlInvariant, OneOwner, SharedObjectHasOneOwner
<1> QED BY <1>1, ControlInvariantHolds, PTL

(* The PC mux is never left selecting the target of a branch that is gone, although
   the code does not reset it for a branch that is not taken. *)
THEOREM NoStaleRedirectHolds == Spec => []NoStaleRedirect
BY ControlInvariantHolds, RedirectFollows, PTL

(* No stall, bubble or redirection loses a valid instruction or lets it run twice. *)
THEOREM InstructionsAdvanceHolds == Spec => InstructionsAdvance
<1>1. ControlInvariant /\ [Next]_vars => [Advance]_vars
  <2>1. ASSUME Next, at = "MOVE" PROVE MoveLatch
    BY <2>1 DEF Next, SR_stage, MEM_stage, AGEX_stage, DE_stage, FETCH_stage
  <2>2. at # "MOVE" => Advance
    BY DEF Advance
  <2> QED BY <2>1, <2>2, AdvanceFollows
<1> QED BY <1>1, ControlInvariantHolds, PTL DEF Spec, InstructionsAdvance

-----------------------------------------------------------------------------
(* OperandsFresh, proved from OperandsInvariant for every program, cache latency and
   control store. *)

(* The signals of the write-back survive the slices of the control word. *)
LEMMA ProducerSignals ==
  ASSUME NEW cs \in ControlWord, NEW x \in {"LD_REG", "LD_CC"}
  PROVE  /\ x \in ToAGEX_CS(cs) <=> x \in cs
         /\ x \in ToMEM_CS(ToAGEX_CS(cs)) <=> x \in cs
         /\ x \in ToSR_CS(ToMEM_CS(ToAGEX_CS(cs))) <=> x \in cs
<1>1. /\ AGEX_CS_BITS[19] = "LD_REG" /\ AGEX_CS_BITS[20] = "LD_CC"
      /\ MEM_CS_BITS[10] = "LD_REG" /\ MEM_CS_BITS[11] = "LD_CC"
      /\ SR_CS_BITS[3] = "LD_REG" /\ SR_CS_BITS[4] = "LD_CC"
  BY DEF AGEX_CS_BITS, MEM_CS_BITS, SR_CS_BITS
<1>2. x \in {AGEX_CS_BITS[k] : k \in 1..20}
  BY <1>1
<1>3. x \in {MEM_CS_BITS[k] : k \in 1..11}
  BY <1>1
<1>4. x \in {SR_CS_BITS[k] : k \in 1..4}
  BY <1>1
<1>5. ToAGEX_CS(cs) \in ControlWord /\ ToMEM_CS(ToAGEX_CS(cs)) \in ControlWord
  BY ControlWords
<1>6. /\ ToAGEX_CS(cs) = cs \cap {AGEX_CS_BITS[k] : k \in 1..20}
      /\ ToMEM_CS(ToAGEX_CS(cs)) = ToAGEX_CS(cs) \cap {MEM_CS_BITS[k] : k \in 1..11}
      /\ ToSR_CS(ToMEM_CS(ToAGEX_CS(cs))) = ToMEM_CS(ToAGEX_CS(cs)) \cap {SR_CS_BITS[k] : k \in 1..4}
  BY <1>5, ControlWordSlices
<1> QED BY <1>2, <1>3, <1>4, <1>6

(* A valid latch points to an object. *)
LEMMA ValidObjects ==
  ASSUME ControlInvariant, NEW s \in Stages
  PROVE  /\ PS[s].V => PS[s].instruction \in Obj
         /\ NEW_PS[s].V => NEW_PS[s].instruction \in Obj
         /\ PS[s].V \in BOOLEAN /\ NEW_PS[s].V \in BOOLEAN
<1>1. /\ PS[s].instruction \in Obj \cup {NULL} /\ NEW_PS[s].instruction \in Obj \cup {NULL}
      /\ PS[s].V \in BOOLEAN /\ NEW_PS[s].V \in BOOLEAN
  BY DEF ControlInvariant, TypeOK, Latch
<1>2. \A t \in Stages : PS[t].V => PS[t].instruction # NULL
  BY DEF ControlInvariant, Filled
<1>3. NEW_PS[s].V => NEW_PS[s].instruction # NULL
  BY <1>2 DEF ControlInvariant, NotYetLatched, StoreLatched, MemoryLatched, AgexLatched,
              DecodeLatched, SameContent, Stages
<1> QED BY <1>1, <1>2, <1>3

(* What the stages do to the objects. *)
LEMMA MEM_stageHeap ==
  ASSUME ControlInvariant, MEM_stage
  PROVE  \E data \in Word : \A x \in Obj :
           heap'[x] = IF x = PS["MEMORY"].instruction THEN Accessed(heap[x], data) ELSE heap[x]
<1> DEFINE o == PS["MEMORY"].instruction
<1>1. TypeOK /\ TypeOK' /\ 0 \in Word
  BY MEM_stageType, Sizes DEF ControlInvariant, Word
<1>2. CASE o \notin Obj
  <2>1. heap' = heap
    BY <1>1, <1>2 DEF MEM_stage, TypeOK, Latch, Stages
  <2> QED BY <1>1, <1>2, <2>1
<1>3. CASE o \in Obj
  <2>1. PICK data : heap' = [heap EXCEPT ![o] = Accessed(heap[o], data)]
    BY <1>1, <1>3, MEM_stageEffect
  <2>2. \A x \in Obj : heap'[x] = IF x = o THEN Accessed(heap[x], data) ELSE heap[x]
    BY <1>1, <1>3, <2>1 DEF TypeOK
  <2>3. heap[o] \in Instruction /\ heap'[o] \in Instruction
    BY <1>1, <1>3 DEF TypeOK
  <2>4. Accessed(heap[o], data).DATA = data /\ heap'[o].DATA \in Word
    BY <2>3 DEF Accessed, Instruction
  <2>5. data \in Word
    BY <1>3, <2>2, <2>4
  <2> QED BY <2>2, <2>5
<1> QED BY <1>2, <1>3

LEMMA AGEX_stageHeap ==
  ASSUME ControlInvariant, AGEX_stage, NEW x \in Obj
  PROVE  heap'[x] = IF x = PS["AGEX"].instruction /\ ~stall_sigs.mem_stall
                    THEN Executed(heap[x]) ELSE heap[x]
<1>1. TypeOK
  BY DEF ControlInvariant
<1>2. PS["AGEX"].instruction = NULL => heap' = heap
  BY DEF AGEX_stage
<1>3. PS["AGEX"].instruction # NULL =>
        heap' = IF stall_sigs.mem_stall THEN heap
                ELSE [heap EXCEPT ![PS["AGEX"].instruction] = Executed(heap[PS["AGEX"].instruction])]
  BY DEF AGEX_stage
<1> QED BY <1>1, <1>2, <1>3, ObjAssumption DEF TypeOK

LEMMA DE_stageHeap ==
  ASSUME ControlInvariant, DE_stage, NEW x \in Obj
  PROVE  heap'[x] = IF x = PS["DECODE"].instruction /\ ~stall_sigs.mem_stall
                    THEN Decoded(heap[x], UcodeOf(x), REGS[SR1_ID(heap[x].IR)],
                                 REGS[SR2_ID(heap[x].IR)], NZP)
                    ELSE heap[x]
<1> DEFINE o == PS["DECODE"].instruction
           decoded == Decoded(heap[o], UcodeOf(o), REGS[SR1_ID(heap[o].IR)], REGS[SR2_ID(heap[o].IR)], NZP)
<1>1. TypeOK
  BY DEF ControlInvariant
<1>2. o = NULL => heap' = heap
  BY DEF DE_stage
<1>3. o # NULL => heap' = IF stall_sigs.mem_stall THEN heap ELSE [heap EXCEPT ![o] = decoded]
  BY DEF DE_stage, UcodeOf
<1>4. heap'[x] = IF x = o /\ ~stall_sigs.mem_stall THEN decoded ELSE heap[x]
  <2> HIDE DEF decoded
  <2> QED BY <1>1, <1>2, <1>3, ObjAssumption DEF TypeOK
<1> QED BY <1>4

LEMMA FETCH_stageHeap ==
  ASSUME ControlInvariant, FETCH_stage, NEW x \in Referenced, x \in Obj
  PROVE  heap'[x] = heap[x]
<1>1. heap' = heap \/ \E o \in Obj : \E inst : IsFree(o) /\ heap' = [heap EXCEPT ![o] = inst]
  BY DEF FETCH_stage
<1> QED BY <1>1 DEF ControlInvariant, TypeOK, IsFree

(* What FETCH_stage does, for either answer of the instruction cache. *)
LEMMA FETCH_stageEffect ==
  ASSUME ControlInvariant, FETCH_stage
  PROVE  \E icache_r \in BOOLEAN :
           /\ PC' = IF ~IsStallDetected(icache_r) THEN NewPC(Add(PC, 2)) ELSE PC
           /\ DecodeHeld => SameContent(NEW_PS'["DECODE"], PS["DECODE"])
           /\ ~DecodeHeld =>
                \E o \in Obj :
                  /\ NEW_PS'["DECODE"].instruction = o
                  /\ NEW_PS'["DECODE"].V = (~IsStallDetected(icache_r) /\ ~stall_sigs.v_mem_br_stall)
                  /\ heap'[o].NPC = Add(PC, 2)
                  /\ icache_r => heap'[o].IR = GetWordAt(memory, WordAddress(PC))
<1>1. TypeOK /\ NEW_PS["DECODE"] \in Latch
  BY DEF ControlInvariant, TypeOK, Stages
<1>2. PICK random \in ICACHE_RANDOM :
        LET icache_r    == random = 0
            instruction == IF icache_r THEN GetWordAt(memory, WordAddress(PC)) ELSE NotReadyWord
            de_npc      == Add(PC, 2)
            load_pc     == ~IsStallDetected(icache_r)
        IN  /\ PC' = IF load_pc THEN NewPC(de_npc) ELSE PC
            /\ IF DecodeHeld
               THEN NEW_PS' = [NEW_PS EXCEPT !["DECODE"] =
                                 Load(NEW_PS["DECODE"], PS["DECODE"].instruction, PS["DECODE"].V)]
               ELSE \E o \in Obj :
                      /\ heap' = [heap EXCEPT ![o] = Create(instruction, de_npc)]
                      /\ NEW_PS' = [NEW_PS EXCEPT !["DECODE"] =
                                      Load(NEW_PS["DECODE"], o,
                                           load_pc /\ ~stall_sigs.v_mem_br_stall)]
  BY DEF FETCH_stage
<1> DEFINE icache_r    == random = 0
           instruction == IF icache_r THEN GetWordAt(memory, WordAddress(PC)) ELSE NotReadyWord
           load_pc     == ~IsStallDetected(icache_r)
<1>3. DecodeHeld => SameContent(NEW_PS'["DECODE"], PS["DECODE"])
  <2> SUFFICES ASSUME DecodeHeld PROVE SameContent(NEW_PS'["DECODE"], PS["DECODE"])
    OBVIOUS
  <2>1. NEW_PS'["DECODE"] = Load(NEW_PS["DECODE"], PS["DECODE"].instruction, PS["DECODE"].V)
    BY <1>1, <1>2 DEF TypeOK, Stages
  <2> QED BY <1>1, <2>1, LoadContent DEF SameContent
<1>4. ASSUME ~DecodeHeld
      PROVE  \E o \in Obj :
               /\ NEW_PS'["DECODE"].instruction = o
               /\ NEW_PS'["DECODE"].V = (load_pc /\ ~stall_sigs.v_mem_br_stall)
               /\ heap'[o].NPC = Add(PC, 2)
               /\ icache_r => heap'[o].IR = GetWordAt(memory, WordAddress(PC))
  <2>1. PICK o \in Obj :
          /\ heap' = [heap EXCEPT ![o] = Create(instruction, Add(PC, 2))]
          /\ NEW_PS' = [NEW_PS EXCEPT !["DECODE"] =
                          Load(NEW_PS["DECODE"], o, load_pc /\ ~stall_sigs.v_mem_br_stall)]
    BY <1>2, <1>4
  <2>2. NEW_PS'["DECODE"] = Load(NEW_PS["DECODE"], o, load_pc /\ ~stall_sigs.v_mem_br_stall)
    BY <1>1, <2>1 DEF TypeOK, Stages
  <2>3. heap'[o] = Create(instruction, Add(PC, 2))
    BY <1>1, <2>1 DEF TypeOK
  <2>4. heap'[o].NPC = Add(PC, 2) /\ heap'[o].IR = instruction
    BY <2>3 DEF Create
  <2> QED BY <1>1, <2>2, <2>4, LoadContent
<1> QED BY <1>2, <1>3, <1>4

(* What is in flight keeps its place; only the latch of DECODE is filled. *)
LEMMA FETCH_stageKeeps ==
  ASSUME ControlInvariant, FETCH_stage
  PROVE  /\ at = "FETCH" /\ at' = "MOVE"
         /\ UNCHANGED <<REGS, NZP, memory, PS, memory_sigs, store_sigs>>
         /\ stall_sigs'.mem_stall = stall_sigs.mem_stall
         /\ DecodeHeld' = DecodeHeld
         /\ \A s \in Stages : NEW_PS'[s].MEM_CS = NEW_PS[s].MEM_CS
         /\ \A s \in Stages \ {"DECODE"} : NEW_PS'[s] = NEW_PS[s]
         /\ \A s \in Stages :
              PS[s].V => heap'[PS[s].instruction] = heap[PS[s].instruction]
         /\ \A s \in Stages \ {"DECODE"} :
              NEW_PS[s].V => heap'[NEW_PS[s].instruction] = heap[NEW_PS[s].instruction]
<1>1. TypeOK
  BY DEF ControlInvariant
<1>2. /\ at = "FETCH" /\ at' = "MOVE"
      /\ UNCHANGED <<REGS, NZP, memory, PS, memory_sigs, store_sigs>>
  BY DEF FETCH_stage
<1>3. \E b : stall_sigs' = [stall_sigs EXCEPT !.icache_r = b]
  BY DEF FETCH_stage
<1>4. /\ stall_sigs'.mem_stall = stall_sigs.mem_stall
      /\ stall_sigs'.dep_stall = stall_sigs.dep_stall
  BY <1>1, <1>3 DEF TypeOK, Stall_Entry
<1>5. DecodeHeld' = DecodeHeld
  BY <1>4 DEF DecodeHeld
<1>6. \E o, v : NEW_PS' = [NEW_PS EXCEPT !["DECODE"] = Load(NEW_PS["DECODE"], o, v)]
  BY DEF FETCH_stage
<1>7. /\ \A s \in Stages : NEW_PS'[s].MEM_CS = NEW_PS[s].MEM_CS
      /\ \A s \in Stages \ {"DECODE"} : NEW_PS'[s] = NEW_PS[s]
  BY <1>1, <1>6 DEF TypeOK, Load, Latch, Stages
<1>8. \A x \in Obj \cap Referenced : heap'[x] = heap[x]
  BY FETCH_stageHeap
<1>9. /\ \A s \in Stages : PS[s].V => PS[s].instruction \in Obj \cap Referenced
      /\ \A s \in Stages \ {"DECODE"} : NEW_PS[s].V => NEW_PS[s].instruction \in Obj \cap Referenced
  BY ValidObjects DEF Referenced
<1> QED BY <1>2, <1>4, <1>5, <1>7, <1>8, <1>9

-----------------------------------------------------------------------------
LEMMA OperandsInit == Init => OperandsInvariant
<1> SUFFICES ASSUME Init PROVE OperandsInvariant
  OBVIOUS
<1>1. /\ \A s \in Stages : /\ PS[s].instruction = NULL /\ PS[s].V = FALSE
                           /\ NEW_PS[s].instruction = NULL /\ NEW_PS[s].V = FALSE
      /\ at = "SR" /\ ~store_sigs.v_sr_ld_reg /\ ~store_sigs.v_sr_ld_cc
  BY DEF Init, EmptyLatch
<1>2. ~AfterMEM /\ ~AfterAGEX /\ ~AfterDE
  BY <1>1 DEF AfterMEM, AfterAGEX, AfterDE
<1>3. DestinationsFollow
  BY <1>1, ObjAssumption DEF DestinationsFollow, Past, Stages
<1>4. WriteBackSelected /\ ProducersAnnounced
  BY <1>1, <1>2 DEF WriteBackSelected, ProducersAnnounced
<1>5. OperandsHold
  BY <1>1, <1>2 DEF OperandsHold, Fresh, Stages
<1> QED BY <1>3, <1>4, <1>5 DEF OperandsInvariant

(* Where the objects keep their instructions nothing changes in what they write. *)
LEMMA SameWriters ==
  ASSUME NEW o \in Obj, heap'[o].IR = heap[o].IR
  PROVE  UcodeOf(o)' = UcodeOf(o) /\ Dest(o)' = Dest(o)
BY DEF UcodeOf, Dest

(* SR_stage selects the write-back of the instruction in STORE. *)
LEMMA SR_stageOperands == ControlInvariant /\ OperandsInvariant /\ SR_stage => OperandsInvariant'
<1> SUFFICES ASSUME ControlInvariant, OperandsInvariant, SR_stage PROVE OperandsInvariant'
  OBVIOUS
<1> DEFINE o == PS["STORE"].instruction
<1>1. /\ at = "SR" /\ at' = "MEM"
      /\ UNCHANGED <<REGS, NZP, heap, PS, NEW_PS>>
  BY DEF SR_stage, State
<1>2. /\ ~AfterMEM' /\ ~AfterAGEX' /\ ~AfterDE' /\ ~AfterDE
  BY <1>1 DEF AfterMEM, AfterAGEX, AfterDE
<1>3. DestinationsFollow'
  BY <1>1 DEF OperandsInvariant, DestinationsFollow, Past, Dest, UcodeOf
<1>4. WriteBackSelected'
  <2>1. CASE o = NULL
    <3>1. store_sigs' = store_sigs /\ ~PS["STORE"].V
      BY <1>1, <2>1 DEF SR_stage, ControlInvariant, Filled, Stages
    <3> QED BY <1>1, <2>1, <3>1 DEF OperandsInvariant, WriteBackSelected, Writes, SetsCodes
  <2>2. CASE o # NULL
    <3>1. o \in Obj
      BY <2>2 DEF ControlInvariant, TypeOK, Latch, Stages
    <3>2. heap[o].DRID = Dest(o) /\ heap[o].SR_CS = ToSR_CS(ToMEM_CS(ToAGEX_CS(UcodeOf(o))))
      BY <3>1 DEF OperandsInvariant, DestinationsFollow, Past
    <3>3. /\ "LD_REG" \in heap[o].SR_CS <=> "LD_REG" \in UcodeOf(o)
          /\ "LD_CC" \in heap[o].SR_CS <=> "LD_CC" \in UcodeOf(o)
      BY <3>1, <3>2, UcodeOfType, ProducerSignals DEF ControlInvariant
    <3>4. /\ store_sigs'.v_sr_ld_reg = ("LD_REG" \in heap[o].SR_CS /\ PS["STORE"].V)
          /\ store_sigs'.v_sr_ld_cc = ("LD_CC" \in heap[o].SR_CS /\ PS["STORE"].V)
          /\ store_sigs'.sr_drid = heap[o].DRID
      BY <2>2 DEF SR_stage
    <3>5. UcodeOf(o)' = UcodeOf(o) /\ Dest(o)' = Dest(o)
      BY <1>1 DEF UcodeOf, Dest
    <3> QED BY <1>1, <2>2, <3>2, <3>3, <3>4, <3>5 DEF WriteBackSelected, Writes, SetsCodes
  <2> QED BY <2>1, <2>2
<1>5. ProducersAnnounced'
  BY <1>2 DEF ProducersAnnounced
<1>6. OperandsHold'
  BY <1>1, <1>2 DEF OperandsInvariant, OperandsHold, Fresh, Writes, SetsCodes, Dest, UcodeOf
<1> QED BY <1>3, <1>4, <1>5, <1>6 DEF OperandsInvariant

(* MEM_stage and AGEX_stage leave the operands of every object alone. *)
LEMMA FreshKept ==
  ASSUME ControlInvariant, OperandsInvariant, ~AfterDE, ~AfterDE',
         UNCHANGED <<REGS, NZP, PS>>,
         \A x \in Obj : /\ heap'[x].IR = heap[x].IR /\ heap'[x].CC = heap[x].CC
                         /\ heap'[x].SR1 = heap[x].SR1 /\ heap'[x].SR2 = heap[x].SR2
  PROVE  OperandsHold'
<1>1. \A x \in Obj : UcodeOf(x)' = UcodeOf(x) /\ Dest(x)' = Dest(x)
  BY SameWriters
<1>2. \A s \in Stages : PS[s].V => PS[s].instruction \in Obj
  BY ValidObjects
<1>3. \A s \in Stages : \A r : Writes(PS[s], r)' <=> Writes(PS[s], r)
  BY <1>1, <1>2 DEF Writes
<1>4. \A s \in Stages : SetsCodes(PS[s])' <=> SetsCodes(PS[s])
  BY <1>1, <1>2 DEF SetsCodes
<1> SUFFICES ASSUME NEW s \in {"AGEX", "MEMORY", "STORE"} PROVE Fresh(PS, s)'
  BY DEF OperandsHold
<1>5. Fresh(PS, s)
  BY DEF OperandsInvariant, OperandsHold
<1>6. Older(s) \subseteq Stages
  BY DEF Older, Stages
<1> QED BY <1>1, <1>2, <1>3, <1>4, <1>5, <1>6 DEF Fresh, Stages

(* What MEM_stage tells the other stages. *)
LEMMA MEM_stageSignals ==
  ASSUME MEM_stage, PS["MEMORY"].instruction # NULL
  PROVE  LET latch == PS["MEMORY"]
             inst  == heap[latch.instruction]
         IN  /\ memory_sigs'.target_pc = inst.ADDRESS
             /\ memory_sigs'.mem_pc_mux = MemPcMux(inst, latch.V)
             /\ memory_sigs'.v_mem_ld_cc = (latch.V /\ "LD_CC" \in inst.MEM_CS)
             /\ memory_sigs'.v_mem_ld_reg = (latch.V /\ "LD_REG" \in inst.MEM_CS)
             /\ memory_sigs'.mem_drid = inst.DRID
<1> DEFINE latch == PS["MEMORY"]
           inst  == heap[latch.instruction]
<1>1. PICK random \in DCACHE_RANDOM :
        LET mdr_out == IF random = 0 THEN GetWordAt(memory, WordAddress(inst.ADDRESS)) ELSE NotReadyWord
        IN  memory_sigs' =
              [target_pc    |-> inst.ADDRESS,
               trap_pc      |-> IF "DCACHE_EN" \in inst.MEM_CS /\ latch.V
                                THEN LoadedValue(inst, mdr_out) ELSE 0,
               mem_pc_mux   |-> MemPcMux(inst, latch.V),
               v_mem_ld_cc  |-> latch.V /\ "LD_CC" \in inst.MEM_CS,
               v_mem_ld_reg |-> latch.V /\ "LD_REG" \in inst.MEM_CS,
               mem_drid     |-> inst.DRID]
  BY DEF MEM_stage
<1> QED BY <1>1

LEMMA MEM_stageOperands == ControlInvariant /\ OperandsInvariant /\ MEM_stage => OperandsInvariant'
<1> SUFFICES ASSUME ControlInvariant, OperandsInvariant, MEM_stage PROVE OperandsInvariant'
  OBVIOUS
<1> DEFINE o == PS["MEMORY"].instruction
<1>0. ControlInvariant'
  BY MEM_stageControl
<1>1. /\ at = "MEM" /\ at' = "AGEX"
      /\ UNCHANGED <<REGS, NZP, PS, store_sigs>>
  BY DEF MEM_stage
<1>2. AfterMEM' /\ ~AfterAGEX' /\ ~AfterDE' /\ ~AfterDE
  BY <1>1 DEF AfterMEM, AfterAGEX, AfterDE
<1>3. PICK data \in Word : \A x \in Obj :
        heap'[x] = IF x = o THEN Accessed(heap[x], data) ELSE heap[x]
  BY MEM_stageHeap
<1>4. \A x \in Obj : heap[x] \in Instruction
  BY DEF ControlInvariant, TypeOK
<1>5. \A x \in Obj :
        /\ heap'[x].IR = heap[x].IR /\ heap'[x].CC = heap[x].CC
        /\ heap'[x].SR1 = heap[x].SR1 /\ heap'[x].SR2 = heap[x].SR2
        /\ heap'[x].DRID = heap[x].DRID
        /\ heap'[x].AGEX_CS = heap[x].AGEX_CS /\ heap'[x].MEM_CS = heap[x].MEM_CS
        /\ heap'[x].SR_CS = IF x = o THEN ToSR_CS(heap[x].MEM_CS) ELSE heap[x].SR_CS
  BY <1>3, <1>4 DEF Accessed, Instruction
<1>6. \A x \in Obj : UcodeOf(x)' = UcodeOf(x) /\ Dest(x)' = Dest(x)
  BY <1>5, SameWriters
<1>7. \A s \in Stages : PS[s].V => PS[s].instruction \in Obj
  BY ValidObjects
<1>8. \A s \in Stages : /\ \A r : Writes(PS[s], r)' <=> Writes(PS[s], r)
                        /\ SetsCodes(PS[s])' <=> SetsCodes(PS[s])
  BY <1>1, <1>6, <1>7 DEF Writes, SetsCodes
<1>9. DestinationsFollow'
  <2>1. Past("AGEX")' = Past("AGEX") /\ Past("MEMORY")' = Past("MEMORY")
    <3>1. \A s \in Stages \ {"STORE"} : NEW_PS'[s] = NEW_PS[s]
      BY DEF MEM_stage, ControlInvariant, TypeOK
    <3> QED BY <1>1, <3>1 DEF Past, Stages
  <2>2. \A x \in Past("STORE")' : x \in Past("STORE") \/ x = o
    BY <1>0, <1>1, <1>2 DEF Past, ControlInvariant, StoreLatched
  <2>3. o \in Obj => /\ heap[o].AGEX_CS = ToAGEX_CS(UcodeOf(o))
                     /\ heap[o].MEM_CS = ToMEM_CS(heap[o].AGEX_CS)
    BY DEF ControlInvariant, WordsFollow, Past
  <2>4. o \in Past("MEMORY")
    BY DEF Past
  <2> QED BY <1>5, <1>6, <2>1, <2>2, <2>3, <2>4 DEF OperandsInvariant, DestinationsFollow
<1>10. WriteBackSelected'
  BY <1>1, <1>8 DEF OperandsInvariant, WriteBackSelected, Stages
<1>11. ProducersAnnounced'
  <2>1. CASE o = NULL
    <3>1. ~PS["MEMORY"].V
      BY <2>1 DEF ControlInvariant, Filled, Stages
    <3> QED BY <1>1, <1>2, <3>1 DEF ProducersAnnounced, Writes, SetsCodes
  <2>2. CASE o # NULL
    <3>1. o \in Obj
      BY <2>2 DEF ControlInvariant, TypeOK, Latch, Stages
    <3>2. /\ memory_sigs'.v_mem_ld_cc = (PS["MEMORY"].V /\ "LD_CC" \in heap[o].MEM_CS)
          /\ memory_sigs'.v_mem_ld_reg = (PS["MEMORY"].V /\ "LD_REG" \in heap[o].MEM_CS)
          /\ memory_sigs'.mem_drid = heap[o].DRID
      BY <2>2, MEM_stageSignals
    <3>3. heap[o].MEM_CS = ToMEM_CS(ToAGEX_CS(UcodeOf(o))) /\ heap[o].DRID = Dest(o)
      BY <3>1 DEF ControlInvariant, WordsFollow, OperandsInvariant, DestinationsFollow, Past
    <3>4. /\ "LD_REG" \in heap[o].MEM_CS <=> "LD_REG" \in UcodeOf(o)
          /\ "LD_CC" \in heap[o].MEM_CS <=> "LD_CC" \in UcodeOf(o)
      BY <3>1, <3>3, UcodeOfType, ProducerSignals DEF ControlInvariant
    <3>5. /\ \A r : Writes(PS["MEMORY"], r) => memory_sigs'.v_mem_ld_reg /\ memory_sigs'.mem_drid = r
          /\ SetsCodes(PS["MEMORY"]) => memory_sigs'.v_mem_ld_cc
      BY <3>2, <3>3, <3>4 DEF Writes, SetsCodes
    <3> QED BY <1>2, <1>8, <3>5 DEF ProducersAnnounced, Stages
  <2> QED BY <2>1, <2>2
<1>12. OperandsHold'
  BY <1>1, <1>2, <1>5, FreshKept
<1> QED BY <1>9, <1>10, <1>11, <1>12 DEF OperandsInvariant

LEMMA AGEX_stageOperands == ControlInvariant /\ OperandsInvariant /\ AGEX_stage => OperandsInvariant'
<1> SUFFICES ASSUME ControlInvariant, OperandsInvariant, AGEX_stage PROVE OperandsInvariant'
  OBVIOUS
<1> DEFINE o == PS["AGEX"].instruction
<1>0. ControlInvariant'
  BY AGEX_stageControl
<1>1. /\ at = "AGEX" /\ at' = "DE"
      /\ UNCHANGED <<REGS, NZP, PS, store_sigs, memory_sigs>>
  BY DEF AGEX_stage, State
<1>2. AfterMEM /\ AfterMEM' /\ AfterAGEX' /\ ~AfterDE' /\ ~AfterDE
  BY <1>1 DEF AfterMEM, AfterAGEX, AfterDE
<1>3. \A x \in Obj : heap'[x] = IF x = o /\ ~stall_sigs.mem_stall THEN Executed(heap[x]) ELSE heap[x]
  BY AGEX_stageHeap
<1>4. \A x \in Obj : heap[x] \in Instruction
  BY DEF ControlInvariant, TypeOK
<1>5. \A x \in Obj :
        /\ heap'[x].IR = heap[x].IR /\ heap'[x].CC = heap[x].CC
        /\ heap'[x].SR1 = heap[x].SR1 /\ heap'[x].SR2 = heap[x].SR2
        /\ heap'[x].DRID = heap[x].DRID /\ heap'[x].AGEX_CS = heap[x].AGEX_CS
        /\ heap'[x].SR_CS = heap[x].SR_CS
        /\ heap'[x].MEM_CS = IF x = o /\ ~stall_sigs.mem_stall
                             THEN ToMEM_CS(heap[x].AGEX_CS) ELSE heap[x].MEM_CS
  BY <1>3, <1>4 DEF Executed, Instruction
<1>6. \A x \in Obj : UcodeOf(x)' = UcodeOf(x) /\ Dest(x)' = Dest(x)
  BY <1>5, SameWriters
<1>7. \A s \in Stages : PS[s].V => PS[s].instruction \in Obj
  BY ValidObjects
<1>8. \A s \in Stages : /\ \A r : Writes(PS[s], r)' <=> Writes(PS[s], r)
                        /\ SetsCodes(PS[s])' <=> SetsCodes(PS[s])
  BY <1>1, <1>6, <1>7 DEF Writes, SetsCodes
<1>9. DestinationsFollow'
  <2>1. Past("AGEX")' = Past("AGEX") /\ Past("STORE")' = Past("STORE")
    <3>1. \A s \in Stages \ {"MEMORY"} : NEW_PS'[s] = NEW_PS[s]
      BY DEF AGEX_stage, ControlInvariant, TypeOK
    <3> QED BY <1>1, <3>1 DEF Past, Stages
  <2>2. \A x \in Past("MEMORY")' : x \in Past("MEMORY") \/ x = o
    BY <1>0, <1>1, <1>2 DEF Past, ControlInvariant, MemoryLatched, SameContent
  <2>3. o \in Past("AGEX")
    BY DEF Past
  <2> QED BY <1>5, <1>6, <2>1, <2>2, <2>3 DEF OperandsInvariant, DestinationsFollow
<1>10. WriteBackSelected'
  BY <1>1, <1>8 DEF OperandsInvariant, WriteBackSelected, Stages
<1>11. ProducersAnnounced'
  <2>1. /\ \A r \in RegisterId :
             Writes(PS["MEMORY"], r)' => memory_sigs'.v_mem_ld_reg /\ memory_sigs'.mem_drid = r
        /\ SetsCodes(PS["MEMORY"])' => memory_sigs'.v_mem_ld_cc
    BY <1>1, <1>2, <1>8 DEF OperandsInvariant, ProducersAnnounced, Stages
  <2>2. CASE o = NULL
    <3>1. ~PS["AGEX"].V
      BY <2>2 DEF ControlInvariant, Filled, Stages
    <3>2. \A r : ~Writes(PS["AGEX"], r)' /\ ~SetsCodes(PS["AGEX"])'
      BY <1>1, <3>1 DEF Writes, SetsCodes
    <3> QED BY <2>1, <3>2 DEF ProducersAnnounced
  <2>3. CASE o # NULL
    <3>1. o \in Obj
      BY <2>3 DEF ControlInvariant, TypeOK, Latch, Stages
    <3>2. /\ agex_sigs'.v_agex_ld_cc = (PS["AGEX"].V /\ "LD_CC" \in heap[o].AGEX_CS)
          /\ agex_sigs'.v_agex_ld_reg = (PS["AGEX"].V /\ "LD_REG" \in heap[o].AGEX_CS)
          /\ agex_sigs'.agex_drid = heap[o].DRID
      BY <2>3 DEF AGEX_stage
    <3>3. heap[o].AGEX_CS = ToAGEX_CS(UcodeOf(o)) /\ heap[o].DRID = Dest(o)
      BY <3>1 DEF ControlInvariant, WordsFollow, OperandsInvariant, DestinationsFollow, Past
    <3>4. /\ "LD_REG" \in heap[o].AGEX_CS <=> "LD_REG" \in UcodeOf(o)
          /\ "LD_CC" \in heap[o].AGEX_CS <=> "LD_CC" \in UcodeOf(o)
      BY <3>1, <3>3, UcodeOfType, ProducerSignals DEF ControlInvariant
    <3>5. /\ \A r : Writes(PS["AGEX"], r) => agex_sigs'.v_agex_ld_reg /\ agex_sigs'.agex_drid = r
          /\ SetsCodes(PS["AGEX"]) => agex_sigs'.v_agex_ld_cc
      BY <3>2, <3>3, <3>4 DEF Writes, SetsCodes
    <3> QED BY <1>8, <2>1, <3>5 DEF ProducersAnnounced, Stages
  <2> QED BY <2>2, <2>3
<1>12. OperandsHold'
  BY <1>1, <1>2, <1>5, FreshKept
<1> QED BY <1>9, <1>10, <1>11, <1>12 DEF OperandsInvariant

(* What each latch behind DECODE holds once DE_stage has run: the instruction of the
   stage before, or its own while memory is waited for. *)
MovesOn ==
  /\ NEW_PS["STORE"].instruction = PS["MEMORY"].instruction
  /\ NEW_PS["STORE"].V <=> PS["MEMORY"].V /\ ~stall_sigs.mem_stall
  /\ stall_sigs.mem_stall => /\ SameContent(NEW_PS["MEMORY"], PS["MEMORY"])
                             /\ SameContent(NEW_PS["AGEX"], PS["AGEX"])
  /\ ~stall_sigs.mem_stall =>
       /\ SameContent(NEW_PS["MEMORY"], PS["AGEX"])
       /\ NEW_PS["AGEX"].instruction = PS["DECODE"].instruction
       /\ NEW_PS["AGEX"].V <=> ~stall_sigs.dep_stall /\ PS["DECODE"].V

LEMMA Moves == ControlInvariant /\ AfterDE => MovesOn
<1> SUFFICES ASSUME ControlInvariant, AfterDE PROVE MovesOn
  OBVIOUS
<1>1. AfterMEM /\ AfterAGEX
  BY DEF AfterMEM, AfterAGEX, AfterDE
<1>2. StoreLatched /\ MemoryLatched /\ AgexLatched
  BY DEF ControlInvariant
<1>3. NEW_PS["STORE"].V <=> PS["MEMORY"].V /\ ~stall_sigs.mem_stall
  BY <1>1, <1>2 DEF StoreLatched
<1> QED BY <1>1, <1>2, <1>3 DEF MovesOn, StoreLatched, MemoryLatched, AgexLatched

(* An instruction that DE_stage lets go waits for nothing. *)
LEMMA NothingPending ==
  ASSUME ControlInvariant, OperandsInvariant, at = "DE", NEW o \in Obj, o = PS["DECODE"].instruction,
         PS["DECODE"].V, ~CheckForDataDependencies(heap[o], PS["DECODE"].V)
  PROVE  LET free(r) == \A s \in {"AGEX", "MEMORY", "STORE"} : ~Writes(PS[s], r)
         IN  /\ "SR1_NEEDED" \in UcodeOf(o) => free(SR1_ID(heap[o].IR))
             /\ "SR2_NEEDED" \in UcodeOf(o) => free(SR2_ID(heap[o].IR))
             /\ "BR_OP" \in UcodeOf(o) => \A s \in {"AGEX", "MEMORY", "STORE"} : ~SetsCodes(PS[s])
<1> DEFINE free(r) == \A s \in {"AGEX", "MEMORY", "STORE"} : ~Writes(PS[s], r)
<1>1. AfterMEM /\ AfterAGEX /\ at # "SR"
  BY DEF AfterMEM, AfterAGEX
<1>2. heap[o].IR \in Word
  BY DEF ControlInvariant, TypeOK, Instruction
<1>3. SR1_ID(heap[o].IR) \in RegisterId /\ SR2_ID(heap[o].IR) \in RegisterId
  BY <1>2, RegisterNumbers
<1>4. \A r \in RegisterId : ~RegisterPending(r) => free(r)
  BY <1>1 DEF RegisterPending, OperandsInvariant, WriteBackSelected, ProducersAnnounced
<1>5. ~CodesPending => \A s \in {"AGEX", "MEMORY", "STORE"} : ~SetsCodes(PS[s])
  BY <1>1 DEF CodesPending, OperandsInvariant, WriteBackSelected, ProducersAnnounced
<1> HIDE DEF free
<1>6. /\ "SR1_NEEDED" \in UcodeOf(o) => ~RegisterPending(SR1_ID(heap[o].IR))
      /\ "SR2_NEEDED" \in UcodeOf(o) => ~RegisterPending(SR2_ID(heap[o].IR))
      /\ "BR_OP" \in UcodeOf(o) => ~CodesPending
  BY DEF CheckForDataDependencies, UcodeOf
<1>7. /\ "SR1_NEEDED" \in UcodeOf(o) => free(SR1_ID(heap[o].IR))
      /\ "SR2_NEEDED" \in UcodeOf(o) => free(SR2_ID(heap[o].IR))
  BY <1>3, <1>4, <1>6
<1> QED BY <1>5, <1>6, <1>7 DEF free

(* DE_stage writes back for the instruction in STORE, and for it alone. *)
LEMMA WriteBackEffect ==
  ASSUME ControlInvariant, OperandsInvariant, DE_stage
  PROVE  /\ \A r \in RegisterId : ~Writes(PS["STORE"], r) => REGS'[r] = REGS[r]
         /\ ~SetsCodes(PS["STORE"]) => NZP' = NZP
<1>1. at # "SR" /\ REGS \in [RegisterId -> Word]
  BY DEF DE_stage, ControlInvariant, TypeOK
<1>2. (REGS' = REGS /\ NZP' = NZP) \/ WriteBack
  BY DEF DE_stage
<1> QED BY <1>1, <1>2 DEF WriteBack, OperandsInvariant, WriteBackSelected

(* What has to be shown of an instruction that arrives in a latch. *)
LEMMA FreshArrives ==
  ASSUME NEW s \in {"AGEX", "MEMORY", "STORE"}, NEW x \in Obj, x = NEW_PS'[s].instruction,
         heap'[x].IR = heap[x].IR,
         "SR1_NEEDED" \in UcodeOf(x) =>
           /\ heap'[x].SR1 = REGS'[SR1_ID(heap[x].IR)]
           /\ \A t \in Older(s) : ~Writes(NEW_PS[t], SR1_ID(heap[x].IR))',
         "SR2_NEEDED" \in UcodeOf(x) =>
           /\ heap'[x].SR2 = REGS'[SR2_ID(heap[x].IR)]
           /\ \A t \in Older(s) : ~Writes(NEW_PS[t], SR2_ID(heap[x].IR))',
         "BR_OP" \in UcodeOf(x) =>
           heap'[x].CC = NZP' /\ \A t \in Older(s) : ~SetsCodes(NEW_PS[t])'
  PROVE  Fresh(NEW_PS, s)'
BY DEF Fresh, UcodeOf

LEMMA DE_stageOperands == ControlInvariant /\ OperandsInvariant /\ DE_stage => OperandsInvariant'
<1> SUFFICES ASSUME ControlInvariant, OperandsInvariant, DE_stage PROVE OperandsInvariant'
  OBVIOUS
<1> DEFINE o == PS["DECODE"].instruction
           stall == stall_sigs.mem_stall
<1>0. ControlInvariant' /\ TypeOK
  BY DE_stageControl DEF ControlInvariant
<1>1. /\ at = "DE" /\ at' = "FETCH"
      /\ UNCHANGED <<PS, store_sigs, memory_sigs, agex_sigs>>
  BY DEF DE_stage
<1>2. AfterMEM /\ AfterAGEX /\ AfterMEM' /\ AfterAGEX' /\ AfterDE' /\ ~AfterDE
  BY <1>1 DEF AfterMEM, AfterAGEX, AfterDE
<1>3. \A x \in Obj : heap'[x] = IF x = o /\ ~stall
                               THEN Decoded(heap[x], UcodeOf(x), REGS[SR1_ID(heap[x].IR)],
                                            REGS[SR2_ID(heap[x].IR)], NZP)
                               ELSE heap[x]
  BY DE_stageHeap
<1>4. \A x \in Obj : heap[x] \in Instruction
  BY <1>0 DEF TypeOK
<1>5. \A x \in Obj :
        /\ heap'[x].IR = heap[x].IR
        /\ heap'[x].MEM_CS = heap[x].MEM_CS /\ heap'[x].SR_CS = heap[x].SR_CS
        /\ heap'[x].AGEX_CS = IF x = o /\ ~stall THEN ToAGEX_CS(UcodeOf(x)) ELSE heap[x].AGEX_CS
        /\ IF x = o /\ ~stall
           THEN /\ heap'[x].DRID = Dest(x) /\ heap'[x].CC = NZP
                /\ heap'[x].SR1 = REGS[SR1_ID(heap[x].IR)]
                /\ heap'[x].SR2 = REGS[SR2_ID(heap[x].IR)]
           ELSE heap'[x] = heap[x]
  BY <1>3, <1>4 DEF Decoded, Dest, Instruction
<1>6. \A x \in Obj : UcodeOf(x)' = UcodeOf(x) /\ Dest(x)' = Dest(x)
  BY <1>5, SameWriters
<1>7. \A s \in Stages : PS[s].V => PS[s].instruction \in Obj
  BY ValidObjects
<1>8. \A s \in Stages : /\ \A r : Writes(PS[s], r)' <=> Writes(PS[s], r)
                        /\ SetsCodes(PS[s])' <=> SetsCodes(PS[s])
  BY <1>1, <1>6, <1>7 DEF Writes, SetsCodes
<1>9. stall_sigs'.mem_stall = stall
  BY <1>0 DEF DE_stage, TypeOK, Stall_Entry
<1>10. MovesOn'
  <2>1. (ControlInvariant /\ AfterDE => MovesOn)'
    BY Moves, PTL
  <2> QED BY <1>0, <1>2, <2>1
<1>11. DestinationsFollow'
  <2>1. Past("MEMORY")' = Past("MEMORY") /\ Past("STORE")' = Past("STORE")
    <3>1. \A s \in Stages \ {"AGEX"} : NEW_PS'[s] = NEW_PS[s]
      BY <1>0 DEF DE_stage, TypeOK
    <3> QED BY <1>1, <3>1 DEF Past, Stages
  <2>2. \A x \in Past("AGEX")' : x \in Past("AGEX") \/ (x = o /\ ~stall)
    BY <1>1, <1>9, <1>10 DEF MovesOn, Past, SameContent
  <2> QED BY <1>5, <1>6, <2>1, <2>2 DEF OperandsInvariant, DestinationsFollow
<1>12. WriteBackSelected'
  BY <1>1, <1>8 DEF OperandsInvariant, WriteBackSelected, Stages
<1>13. ProducersAnnounced'
  BY <1>1, <1>2, <1>8 DEF OperandsInvariant, ProducersAnnounced, Stages
<1>14. OperandsHold'
  <2> DEFINE old == {"AGEX", "MEMORY", "STORE"}
  (* An instruction that was there already keeps what it has read, and what STORE writes
     back is not its. *)
  <2>1. ASSUME NEW s \in {"AGEX", "MEMORY"}, PS[s].V, NEW x \in Obj, x = PS[s].instruction
        PROVE  /\ heap'[x] = heap[x]
               /\ "SR1_NEEDED" \in UcodeOf(x) => heap[x].SR1 = REGS'[SR1_ID(heap[x].IR)]
               /\ "SR2_NEEDED" \in UcodeOf(x) => heap[x].SR2 = REGS'[SR2_ID(heap[x].IR)]
               /\ "BR_OP" \in UcodeOf(x) => heap[x].CC = NZP'
    <3>1. heap'[x] = heap[x]
      <4>1. s \in Stages /\ "DECODE" \in Behind(s)
        BY DEF Behind, Stages
      <4>2. x # o
        BY <2>1, <4>1 DEF ControlInvariant, OneOwner
      <4> QED BY <1>5, <2>1, <4>2
    <3>2. SR1_ID(heap[x].IR) \in RegisterId /\ SR2_ID(heap[x].IR) \in RegisterId
      BY <1>4, <2>1, RegisterNumbers DEF Instruction
    <3>3. Fresh(PS, s) /\ "STORE" \in Older(s)
      BY <1>2 DEF OperandsInvariant, OperandsHold, Older
    <3>4. /\ "SR1_NEEDED" \in UcodeOf(x) => heap[x].SR1 = REGS'[SR1_ID(heap[x].IR)]
          /\ "SR2_NEEDED" \in UcodeOf(x) => heap[x].SR2 = REGS'[SR2_ID(heap[x].IR)]
          /\ "BR_OP" \in UcodeOf(x) => heap[x].CC = NZP'
      BY <2>1, <3>2, <3>3, WriteBackEffect DEF Fresh
    <3> QED BY <3>1, <3>4
  (* What the instructions that move on are going to write. *)
  <2>2. /\ NEW_PS'["STORE"].instruction = PS["MEMORY"].instruction
        /\ NEW_PS'["STORE"].V <=> PS["MEMORY"].V /\ ~stall
        /\ stall => /\ SameContent(NEW_PS'["MEMORY"], PS["MEMORY"])
                    /\ SameContent(NEW_PS'["AGEX"], PS["AGEX"])
        /\ ~stall => /\ SameContent(NEW_PS'["MEMORY"], PS["AGEX"])
                     /\ NEW_PS'["AGEX"].instruction = o
                     /\ NEW_PS'["AGEX"].V <=> ~stall_sigs'.dep_stall /\ PS["DECODE"].V
    BY <1>1, <1>9, <1>10 DEF MovesOn, SameContent
  <2>3. PS["MEMORY"].V => PS["MEMORY"].instruction \in Obj
    BY <1>7 DEF Stages
  <2>4. PS["AGEX"].V => PS["AGEX"].instruction \in Obj
    BY <1>7 DEF Stages
  <2>5. PS["DECODE"].V => o \in Obj
    BY <1>7 DEF Stages
  <2>6. /\ \A r : Writes(NEW_PS["STORE"], r)' => ~stall /\ Writes(PS["MEMORY"], r)
        /\ SetsCodes(NEW_PS["STORE"])' => ~stall /\ SetsCodes(PS["MEMORY"])
    BY <1>5, <2>2, <2>3 DEF Writes, SetsCodes, UcodeOf, Dest
  <2>7. /\ stall => /\ \A r : Writes(NEW_PS["MEMORY"], r)' => Writes(PS["MEMORY"], r)
                    /\ SetsCodes(NEW_PS["MEMORY"])' => SetsCodes(PS["MEMORY"])
        /\ ~stall => /\ \A r : Writes(NEW_PS["MEMORY"], r)' => Writes(PS["AGEX"], r)
                     /\ SetsCodes(NEW_PS["MEMORY"])' => SetsCodes(PS["AGEX"])
    BY <1>5, <2>2, <2>3, <2>4 DEF Writes, SetsCodes, UcodeOf, Dest, SameContent
  <2>8. Fresh(PS, "MEMORY") /\ Fresh(PS, "AGEX")
    BY <1>2 DEF OperandsInvariant, OperandsHold
  <2>9. Older("STORE") = {} /\ Older("MEMORY") = {"STORE"} /\ Older("AGEX") = {"MEMORY", "STORE"}
    BY DEF Older
  <2>10. Fresh(NEW_PS, "STORE")'
    <3> SUFFICES ASSUME NEW_PS'["STORE"].V PROVE Fresh(NEW_PS, "STORE")'
      BY DEF Fresh
    <3>1. PICK x \in Obj : x = PS["MEMORY"].instruction /\ x = NEW_PS'["STORE"].instruction
      BY <2>2, <2>3
    <3>2. PS["MEMORY"].V
      BY <2>2
    <3> QED BY <2>1, <2>9, <3>1, <3>2 DEF Fresh, UcodeOf
  <2>11. Fresh(NEW_PS, "MEMORY")'
    <3> SUFFICES ASSUME NEW_PS'["MEMORY"].V PROVE Fresh(NEW_PS, "MEMORY")'
      BY DEF Fresh
    <3>1. CASE stall
      <4>1. PICK x \in Obj : x = PS["MEMORY"].instruction /\ x = NEW_PS'["MEMORY"].instruction
        BY <2>2, <2>3, <3>1 DEF SameContent
      <4>2. PS["MEMORY"].V
        BY <2>2, <3>1 DEF SameContent
      <4>3. \A r : ~Writes(NEW_PS["STORE"], r)' /\ ~SetsCodes(NEW_PS["STORE"])'
        BY <2>6, <3>1
      <4>4. /\ heap'[x] = heap[x]
            /\ "SR1_NEEDED" \in UcodeOf(x) => heap[x].SR1 = REGS'[SR1_ID(heap[x].IR)]
            /\ "SR2_NEEDED" \in UcodeOf(x) => heap[x].SR2 = REGS'[SR2_ID(heap[x].IR)]
            /\ "BR_OP" \in UcodeOf(x) => heap[x].CC = NZP'
        BY <2>1, <4>1, <4>2
      <4> QED BY <2>9, <4>1, <4>3, <4>4, FreshArrives
    <3>2. CASE ~stall
      <4>1. PICK x \in Obj : x = PS["AGEX"].instruction /\ x = NEW_PS'["MEMORY"].instruction
        BY <2>2, <2>4, <3>2 DEF SameContent
      <4>2. PS["AGEX"].V
        BY <2>2, <3>2 DEF SameContent
      <4>3. /\ "SR1_NEEDED" \in UcodeOf(x) => /\ ~Writes(PS["MEMORY"], SR1_ID(heap[x].IR))
                                             /\ ~Writes(PS["STORE"], SR1_ID(heap[x].IR))
            /\ "SR2_NEEDED" \in UcodeOf(x) => /\ ~Writes(PS["MEMORY"], SR2_ID(heap[x].IR))
                                             /\ ~Writes(PS["STORE"], SR2_ID(heap[x].IR))
            /\ "BR_OP" \in UcodeOf(x) => ~SetsCodes(PS["MEMORY"]) /\ ~SetsCodes(PS["STORE"])
        BY <2>8, <2>9, <4>1, <4>2 DEF Fresh
      <4>4. /\ heap'[x] = heap[x]
            /\ "SR1_NEEDED" \in UcodeOf(x) => heap[x].SR1 = REGS'[SR1_ID(heap[x].IR)]
            /\ "SR2_NEEDED" \in UcodeOf(x) => heap[x].SR2 = REGS'[SR2_ID(heap[x].IR)]
            /\ "BR_OP" \in UcodeOf(x) => heap[x].CC = NZP'
        BY <2>1, <4>1, <4>2
      <4>5. /\ \A r : ~Writes(PS["MEMORY"], r) => ~Writes(NEW_PS["STORE"], r)'
            /\ ~SetsCodes(PS["MEMORY"]) => ~SetsCodes(NEW_PS["STORE"])'
        BY <2>6
      <4> QED BY <2>9, <4>1, <4>3, <4>4, <4>5, FreshArrives
    <3> QED BY <3>1, <3>2
  <2>12. Fresh(NEW_PS, "AGEX")'
    <3> SUFFICES ASSUME NEW_PS'["AGEX"].V PROVE Fresh(NEW_PS, "AGEX")'
      BY DEF Fresh
    <3>1. CASE stall
      <4>1. PICK x \in Obj : x = PS["AGEX"].instruction /\ x = NEW_PS'["AGEX"].instruction
        BY <2>2, <2>4, <3>1 DEF SameContent
      <4>2. PS["AGEX"].V
        BY <2>2, <3>1 DEF SameContent
      <4>3. /\ "SR1_NEEDED" \in UcodeOf(x) => /\ ~Writes(PS["MEMORY"], SR1_ID(heap[x].IR))
                                             /\ ~Writes(PS["STORE"], SR1_ID(heap[x].IR))
            /\ "SR2_NEEDED" \in UcodeOf(x) => /\ ~Writes(PS["MEMORY"], SR2_ID(heap[x].IR))
                                             /\ ~Writes(PS["STORE"], SR2_ID(heap[x].IR))
            /\ "BR_OP" \in UcodeOf(x) => ~SetsCodes(PS["MEMORY"]) /\ ~SetsCodes(PS["STORE"])
        BY <2>8, <2>9, <4>1, <4>2 DEF Fresh
      <4>4. /\ heap'[x] = heap[x]
            /\ "SR1_NEEDED" \in UcodeOf(x) => heap[x].SR1 = REGS'[SR1_ID(heap[x].IR)]
            /\ "SR2_NEEDED" \in UcodeOf(x) => heap[x].SR2 = REGS'[SR2_ID(heap[x].IR)]
            /\ "BR_OP" \in UcodeOf(x) => heap[x].CC = NZP'
        BY <2>1, <4>1, <4>2
      <4>5. ASSUME NEW r, ~Writes(PS["MEMORY"], r), NEW t \in Older("AGEX")
            PROVE  ~Writes(NEW_PS[t], r)'
        <5>1. ~Writes(NEW_PS["STORE"], r)' /\ ~Writes(NEW_PS["MEMORY"], r)'
          BY <2>6, <2>7, <3>1, <4>5
        <5>2. t = "MEMORY" \/ t = "STORE"
          BY <2>9
        <5> QED BY <5>1, <5>2
      <4>6. ~SetsCodes(PS["MEMORY"]) => \A t \in Older("AGEX") : ~SetsCodes(NEW_PS[t])'
        BY <2>6, <2>7, <2>9, <3>1
      <4>7. /\ "SR1_NEEDED" \in UcodeOf(x) =>
                 \A t \in Older("AGEX") : ~Writes(NEW_PS[t], SR1_ID(heap[x].IR))'
            /\ "SR2_NEEDED" \in UcodeOf(x) =>
                 \A t \in Older("AGEX") : ~Writes(NEW_PS[t], SR2_ID(heap[x].IR))'
        BY <4>3, <4>4, <4>5
      <4>8. "BR_OP" \in UcodeOf(x) => \A t \in Older("AGEX") : ~SetsCodes(NEW_PS[t])'
        BY <4>3, <4>6
      <4> QED BY <4>1, <4>4, <4>7, <4>8, FreshArrives
    <3>2. CASE ~stall
      <4>1. PS["DECODE"].V /\ ~stall_sigs'.dep_stall
        BY <2>2, <3>2
      <4>2. PICK x \in Obj : x = o /\ x = NEW_PS'["AGEX"].instruction
        BY <2>2, <2>5, <3>2, <4>1
      <4>3. ~CheckForDataDependencies(heap[x], PS["DECODE"].V)
        BY <1>0, <4>1, <4>2, ObjAssumption DEF DE_stage, TypeOK, Stall_Entry
      <4>4. LET free(r) == \A s \in old : ~Writes(PS[s], r)
            IN  /\ "SR1_NEEDED" \in UcodeOf(x) => free(SR1_ID(heap[x].IR))
                /\ "SR2_NEEDED" \in UcodeOf(x) => free(SR2_ID(heap[x].IR))
                /\ "BR_OP" \in UcodeOf(x) => \A s \in old : ~SetsCodes(PS[s])
        BY <1>1, <4>1, <4>2, <4>3, NothingPending
      <4>5. SR1_ID(heap[x].IR) \in RegisterId /\ SR2_ID(heap[x].IR) \in RegisterId
        BY <1>4, RegisterNumbers DEF Instruction
      <4>6. /\ "SR1_NEEDED" \in UcodeOf(x) => heap'[x].SR1 = REGS'[SR1_ID(heap[x].IR)]
            /\ "SR2_NEEDED" \in UcodeOf(x) => heap'[x].SR2 = REGS'[SR2_ID(heap[x].IR)]
            /\ "BR_OP" \in UcodeOf(x) => heap'[x].CC = NZP'
        BY <1>5, <3>2, <4>2, <4>4, <4>5, WriteBackEffect
      <4> QED BY <1>5, <2>6, <2>7, <2>9, <3>2, <4>2, <4>4, <4>6, FreshArrives
    <3> QED BY <3>1, <3>2
  <2> QED BY <1>2, <2>10, <2>11, <2>12 DEF OperandsHold
<1> QED BY <1>11, <1>12, <1>13, <1>14 DEF OperandsInvariant

(* FETCH_stage takes an object that no latch points to. *)
LEMMA FETCH_stageOperands == ControlInvariant /\ OperandsInvariant /\ FETCH_stage => OperandsInvariant'
<1> SUFFICES ASSUME ControlInvariant, OperandsInvariant, FETCH_stage PROVE OperandsInvariant'
  OBVIOUS
<1>1. /\ at = "FETCH" /\ at' = "MOVE"
      /\ UNCHANGED <<REGS, NZP, PS, store_sigs, memory_sigs, agex_sigs>>
  BY DEF FETCH_stage
<1>2. /\ AfterMEM /\ AfterAGEX /\ AfterDE
      /\ AfterMEM' /\ AfterAGEX' /\ AfterDE'
  BY <1>1 DEF AfterMEM, AfterAGEX, AfterDE
<1>3. \A x \in Obj \cap Referenced : heap'[x] = heap[x]
  BY FETCH_stageHeap
<1>4. \A s \in Stages \ {"DECODE"} : NEW_PS'[s] = NEW_PS[s]
  BY DEF FETCH_stage, ControlInvariant, TypeOK
<1>5. \A s \in Stages : PS[s].V => PS[s].instruction \in Obj \cap Referenced
  BY ValidObjects DEF Referenced
<1>6. \A s \in Stages \ {"DECODE"} : NEW_PS[s].V => NEW_PS[s].instruction \in Obj \cap Referenced
  BY ValidObjects DEF Referenced
<1>7. \A s \in Stages : /\ \A r : Writes(PS[s], r)' <=> Writes(PS[s], r)
                        /\ SetsCodes(PS[s])' <=> SetsCodes(PS[s])
  BY <1>1, <1>3, <1>5 DEF Writes, SetsCodes, UcodeOf, Dest
<1>8. \A s \in Stages \ {"DECODE"} : /\ \A r : Writes(NEW_PS[s], r)' <=> Writes(NEW_PS[s], r)
                                     /\ SetsCodes(NEW_PS[s])' <=> SetsCodes(NEW_PS[s])
  BY <1>3, <1>4, <1>6 DEF Writes, SetsCodes, UcodeOf, Dest
<1>9. DestinationsFollow'
  <2>1. \A s \in Stages \ {"DECODE"} : Past(s)' = Past(s) /\ Past(s) \subseteq Referenced
    BY <1>1, <1>4 DEF Past, Referenced
  <2>2. \A x \in Obj \cap Referenced : Dest(x)' = Dest(x) /\ UcodeOf(x)' = UcodeOf(x)
    BY <1>3 DEF Dest, UcodeOf
  <2> QED BY <1>3, <2>1, <2>2 DEF OperandsInvariant, DestinationsFollow, Stages
<1>10. WriteBackSelected' /\ ProducersAnnounced'
  BY <1>1, <1>2, <1>7 DEF OperandsInvariant, WriteBackSelected, ProducersAnnounced, Stages
<1>11. OperandsHold'
  <2> SUFFICES ASSUME NEW s \in {"AGEX", "MEMORY", "STORE"} PROVE Fresh(NEW_PS, s)'
    BY <1>2 DEF OperandsHold
  <2>1. Fresh(NEW_PS, s)
    BY <1>2 DEF OperandsInvariant, OperandsHold
  <2>2. Older(s) \subseteq Stages \ {"DECODE"} /\ s \in Stages \ {"DECODE"}
    BY DEF Older, Stages
  <2>3. NEW_PS'[s] = NEW_PS[s]
    BY <1>4, <2>2
  <2>4. NEW_PS[s].V => heap'[NEW_PS[s].instruction] = heap[NEW_PS[s].instruction]
    BY <1>3, <1>6, <2>2
  <2> QED BY <1>1, <1>8, <2>1, <2>2, <2>3, <2>4 DEF Fresh, UcodeOf
<1> QED BY <1>9, <1>10, <1>11 DEF OperandsInvariant

LEMMA MoveLatchOperands == ControlInvariant /\ OperandsInvariant /\ MoveLatch => OperandsInvariant'
<1> SUFFICES ASSUME ControlInvariant, OperandsInvariant, MoveLatch PROVE OperandsInvariant'
  OBVIOUS
<1>1. /\ at = "MOVE" /\ at' = "SR" /\ PS' = NEW_PS
      /\ UNCHANGED <<REGS, NZP, heap, NEW_PS, store_sigs>>
  BY DEF MoveLatch, State, Signal_Entries
<1>2. /\ AfterMEM /\ AfterDE
      /\ ~AfterMEM' /\ ~AfterAGEX' /\ ~AfterDE'
  BY <1>1 DEF AfterMEM, AfterAGEX, AfterDE
<1>3. DestinationsFollow'
  <2>1. \A s \in Stages : Past(s)' \subseteq Past(s)
    BY <1>1 DEF Past
  <2>2. \A x \in Obj : Dest(x)' = Dest(x) /\ UcodeOf(x)' = UcodeOf(x)
    BY <1>1 DEF Dest, UcodeOf
  <2> QED BY <1>1, <2>1, <2>2 DEF OperandsInvariant, DestinationsFollow, Stages
<1>4. WriteBackSelected'
  <2>1. NEW_PS["STORE"].instruction = NULL => PS["STORE"].instruction = NULL
    BY <1>2 DEF ControlInvariant, StoreLatched, Filled
  <2> QED BY <1>1, <2>1 DEF OperandsInvariant, WriteBackSelected
<1>5. ProducersAnnounced'
  BY <1>2 DEF ProducersAnnounced
<1>6. OperandsHold'
  <2>1. \A s \in {"AGEX", "MEMORY", "STORE"} : Fresh(NEW_PS, s)
    BY <1>2 DEF OperandsInvariant, OperandsHold
  <2> QED BY <1>1, <1>2, <2>1 DEF OperandsHold, Fresh, Writes, SetsCodes, UcodeOf, Dest
<1> QED BY <1>3, <1>4, <1>5, <1>6 DEF OperandsInvariant

LEMMA OperandsNext == ControlInvariant /\ OperandsInvariant /\ [Next]_vars => OperandsInvariant'
<1> SUFFICES ASSUME ControlInvariant, OperandsInvariant, [Next]_vars PROVE OperandsInvariant'
  OBVIOUS
<1>1. CASE UNCHANGED vars
  <2>1. UNCHANGED <<at, REGS, NZP, heap, PS, NEW_PS, agex_sigs, memory_sigs, store_sigs>>
    BY <1>1 DEF vars, State, Signal_Entries
  <2>2. DestinationsFollow'
    BY <2>1 DEF OperandsInvariant, DestinationsFollow, Past, Dest, UcodeOf
  <2>3. WriteBackSelected' /\ ProducersAnnounced'
    BY <2>1 DEF OperandsInvariant, WriteBackSelected, ProducersAnnounced, AfterMEM, AfterAGEX,
                Writes, SetsCodes, Dest, UcodeOf
  <2>4. OperandsHold'
    BY <2>1 DEF OperandsInvariant, OperandsHold, AfterDE, Fresh, Writes, SetsCodes, Dest, UcodeOf
  <2> QED BY <2>2, <2>3, <2>4 DEF OperandsInvariant
<1> QED BY <1>1, SR_stageOperands, MEM_stageOperands, AGEX_stageOperands, DE_stageOperands,
           FETCH_stageOperands, MoveLatchOperands DEF Next

(* Every producer is announced, every consumer has what it needs: the strengthening that
   makes the freshness of the operands inductive. *)
THEOREM OperandsInvariantHolds == Spec => []OperandsInvariant
<1>1. Init => OperandsInvariant
  BY OperandsInit
<1>2. ControlInvariant /\ OperandsInvariant /\ [Next]_vars => OperandsInvariant'
  BY OperandsNext
<1> QED BY <1>1, <1>2, ControlInvariantHolds, PTL DEF Spec

LEMMA OperandsFollow == ControlInvariant /\ OperandsInvariant => OperandsFresh
<1> SUFFICES ASSUME ControlInvariant, OperandsInvariant, at = "SR", Valid(PS["AGEX"])
             PROVE  OperandsFresh
  BY DEF OperandsFresh
<1> DEFINE a == PS["AGEX"].instruction
<1>1. TypeOK /\ ~AfterDE /\ a \in Obj
  BY ValidObjects DEF ControlInvariant, AfterDE, Valid, Stages
<1>2. ASSUME NEW s \in {"MEMORY", "STORE"}, Valid(PS[s]), NEW signal \in {"LD_REG", "LD_CC"},
             s = "MEMORY" => signal \in On(s).MEM_CS,
             s = "STORE" => signal \in On(s).SR_CS
      PROVE  /\ signal \in UcodeOf(PS[s].instruction)
             /\ On(s).DRID = Dest(PS[s].instruction)
  <2>1. PICK o \in Obj : o = PS[s].instruction
    BY <1>2, ValidObjects DEF Valid, Stages
  <2>2. /\ s = "MEMORY" => heap[o].MEM_CS = ToMEM_CS(ToAGEX_CS(UcodeOf(o)))
        /\ s = "STORE" => heap[o].SR_CS = ToSR_CS(ToMEM_CS(ToAGEX_CS(UcodeOf(o))))
        /\ heap[o].DRID = Dest(o)
    BY <2>1 DEF ControlInvariant, WordsFollow, OperandsInvariant, DestinationsFollow, Past
  <2>3. UcodeOf(o) \in ControlWord
    BY <1>1, UcodeOfType
  <2> QED BY <1>2, <2>1, <2>2, <2>3, ProducerSignals DEF On
<1>3. Fresh(PS, "AGEX") /\ Older("AGEX") = {"MEMORY", "STORE"}
  BY <1>1 DEF OperandsInvariant, OperandsHold, Older
<1>4. On("AGEX") = heap[a] /\ heap[a].IR \in Word /\ PS["AGEX"].V
  BY <1>1 DEF On, TypeOK, Instruction, Valid
<1>5. \A s \in {"MEMORY", "STORE"} : Valid(PS[s]) => On(s).DRID \in RegisterId
  <2> SUFFICES ASSUME NEW s \in {"MEMORY", "STORE"}, Valid(PS[s]) PROVE On(s).DRID \in RegisterId
    OBVIOUS
  <2>1. PS[s].instruction \in Obj
    BY ValidObjects DEF Valid, Stages
  <2> QED BY <1>1, <2>1 DEF On, TypeOK, Instruction
<1> QED BY <1>2, <1>3, <1>4, <1>5 DEF OperandsFresh, Fresh, UcodeOf, Writes, SetsCodes, Valid

(* What a valid instruction has read in DECODE is right when AGEX and MEMORY use it,
   whatever stalls, bubbles and write-backs come between. *)
THEOREM OperandsFreshHolds == Spec => []OperandsFresh
BY ControlInvariantHolds, OperandsInvariantHolds, OperandsFollow, PTL
=============================================================================
