-------------------------- MODULE SequentialProofs --------------------------
(***************************************************************************)
(* The pipeline implements the programmer's machine, for every program of  *)
(* plain instructions and every cache latency: DE_stage takes its step     *)
(* when the instruction in STORE is valid, and no other call of a cycle    *)
(* changes what the programmer sees.  First the facts about the two        *)
(* machines the proof rests on (both use the same datapath, and what an    *)
(* instruction computes depends on the operands it announced), then        *)
(* RefinementInvariant stage by stage, then the mapping.                   *)
(***************************************************************************)
EXTENDS RefinementInvariant, InterlockProofs

(* The operators of the programmer's machine are those of the pipeline: on words, *)
LEMMA SameWords ==
  /\ \A x, y : Arch!Add(x, y) = Add(x, y) /\ Arch!And(x, y) = And(x, y) /\ Arch!Xor(x, y) = Xor(x, y)
  /\ \A x, k : /\ Arch!ShiftLeft(x, k) = ShiftLeft(x, k) /\ Arch!ShiftRight(x, k) = ShiftRight(x, k)
               /\ Arch!sign_ext(x, k) = sign_ext(x, k) /\ Arch!zero_ext(x, k) = zero_ext(x, k)
               /\ Arch!Bit(x, k) = Bit(x, k)
               /\ Arch!ArithmeticShiftRight(x, k) = ArithmeticShiftRight(x, k)
  /\ \A x, e, b : Arch!range(x, e, b) = range(x, e, b)
<1>1. \A x, k : Arch!Bit(x, k) = Bit(x, k)
  BY DEF Arch!Bit, Bit
<1>2. \A b : Arch!to_num(b) = to_num(b)
  BY DEF Arch!to_num, to_num, Arch!Weighted, Weighted
<1>3. Arch!BitIndex = BitIndex
  BY DEF Arch!BitIndex, BitIndex
<1>4. \A x, y : Arch!Add(x, y) = Add(x, y)
  BY DEF Arch!Add, Add, Arch!WordSize, WordSize
<1>5. \A x, y : Arch!And(x, y) = And(x, y) /\ Arch!Xor(x, y) = Xor(x, y)
  BY <1>1, <1>2, <1>3 DEF Arch!And, And, Arch!Xor, Xor
<1>6. \A x, k : Arch!ShiftLeft(x, k) = ShiftLeft(x, k) /\ Arch!ShiftRight(x, k) = ShiftRight(x, k)
  BY <1>1, <1>2, <1>3 DEF Arch!ShiftLeft, ShiftLeft, Arch!ShiftRight, ShiftRight
<1>7. \A x, k : Arch!sign_ext(x, k) = sign_ext(x, k) /\ Arch!zero_ext(x, k) = zero_ext(x, k)
  BY <1>1, <1>2, <1>3 DEF Arch!sign_ext, sign_ext, Arch!zero_ext, zero_ext
<1>8. \A x, k : Arch!ArithmeticShiftRight(x, k) = ArithmeticShiftRight(x, k)
  BY <1>1, <1>2, <1>3 DEF Arch!ArithmeticShiftRight, ArithmeticShiftRight
<1>9. \A x, e, b : Arch!range(x, e, b) = range(x, e, b)
  BY <1>1, <1>2, <1>3 DEF Arch!range, range
<1> QED BY <1>1, <1>4, <1>5, <1>6, <1>7, <1>8, <1>9

(* on control words, *)
LEMMA SameSlices ==
  \A cs : /\ Arch!ToAGEX_CS(cs) = ToAGEX_CS(cs)
          /\ Arch!ToMEM_CS(cs) = ToMEM_CS(cs)
          /\ Arch!ToSR_CS(cs) = ToSR_CS(cs)
<1>1. Arch!CS_BITS = CS_BITS /\ Arch!AGEX_CS_BITS = AGEX_CS_BITS
      /\ Arch!MEM_CS_BITS = MEM_CS_BITS /\ Arch!SR_CS_BITS = SR_CS_BITS
  BY DEF Arch!CS_BITS, CS_BITS, Arch!AGEX_CS_BITS, AGEX_CS_BITS,
         Arch!MEM_CS_BITS, MEM_CS_BITS, Arch!SR_CS_BITS, SR_CS_BITS
<1>2. \A cs, bits, low, next : Arch!Latched(cs, bits, low, next) = Latched(cs, bits, low, next)
  BY DEF Arch!Latched, Latched
<1> QED BY <1>1, <1>2 DEF Arch!ToAGEX_CS, ToAGEX_CS, Arch!ToMEM_CS, ToMEM_CS, Arch!ToSR_CS, ToSR_CS

(* of the stages, *)
LEMMA SameDatapath ==
  /\ \A ir : /\ Arch!SR1_ID(ir) = SR1_ID(ir) /\ Arch!SR2_ID(ir) = SR2_ID(ir)
             /\ Arch!CONTROL_STORE_ADDRESS(ir) = CONTROL_STORE_ADDRESS(ir)
  /\ \A ir, ucode : Arch!DR_ID(ir, ucode) = DR_ID(ir, ucode)
  /\ \A inst : /\ Arch!MemAddress(inst) = MemAddress(inst)
               /\ Arch!AluShifterOutput(inst) = AluShifterOutput(inst)
               /\ Arch!ConditionHolds(inst) = ConditionHolds(inst)
               /\ Arch!WritebackValue(inst) = WritebackValue(inst)
  /\ \A inst, word : Arch!LoadedValue(inst, word) = LoadedValue(inst, word)
  /\ \A value : Arch!ConditionCodes(value) = ConditionCodes(value)
<1>1. \A cs : /\ Arch!Get_ADDR2MUX(cs) = Get_ADDR2MUX(cs)
              /\ Arch!Get_ALUK(cs) = Get_ALUK(cs)
              /\ Arch!Get_DR_VALUEMUX(cs) = Get_DR_VALUEMUX(cs)
  BY DEF Arch!Get_ADDR2MUX, Get_ADDR2MUX, Arch!Get_ALUK, Get_ALUK, Arch!Get_DR_VALUEMUX,
         Get_DR_VALUEMUX, Arch!Mux, Mux
<1>2. \A ir : /\ Arch!SR1_ID(ir) = SR1_ID(ir) /\ Arch!SR2_ID(ir) = SR2_ID(ir)
              /\ Arch!CONTROL_STORE_ADDRESS(ir) = CONTROL_STORE_ADDRESS(ir)
  BY SameWords DEF Arch!SR1_ID, SR1_ID, Arch!SR2_ID, SR2_ID,
                   Arch!CONTROL_STORE_ADDRESS, CONTROL_STORE_ADDRESS
<1>3. \A ir, ucode : Arch!DR_ID(ir, ucode) = DR_ID(ir, ucode)
  BY SameWords DEF Arch!DR_ID, DR_ID
<1>4. \A inst : Arch!MemAddress(inst) = MemAddress(inst)
  BY <1>1, SameWords DEF Arch!MemAddress, MemAddress, Arch!AddressOffset, AddressOffset
<1>5. \A inst : Arch!AluShifterOutput(inst) = AluShifterOutput(inst)
  <2>1. \A inst : Arch!Alu(inst) = Alu(inst)
    BY <1>1, SameWords DEF Arch!Alu, Alu
  <2>2. \A inst : Arch!Shift(inst) = Shift(inst)
    BY SameWords DEF Arch!Shift, Shift
  <2> QED BY <2>1, <2>2 DEF Arch!AluShifterOutput, AluShifterOutput
<1>6. \A inst : Arch!ConditionHolds(inst) = ConditionHolds(inst)
  BY SameWords DEF Arch!ConditionHolds, ConditionHolds
<1>7. \A inst : Arch!WritebackValue(inst) = WritebackValue(inst)
  BY <1>1 DEF Arch!WritebackValue, WritebackValue
<1>8. \A inst, word : Arch!LoadedValue(inst, word) = LoadedValue(inst, word)
  BY SameWords DEF Arch!LoadedValue, LoadedValue
<1>9. \A value : Arch!ConditionCodes(value) = ConditionCodes(value)
  BY SameWords DEF Arch!ConditionCodes, ConditionCodes
<1> QED BY <1>2, <1>3, <1>4, <1>5, <1>6, <1>7, <1>8, <1>9

(* and on memory. *)
LEMMA SameMemory ==
  \A m, a : /\ Arch!GetWordAt(m, a) = GetWordAt(m, a)
            /\ Arch!WordAddress(a) = WordAddress(a)
            /\ \A word : Arch!SetBytesAt(m, a, word, FALSE, FALSE) = m
BY DEF Arch!GetWordAt, GetWordAt, Arch!WordAddress, WordAddress, Arch!SetBytesAt

-----------------------------------------------------------------------------
(* What the combinational logic of a stage depends on. *)
LEMMA Dependencies ==
  ASSUME NEW a, NEW b
  PROVE  /\ /\ a.IR = b.IR /\ a.NPC = b.NPC /\ a.AGEX_CS = b.AGEX_CS
            /\ "ADDR1MUX" \in a.AGEX_CS => a.SR1 = b.SR1
            => MemAddress(a) = MemAddress(b)
         /\ /\ a.IR = b.IR /\ a.AGEX_CS = b.AGEX_CS /\ a.SR1 = b.SR1
            /\ "ALU_RESULTMUX" \in a.AGEX_CS /\ "SR2MUX" \notin a.AGEX_CS => a.SR2 = b.SR2
            => AluShifterOutput(a) = AluShifterOutput(b)
         /\ a.MEM_CS = b.MEM_CS /\ a.ADDRESS = b.ADDRESS =>
              \A word : LoadedValue(a, word) = LoadedValue(b, word)
         /\ a.IR = b.IR /\ a.CC = b.CC => ConditionHolds(a) = ConditionHolds(b)
<1>1. ASSUME a.IR = b.IR, a.NPC = b.NPC, a.AGEX_CS = b.AGEX_CS,
             "ADDR1MUX" \in a.AGEX_CS => a.SR1 = b.SR1
      PROVE  MemAddress(a) = MemAddress(b)
  BY <1>1 DEF MemAddress, AddressOffset
<1>2. ASSUME a.IR = b.IR, a.AGEX_CS = b.AGEX_CS, a.SR1 = b.SR1,
             "ALU_RESULTMUX" \in a.AGEX_CS /\ "SR2MUX" \notin a.AGEX_CS => a.SR2 = b.SR2
      PROVE  AluShifterOutput(a) = AluShifterOutput(b)
  BY <1>2 DEF AluShifterOutput, Alu, Shift
<1>3. ASSUME a.MEM_CS = b.MEM_CS, a.ADDRESS = b.ADDRESS
      PROVE  \A word : LoadedValue(a, word) = LoadedValue(b, word)
  BY <1>3 DEF LoadedValue
<1>4. ASSUME a.IR = b.IR, a.CC = b.CC PROVE ConditionHolds(a) = ConditionHolds(b)
  BY <1>4 DEF ConditionHolds
<1> QED BY <1>1, <1>2, <1>3, <1>4

(* The slices only leave signals out. *)
LEMMA SlicesOnlyDrop ==
  ASSUME NEW cs \in ControlWord
  PROVE  /\ ToAGEX_CS(cs) \subseteq cs
         /\ ToMEM_CS(ToAGEX_CS(cs)) \subseteq cs
BY ControlWordSlices, ControlWords

(* Memory holds plain instructions and nothing else. *)
LEMMA PlainInstructions ==
  ASSUME PlainPrograms, RefinementInvariant, NEW s \in Stages
  PROVE  /\ PS[s].V => Plain(UcodeOf(PS[s].instruction))
         /\ NEW_PS[s].V => Plain(UcodeOf(NEW_PS[s].instruction))
<1>1. PICK image \in Images : memory = image.memory
  BY DEF RefinementInvariant, MemoryUnwritten
<1>2. PlainImage(image)
  BY DEF PlainPrograms
<1>3. \A a : Plain(MicroCode(GetWordAt(memory, a)))
  BY <1>1, <1>2 DEF PlainImage, GetWordAt
<1> QED BY <1>3 DEF RefinementInvariant, InstructionsFetched, Fetched, UcodeOf

(* Until FETCH_stage runs nothing moves: the path in flight stays what it is. *)
LEMMA PathKept ==
  ASSUME ControlInvariant, RefinementInvariant, at \in {"SR", "MEM", "AGEX", "DE"},
         at' \in {"MEM", "AGEX", "DE", "FETCH"}, UNCHANGED <<PC, PS>>,
         \A x \in Obj : heap'[x].IR = heap[x].IR /\ heap'[x].NPC = heap[x].NPC,
         PS["MEMORY"].V =>
           heap'[PS["MEMORY"].instruction].CC = heap[PS["MEMORY"].instruction].CC,
         PS["STORE"].V /\ at' # "FETCH" =>
           heap'[PS["STORE"].instruction] = heap[PS["STORE"].instruction]
  PROVE  /\ PathFollows'
         /\ FromMEMORY' = FromMEMORY
         /\ AddressIn(PS["STORE"], FromMEMORY)' = AddressIn(PS["STORE"], FromMEMORY)
<1>1. \A s \in Stages : PS[s].V => PS[s].instruction \in Obj
  BY ValidObjects
<1>2. \A s \in Stages :
        PS[s].V => /\ AddressOf(heap'[PS[s].instruction]) = AddressOf(heap[PS[s].instruction])
                   /\ On(s)'.NPC = On(s).NPC
  BY <1>1 DEF AddressOf, On
<1>3. NextFetch' = NextFetch
  BY DEF NextFetch
<1>4. FromDECODE' = FromDECODE
  BY <1>2, <1>3 DEF FromDECODE, AddressIn, Valid, Stages
<1>5. FromAGEX' = FromAGEX
  BY <1>2, <1>4 DEF FromAGEX, AddressIn, Valid, Stages
<1>6. FromMEMORY' = FromMEMORY
  BY <1>2, <1>5 DEF FromMEMORY, AddressIn, Valid, Stages
<1>7. AddressIn(PS["STORE"], FromMEMORY)' = AddressIn(PS["STORE"], FromMEMORY)
  BY <1>2, <1>6 DEF AddressIn, Valid, Stages
<1>8. PathFollows
  BY DEF RefinementInvariant
<1>9. ~AfterFETCH /\ ~AfterFETCH' /\ ~AfterDE /\ (AfterDE' <=> at' = "FETCH")
  BY DEF AfterFETCH, AfterDE
<1>10. PS["MEMORY"].V => Redirects(PS["MEMORY"].instruction)' = Redirects(PS["MEMORY"].instruction)
  BY <1>1 DEF Redirects, UcodeOf, ConditionHolds, Stages
<1>11. PS["STORE"].V /\ ~AfterDE' => FromMEMORY' = Arch!NextPC(On("STORE")')
  BY <1>6, <1>8, <1>9 DEF PathFollows, On
<1>12. PS["MEMORY"].V /\ ~Redirects(PS["MEMORY"].instruction)' => FromAGEX' = On("MEMORY")'.NPC
  BY <1>2, <1>5, <1>8, <1>10 DEF PathFollows, Stages
<1>13. /\ PS["AGEX"].V => FromDECODE' = On("AGEX")'.NPC
       /\ PS["DECODE"].V => NextFetch' = On("DECODE")'.NPC
  BY <1>2, <1>3, <1>4, <1>8 DEF PathFollows, Stages
<1>14. PathFollows'
  BY <1>9, <1>11, <1>12, <1>13 DEF PathFollows
<1> QED BY <1>6, <1>7, <1>14

LEMMA SR_stageRefinement ==
  ASSUME ControlInvariant, OperandsInvariant, RefinementInvariant, SR_stage
  PROVE  RefinementInvariant' /\ UNCHANGED Arch!vars
<1>1. /\ at = "SR" /\ at' = "MEM"
      /\ UNCHANGED <<PC, REGS, NZP, memory, heap, PS, NEW_PS>>
  BY DEF SR_stage, State
<1>2. MemoryUnwritten' /\ InstructionsFetched' /\ ResultsFollow'
  BY <1>1 DEF RefinementInvariant, MemoryUnwritten, InstructionsFetched, Fetched, ResultsFollow,
              Computed, Delivered
<1>3. SignalsFollow'
  <2>1. ~AfterMEM'
    BY <1>1 DEF AfterMEM
  <2>2. ASSUME PS["STORE"].V
        PROVE  /\ store_sigs'.sr_reg_data = WritebackValue(On("STORE"))
               /\ store_sigs'.sr_nzp = ConditionCodes(WritebackValue(On("STORE")))
    <3>1. PS["STORE"].instruction # NULL
      BY <2>2, ValidObjects, ObjAssumption DEF Stages
    <3> QED BY <3>1 DEF SR_stage, On
  <2>3. On("STORE")' = On("STORE")
    BY <1>1 DEF On
  <2> QED BY <1>1, <2>1, <2>2, <2>3 DEF SignalsFollow
<1>4. /\ PathFollows'
      /\ AddressIn(PS["STORE"], FromMEMORY)' = AddressIn(PS["STORE"], FromMEMORY)
  BY <1>1, PathKept
<1>5. ArchitecturalPC' = ArchitecturalPC
  BY <1>1, <1>4 DEF ArchitecturalPC
<1> QED BY <1>1, <1>2, <1>3, <1>4, <1>5 DEF RefinementInvariant, Arch!vars

(* The data cache with no write enable: one outcome of the access. *)
LEMMA MEM_stageAccess ==
  ASSUME ControlInvariant, RefinementInvariant, MEM_stage, NEW o \in Obj, o = PS["MEMORY"].instruction
  PROVE  \E data :
           /\ memory_sigs'.target_pc = heap[o].ADDRESS
           /\ memory_sigs'.trap_pc = data
           /\ memory_sigs'.mem_pc_mux = MemPcMux(heap[o], PS["MEMORY"].V)
           /\ heap' = [heap EXCEPT ![o] = Accessed(heap[o], data)]
           /\ PS["MEMORY"].V /\ ~stall_sigs'.mem_stall =>
                data = IF "DCACHE_EN" \in heap[o].MEM_CS
                       THEN LoadedValue(heap[o], GetWordAt(memory, WordAddress(heap[o].ADDRESS)))
                       ELSE 0
<1> DEFINE latch == PS["MEMORY"]
           inst  == heap[o]
           cache_en == "DCACHE_EN" \in inst.MEM_CS /\ latch.V
           mdr_out(random) == IF random = 0 THEN GetWordAt(memory, WordAddress(inst.ADDRESS))
                                            ELSE NotReadyWord
           data(random) == IF cache_en THEN LoadedValue(inst, mdr_out(random)) ELSE 0
<1>1. PICK random \in DCACHE_RANDOM :
        /\ memory_sigs' = [target_pc    |-> inst.ADDRESS,
                           trap_pc      |-> data(random),
                           mem_pc_mux   |-> MemPcMux(inst, latch.V),
                           v_mem_ld_cc  |-> latch.V /\ "LD_CC" \in inst.MEM_CS,
                           v_mem_ld_reg |-> latch.V /\ "LD_REG" \in inst.MEM_CS,
                           mem_drid     |-> inst.DRID]
        /\ stall_sigs' = [stall_sigs EXCEPT
                            !.mem_stall = cache_en /\ ~(random = 0),
                            !.v_mem_br_stall = latch.V /\ "BR_STALL" \in inst.MEM_CS]
        /\ heap' = [heap EXCEPT ![o] = Accessed(inst, data(random))]
  BY ObjAssumption DEF MEM_stage
<1>2. stall_sigs'.mem_stall = (cache_en /\ ~(random = 0))
  BY <1>1 DEF ControlInvariant, TypeOK, Stall_Entry
<1>3. /\ memory_sigs'.target_pc = inst.ADDRESS
      /\ memory_sigs'.trap_pc = data(random)
      /\ memory_sigs'.mem_pc_mux = MemPcMux(inst, latch.V)
  BY <1>1
<1>4. PS["MEMORY"].V /\ ~stall_sigs'.mem_stall =>
        data(random) = IF "DCACHE_EN" \in inst.MEM_CS
                       THEN LoadedValue(inst, GetWordAt(memory, WordAddress(inst.ADDRESS))) ELSE 0
  BY <1>2
<1> HIDE DEF data
<1> QED BY <1>1, <1>3, <1>4

(* No latch carries READ_WRITE_EN, so no store reaches memory. *)
LEMMA MemoryStays ==
  ASSUME ControlInvariant, RefinementInvariant, MEM_stage
  PROVE  memory' = memory /\ MemoryUnwritten'
<1>1. PS["MEMORY"].MEM_CS = {} /\ NEW_PS["STORE"].MEM_CS = {} /\ PS' = PS
  BY DEF RefinementInvariant, MemoryUnwritten, MEM_stage, Stages
<1>2. memory' = memory
  BY <1>1 DEF MEM_stage, DCacheRW, WE_LOW, WE_HIGH, SetBytesAt
<1>3. \/ NEW_PS' = NEW_PS
      \/ \E o, v : NEW_PS' = [NEW_PS EXCEPT !["STORE"] = Load(NEW_PS["STORE"], o, v)]
  BY DEF MEM_stage
<1>4. \A s \in Stages : NEW_PS'[s].MEM_CS = {}
  BY <1>1, <1>3 DEF RefinementInvariant, MemoryUnwritten, Load, ControlInvariant, TypeOK, Latch, Stages
<1> QED BY <1>1, <1>2, <1>4 DEF RefinementInvariant, MemoryUnwritten

(* An instruction object that agrees on what was fetched, read and computed. *)
LEMMA ResultsKept ==
  ASSUME NEW a, NEW b, a.IR = b.IR, a.NPC = b.NPC, a.AGEX_CS = b.AGEX_CS, a.SR1 = b.SR1, a.SR2 = b.SR2
  PROVE  MemAddress(a) = MemAddress(b) /\ AluShifterOutput(a) = AluShifterOutput(b)
BY Dependencies

LEMMA MEM_stageRefinement ==
  ASSUME ControlInvariant, OperandsInvariant, RefinementInvariant, MEM_stage
  PROVE  RefinementInvariant' /\ UNCHANGED Arch!vars
<1> DEFINE o == PS["MEMORY"].instruction
<1>0. ControlInvariant'
  BY MEM_stageControl
<1>1. /\ at = "MEM" /\ at' = "AGEX"
      /\ UNCHANGED <<PC, REGS, NZP, PS, store_sigs>>
  BY DEF MEM_stage
<1>2. AfterMEM' /\ ~AfterAGEX
  BY <1>1 DEF AfterMEM, AfterAGEX
<1>3. memory' = memory /\ MemoryUnwritten'
  BY MemoryStays
<1>4. \A x \in Obj : x # o => heap'[x] = heap[x]
  BY MEM_stageHeap
<1>5. \A x \in Obj :
        /\ heap'[x].IR = heap[x].IR /\ heap'[x].NPC = heap[x].NPC
        /\ heap'[x].SR1 = heap[x].SR1 /\ heap'[x].SR2 = heap[x].SR2 /\ heap'[x].CC = heap[x].CC
        /\ heap'[x].AGEX_CS = heap[x].AGEX_CS /\ heap'[x].MEM_CS = heap[x].MEM_CS
        /\ heap'[x].ADDRESS = heap[x].ADDRESS /\ heap'[x].ALU_RESULT = heap[x].ALU_RESULT
  <2>1. PICK data \in Word : \A x \in Obj :
          heap'[x] = IF x = o THEN Accessed(heap[x], data) ELSE heap[x]
    BY MEM_stageHeap
  <2>2. \A x \in Obj : heap[x] \in Instruction
    BY DEF ControlInvariant, TypeOK
  <2> QED BY <2>1, <2>2 DEF Accessed, Instruction
<1>6. /\ PS["MEMORY"].V => o \in Obj
      /\ PS["STORE"].V => PS["STORE"].instruction \in Obj /\ PS["STORE"].instruction # o
  BY ValidObjects DEF ControlInvariant, OneOwner, Behind, Stages
<1>7. /\ \A s \in Stages \ {"STORE"} : NEW_PS'[s] = NEW_PS[s]
      /\ NEW_PS'["STORE"].instruction = o
      /\ NEW_PS'["STORE"].V <=> PS["MEMORY"].V /\ ~stall_sigs'.mem_stall
  <2>1. \A s \in Stages \ {"STORE"} : NEW_PS'[s] = NEW_PS[s]
    BY DEF MEM_stage, ControlInvariant, TypeOK
  <2>2. StoreLatched'
    BY <1>0 DEF ControlInvariant
  <2> QED BY <1>1, <1>2, <2>1, <2>2 DEF StoreLatched
<1>8. SameContent(NEW_PS["MEMORY"], PS["MEMORY"])
  BY <1>2 DEF ControlInvariant, NotYetLatched
<1>9. InstructionsFetched'
  <2>1. \A s \in Stages : PS[s].V => PS[s].instruction \in Obj
    BY ValidObjects
  <2>2. \A s \in Stages : NEW_PS[s].V => NEW_PS[s].instruction \in Obj
    BY ValidObjects
  <2>3. \A s \in Stages : Fetched(PS[s]) /\ Fetched(NEW_PS[s])
    BY DEF RefinementInvariant, InstructionsFetched
  <2>4. \A s \in Stages : Fetched(PS[s])'
    BY <1>1, <1>3, <1>5, <2>1, <2>3 DEF Fetched, AddressOf
  <2>5. \A s \in Stages \ {"STORE"} : Fetched(NEW_PS[s])'
    BY <1>3, <1>5, <1>7, <2>2, <2>3 DEF Fetched, AddressOf
  <2>6. Fetched(NEW_PS["STORE"])'
    BY <1>3, <1>5, <1>6, <1>7, <2>3 DEF Fetched, AddressOf, Stages
  <2> QED BY <2>4, <2>5, <2>6 DEF InstructionsFetched
<1>10. ResultsFollow'
  <2>1. \A x \in Obj : /\ MemAddress(heap'[x]) = MemAddress(heap[x])
                       /\ AluShifterOutput(heap'[x]) = AluShifterOutput(heap[x])
    BY <1>5, ResultsKept
  <2>2. Computed(PS["MEMORY"])'
    BY <1>1, <1>5, <1>6, <2>1 DEF RefinementInvariant, ResultsFollow, Computed
  <2>3. Computed(NEW_PS["MEMORY"])' /\ Computed(NEW_PS["STORE"])'
    BY <1>1, <1>7, <1>8, <2>2 DEF Computed, SameContent, Stages
  <2>4. Computed(PS["STORE"])' /\ Delivered(PS["STORE"])'
    BY <1>1, <1>3, <1>4, <1>6 DEF RefinementInvariant, ResultsFollow, Computed, Delivered
  <2>5. Delivered(NEW_PS["STORE"])'
    <3> SUFFICES ASSUME PS["MEMORY"].V, ~stall_sigs'.mem_stall, o \in Obj
                 PROVE  heap'[o].DATA = IF "DCACHE_EN" \in heap'[o].MEM_CS
                                        THEN LoadedValue(heap'[o],
                                               GetWordAt(memory, WordAddress(heap'[o].ADDRESS)))
                                        ELSE 0
      BY <1>3, <1>6, <1>7 DEF Delivered
    <3>1. \A word : LoadedValue(heap'[o], word) = LoadedValue(heap[o], word)
      BY <1>5, Dependencies
    <3>2. PICK data :
            /\ heap' = [heap EXCEPT ![o] = Accessed(heap[o], data)]
            /\ data = IF "DCACHE_EN" \in heap[o].MEM_CS
                      THEN LoadedValue(heap[o], GetWordAt(memory, WordAddress(heap[o].ADDRESS)))
                      ELSE 0
      BY MEM_stageAccess
    <3>3. heap'[o].DATA = data
      BY <3>2 DEF ControlInvariant, TypeOK, Accessed, Instruction
    <3>4. heap'[o].MEM_CS = heap[o].MEM_CS /\ heap'[o].ADDRESS = heap[o].ADDRESS
      BY <1>5
    <3> QED BY <3>1, <3>2, <3>3, <3>4
  <2> QED BY <2>2, <2>3, <2>4, <2>5 DEF ResultsFollow
<1>11. SignalsFollow'
  <2>1. ASSUME PS["MEMORY"].V
        PROVE  /\ memory_sigs'.target_pc = heap'[o].ADDRESS
               /\ memory_sigs'.trap_pc = heap'[o].DATA
               /\ Redirects(o) => memory_sigs'.mem_pc_mux = IF "BR_OP" \in UcodeOf(o) THEN 1 ELSE 2
    <3>1. PICK data :
            /\ memory_sigs'.target_pc = heap[o].ADDRESS
            /\ memory_sigs'.trap_pc = data
            /\ memory_sigs'.mem_pc_mux = MemPcMux(heap[o], PS["MEMORY"].V)
            /\ heap' = [heap EXCEPT ![o] = Accessed(heap[o], data)]
      BY <1>6, <2>1, MEM_stageAccess
    <3>2. heap'[o].DATA = data
      BY <1>6, <2>1, <3>1 DEF ControlInvariant, TypeOK, Accessed, Instruction
    <3>3. /\ "BR_OP" \in heap[o].MEM_CS <=> "BR_OP" \in UcodeOf(o)
          /\ "TRAP_OP" \in heap[o].MEM_CS <=> "TRAP_OP" \in UcodeOf(o)
      <4>1. heap[o].MEM_CS = ToMEM_CS(ToAGEX_CS(UcodeOf(o)))
        BY <1>6, <2>1 DEF ControlInvariant, WordsFollow, Past
      <4> QED BY <1>6, <2>1, <4>1, UcodeOfType, BranchSignals DEF ControlInvariant
    <3> QED BY <1>5, <1>6, <2>1, <3>1, <3>2, <3>3 DEF MemPcMux, Redirects
  <2>2. PS["MEMORY"].V => UcodeOf(o)' = UcodeOf(o) /\ Redirects(o)' = Redirects(o)
    BY <1>1, <1>5, <1>6 DEF UcodeOf, Redirects, ConditionHolds
  <2>3. PS["STORE"].V => On("STORE")' = On("STORE")
    BY <1>1, <1>4, <1>6 DEF On
  <2>4. PS["STORE"].V => /\ store_sigs'.sr_reg_data = WritebackValue(On("STORE")')
                         /\ store_sigs'.sr_nzp = ConditionCodes(WritebackValue(On("STORE")'))
    BY <1>1, <2>3 DEF RefinementInvariant, SignalsFollow
  <2> QED BY <1>1, <2>1, <2>2, <2>4 DEF SignalsFollow
<1>12. /\ PathFollows'
       /\ AddressIn(PS["STORE"], FromMEMORY)' = AddressIn(PS["STORE"], FromMEMORY)
  BY <1>1, <1>4, <1>5, <1>6, PathKept
<1>13. ArchitecturalPC' = ArchitecturalPC
  BY <1>1, <1>12 DEF ArchitecturalPC
<1> QED BY <1>1, <1>3, <1>9, <1>10, <1>11, <1>12, <1>13 DEF RefinementInvariant, Arch!vars

LEMMA AGEX_stageRefinement ==
  ASSUME ControlInvariant, OperandsInvariant, RefinementInvariant, AGEX_stage
  PROVE  RefinementInvariant' /\ UNCHANGED Arch!vars
<1> DEFINE o == PS["AGEX"].instruction
           stall == stall_sigs.mem_stall
<1>0. ControlInvariant'
  BY AGEX_stageControl
<1>1. /\ at = "AGEX" /\ at' = "DE"
      /\ UNCHANGED <<PC, REGS, NZP, memory, PS, memory_sigs, store_sigs>>
  BY DEF AGEX_stage, State
<1>2. AfterMEM /\ AfterMEM' /\ AfterAGEX' /\ ~AfterDE /\ ~AfterDE'
  BY <1>1 DEF AfterMEM, AfterAGEX, AfterDE
<1>3. \A x \in Obj : heap'[x] = IF x = o /\ ~stall THEN Executed(heap[x]) ELSE heap[x]
  BY AGEX_stageHeap
<1>4. \A x \in Obj :
        /\ heap'[x].IR = heap[x].IR /\ heap'[x].NPC = heap[x].NPC
        /\ heap'[x].SR1 = heap[x].SR1 /\ heap'[x].SR2 = heap[x].SR2
        /\ heap'[x].AGEX_CS = heap[x].AGEX_CS
        /\ x = o /\ ~stall => /\ heap'[x].ADDRESS = MemAddress(heap[x])
                             /\ heap'[x].ALU_RESULT = AluShifterOutput(heap[x])
  <2>1. \A x \in Obj : heap[x] \in Instruction
    BY DEF ControlInvariant, TypeOK
  <2> QED BY <1>3, <2>1 DEF Executed, Instruction
<1>5. stall_sigs'.mem_stall = stall
  BY DEF AGEX_stage, ControlInvariant, TypeOK, Stall_Entry
<1>6. /\ PS["AGEX"].V => o \in Obj
      /\ PS["MEMORY"].V => PS["MEMORY"].instruction \in Obj /\ PS["MEMORY"].instruction # o
      /\ PS["STORE"].V => PS["STORE"].instruction \in Obj /\ PS["STORE"].instruction # o
  BY ValidObjects DEF ControlInvariant, OneOwner, Behind, Stages
<1>7. /\ \A s \in Stages \ {"MEMORY"} : NEW_PS'[s] = NEW_PS[s]
      /\ NEW_PS["STORE"].instruction = PS["MEMORY"].instruction
      /\ NEW_PS["STORE"].V => PS["MEMORY"].V
      /\ SameContent(NEW_PS'["MEMORY"], IF stall THEN PS["MEMORY"] ELSE PS["AGEX"])
  <2>1. \A s \in Stages \ {"MEMORY"} : NEW_PS'[s] = NEW_PS[s]
    BY DEF AGEX_stage, ControlInvariant, TypeOK
  <2>2. StoreLatched /\ MemoryLatched'
    BY <1>0 DEF ControlInvariant
  <2>3. SameContent(NEW_PS'["MEMORY"], IF stall THEN PS["MEMORY"] ELSE PS["AGEX"])
    BY <1>1, <1>2, <1>5, <2>2 DEF MemoryLatched, SameContent
  <2> QED BY <1>2, <2>1, <2>2, <2>3 DEF StoreLatched
<1>8. MemoryUnwritten'
  <2>1. \A s \in Stages : PS[s].MEM_CS = {} /\ NEW_PS[s].MEM_CS = {}
    BY DEF RefinementInvariant, MemoryUnwritten
  <2>2. \/ NEW_PS' = NEW_PS
        \/ NEW_PS' = [NEW_PS EXCEPT !["MEMORY"] = PS["MEMORY"]]
        \/ \E v, w : NEW_PS' = [NEW_PS EXCEPT !["MEMORY"] = Load(NEW_PS["MEMORY"], v, w)]
    BY DEF AGEX_stage
  <2>3. \A s \in Stages : NEW_PS'[s].MEM_CS = {}
    BY <2>1, <2>2 DEF Load, ControlInvariant, TypeOK, Latch, Stages
  <2> QED BY <1>1, <2>1, <2>3 DEF RefinementInvariant, MemoryUnwritten
<1>9. InstructionsFetched'
  <2>1. \A s \in Stages : PS[s].V => PS[s].instruction \in Obj
    BY ValidObjects
  <2>2. \A s \in Stages : NEW_PS[s].V => NEW_PS[s].instruction \in Obj
    BY ValidObjects
  <2>3. \A s \in Stages : Fetched(PS[s]) /\ Fetched(NEW_PS[s])
    BY DEF RefinementInvariant, InstructionsFetched
  <2>4. \A s \in Stages : Fetched(PS[s])'
    BY <1>1, <1>4, <2>1, <2>3 DEF Fetched, AddressOf
  <2>5. \A s \in Stages \ {"MEMORY"} : Fetched(NEW_PS[s])'
    BY <1>1, <1>4, <1>7, <2>2, <2>3 DEF Fetched, AddressOf
  <2>6. Fetched(PS["MEMORY"])' /\ Fetched(PS["AGEX"])'
    BY <2>4 DEF Stages
  <2>7. Fetched(NEW_PS["MEMORY"])'
    BY <1>1, <1>7, <2>6 DEF Fetched, SameContent
  <2> QED BY <2>4, <2>5, <2>7 DEF InstructionsFetched
<1>10. ResultsFollow'
  <2>1. \A x \in Obj : /\ MemAddress(heap'[x]) = MemAddress(heap[x])
                       /\ AluShifterOutput(heap'[x]) = AluShifterOutput(heap[x])
    BY <1>4, ResultsKept
  <2>2. Computed(PS["MEMORY"])' /\ Computed(PS["STORE"])' /\ Delivered(PS["STORE"])'
    BY <1>1, <1>3, <1>6 DEF RefinementInvariant, ResultsFollow, Computed, Delivered
  <2>3. Computed(NEW_PS["STORE"])' /\ Delivered(NEW_PS["STORE"])'
    <3>1. NEW_PS'["STORE"] = NEW_PS["STORE"]
      BY <1>7 DEF Stages
    <3>2. NEW_PS["STORE"].V => heap'[NEW_PS["STORE"].instruction] = heap[NEW_PS["STORE"].instruction]
      BY <1>3, <1>6, <1>7
    <3> QED BY <1>1, <3>1, <3>2 DEF RefinementInvariant, ResultsFollow, Computed, Delivered
  <2>4. Computed(NEW_PS["MEMORY"])'
    <3>1. CASE stall
      BY <1>1, <1>7, <2>2, <3>1 DEF Computed, SameContent
    <3>2. CASE ~stall
      <4>1. PS["AGEX"].V => /\ heap'[o].ADDRESS = MemAddress(heap'[o])
                            /\ heap'[o].ALU_RESULT = AluShifterOutput(heap'[o])
        BY <1>4, <1>6, <2>1, <3>2
      <4> QED BY <1>7, <3>2, <4>1 DEF Computed, SameContent
    <3> QED BY <3>1, <3>2
  <2> QED BY <2>2, <2>3, <2>4 DEF ResultsFollow
<1>11. SignalsFollow'
  <2>1. PS["MEMORY"].V => heap'[PS["MEMORY"].instruction] = heap[PS["MEMORY"].instruction]
    BY <1>3, <1>6
  <2>2. PS["STORE"].V => heap'[PS["STORE"].instruction] = heap[PS["STORE"].instruction]
    BY <1>3, <1>6
  <2> QED BY <1>1, <1>2, <2>1, <2>2 DEF RefinementInvariant, SignalsFollow, Redirects, UcodeOf, On
<1>12. /\ PathFollows'
       /\ AddressIn(PS["STORE"], FromMEMORY)' = AddressIn(PS["STORE"], FromMEMORY)
  BY <1>1, <1>3, <1>4, <1>6, PathKept
<1>13. ArchitecturalPC' = ArchitecturalPC
  BY <1>1, <1>12 DEF ArchitecturalPC
<1> QED BY <1>1, <1>8, <1>9, <1>10, <1>11, <1>12, <1>13 DEF RefinementInvariant, Arch!vars

LEMMA DE_stageRefinement ==
  ASSUME ControlInvariant, OperandsInvariant, RefinementInvariant, DE_stage
  PROVE  RefinementInvariant' /\ FromMEMORY' = FromMEMORY
<1> DEFINE o == PS["DECODE"].instruction
           stall == stall_sigs.mem_stall
<1>0. ControlInvariant'
  BY DE_stageControl
<1>1. /\ at = "DE" /\ at' = "FETCH"
      /\ UNCHANGED <<PC, memory, PS, memory_sigs, store_sigs>>
  BY DEF DE_stage
<1>2. AfterMEM /\ AfterAGEX /\ AfterMEM' /\ AfterDE'
  BY <1>1 DEF AfterMEM, AfterAGEX, AfterDE
<1>3. \A x \in Obj : /\ x # o => heap'[x] = heap[x]
                     /\ heap'[x].IR = heap[x].IR /\ heap'[x].NPC = heap[x].NPC
  <2>1. \A x \in Obj : heap[x] \in Instruction
    BY DEF ControlInvariant, TypeOK
  <2> QED BY <2>1, DE_stageHeap DEF Decoded, Instruction
<1>4. stall_sigs'.mem_stall = stall
  BY DEF DE_stage, ControlInvariant, TypeOK, Stall_Entry
<1>5. /\ PS["AGEX"].V => PS["AGEX"].instruction \in Obj /\ PS["AGEX"].instruction # o
      /\ PS["MEMORY"].V => PS["MEMORY"].instruction \in Obj /\ PS["MEMORY"].instruction # o
      /\ PS["STORE"].V => PS["STORE"].instruction \in Obj /\ PS["STORE"].instruction # o
  BY ValidObjects DEF ControlInvariant, OneOwner, Behind, Stages
<1>6. /\ \A s \in Stages \ {"AGEX"} : NEW_PS'[s] = NEW_PS[s]
      /\ NEW_PS["STORE"].instruction = PS["MEMORY"].instruction
      /\ NEW_PS["STORE"].V => PS["MEMORY"].V
      /\ SameContent(NEW_PS["MEMORY"], IF stall THEN PS["MEMORY"] ELSE PS["AGEX"])
      /\ NEW_PS'["AGEX"].instruction = IF stall THEN PS["AGEX"].instruction ELSE o
      /\ NEW_PS'["AGEX"].V => IF stall THEN PS["AGEX"].V ELSE PS["DECODE"].V
  <2>1. \A s \in Stages \ {"AGEX"} : NEW_PS'[s] = NEW_PS[s]
    BY DEF DE_stage, ControlInvariant, TypeOK
  <2>2. StoreLatched /\ MemoryLatched /\ AgexLatched'
    BY <1>0 DEF ControlInvariant
  <2>3. SameContent(NEW_PS["MEMORY"], IF stall THEN PS["MEMORY"] ELSE PS["AGEX"])
    BY <1>2, <2>2 DEF MemoryLatched
  <2>4. /\ NEW_PS'["AGEX"].instruction = IF stall THEN PS["AGEX"].instruction ELSE o
        /\ NEW_PS'["AGEX"].V => IF stall THEN PS["AGEX"].V ELSE PS["DECODE"].V
    BY <1>1, <1>2, <1>4, <2>2 DEF AgexLatched, SameContent
  <2> QED BY <1>2, <2>1, <2>2, <2>3, <2>4 DEF StoreLatched
<1>7. MemoryUnwritten'
  <2>1. \A s \in Stages : PS[s].MEM_CS = {} /\ NEW_PS[s].MEM_CS = {}
    BY DEF RefinementInvariant, MemoryUnwritten
  <2>2. \/ NEW_PS' = NEW_PS
        \/ \E v, w : NEW_PS' = [NEW_PS EXCEPT !["AGEX"] = Load(NEW_PS["AGEX"], v, w)]
    BY DEF DE_stage
  <2>3. \A s \in Stages : NEW_PS'[s].MEM_CS = {}
    BY <2>1, <2>2 DEF Load, ControlInvariant, TypeOK, Latch, Stages
  <2> QED BY <1>1, <2>1, <2>3 DEF RefinementInvariant, MemoryUnwritten
<1>8. InstructionsFetched'
  <2>1. \A s \in Stages : PS[s].V => PS[s].instruction \in Obj
    BY ValidObjects
  <2>2. \A s \in Stages : NEW_PS[s].V => NEW_PS[s].instruction \in Obj
    BY ValidObjects
  <2>3. \A s \in Stages : Fetched(PS[s]) /\ Fetched(NEW_PS[s])
    BY DEF RefinementInvariant, InstructionsFetched
  <2>4. \A s \in Stages : Fetched(PS[s])'
    BY <1>1, <1>3, <2>1, <2>3 DEF Fetched, AddressOf
  <2>5. \A s \in Stages \ {"AGEX"} : Fetched(NEW_PS[s])'
    BY <1>1, <1>3, <1>6, <2>2, <2>3 DEF Fetched, AddressOf
  <2>6. Fetched(PS["DECODE"])' /\ Fetched(PS["AGEX"])'
    BY <2>4 DEF Stages
  <2>7. Fetched(NEW_PS["AGEX"])'
    BY <1>1, <1>6, <2>6 DEF Fetched
  <2> QED BY <2>4, <2>5, <2>7 DEF InstructionsFetched
<1>9. ResultsFollow'
  <2>1. Computed(PS["MEMORY"])' /\ Computed(PS["STORE"])' /\ Delivered(PS["STORE"])'
    BY <1>1, <1>3, <1>5 DEF RefinementInvariant, ResultsFollow, Computed, Delivered
  <2>2. NEW_PS'["STORE"] = NEW_PS["STORE"] /\ NEW_PS'["MEMORY"] = NEW_PS["MEMORY"]
    BY <1>6 DEF Stages
  <2>3. NEW_PS["STORE"].V => heap'[NEW_PS["STORE"].instruction] = heap[NEW_PS["STORE"].instruction]
    BY <1>3, <1>5, <1>6
  <2>4. NEW_PS["MEMORY"].V => heap'[NEW_PS["MEMORY"].instruction] = heap[NEW_PS["MEMORY"].instruction]
    BY <1>3, <1>5, <1>6 DEF SameContent
  <2>5. Computed(NEW_PS["STORE"])' /\ Delivered(NEW_PS["STORE"])' /\ Computed(NEW_PS["MEMORY"])'
    BY <1>1, <2>2, <2>3, <2>4 DEF RefinementInvariant, ResultsFollow, Computed, Delivered
  <2> QED BY <2>1, <2>5 DEF ResultsFollow
<1>10. SignalsFollow'
  <2>1. PS["MEMORY"].V => heap'[PS["MEMORY"].instruction] = heap[PS["MEMORY"].instruction]
    BY <1>3, <1>5
  <2> QED BY <1>1, <1>2, <2>1 DEF RefinementInvariant, SignalsFollow, Redirects, UcodeOf
<1>11. PathFollows' /\ FromMEMORY' = FromMEMORY
  BY <1>1, <1>3, <1>5, PathKept
<1> QED BY <1>7, <1>8, <1>9, <1>10, <1>11 DEF RefinementInvariant

(* What the programmer's machine makes of the instruction at its program counter. *)
LEMMA Execution ==
  LET ir    == GetWordAt(memory, WordAddress(ArchitecturalPC))
      ucode == MicroCode(ir)
      inst  == Arch!Completed(Arch!Current)
  IN  /\ inst.IR = ir /\ inst.CC = NZP
      /\ inst.NPC = Add(ArchitecturalPC, 2)
      /\ inst.DRID = DR_ID(ir, ucode)
      /\ inst.AGEX_CS = ToAGEX_CS(ucode)
      /\ inst.MEM_CS = ToMEM_CS(inst.AGEX_CS)
      /\ inst.SR_CS = ToSR_CS(inst.MEM_CS)
      /\ inst.SR1 = REGS[SR1_ID(ir)] /\ inst.SR2 = REGS[SR2_ID(ir)]
      /\ inst.ADDRESS = MemAddress(inst)
      /\ inst.ALU_RESULT = AluShifterOutput(inst)
      /\ inst.DATA = IF "DCACHE_EN" \in inst.MEM_CS
                     THEN LoadedValue(inst, GetWordAt(memory, WordAddress(inst.ADDRESS))) ELSE 0
<1> DEFINE ir == GetWordAt(memory, WordAddress(ArchitecturalPC))
           ucode == MicroCode(ir)
           created == Arch!Create(ir, Add(ArchitecturalPC, 2))
           decoded == Arch!Decoded(created, ucode, REGS[SR1_ID(ir)], REGS[SR2_ID(ir)], NZP)
           executed == Arch!Executed(decoded)
           value == IF "DCACHE_EN" \in executed.MEM_CS
                    THEN LoadedValue(executed, GetWordAt(memory, WordAddress(executed.ADDRESS))) ELSE 0
           inst == Arch!Accessed(executed, value)
<1>1. Arch!Current = executed
  BY SameWords, SameDatapath, SameMemory DEF Arch!Current, MicroCode
<1>2. Arch!Completed(executed) = inst
  BY SameDatapath, SameMemory DEF Arch!Completed
<1>3. /\ created = [IR |-> ir, NPC |-> Add(ArchitecturalPC, 2), DATA |-> 0, SR1 |-> 0, SR2 |-> 0,
                    ALU_RESULT |-> 0, ADDRESS |-> 0, DRID |-> 0, CC |-> 0,
                    AGEX_CS |-> {}, MEM_CS |-> {}, SR_CS |-> {}]
  BY DEF Arch!Create
<1> HIDE DEF ir, ucode, created
<1>4. decoded = [created EXCEPT !.AGEX_CS = ToAGEX_CS(ucode), !.SR1 = REGS[SR1_ID(ir)],
                               !.SR2 = REGS[SR2_ID(ir)], !.CC = NZP, !.DRID = DR_ID(ir, ucode)]
  BY <1>3, SameSlices, SameDatapath DEF Arch!Decoded
<1>5. executed = [decoded EXCEPT !.MEM_CS = ToMEM_CS(decoded.AGEX_CS), !.ADDRESS = MemAddress(decoded),
                                 !.ALU_RESULT = AluShifterOutput(decoded)]
  BY SameSlices, SameDatapath DEF Arch!Executed
<1>6. inst = [executed EXCEPT !.SR_CS = ToSR_CS(executed.MEM_CS), !.DATA = value]
  BY SameSlices DEF Arch!Accessed
<1>7. decoded = [IR |-> ir, NPC |-> Add(ArchitecturalPC, 2), DATA |-> 0,
                 SR1 |-> REGS[SR1_ID(ir)], SR2 |-> REGS[SR2_ID(ir)],
                 ALU_RESULT |-> 0, ADDRESS |-> 0, DRID |-> DR_ID(ir, ucode), CC |-> NZP,
                 AGEX_CS |-> ToAGEX_CS(ucode), MEM_CS |-> {}, SR_CS |-> {}]
  BY <1>3, <1>4
<1> HIDE DEF decoded
<1>8. executed = [IR |-> ir, NPC |-> Add(ArchitecturalPC, 2), DATA |-> 0,
                  SR1 |-> REGS[SR1_ID(ir)], SR2 |-> REGS[SR2_ID(ir)],
                  ALU_RESULT |-> AluShifterOutput(decoded), ADDRESS |-> MemAddress(decoded),
                  DRID |-> DR_ID(ir, ucode), CC |-> NZP, AGEX_CS |-> ToAGEX_CS(ucode),
                  MEM_CS |-> ToMEM_CS(ToAGEX_CS(ucode)), SR_CS |-> {}]
  BY <1>5, <1>7
<1> HIDE DEF executed
<1>9. inst = [IR |-> ir, NPC |-> Add(ArchitecturalPC, 2), DATA |-> value,
              SR1 |-> REGS[SR1_ID(ir)], SR2 |-> REGS[SR2_ID(ir)],
              ALU_RESULT |-> AluShifterOutput(decoded), ADDRESS |-> MemAddress(decoded),
              DRID |-> DR_ID(ir, ucode), CC |-> NZP, AGEX_CS |-> ToAGEX_CS(ucode),
              MEM_CS |-> ToMEM_CS(ToAGEX_CS(ucode)),
              SR_CS |-> ToSR_CS(ToMEM_CS(ToAGEX_CS(ucode)))]
  <2> HIDE DEF value
  <2> QED BY <1>6, <1>8
<1>10. value = IF "DCACHE_EN" \in inst.MEM_CS
               THEN LoadedValue(inst, GetWordAt(memory, WordAddress(inst.ADDRESS))) ELSE 0
  <2>1. inst.MEM_CS = executed.MEM_CS /\ inst.ADDRESS = executed.ADDRESS
    BY <1>8, <1>9
  <2> HIDE DEF inst
  <2>2. \A word : LoadedValue(inst, word) = LoadedValue(executed, word)
    BY <2>1, Dependencies
  <2> QED BY <2>1, <2>2
<1> HIDE DEF inst, value
<1>11. /\ MemAddress(inst) = MemAddress(decoded)
       /\ AluShifterOutput(inst) = AluShifterOutput(decoded)
  <2>1. /\ inst.IR = decoded.IR /\ inst.NPC = decoded.NPC /\ inst.AGEX_CS = decoded.AGEX_CS
        /\ inst.SR1 = decoded.SR1 /\ inst.SR2 = decoded.SR2
    BY <1>7, <1>9
  <2> QED BY <2>1, ResultsKept
<1>12. /\ inst.IR = ir /\ inst.CC = NZP /\ inst.NPC = Add(ArchitecturalPC, 2)
       /\ inst.DRID = DR_ID(ir, ucode) /\ inst.AGEX_CS = ToAGEX_CS(ucode)
       /\ inst.MEM_CS = ToMEM_CS(inst.AGEX_CS) /\ inst.SR_CS = ToSR_CS(inst.MEM_CS)
       /\ inst.SR1 = REGS[SR1_ID(ir)] /\ inst.SR2 = REGS[SR2_ID(ir)]
       /\ inst.ADDRESS = MemAddress(inst) /\ inst.ALU_RESULT = AluShifterOutput(inst)
       /\ inst.DATA = value
  BY <1>9, <1>11
<1>13. Arch!Completed(Arch!Current) = inst
  BY <1>1, <1>2
<1> QED BY <1>10, <1>12, <1>13 DEF ir, ucode

(* The signals that select the operands and the result survive the slices. *)
LEMMA SelectSignals ==
  ASSUME NEW cs \in ControlWord
  PROVE  /\ \A x \in {"ADDR1MUX", "SR2MUX", "ALU_RESULTMUX"} : x \in ToAGEX_CS(cs) <=> x \in cs
         /\ Get_DR_VALUEMUX(ToSR_CS(ToMEM_CS(ToAGEX_CS(cs)))) = Get_DR_VALUEMUX(cs)
<1>1. /\ AGEX_CS_BITS[1] = "ADDR1MUX" /\ AGEX_CS_BITS[6] = "SR2MUX" /\ AGEX_CS_BITS[9] = "ALU_RESULTMUX"
      /\ AGEX_CS_BITS[17] = "DR_VALUEMUX1" /\ AGEX_CS_BITS[18] = "DR_VALUEMUX0"
      /\ MEM_CS_BITS[8] = "DR_VALUEMUX1" /\ MEM_CS_BITS[9] = "DR_VALUEMUX0"
      /\ SR_CS_BITS[1] = "DR_VALUEMUX1" /\ SR_CS_BITS[2] = "DR_VALUEMUX0"
  BY DEF AGEX_CS_BITS, MEM_CS_BITS, SR_CS_BITS
<1>2. {"ADDR1MUX", "SR2MUX", "ALU_RESULTMUX", "DR_VALUEMUX1", "DR_VALUEMUX0"}
        \subseteq {AGEX_CS_BITS[k] : k \in 1..20}
  BY <1>1
<1>3. {"DR_VALUEMUX1", "DR_VALUEMUX0"} \subseteq {MEM_CS_BITS[k] : k \in 1..11}
  BY <1>1
<1>4. {"DR_VALUEMUX1", "DR_VALUEMUX0"} \subseteq {SR_CS_BITS[k] : k \in 1..4}
  BY <1>1
<1>5. ToAGEX_CS(cs) \in ControlWord /\ ToMEM_CS(ToAGEX_CS(cs)) \in ControlWord
  BY ControlWords
<1>6. /\ ToAGEX_CS(cs) = cs \cap {AGEX_CS_BITS[k] : k \in 1..20}
      /\ ToMEM_CS(ToAGEX_CS(cs)) = ToAGEX_CS(cs) \cap {MEM_CS_BITS[k] : k \in 1..11}
      /\ ToSR_CS(ToMEM_CS(ToAGEX_CS(cs))) = ToMEM_CS(ToAGEX_CS(cs)) \cap {SR_CS_BITS[k] : k \in 1..4}
  BY <1>5, ControlWordSlices
<1>7. \A x \in {"DR_VALUEMUX1", "DR_VALUEMUX0"} : x \in ToSR_CS(ToMEM_CS(ToAGEX_CS(cs))) <=> x \in cs
  BY <1>2, <1>3, <1>4, <1>6
<1> QED BY <1>2, <1>6, <1>7 DEF Get_DR_VALUEMUX, Mux

(* The microcode row of an object says which registers its instruction uses. *)
LEMMA RegistersNeeded ==
  ASSUME TypeOK, NEW o \in Obj
  PROVE  LET cs == UcodeOf(o)
             sr == ToSR_CS(ToMEM_CS(ToAGEX_CS(cs)))
         IN  /\ "ADDR1MUX" \in ToAGEX_CS(cs) => "SR1_NEEDED" \in cs
             /\ Get_DR_VALUEMUX(sr) = 3 /\ {"LD_REG", "LD_CC"} \cap cs # {} =>
                  /\ "SR1_NEEDED" \in cs
                  /\ "ALU_RESULTMUX" \in ToAGEX_CS(cs) /\ "SR2MUX" \notin ToAGEX_CS(cs)
                       => "SR2_NEEDED" \in cs
             /\ "BR_OP" \in cs => "TRAP_OP" \notin cs
<1>1. UcodeOf(o) \in ControlWord
  BY UcodeOfType
<1>2. CONTROL_STORE_ADDRESS(heap[o].IR) \in 0..(CONTROL_STORE_ROWS - 1)
  BY RowExists DEF TypeOK, Instruction
<1>3. LET cs == UcodeOf(o)
      IN  /\ "ADDR1MUX" \in cs => "SR1_NEEDED" \in cs
          /\ Get_DR_VALUEMUX(cs) = 3 /\ {"LD_REG", "LD_CC"} \cap cs # {} =>
               /\ "SR1_NEEDED" \in cs
               /\ "ALU_RESULTMUX" \in cs /\ "SR2MUX" \notin cs => "SR2_NEEDED" \in cs
          /\ ~({"BR_OP", "TRAP_OP"} \subseteq cs)
  BY <1>2, NeedsAssumption DEF UcodeOf, MicroCode
<1> QED BY <1>1, <1>3, SelectSignals

(* Two bytes on and two bytes back is the same address, wherever it wraps. *)
LEMMA WrapAround ==
  ASSUME NEW x \in Nat, x < 65536
  PROVE  /\ (((x + 65534) % 65536) + 2) % 65536 = x
         /\ (((x + 2) % 65536) + 65534) % 65536 = x
<1>1. CASE x < 2
  <2>1. (x + 65534) % 65536 = x + 65534 /\ (x + 2) % 65536 = x + 2
    BY <1>1
  <2>2. ((x + 65534) + 2) % 65536 = x /\ ((x + 2) + 65534) % 65536 = x
    BY <1>1
  <2> QED BY <2>1, <2>2
<1>2. CASE x >= 2 /\ x < 65534
  <2>1. (x + 65534) % 65536 = x - 2 /\ (x + 2) % 65536 = x + 2
    BY <1>2
  <2>2. ((x - 2) + 2) % 65536 = x /\ ((x + 2) + 65534) % 65536 = x
    BY <1>2
  <2> QED BY <2>1, <2>2
<1>3. CASE x >= 65534
  <2>1. (x + 65534) % 65536 = x - 2 /\ (x + 2) % 65536 = x - 65534
    BY <1>3
  <2>2. ((x - 2) + 2) % 65536 = x /\ ((x - 65534) + 65534) % 65536 = x
    BY <1>3
  <2> QED BY <2>1, <2>2
<1> QED BY <1>1, <1>2, <1>3

LEMMA Addresses ==
  ASSUME NEW x \in Word
  PROVE  /\ Add(Add(x, WordSize - 2), 2) = x
         /\ Add(Add(x, 2), WordSize - 2) = x
<1>1. x \in Nat /\ x < 65536
  BY WordIsNat, Sizes
<1>2. WordSize = 65536
  BY DEF WordSize
<1>3. /\ (((x + 65534) % 65536) + 2) % 65536 = x
      /\ (((x + 2) % 65536) + 65534) % 65536 = x
  BY <1>1, WrapAround
<1>4. WordSize - 2 = 65534
  BY <1>2
<1>5. \A a, b : Add(a, b) = (a + b) % 65536
  BY <1>2 DEF Add
<1> QED BY <1>3, <1>4, <1>5

-----------------------------------------------------------------------------
(* The instruction in STORE is the next one of the programmer's machine, and has got from
   the pipeline what that machine gives it. *)
LEMMA SameInstruction ==
  ASSUME ControlInvariant, OperandsInvariant, RefinementInvariant, at = "DE", PS["STORE"].V,
         NEW w \in Obj, w = PS["STORE"].instruction
  PROVE  LET h == heap[w]
             a == Arch!Completed(Arch!Current)
         IN  /\ a.IR = h.IR /\ a.NPC = h.NPC /\ a.DRID = h.DRID
             /\ a.AGEX_CS = h.AGEX_CS /\ a.MEM_CS = h.MEM_CS /\ a.SR_CS = h.SR_CS
             /\ a.ADDRESS = h.ADDRESS /\ a.DATA = h.DATA
             /\ "BR_OP" \in UcodeOf(w) => a.CC = h.CC
             /\ {"LD_REG", "LD_CC"} \cap UcodeOf(w) # {} => WritebackValue(a) = WritebackValue(h)
<1> DEFINE h == heap[w]
           a == Arch!Completed(Arch!Current)
           cs == UcodeOf(w)
<1>0. TypeOK /\ w # NULL /\ ~AfterDE /\ "STORE" \in Stages
  BY ObjAssumption DEF ControlInvariant, AfterDE, Stages
<1>1. ArchitecturalPC = AddressOf(h)
  BY <1>0 DEF ArchitecturalPC, AddressIn, Valid
<1>2. h.NPC \in Word
  BY <1>0 DEF TypeOK, Instruction
<1>3. Add(ArchitecturalPC, 2) = h.NPC
  BY <1>1, <1>2, Addresses DEF AddressOf
<1>4. GetWordAt(memory, WordAddress(ArchitecturalPC)) = h.IR
  BY <1>0, <1>1 DEF RefinementInvariant, InstructionsFetched, Fetched
<1>5. MicroCode(GetWordAt(memory, WordAddress(ArchitecturalPC))) = cs
  BY <1>4 DEF UcodeOf
<1>6. /\ h.DRID = DR_ID(h.IR, cs) /\ h.AGEX_CS = ToAGEX_CS(cs)
      /\ h.MEM_CS = ToMEM_CS(h.AGEX_CS) /\ h.SR_CS = ToSR_CS(h.MEM_CS)
  BY DEF OperandsInvariant, DestinationsFollow, Past, Dest
<1> HIDE DEF a, h, cs
<1>7. /\ a.IR = h.IR /\ a.CC = NZP /\ a.NPC = h.NPC
      /\ a.DRID = DR_ID(h.IR, cs) /\ a.AGEX_CS = ToAGEX_CS(cs)
      /\ a.MEM_CS = ToMEM_CS(a.AGEX_CS) /\ a.SR_CS = ToSR_CS(a.MEM_CS)
      /\ a.SR1 = REGS[SR1_ID(h.IR)] /\ a.SR2 = REGS[SR2_ID(h.IR)]
      /\ a.ADDRESS = MemAddress(a) /\ a.ALU_RESULT = AluShifterOutput(a)
      /\ a.DATA = IF "DCACHE_EN" \in a.MEM_CS
                  THEN LoadedValue(a, GetWordAt(memory, WordAddress(a.ADDRESS))) ELSE 0
  BY <1>3, <1>4, <1>5, Execution DEF a
<1>8. a.DRID = h.DRID /\ a.AGEX_CS = h.AGEX_CS /\ a.MEM_CS = h.MEM_CS /\ a.SR_CS = h.SR_CS
  BY <1>6, <1>7
<1>9. /\ "SR1_NEEDED" \in cs => h.SR1 = REGS[SR1_ID(h.IR)]
      /\ "SR2_NEEDED" \in cs => h.SR2 = REGS[SR2_ID(h.IR)]
      /\ "BR_OP" \in cs => h.CC = NZP
  BY <1>0 DEF OperandsInvariant, OperandsHold, Fresh, h, cs
<1>10. /\ "ADDR1MUX" \in ToAGEX_CS(cs) => "SR1_NEEDED" \in cs
       /\ Get_DR_VALUEMUX(a.SR_CS) = 3 /\ {"LD_REG", "LD_CC"} \cap cs # {} =>
            /\ "SR1_NEEDED" \in cs
            /\ "ALU_RESULTMUX" \in ToAGEX_CS(cs) /\ "SR2MUX" \notin ToAGEX_CS(cs)
                 => "SR2_NEEDED" \in cs
  BY <1>0, <1>7, RegistersNeeded DEF cs
<1>11. /\ h.ADDRESS = MemAddress(h) /\ h.ALU_RESULT = AluShifterOutput(h)
       /\ h.DATA = IF "DCACHE_EN" \in h.MEM_CS
                   THEN LoadedValue(h, GetWordAt(memory, WordAddress(h.ADDRESS))) ELSE 0
  BY DEF RefinementInvariant, ResultsFollow, Computed, Delivered, h
<1>12. a.ADDRESS = h.ADDRESS
  <2>1. "ADDR1MUX" \in a.AGEX_CS => a.SR1 = h.SR1
    BY <1>7, <1>9, <1>10
  <2>2. MemAddress(a) = MemAddress(h)
    BY <1>7, <1>8, <2>1, Dependencies
  <2> QED BY <1>7, <1>11, <2>2
<1>13. a.DATA = h.DATA
  <2>1. \A word : LoadedValue(a, word) = LoadedValue(h, word)
    BY <1>8, <1>12, Dependencies
  <2> QED BY <1>7, <1>8, <1>11, <1>12, <2>1
<1>14. ASSUME {"LD_REG", "LD_CC"} \cap cs # {} PROVE WritebackValue(a) = WritebackValue(h)
  <2>1. CASE Get_DR_VALUEMUX(a.SR_CS) = 3
    <3>1. a.SR1 = h.SR1
      BY <1>7, <1>9, <1>10, <1>14, <2>1
    <3>2. "ALU_RESULTMUX" \in a.AGEX_CS /\ "SR2MUX" \notin a.AGEX_CS => a.SR2 = h.SR2
      BY <1>7, <1>9, <1>10, <1>14, <2>1
    <3>3. AluShifterOutput(a) = AluShifterOutput(h)
      BY <1>7, <1>8, <3>1, <3>2, Dependencies
    <3>4. a.ALU_RESULT = h.ALU_RESULT
      BY <1>7, <1>11, <3>3
    <3> QED BY <1>8, <2>1, <3>4 DEF WritebackValue
  <2>2. CASE Get_DR_VALUEMUX(a.SR_CS) # 3
    <3>1. Get_DR_VALUEMUX(a.SR_CS) \in {0, 1, 2}
      BY <2>2 DEF Get_DR_VALUEMUX, Mux
    <3> QED BY <1>7, <1>8, <1>12, <1>13, <3>1 DEF WritebackValue
  <2> QED BY <2>1, <2>2
<1>15. "BR_OP" \in cs => a.CC = h.CC
  BY <1>7, <1>9
<1> QED BY <1>7, <1>8, <1>12, <1>13, <1>14, <1>15 DEF a, h, cs

(* DE_stage writes back the instruction in STORE: a step of the programmer's machine. *)
LEMMA WriteBackSteps ==
  ASSUME PlainPrograms, ControlInvariant, OperandsInvariant, RefinementInvariant, DE_stage,
         PS["STORE"].V, NEW w \in Obj, w = PS["STORE"].instruction
  PROVE  Arch!Step
<1> DEFINE h == heap[w]
           a == Arch!Completed(Arch!Current)
           cs == UcodeOf(w)
<1>1. at = "DE" /\ at' = "FETCH" /\ memory' = memory
  BY DEF DE_stage
<1>2. TypeOK /\ w # NULL /\ "STORE" \in Stages /\ ~AfterDE
  BY <1>1, ObjAssumption DEF ControlInvariant, AfterDE, Stages
<1>3. cs \in ControlWord /\ Plain(cs) /\ heap[w].IR \in Word
  BY <1>2, UcodeOfType, PlainInstructions DEF TypeOK, Instruction
<1>4. h.AGEX_CS = ToAGEX_CS(cs) /\ h.MEM_CS = ToMEM_CS(h.AGEX_CS) /\ h.SR_CS = ToSR_CS(h.MEM_CS)
      /\ h.DRID = Dest(w)
  BY DEF OperandsInvariant, DestinationsFollow, Past
<1>5. /\ a.IR = h.IR /\ a.NPC = h.NPC /\ a.DRID = h.DRID
      /\ a.AGEX_CS = h.AGEX_CS /\ a.MEM_CS = h.MEM_CS /\ a.SR_CS = h.SR_CS
      /\ a.ADDRESS = h.ADDRESS /\ a.DATA = h.DATA
      /\ "BR_OP" \in cs => a.CC = h.CC
      /\ {"LD_REG", "LD_CC"} \cap cs # {} => WritebackValue(a) = WritebackValue(h)
  BY <1>1, SameInstruction
<1>6. ArchitecturalPC' = Arch!NextPC(h)
  <2>1. ArchitecturalPC' = FromMEMORY'
    BY <1>1 DEF ArchitecturalPC
  <2>2. FromMEMORY = Arch!NextPC(On("STORE"))
    BY <1>2 DEF RefinementInvariant, PathFollows
  <2> QED BY <2>1, <2>2, DE_stageRefinement DEF On
<1> HIDE DEF a, h
<1>7. ArchitecturalPC' = Arch!NextPC(a)
  <2>1. "BR_OP" \in h.MEM_CS <=> "BR_OP" \in cs
    BY <1>3, <1>4, BranchSignals
  <2>2. "BR_OP" \in h.MEM_CS => ConditionHolds(a) = ConditionHolds(h)
    BY <1>5, <2>1, Dependencies
  <2>3. "BR_OP" \in h.MEM_CS => Arch!ConditionHolds(a) = Arch!ConditionHolds(h)
    BY <2>2, SameDatapath
  <2> QED BY <1>5, <1>6, <2>3 DEF Arch!NextPC
<1>8. PS["DECODE"].instruction # NULL
  BY <1>2 DEF ControlInvariant, Filled
<1>9. WriteBack
  BY <1>8 DEF DE_stage
<1>10. /\ store_sigs.sr_reg_data = WritebackValue(h)
       /\ store_sigs.sr_nzp = ConditionCodes(WritebackValue(h))
  BY <1>1 DEF RefinementInvariant, SignalsFollow, On, h
<1>11. /\ \A r \in RegisterId : store_sigs.v_sr_ld_reg /\ store_sigs.sr_drid = r <=> Writes(PS["STORE"], r)
       /\ store_sigs.v_sr_ld_cc <=> SetsCodes(PS["STORE"])
  BY <1>1 DEF OperandsInvariant, WriteBackSelected
<1>12. store_sigs.sr_drid \in RegisterId /\ Dest(w) \in RegisterId
  BY <1>2, <1>3, RegisterNumbers DEF TypeOK, STORE_stage_Entry, Dest
<1>13. \A x \in {"LD_REG", "LD_CC"} : x \in a.SR_CS <=> x \in cs
  BY <1>3, <1>4, <1>5, ProducerSignals
<1>14. REGS' = IF "LD_REG" \in a.SR_CS
               THEN [REGS EXCEPT ![a.DRID] = Arch!WritebackValue(a)] ELSE REGS
  <2>1. CASE "LD_REG" \in cs
    <3>1. Writes(PS["STORE"], Dest(w))
      BY <2>1 DEF Writes
    <3>2. store_sigs.v_sr_ld_reg /\ store_sigs.sr_drid = a.DRID
      BY <1>4, <1>5, <1>11, <1>12, <3>1
    <3>3. store_sigs.sr_reg_data = Arch!WritebackValue(a)
      BY <1>5, <1>10, <2>1, SameDatapath
    <3> QED BY <1>9, <1>13, <2>1, <3>2, <3>3 DEF WriteBack
  <2>2. CASE "LD_REG" \notin cs
    <3>1. \A r : ~Writes(PS["STORE"], r)
      BY <2>2 DEF Writes
    <3>2. ~store_sigs.v_sr_ld_reg
      BY <1>11, <1>12, <3>1
    <3> QED BY <1>9, <1>13, <2>2, <3>2 DEF WriteBack
  <2> QED BY <2>1, <2>2
<1>15. NZP' = IF "LD_CC" \in a.SR_CS THEN Arch!ConditionCodes(Arch!WritebackValue(a)) ELSE NZP
  <2>1. store_sigs.v_sr_ld_cc <=> "LD_CC" \in cs
    BY <1>11 DEF SetsCodes
  <2>2. "LD_CC" \in cs => store_sigs.sr_nzp = Arch!ConditionCodes(Arch!WritebackValue(a))
    BY <1>5, <1>10, SameDatapath
  <2> QED BY <1>9, <1>13, <2>1, <2>2 DEF WriteBack
<1>16. LET store == "DCACHE_EN" \in a.MEM_CS /\ "DCACHE_RW" \in a.MEM_CS
       IN  memory' = Arch!SetBytesAt(memory, Arch!WordAddress(a.ADDRESS), Arch!MDR_IN(a),
                                     Arch!WE_LOW(a, store), Arch!WE_HIGH(a, store))
  <2>1. ~("DCACHE_EN" \in a.MEM_CS /\ "DCACHE_RW" \in a.MEM_CS)
    BY <1>3, <1>4, <1>5, SlicesOnlyDrop DEF Plain
  <2>2. ~Arch!WE_LOW(a, FALSE) /\ ~Arch!WE_HIGH(a, FALSE)
    BY DEF Arch!WE_LOW, Arch!WE_HIGH
  <2>3. \A x, y : Arch!SetBytesAt(memory, x, y, Arch!WE_LOW(a, FALSE), Arch!WE_HIGH(a, FALSE)) = memory
    BY <2>2 DEF Arch!SetBytesAt
  <2> QED BY <1>1, <2>1, <2>3
<1> QED BY <1>7, <1>14, <1>15, <1>16 DEF Arch!Step, a

(* With a bubble in STORE, or nothing, DE_stage leaves the programmer's machine alone. *)
LEMMA BubbleWritesNothing ==
  ASSUME ControlInvariant, OperandsInvariant, RefinementInvariant, DE_stage, ~PS["STORE"].V
  PROVE  UNCHANGED Arch!vars
<1>1. at = "DE" /\ at' = "FETCH" /\ memory' = memory
  BY DEF DE_stage
<1>2. \A r : ~Writes(PS["STORE"], r)
  BY DEF Writes
<1>3. ~SetsCodes(PS["STORE"])
  BY DEF SetsCodes
<1>4. ~store_sigs.v_sr_ld_reg /\ ~store_sigs.v_sr_ld_cc
  <2>1. store_sigs.sr_drid \in RegisterId
    BY DEF ControlInvariant, TypeOK, STORE_stage_Entry
  <2> QED BY <1>1, <1>2, <1>3, <2>1 DEF OperandsInvariant, WriteBackSelected
<1>5. REGS' = REGS /\ NZP' = NZP
  BY <1>4 DEF DE_stage, WriteBack
<1>6. ArchitecturalPC' = ArchitecturalPC
  <2>1. ArchitecturalPC = FromMEMORY
    BY <1>1 DEF ArchitecturalPC, AddressIn, Valid
  <2>2. ArchitecturalPC' = FromMEMORY'
    BY <1>1 DEF ArchitecturalPC
  <2> QED BY <2>1, <2>2, DE_stageRefinement
<1> QED BY <1>1, <1>5, <1>6 DEF Arch!vars

-----------------------------------------------------------------------------
(* A valid instruction that redirects the fetch has announced itself and set the PC mux. *)
LEMMA RedirectAnnounced ==
  ASSUME ControlInvariant, RefinementInvariant, at = "FETCH"
  PROVE  /\ IsBranchTaken => PS["MEMORY"].V /\ Redirects(PS["MEMORY"].instruction)
         /\ PS["MEMORY"].V /\ Redirects(PS["MEMORY"].instruction) =>
              /\ IsBranchTaken /\ stall_sigs.v_mem_br_stall
              /\ ~PS["AGEX"].V /\ ~PS["DECODE"].V
<1> DEFINE m == PS["MEMORY"].instruction
<1>1. AfterMEM
  BY DEF AfterMEM
<1>2. IsBranchTaken => PS["MEMORY"].V /\ Redirects(m)
  BY <1>1 DEF ControlInvariant, MuxFollows
<1>3. ASSUME PS["MEMORY"].V, Redirects(m)
      PROVE  /\ IsBranchTaken /\ stall_sigs.v_mem_br_stall
             /\ ~PS["AGEX"].V /\ ~PS["DECODE"].V
  <2>1. m \in Obj
    BY <1>3, ValidObjects DEF Stages
  <2>2. "BR_STALL" \in UcodeOf(m)
    BY <1>3, <2>1, UcodeOfType DEF Redirects, ControlInvariant
  <2>3. Raises("MEMORY", "BR_STALL")
    BY <1>3, <2>2 DEF Raises
  <2>4. stall_sigs.v_mem_br_stall /\ ~PS["AGEX"].V /\ ~PS["DECODE"].V
    BY <1>1, <2>3 DEF ControlInvariant, Announced, Interlocked
  <2>5. memory_sigs.mem_pc_mux = IF "BR_OP" \in UcodeOf(m) THEN 1 ELSE 2
    BY <1>1, <1>3 DEF RefinementInvariant, SignalsFollow
  <2> QED BY <2>4, <2>5 DEF IsBranchTaken
<1> QED BY <1>2, <1>3

(* No redirection: the fetch goes on where it was, stalled or not. *)
LEMMA FetchGoesOn ==
  ASSUME ControlInvariant, RefinementInvariant, FETCH_stage,
         ~(stall_sigs.v_mem_br_stall /\ IsBranchTaken)
  PROVE  /\ NextFetch' = PC
         /\ ~DecodeHeld /\ NEW_PS'["DECODE"].V =>
              LET o == NEW_PS'["DECODE"].instruction
              IN  /\ heap'[o].NPC = Add(PC, 2) /\ PC' = Add(PC, 2)
                  /\ heap'[o].IR = GetWordAt(memory, WordAddress(PC))
<1>1. at = "FETCH" /\ at' = "MOVE" /\ DecodeHeld' = DecodeHeld
  BY FETCH_stageKeeps
<1>2. PICK icache_r \in BOOLEAN :
        /\ PC' = IF ~IsStallDetected(icache_r) THEN NewPC(Add(PC, 2)) ELSE PC
        /\ ~DecodeHeld =>
             \E o \in Obj :
               /\ NEW_PS'["DECODE"].instruction = o
               /\ NEW_PS'["DECODE"].V = (~IsStallDetected(icache_r) /\ ~stall_sigs.v_mem_br_stall)
               /\ heap'[o].NPC = Add(PC, 2)
               /\ icache_r => heap'[o].IR = GetWordAt(memory, WordAddress(PC))
  BY FETCH_stageEffect
<1>3. PC \in Word
  BY DEF ControlInvariant, TypeOK
<1>4. CASE IsStallDetected(icache_r)
  <2>1. PC' = PC /\ (~DecodeHeld => ~NEW_PS'["DECODE"].V)
    BY <1>2, <1>4
  <2> QED BY <1>1, <2>1 DEF NextFetch, AddressIn, Valid
<1>5. CASE ~IsStallDetected(icache_r)
  <2>1. /\ icache_r /\ ~DecodeHeld /\ ~stall_sigs.v_mem_br_stall
    BY <1>5 DEF IsStallDetected, DecodeHeld
  <2>2. memory_sigs.mem_pc_mux = 0
    BY <1>1, <2>1, RedirectAnnounced DEF IsBranchTaken
  <2>3. PC' = Add(PC, 2)
    BY <1>2, <1>5, <2>2 DEF NewPC
  <2>4. PICK o \in Obj :
          /\ NEW_PS'["DECODE"].instruction = o /\ NEW_PS'["DECODE"].V = TRUE
          /\ heap'[o].NPC = Add(PC, 2)
          /\ heap'[o].IR = GetWordAt(memory, WordAddress(PC))
    BY <1>2, <1>5, <2>1
  <2>5. AddressOf(heap'[o]) = PC
    BY <1>3, <2>4, Addresses DEF AddressOf
  <2>6. NextFetch' = PC
    BY <1>1, <2>1, <2>4, <2>5, ObjAssumption DEF NextFetch, AddressIn, Valid
  <2> QED BY <2>3, <2>4, <2>6
<1> QED BY <1>4, <1>5

(* A redirection: the PC is where the instruction in MEMORY leads, and DECODE is a bubble. *)
LEMMA FetchRedirected ==
  ASSUME PlainPrograms, ControlInvariant, OperandsInvariant, RefinementInvariant, FETCH_stage,
         stall_sigs.v_mem_br_stall, IsBranchTaken
  PROVE  /\ PC' = Arch!NextPC(On("MEMORY"))
         /\ NextFetch' = PC'
         /\ ~NEW_PS'["DECODE"].V
<1> DEFINE m == PS["MEMORY"].instruction
           cs == UcodeOf(m)
<1>1. at = "FETCH" /\ at' = "MOVE"
  BY FETCH_stageKeeps
<1>2. /\ PS["MEMORY"].V /\ Redirects(m) /\ ~PS["DECODE"].V
  BY <1>1, RedirectAnnounced
<1>3. m \in Obj /\ TypeOK /\ "MEMORY" \in Stages
  BY <1>2, ValidObjects DEF Stages, ControlInvariant
<1>4. PICK icache_r \in BOOLEAN :
        /\ PC' = IF ~IsStallDetected(icache_r) THEN NewPC(Add(PC, 2)) ELSE PC
        /\ DecodeHeld => SameContent(NEW_PS'["DECODE"], PS["DECODE"])
        /\ ~DecodeHeld =>
             NEW_PS'["DECODE"].V = (~IsStallDetected(icache_r) /\ ~stall_sigs.v_mem_br_stall)
  BY FETCH_stageEffect
<1>5. ~NEW_PS'["DECODE"].V
  BY <1>2, <1>4 DEF SameContent
<1>6. NextFetch' = PC'
  BY <1>5 DEF NextFetch, AddressIn, Valid
<1>7. PC' = NewPC(Add(PC, 2))
  BY <1>4 DEF IsStallDetected
<1>8. /\ memory_sigs.target_pc = heap[m].ADDRESS /\ memory_sigs.trap_pc = heap[m].DATA
      /\ memory_sigs.mem_pc_mux = IF "BR_OP" \in cs THEN 1 ELSE 2
  BY <1>1, <1>2 DEF RefinementInvariant, SignalsFollow, AfterMEM
<1>9. PC' = IF "BR_OP" \in cs THEN heap[m].ADDRESS ELSE heap[m].DATA
  BY <1>7, <1>8 DEF NewPC
<1>10. cs \in ControlWord /\ Plain(cs)
  BY <1>2, <1>3, UcodeOfType, PlainInstructions
<1>11. heap[m].MEM_CS = ToMEM_CS(ToAGEX_CS(cs))
  BY <1>3 DEF ControlInvariant, WordsFollow, Past
<1>12. /\ "BR_OP" \in heap[m].MEM_CS <=> "BR_OP" \in cs
       /\ "TRAP_OP" \in heap[m].MEM_CS <=> "TRAP_OP" \in cs
       /\ "UNCOND_OP" \notin heap[m].MEM_CS
  BY <1>10, <1>11, BranchSignals, SlicesOnlyDrop DEF Plain
<1>13. Arch!ConditionHolds(heap[m]) = ConditionHolds(heap[m])
  BY SameDatapath
<1>14. PC' = Arch!NextPC(heap[m])
  BY <1>2, <1>9, <1>12, <1>13 DEF Redirects, Arch!NextPC
<1> QED BY <1>5, <1>6, <1>14 DEF On

LEMMA FETCH_stageRefinement ==
  ASSUME PlainPrograms, ControlInvariant, OperandsInvariant, RefinementInvariant, FETCH_stage
  PROVE  RefinementInvariant' /\ UNCHANGED Arch!vars
<1> DEFINE redirect == stall_sigs.v_mem_br_stall /\ IsBranchTaken
           new == NEW_PS'["DECODE"].instruction
<1>0. ControlInvariant'
  BY FETCH_stageControl
<1>1. /\ at = "FETCH" /\ at' = "MOVE"
      /\ UNCHANGED <<REGS, NZP, memory, PS, memory_sigs, store_sigs>>
      /\ stall_sigs'.mem_stall = stall_sigs.mem_stall /\ DecodeHeld' = DecodeHeld
      /\ \A s \in Stages : NEW_PS'[s].MEM_CS = NEW_PS[s].MEM_CS
      /\ \A s \in Stages \ {"DECODE"} : NEW_PS'[s] = NEW_PS[s]
  BY FETCH_stageKeeps
<1>2. /\ \A s \in Stages : PS[s].V => heap'[PS[s].instruction] = heap[PS[s].instruction]
      /\ \A s \in Stages \ {"DECODE"} :
           NEW_PS[s].V => heap'[NEW_PS[s].instruction] = heap[NEW_PS[s].instruction]
  BY FETCH_stageKeeps
<1>3. /\ AfterMEM /\ AfterMEM' /\ AfterDE /\ AfterDE' /\ ~AfterFETCH /\ AfterFETCH'
  BY <1>1 DEF AfterMEM, AfterDE, AfterFETCH
<1>4. PC \in Word
  BY DEF ControlInvariant, TypeOK
<1>5. ~DecodeHeld /\ NEW_PS'["DECODE"].V =>
        /\ heap'[new].NPC = Add(PC, 2) /\ PC' = heap'[new].NPC
        /\ heap'[new].IR = GetWordAt(memory, WordAddress(PC))
  BY FetchGoesOn, FetchRedirected
<1>6. MemoryUnwritten'
  BY <1>1 DEF RefinementInvariant, MemoryUnwritten
<1>7. InstructionsFetched'
  <2>1. \A s \in Stages : Fetched(PS[s]) /\ Fetched(NEW_PS[s])
    BY DEF RefinementInvariant, InstructionsFetched
  <2>2. \A s \in Stages : Fetched(PS[s])'
    BY <1>1, <1>2, <2>1 DEF Fetched
  <2>3. \A s \in Stages \ {"DECODE"} : Fetched(NEW_PS[s])'
    BY <1>1, <1>2, <2>1 DEF Fetched
  <2>4. Fetched(NEW_PS["DECODE"])'
    <3>1. CASE DecodeHeld
      <4>1. SameContent(NEW_PS'["DECODE"], PS'["DECODE"])
        BY <1>0, <1>1, <1>3, <3>1 DEF ControlInvariant, DecodeLatched, DecodeHeld, SameContent
      <4>2. Fetched(PS["DECODE"])'
        BY <2>2 DEF Stages
      <4> QED BY <4>1, <4>2 DEF Fetched, SameContent
    <3>2. CASE ~DecodeHeld
      <4>1. NEW_PS'["DECODE"].V => AddressOf(heap'[new]) = PC
        BY <1>4, <1>5, <3>2, Addresses DEF AddressOf
      <4> QED BY <1>1, <1>5, <3>2, <4>1 DEF Fetched
    <3> QED BY <3>1, <3>2
  <2> QED BY <2>2, <2>3, <2>4 DEF InstructionsFetched, Stages
<1>8. ResultsFollow'
  <2>1. \A s \in {"MEMORY", "STORE"} : s \in Stages \ {"DECODE"}
    BY DEF Stages
  <2>2. \A s \in {"MEMORY", "STORE"} : Computed(PS[s])' /\ Computed(NEW_PS[s])'
    BY <1>1, <1>2, <2>1 DEF RefinementInvariant, ResultsFollow, Computed
  <2>3. Delivered(PS["STORE"])' /\ Delivered(NEW_PS["STORE"])'
    BY <1>1, <1>2, <2>1 DEF RefinementInvariant, ResultsFollow, Delivered
  <2> QED BY <2>2, <2>3 DEF ResultsFollow
<1>9. PS["MEMORY"].V =>
        Redirects(PS["MEMORY"].instruction)' = Redirects(PS["MEMORY"].instruction)
  BY <1>1, <1>2 DEF Redirects, UcodeOf, Stages
<1>10. SignalsFollow'
  BY <1>1, <1>2, <1>3, <1>9 DEF RefinementInvariant, SignalsFollow, UcodeOf, Stages
<1>11. \A s \in Stages : PS[s].V => On(s)' = On(s)
  BY <1>1, <1>2 DEF On
<1>12. ArchitecturalPC = FromMEMORY /\ ArchitecturalPC' = FromMEMORY' /\ NextFetch = PC
  BY <1>1 DEF ArchitecturalPC, NextFetch
<1>13. PathFollows
  BY DEF RefinementInvariant
<1>14. PathFollows' /\ FromMEMORY' = FromMEMORY
  <2>1. CASE redirect
    <3>1. PC' = Arch!NextPC(On("MEMORY")) /\ NextFetch' = PC' /\ ~NEW_PS'["DECODE"].V
      BY <2>1, FetchRedirected
    <3>2. /\ PS["MEMORY"].V /\ Redirects(PS["MEMORY"].instruction)
          /\ ~PS["AGEX"].V /\ ~PS["DECODE"].V
      BY <1>1, <2>1, RedirectAnnounced
    <3>3. FromDECODE' = PC' /\ FromAGEX' = PC'
      BY <1>1, <3>1, <3>2 DEF FromDECODE, FromAGEX, AddressIn, Valid
    <3>4. FromMEMORY' = FromMEMORY
      <4>1. PS["MEMORY"].instruction # NULL
        BY <3>2 DEF ControlInvariant, Filled, Stages
      <4> QED BY <1>1, <1>2, <3>2, <4>1 DEF FromMEMORY, AddressIn, Valid, Stages
    <3>5. FromAGEX' = Arch!NextPC(On("MEMORY"))'
      <4>1. On("MEMORY")' = On("MEMORY")
        BY <1>11, <3>2 DEF Stages
      <4> QED BY <3>1, <3>3, <4>1
    <3> QED BY <1>1, <1>3, <1>9, <3>1, <3>2, <3>4, <3>5 DEF PathFollows
  <2>2. CASE ~redirect
    <3>1. NextFetch' = PC
      BY <2>2, FetchGoesOn
    <3>2. FromDECODE' = FromDECODE
      BY <1>1, <1>2, <1>12, <3>1 DEF FromDECODE, AddressIn, Valid, Stages
    <3>3. FromAGEX' = FromAGEX
      BY <1>1, <1>2, <3>2 DEF FromAGEX, AddressIn, Valid, Stages
    <3>4. FromMEMORY' = FromMEMORY
      BY <1>1, <1>2, <3>3 DEF FromMEMORY, AddressIn, Valid, Stages
    <3>5. PS["MEMORY"].V => ~Redirects(PS["MEMORY"].instruction)
      BY <1>1, <2>2, RedirectAnnounced
    <3>6. PS["MEMORY"].V => ~Redirects(PS["MEMORY"].instruction)' /\ FromAGEX' = On("MEMORY")'.NPC
      BY <1>9, <1>11, <1>13, <3>3, <3>5 DEF PathFollows, Stages
    <3>7. /\ PS["AGEX"].V => FromDECODE' = On("AGEX")'.NPC
          /\ PS["DECODE"].V => NextFetch' = On("DECODE")'.NPC
      BY <1>11, <1>12, <1>13, <3>1, <3>2 DEF PathFollows, Stages
    <3>8. ~DecodeHeld' /\ NEW_PS'["DECODE"].V => PC' = heap'[new].NPC
      BY <1>1, <1>5
    <3> QED BY <1>1, <1>3, <3>4, <3>6, <3>7, <3>8 DEF PathFollows
  <2> QED BY <2>1, <2>2
<1> QED BY <1>1, <1>6, <1>7, <1>8, <1>10, <1>12, <1>14 DEF RefinementInvariant, Arch!vars

-----------------------------------------------------------------------------
(* A valid instruction that does not redirect the fetch goes on behind itself. *)
LEMMA GoesOn ==
  ASSUME PlainPrograms, ControlInvariant, RefinementInvariant, PS["MEMORY"].V,
         ~Redirects(PS["MEMORY"].instruction)
  PROVE  Arch!NextPC(On("MEMORY")) = On("MEMORY").NPC
<1> DEFINE m == PS["MEMORY"].instruction
           cs == UcodeOf(m)
<1>1. m \in Obj /\ TypeOK /\ "MEMORY" \in Stages
  BY ValidObjects DEF Stages, ControlInvariant
<1>2. cs \in ControlWord /\ Plain(cs)
  BY <1>1, UcodeOfType, PlainInstructions
<1>3. heap[m].MEM_CS = ToMEM_CS(ToAGEX_CS(cs))
  BY <1>1 DEF ControlInvariant, WordsFollow, Past
<1>4. "BR_OP" \in cs => "TRAP_OP" \notin cs
  BY <1>1, RegistersNeeded
<1>5. /\ "TRAP_OP" \notin cs
      /\ "BR_OP" \in cs => ~ConditionHolds(heap[m])
  BY <1>4 DEF Redirects
<1>6. /\ "BR_OP" \in heap[m].MEM_CS <=> "BR_OP" \in cs
      /\ "TRAP_OP" \in heap[m].MEM_CS <=> "TRAP_OP" \in cs
      /\ "UNCOND_OP" \notin heap[m].MEM_CS
  BY <1>2, <1>3, BranchSignals, SlicesOnlyDrop DEF Plain
<1>7. Arch!ConditionHolds(heap[m]) = ConditionHolds(heap[m])
  BY SameDatapath
<1> QED BY <1>5, <1>6, <1>7 DEF Arch!NextPC, On

LEMMA SameAddress ==
  ASSUME NEW a, NEW b, SameContent(a, b), NEW x
  PROVE  AddressIn(a, x) = AddressIn(b, x)
BY DEF SameContent, AddressIn, Valid

LEMMA MoveLatchRefinement ==
  ASSUME PlainPrograms, ControlInvariant, OperandsInvariant, RefinementInvariant, MoveLatch
  PROVE  RefinementInvariant' /\ UNCHANGED Arch!vars
<1> DEFINE stall == stall_sigs.mem_stall
<1>1. /\ at = "MOVE" /\ at' = "SR" /\ PS' = NEW_PS
      /\ UNCHANGED <<PC, REGS, NZP, memory, heap, NEW_PS>>
  BY DEF MoveLatch, State
<1>2. /\ AfterMEM /\ AfterAGEX /\ AfterDE /\ AfterFETCH
      /\ ~AfterMEM' /\ ~AfterDE' /\ ~AfterFETCH'
  BY <1>1 DEF AfterMEM, AfterAGEX, AfterDE, AfterFETCH
<1>3. MemoryUnwritten' /\ InstructionsFetched' /\ ResultsFollow'
  BY <1>1 DEF RefinementInvariant, MemoryUnwritten, InstructionsFetched, Fetched, ResultsFollow,
              Computed, Delivered
<1>4. SignalsFollow'
  BY <1>1, <1>2 DEF SignalsFollow
<1>5. PathFollows
  BY DEF RefinementInvariant
<1>6. /\ NEW_PS["STORE"].instruction = PS["MEMORY"].instruction
      /\ NEW_PS["STORE"].V = (PS["MEMORY"].V /\ ~stall)
      /\ stall => /\ SameContent(NEW_PS["MEMORY"], PS["MEMORY"])
                  /\ SameContent(NEW_PS["AGEX"], PS["AGEX"])
      /\ ~stall => /\ SameContent(NEW_PS["MEMORY"], PS["AGEX"])
                   /\ NEW_PS["AGEX"].instruction = PS["DECODE"].instruction
                   /\ NEW_PS["AGEX"].V = (~stall_sigs.dep_stall /\ PS["DECODE"].V)
      /\ DecodeHeld => SameContent(NEW_PS["DECODE"], PS["DECODE"])
  BY <1>2 DEF ControlInvariant, StoreLatched, MemoryLatched, AgexLatched, DecodeLatched, DecodeHeld
<1>7. /\ NextFetch = (IF ~DecodeHeld THEN AddressIn(NEW_PS["DECODE"], PC) ELSE PC)
      /\ NextFetch' = PC
      /\ FromDECODE' = AddressIn(NEW_PS["DECODE"], PC)
      /\ FromAGEX' = AddressIn(NEW_PS["AGEX"], FromDECODE')
      /\ FromMEMORY' = AddressIn(NEW_PS["MEMORY"], FromAGEX')
  BY <1>1 DEF NextFetch, FromDECODE, FromAGEX, FromMEMORY, AddressIn, Valid
<1>8. /\ ArchitecturalPC = FromMEMORY
      /\ ArchitecturalPC' = AddressIn(NEW_PS["STORE"], FromMEMORY')
  BY <1>1 DEF ArchitecturalPC, AddressIn, Valid
<1>9. /\ FromDECODE = AddressIn(PS["DECODE"], NextFetch)
      /\ FromAGEX = AddressIn(PS["AGEX"], FromDECODE)
      /\ FromMEMORY = AddressIn(PS["MEMORY"], FromAGEX)
  BY DEF FromDECODE, FromAGEX, FromMEMORY
<1>10. \A s \in Stages : \A t \in Stages :
         NEW_PS[s].instruction = PS[t].instruction => On(s)' = On(t)
  BY <1>1 DEF On
(* An instruction in DECODE is in front of the PC. *)
<1>11. NEW_PS["DECODE"].V => NextFetch' = On("DECODE")'.NPC
  <2>1. CASE DecodeHeld
    <3>1. NextFetch = PC
      BY <1>7, <2>1
    <3> QED BY <1>5, <1>6, <1>7, <1>10, <2>1, <3>1 DEF PathFollows, SameContent, Stages
  <2>2. CASE ~DecodeHeld
    <3>1. NEW_PS["DECODE"].V => PC = heap[NEW_PS["DECODE"].instruction].NPC
      BY <1>2, <1>5, <2>2 DEF PathFollows
    <3> QED BY <1>1, <1>7, <3>1 DEF On
  <2> QED BY <2>1, <2>2
<1>12. CASE stall
  <2>1. DecodeHeld /\ NextFetch = PC /\ ~NEW_PS["STORE"].V
    BY <1>6, <1>7, <1>12 DEF DecodeHeld
  <2>2. FromDECODE' = FromDECODE /\ FromAGEX' = FromAGEX /\ FromMEMORY' = FromMEMORY
    BY <1>6, <1>7, <1>9, <1>12, <2>1, SameAddress
  <2>3. ArchitecturalPC' = ArchitecturalPC
    BY <1>8, <2>1, <2>2 DEF AddressIn, Valid
  <2>4. PS["MEMORY"].V => Redirects(PS["MEMORY"].instruction)' = Redirects(PS["MEMORY"].instruction)
    BY <1>1, <1>6, <1>12 DEF Redirects, UcodeOf, SameContent
  <2>5. NEW_PS["MEMORY"].V /\ ~Redirects(PS["MEMORY"].instruction)' =>
          FromAGEX' = On("MEMORY")'.NPC
    BY <1>5, <1>6, <1>10, <1>12, <2>2, <2>4 DEF PathFollows, SameContent, Stages
  <2>6. NEW_PS["AGEX"].V => FromDECODE' = On("AGEX")'.NPC
    BY <1>5, <1>6, <1>10, <1>12, <2>2 DEF PathFollows, SameContent, Stages
  <2>7. PathFollows'
    BY <1>1, <1>2, <1>11, <2>1, <2>5, <2>6 DEF PathFollows
  <2> QED BY <1>1, <1>3, <1>4, <2>3, <2>7 DEF RefinementInvariant, Arch!vars
<1>13. CASE ~stall
  <2>1. FromAGEX' = FromDECODE
    <3>1. CASE stall_sigs.dep_stall
      <4>1. DecodeHeld /\ NextFetch = PC /\ ~NEW_PS["AGEX"].V
        BY <1>6, <1>7, <1>13, <3>1 DEF DecodeHeld
      <4>2. FromDECODE' = FromDECODE
        BY <1>6, <1>7, <1>9, <4>1, SameAddress
      <4> QED BY <1>7, <4>1, <4>2 DEF AddressIn, Valid
    <3>2. CASE ~stall_sigs.dep_stall
      <4>1. FromDECODE' = NextFetch
        BY <1>7, <1>13, <3>2 DEF DecodeHeld
      <4>2. SameContent(NEW_PS["AGEX"], PS["DECODE"])
        <5>1. PS["DECODE"].V \in BOOLEAN
          BY ValidObjects DEF Stages
        <5> QED BY <1>6, <1>13, <3>2, <5>1 DEF SameContent
      <4> QED BY <1>7, <1>9, <4>1, <4>2, SameAddress
    <3> QED BY <3>1, <3>2
  <2>2. FromMEMORY' = FromAGEX
    BY <1>6, <1>7, <1>9, <1>13, <2>1, SameAddress
  <2>3. ArchitecturalPC' = ArchitecturalPC
    <3>1. SameContent(NEW_PS["STORE"], PS["MEMORY"])
      <4>1. PS["MEMORY"].V \in BOOLEAN
        BY ValidObjects DEF Stages
      <4> QED BY <1>6, <1>13, <4>1 DEF SameContent
    <3> QED BY <1>8, <1>9, <2>2, <3>1, SameAddress
  <2>4. NEW_PS["STORE"].V => FromMEMORY' = Arch!NextPC(On("STORE"))'
    <3> SUFFICES ASSUME NEW_PS["STORE"].V PROVE FromMEMORY' = Arch!NextPC(On("STORE"))'
      OBVIOUS
    <3>1. PS["MEMORY"].V /\ On("STORE")' = On("MEMORY")
      BY <1>6, <1>10 DEF Stages
    <3>2. FromAGEX = Arch!NextPC(On("MEMORY"))
      <4>1. CASE Redirects(PS["MEMORY"].instruction)
        BY <1>2, <1>5, <1>13, <3>1, <4>1 DEF PathFollows
      <4>2. CASE ~Redirects(PS["MEMORY"].instruction)
        BY <1>5, <3>1, <4>2, GoesOn DEF PathFollows
      <4> QED BY <4>1, <4>2
    <3> QED BY <2>2, <3>1, <3>2
  <2>5. NEW_PS["MEMORY"].V => FromAGEX' = On("MEMORY")'.NPC
    BY <1>5, <1>6, <1>10, <1>13, <2>1 DEF PathFollows, SameContent, Stages
  <2>6. NEW_PS["AGEX"].V => FromDECODE' = On("AGEX")'.NPC
    <3> SUFFICES ASSUME NEW_PS["AGEX"].V PROVE FromDECODE' = On("AGEX")'.NPC
      OBVIOUS
    <3>1. ~stall_sigs.dep_stall /\ PS["DECODE"].V /\ ~DecodeHeld
      BY <1>6, <1>13 DEF DecodeHeld
    <3>2. FromDECODE' = NextFetch
      BY <1>7, <3>1
    <3>3. On("AGEX")' = On("DECODE")
      BY <1>6, <1>10, <1>13 DEF Stages
    <3> QED BY <1>5, <3>1, <3>2, <3>3 DEF PathFollows
  <2>7. PathFollows'
    BY <1>1, <1>2, <1>11, <2>4, <2>5, <2>6 DEF PathFollows
  <2> QED BY <1>1, <1>3, <1>4, <2>3, <2>7 DEF RefinementInvariant, Arch!vars
<1> QED BY <1>12, <1>13

-----------------------------------------------------------------------------
LEMMA RefinementInit == Init => RefinementInvariant /\ Arch!Init
<1> SUFFICES ASSUME Init PROVE RefinementInvariant /\ Arch!Init
  OBVIOUS
<1>1. /\ at = "SR" /\ \A s \in Stages : PS[s] = EmptyLatch /\ NEW_PS[s] = EmptyLatch
      /\ REGS = [r \in RegisterId |-> 0] /\ NZP = 2
  BY DEF Init
<1>2. PICK image \in Images : PC = image.entry /\ memory = image.memory
  BY DEF Init
<1>3. \A s \in Stages : /\ PS[s].instruction = NULL /\ ~PS[s].V /\ PS[s].MEM_CS = {}
                        /\ ~NEW_PS[s].V /\ NEW_PS[s].MEM_CS = {}
  BY <1>1 DEF EmptyLatch
<1>4. ~AfterMEM /\ ~AfterFETCH
  BY <1>1 DEF AfterMEM, AfterFETCH
<1>5. MemoryUnwritten /\ InstructionsFetched
  BY <1>2, <1>3 DEF MemoryUnwritten, InstructionsFetched, Fetched
<1>6. ResultsFollow /\ SignalsFollow /\ PathFollows
  BY <1>1, <1>3, <1>4 DEF ResultsFollow, Computed, Delivered, SignalsFollow, PathFollows, Stages
<1>7. ArchitecturalPC = PC
  BY <1>1, <1>3 DEF ArchitecturalPC, FromMEMORY, FromAGEX, FromDECODE, NextFetch, AddressIn, Valid, Stages
<1>8. Arch!Init
  <2>1. Arch!RegisterId = RegisterId
    BY DEF Arch!RegisterId, RegisterId
  <2> QED BY <1>1, <1>2, <1>7, <2>1 DEF Arch!Init
<1> QED BY <1>5, <1>6, <1>8 DEF RefinementInvariant

(* Every call of a cycle keeps the invariant, and is a step of the programmer's machine
   or leaves that machine alone. *)
LEMMA RefinementNext ==
  ASSUME PlainPrograms
  PROVE  ControlInvariant /\ OperandsInvariant /\ RefinementInvariant /\ [Next]_vars
           => RefinementInvariant' /\ [Arch!Step]_Arch!vars
<1> SUFFICES ASSUME ControlInvariant, OperandsInvariant, RefinementInvariant, [Next]_vars
             PROVE  RefinementInvariant' /\ [Arch!Step]_Arch!vars
  OBVIOUS
<1>1. CASE UNCHANGED vars
  <2>1. UNCHANGED <<at, PC, REGS, NZP, memory, heap, PS, NEW_PS, memory_sigs, store_sigs, stall_sigs>>
    BY <1>1 DEF vars, State, Signal_Entries
  <2>2. ArchitecturalPC' = ArchitecturalPC /\ FromMEMORY' = FromMEMORY /\ FromAGEX' = FromAGEX
        /\ FromDECODE' = FromDECODE /\ NextFetch' = NextFetch
    BY <2>1 DEF ArchitecturalPC, FromMEMORY, FromAGEX, FromDECODE, NextFetch, DecodeHeld, AddressIn, Valid
  <2>3. MemoryUnwritten' /\ InstructionsFetched' /\ ResultsFollow'
    BY <2>1 DEF RefinementInvariant, MemoryUnwritten, InstructionsFetched, Fetched, ResultsFollow,
                Computed, Delivered
  <2>4. \A s : On(s)' = On(s)
    BY <2>1 DEF On
  <2>5. \A x : Redirects(x)' = Redirects(x) /\ UcodeOf(x)' = UcodeOf(x)
    BY <2>1 DEF Redirects, UcodeOf
  <2>6. /\ AfterMEM' = AfterMEM /\ AfterDE' = AfterDE /\ AfterFETCH' = AfterFETCH
        /\ DecodeHeld' = DecodeHeld
    BY <2>1 DEF AfterMEM, AfterDE, AfterFETCH, DecodeHeld
  <2>7. SignalsFollow'
    BY <2>1, <2>4, <2>5, <2>6 DEF RefinementInvariant, SignalsFollow
  <2>8. PathFollows'
    BY <2>1, <2>2, <2>4, <2>5, <2>6 DEF RefinementInvariant, PathFollows
  <2> QED BY <2>1, <2>2, <2>3, <2>7, <2>8 DEF RefinementInvariant, Arch!vars
<1>2. CASE DE_stage
  <2>1. CASE PS["STORE"].V
    <3>1. PS["STORE"].instruction \in Obj
      BY <2>1, ValidObjects DEF Stages
    <3> QED BY <1>2, <2>1, <3>1, WriteBackSteps, DE_stageRefinement
  <2>2. CASE ~PS["STORE"].V
    BY <1>2, <2>2, BubbleWritesNothing, DE_stageRefinement
  <2> QED BY <2>1, <2>2
<1>3. CASE SR_stage
  BY <1>3, SR_stageRefinement
<1>4. CASE MEM_stage
  BY <1>4, MEM_stageRefinement
<1>5. CASE AGEX_stage
  BY <1>5, AGEX_stageRefinement
<1>6. CASE FETCH_stage
  BY <1>6, FETCH_stageRefinement
<1>7. CASE MoveLatch
  BY <1>7, MoveLatchRefinement
<1> QED BY <1>1, <1>2, <1>3, <1>4, <1>5, <1>6, <1>7 DEF Next

(* The valid instructions in flight are the next ones of the programmer's machine in its
   order, each with what that machine would have given it so far. *)
THEOREM RefinementInvariantHolds ==
  ASSUME PlainPrograms
  PROVE  Spec => []RefinementInvariant
<1>1. Init => RefinementInvariant
  BY RefinementInit
<1>2. ControlInvariant /\ OperandsInvariant /\ RefinementInvariant /\ [Next]_vars
        => RefinementInvariant'
  BY RefinementNext
<1> QED BY <1>1, <1>2, ControlInvariantHolds, OperandsInvariantHolds, PTL DEF Spec

(* The five stages, their interlocks, stalls and redirections together execute every
   program of plain instructions as one instruction at a time would. *)
THEOREM PipelineImplementsSequential ==
  ASSUME PlainPrograms
  PROVE  Spec => ImplementsSequential
<1>1. Init => Arch!Init
  BY RefinementInit
<1>2. ControlInvariant /\ OperandsInvariant /\ RefinementInvariant /\ [Next]_vars
        => [Arch!Step]_Arch!vars
  BY RefinementNext
<1> QED BY <1>1, <1>2, ControlInvariantHolds, OperandsInvariantHolds, RefinementInvariantHolds, PTL
        DEF Spec, ImplementsSequential, Arch!Spec
=============================================================================
