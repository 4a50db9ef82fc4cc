-------------------------- MODULE SimulatorProofs ---------------------------
(***************************************************************************)
(* The halt of the simulator, for every set of program files, cache        *)
(* latency and number of cycles asked for.                                 *)
(***************************************************************************)
EXTENDS SimulatorInvariant, InterlockProofs

(* The width of an access survives the slices of the control word, as do the signals of the
   data cache. *)
LEMMA AccessSignals ==
  ASSUME NEW cs \in ControlWord
  PROVE  /\ "DATA_SIZE" \in ToMEM_CS(ToAGEX_CS(cs)) <=> "DATA_SIZE" \in cs
         /\ "DCACHE_EN" \in ToMEM_CS(ToAGEX_CS(cs)) <=> "DCACHE_EN" \in cs
<1>1. \E i, j \in 1..20 : AGEX_CS_BITS[i] = "DATA_SIZE" /\ AGEX_CS_BITS[j] = "DCACHE_EN"
  BY DEF AGEX_CS_BITS
<1>2. \E i, j \in 1..11 : MEM_CS_BITS[i] = "DATA_SIZE" /\ MEM_CS_BITS[j] = "DCACHE_EN"
  BY DEF MEM_CS_BITS
<1>3. ToAGEX_CS(cs) \in ControlWord
  BY ControlWords
<1>4. /\ ToAGEX_CS(cs) = cs \cap {AGEX_CS_BITS[k] : k \in 1..20}
      /\ ToMEM_CS(ToAGEX_CS(cs)) = ToAGEX_CS(cs) \cap {MEM_CS_BITS[k] : k \in 1..11}
  BY <1>3, ControlWordSlices
<1> QED BY <1>1, <1>2, <1>4

(* The control word of a valid instruction in MEMORY, by its row of the microcode. *)
LEMMA InMemory ==
  ASSUME ControlInvariant, PS["MEMORY"].V, NEW m, m = PS["MEMORY"].instruction
  PROVE  /\ m \in Obj
         /\ heap[m].MEM_CS = ToMEM_CS(ToAGEX_CS(UcodeOf(m)))
         /\ "BR_OP" \in heap[m].MEM_CS <=> "BR_OP" \in UcodeOf(m)
         /\ "TRAP_OP" \in heap[m].MEM_CS <=> "TRAP_OP" \in UcodeOf(m)
         /\ "BR_OP" \in heap[m].MEM_CS => "DCACHE_EN" \notin heap[m].MEM_CS
         /\ "TRAP_OP" \in heap[m].MEM_CS => "DATA_SIZE" \in heap[m].MEM_CS
<1>1. m \in Obj
  BY ValidObjects DEF Stages
<1>2. heap[m].MEM_CS = ToMEM_CS(ToAGEX_CS(UcodeOf(m)))
  BY <1>1 DEF ControlInvariant, WordsFollow, Past
<1>3. UcodeOf(m) \in ControlWord
  BY <1>1, UcodeOfType DEF ControlInvariant
<1>4. /\ "BR_OP" \in UcodeOf(m) => "DCACHE_EN" \notin UcodeOf(m)
      /\ "TRAP_OP" \in UcodeOf(m) => "DATA_SIZE" \in UcodeOf(m)
  <2>1. heap[m].IR \in Word
    BY <1>1 DEF ControlInvariant, TypeOK, Instruction
  <2> QED BY <2>1, RowExists, RedirectsReadWordsAssumption DEF UcodeOf, MicroCode
<1> QED BY <1>1, <1>2, <1>3, <1>4, AccessSignals, BranchSignals

(* What is redirected is announced, and everything behind it is a bubble. *)
LEMMA RedirectDrains ==
  ASSUME ControlInvariant, AfterMEM, IsBranchTaken
  PROVE  /\ PS["MEMORY"].V /\ stall_sigs.v_mem_br_stall
         /\ ~PS["AGEX"].V /\ ~PS["DECODE"].V
<1> DEFINE m == PS["MEMORY"].instruction
<1>1. PS["MEMORY"].V /\ Redirects(m)
  BY DEF ControlInvariant, MuxFollows
<1>2. "BR_STALL" \in UcodeOf(m)
  BY <1>1, InMemory, UcodeOfType DEF Redirects, ControlInvariant
<1>3. Raises("MEMORY", "BR_STALL")
  BY <1>1, <1>2 DEF Raises
<1> QED BY <1>1, <1>3 DEF ControlInvariant, Announced, Interlocked

-----------------------------------------------------------------------------
(* MEM_stage leaves the targets on its signals; the wait for a trap's vector shows as 0xfeed. *)
LEMMA MEM_stageTargets ==
  ASSUME ControlInvariant, MEM_stage, PS["MEMORY"].V
  PROVE  TargetsFollow'
<1> DEFINE m == PS["MEMORY"].instruction
           inst == heap[m]
           cache_en == "DCACHE_EN" \in inst.MEM_CS
<1>1. m \in Obj /\ m # NULL /\ TypeOK /\ inst \in Instruction
  BY InMemory, ObjAssumption DEF ControlInvariant, TypeOK
<1>2. PICK random \in DCACHE_RANDOM :
        LET mdr_out == IF random = 0 THEN GetWordAt(memory, WordAddress(inst.ADDRESS)) ELSE NotReadyWord
            data    == IF cache_en /\ PS["MEMORY"].V THEN LoadedValue(inst, mdr_out) ELSE 0
            mem_stall == cache_en /\ PS["MEMORY"].V /\ ~(random = 0)
        IN  /\ memory_sigs' =
                 [target_pc    |-> inst.ADDRESS,
                  trap_pc      |-> data,
                  mem_pc_mux   |-> MemPcMux(inst, PS["MEMORY"].V),
                  v_mem_ld_cc  |-> PS["MEMORY"].V /\ "LD_CC" \in inst.MEM_CS,
                  v_mem_ld_reg |-> PS["MEMORY"].V /\ "LD_REG" \in inst.MEM_CS,
                  mem_drid     |-> inst.DRID]
            /\ stall_sigs' =
                 [stall_sigs EXCEPT
                    !.mem_stall = mem_stall,
                    !.v_mem_br_stall = PS["MEMORY"].V /\ "BR_STALL" \in inst.MEM_CS]
            /\ heap' = [heap EXCEPT ![m] = Accessed(inst, data)]
  BY <1>1 DEF MEM_stage
<1> DEFINE data == IF cache_en
                   THEN LoadedValue(inst, IF random = 0 THEN GetWordAt(memory, WordAddress(inst.ADDRESS))
                                                        ELSE NotReadyWord)
                   ELSE 0
<1>3. /\ memory_sigs'.target_pc = inst.ADDRESS
      /\ memory_sigs'.trap_pc = data
      /\ memory_sigs'.mem_pc_mux = MemPcMux(inst, TRUE)
      /\ stall_sigs'.mem_stall <=> cache_en /\ random # 0
      /\ heap' = [heap EXCEPT ![m] = Accessed(inst, data)]
  BY <1>1, <1>2 DEF TypeOK, Stall_Entry
<1>4. heap'[m] = Accessed(inst, data)
  BY <1>1, <1>3 DEF TypeOK
<1>5. heap'[m].ADDRESS = inst.ADDRESS /\ heap'[m].DATA = data /\ heap'[m].MEM_CS = inst.MEM_CS
  BY <1>1, <1>4 DEF Accessed, Instruction
<1>6. PS' = PS
  BY DEF MEM_stage
<1>7. /\ MemPcMux(inst, TRUE) = 1 => "BR_OP" \in inst.MEM_CS
      /\ MemPcMux(inst, TRUE) = 2 => "TRAP_OP" \in inst.MEM_CS
      /\ MemPcMux(inst, TRUE) # 0 => MemPcMux(inst, TRUE) \in {1, 2}
  <2>1. "BR_OP" \in inst.MEM_CS /\ ~ConditionHolds(inst) => memory_sigs.mem_pc_mux = 0
    <3>1. "BR_OP" \in inst.MEM_CS => Raises("MEMORY", "BR_OP")
      BY InMemory DEF Raises
    <3>2. ~AfterMEM
      BY DEF MEM_stage, AfterMEM
    <3> QED BY <3>1, <3>2 DEF ControlInvariant, MuxFollows, IsBranchTaken
  <2> QED BY <2>1 DEF MemPcMux
<1>8. stall_sigs'.mem_stall /\ IsBranchTaken' =>
        memory_sigs'.mem_pc_mux = 2 /\ memory_sigs'.trap_pc # 0
  <2> SUFFICES ASSUME stall_sigs'.mem_stall, IsBranchTaken'
               PROVE  memory_sigs'.mem_pc_mux = 2 /\ memory_sigs'.trap_pc # 0
    OBVIOUS
  <2>1. cache_en /\ random # 0
    BY <1>3
  <2>2. "BR_OP" \notin inst.MEM_CS
    BY <2>1, InMemory
  <2>3. MemPcMux(inst, TRUE) = 2 /\ "TRAP_OP" \in inst.MEM_CS
    BY <1>3, <1>7, <2>2 DEF IsBranchTaken
  <2>4. data = NotReadyWord
    BY <2>1, <2>3, InMemory DEF LoadedValue
  <2>5. memory_sigs'.trap_pc = NotReadyWord
    BY <1>3, <2>4
  <2>6. memory_sigs'.mem_pc_mux = 2
    BY <1>3, <2>3
  <2> QED BY <2>5, <2>6 DEF NotReadyWord
<1> QED BY <1>3, <1>5, <1>6, <1>7, <1>8 DEF TargetsFollow, On

LEMMA TargetsNext ==
  ASSUME ControlInvariant, TargetsFollow, Next
  PROVE  TargetsFollow'
<1> DEFINE m == PS["MEMORY"].instruction
<1>1. CASE SR_stage \/ MoveLatch
  BY <1>1 DEF SR_stage, MoveLatch, TargetsFollow, AfterMEM
<1>2. CASE MEM_stage
  <2>1. PS' = PS
    BY <1>2 DEF MEM_stage
  <2> QED BY <1>2, <2>1, MEM_stageTargets DEF TargetsFollow
<1>3. ASSUME AfterMEM, PS' = PS, memory_sigs' = memory_sigs,
             stall_sigs'.mem_stall = stall_sigs.mem_stall,
             PS["MEMORY"].V => heap'[m] = heap[m]
      PROVE  TargetsFollow'
  BY <1>3 DEF TargetsFollow, On, IsBranchTaken
<1>4. PS["MEMORY"].V => m \in Obj /\ m # PS["AGEX"].instruction /\ m # PS["DECODE"].instruction
  BY InMemory DEF ControlInvariant, OneOwner, Stages, Behind
<1>5. CASE AGEX_stage
  <2>1. AfterMEM /\ PS' = PS /\ memory_sigs' = memory_sigs
    BY <1>5 DEF AGEX_stage, AfterMEM
  <2>2. stall_sigs'.mem_stall = stall_sigs.mem_stall
    <3>1. stall_sigs' = stall_sigs \/ \E b : stall_sigs' = [stall_sigs EXCEPT !.v_agex_br_stall = b]
      BY <1>5 DEF AGEX_stage
    <3> QED BY <3>1 DEF ControlInvariant, TypeOK, Stall_Entry
  <2> QED BY <1>3, <1>4, <1>5, <2>1, <2>2, AGEX_stageHeap
<1>6. CASE DE_stage
  <2>1. AfterMEM /\ PS' = PS /\ memory_sigs' = memory_sigs
    BY <1>6 DEF DE_stage, AfterMEM
  <2>2. stall_sigs'.mem_stall = stall_sigs.mem_stall
    <3>1. \/ stall_sigs' = stall_sigs
          \/ \E a, b : stall_sigs' = [stall_sigs EXCEPT !.dep_stall = a, !.v_de_br_stall = b]
      BY <1>6 DEF DE_stage
    <3> QED BY <3>1 DEF ControlInvariant, TypeOK, Stall_Entry
  <2> QED BY <1>3, <1>4, <1>6, <2>1, <2>2, DE_stageHeap
<1>7. CASE FETCH_stage
  <2>1. AfterMEM
    BY <1>7 DEF FETCH_stage, AfterMEM
  <2> QED BY <1>3, <1>7, <2>1, FETCH_stageKeeps DEF Stages
<1> QED BY <1>1, <1>2, <1>5, <1>6, <1>7 DEF Next

-----------------------------------------------------------------------------
(* In one cycle the program counter comes to 0 by a redirection, which leaves nothing but the
   redirecting instruction, or behind the last word of the memory. *)
LEMMA FetchComesToZero ==
  ASSUME ControlInvariant, TargetsFollow, FETCH_stage, PC # 0, PC' = 0
  PROVE  Ended(NEW_PS)' \/ RunsOff(NEW_PS["DECODE"])'
<1> DEFINE m == PS["MEMORY"].instruction
<1>1. PICK icache_r \in BOOLEAN :
        /\ PC' = IF ~IsStallDetected(icache_r) THEN NewPC(Add(PC, 2)) ELSE PC
        /\ DecodeHeld => SameContent(NEW_PS'["DECODE"], PS["DECODE"])
        /\ ~DecodeHeld =>
             \E o \in Obj :
               /\ NEW_PS'["DECODE"].instruction = o
               /\ NEW_PS'["DECODE"].V = (~IsStallDetected(icache_r) /\ ~stall_sigs.v_mem_br_stall)
               /\ heap'[o].NPC = Add(PC, 2)
  BY FETCH_stageEffect
<1>2. ~IsStallDetected(icache_r) /\ NewPC(Add(PC, 2)) = 0
  BY <1>1
<1>3. /\ AfterMEM /\ AfterAGEX /\ AfterDE
      /\ PS' = PS /\ \A s \in Stages \ {"DECODE"} : NEW_PS'[s] = NEW_PS[s]
      /\ PS["MEMORY"].V => heap'[m] = heap[m]
  BY FETCH_stageKeeps DEF Stages, AfterMEM, AfterAGEX, AfterDE
<1>4. CASE IsBranchTaken
  <2>1. PS["MEMORY"].V /\ stall_sigs.v_mem_br_stall /\ ~PS["AGEX"].V /\ ~PS["DECODE"].V
    BY <1>3, <1>4, RedirectDrains
  <2>2. memory_sigs.mem_pc_mux \in {1, 2}
    BY <1>4 DEF IsBranchTaken, ControlInvariant, TypeOK, MEMORY_stage_Entry
  <2>3. /\ memory_sigs.mem_pc_mux = 1 => memory_sigs.target_pc = 0
        /\ memory_sigs.mem_pc_mux = 2 => memory_sigs.trap_pc = 0
    BY <1>2 DEF NewPC
  <2>4. GoesToZero(heap[m])
    BY <1>3, <2>1, <2>2, <2>3 DEF TargetsFollow, GoesToZero, On
  <2>5. ~stall_sigs.mem_stall
    BY <1>3, <1>4, <2>1, <2>3 DEF TargetsFollow
  <2>6. /\ NEW_PS["STORE"].instruction = m
        /\ ~NEW_PS["MEMORY"].V /\ ~NEW_PS["AGEX"].V
    BY <1>3, <2>1, <2>5 DEF ControlInvariant, StoreLatched, MemoryLatched, AgexLatched, SameContent
  <2>7. ~NEW_PS'["DECODE"].V
    BY <1>1, <2>1 DEF SameContent
  <2>8. /\ NEW_PS'["STORE"].instruction = m /\ heap'[m] = heap[m]
        /\ ~NEW_PS'["MEMORY"].V /\ ~NEW_PS'["AGEX"].V
    BY <1>3, <2>1, <2>6 DEF Stages
  <2> QED BY <2>4, <2>7, <2>8 DEF Ended, Drained, GoesToZero
<1>5. CASE ~IsBranchTaken
  <2>1. ~DecodeHeld /\ ~stall_sigs.v_mem_br_stall
    BY <1>2, <1>5 DEF IsStallDetected, DecodeHeld
  <2>2. Add(PC, 2) = 0
    BY <1>2, <1>5 DEF NewPC, IsBranchTaken
  <2>3. PICK o \in Obj :
          /\ NEW_PS'["DECODE"].instruction = o /\ NEW_PS'["DECODE"].V = TRUE
          /\ heap'[o].NPC = 0
    BY <1>1, <1>2, <2>1, <2>2
  <2>4. AddressOf(heap'[o]) = WordSize - 2
    BY <2>3 DEF AddressOf, Add, WordSize
  <2> QED BY <2>3, <2>4 DEF RunsOff
<1> QED BY <1>4, <1>5

(* What is fetched from 0 has the address 0. *)
LEMMA FetchedFromZero ==
  ASSUME ControlInvariant, FETCH_stage, PC = 0, ~DecodeHeld'
  PROVE  AddressOf(heap'[NEW_PS'["DECODE"].instruction]) = 0
<1>1. ~DecodeHeld
  BY FETCH_stageKeeps
<1>2. PICK o \in Obj : NEW_PS'["DECODE"].instruction = o /\ heap'[o].NPC = Add(PC, 2)
  BY <1>1, FETCH_stageEffect
<1>3. heap'[o].NPC = 2
  BY <1>2 DEF Add, WordSize
<1> QED BY <1>2, <1>3 DEF AddressOf, Add, WordSize

(* No stage changes the address of an instruction in flight. *)
LEMMA AddressKept ==
  ASSUME ControlInvariant, Next, NEW s \in Stages, PS[s].V
  PROVE  heap'[PS[s].instruction].NPC = heap[PS[s].instruction].NPC
<1> DEFINE x == PS[s].instruction
<1>1. x \in Obj /\ heap[x] \in Instruction
  BY ValidObjects DEF ControlInvariant, TypeOK
<1>2. /\ \A data : Accessed(heap[x], data).NPC = heap[x].NPC
      /\ Executed(heap[x]).NPC = heap[x].NPC
      /\ \A ucode, sr1, sr2, cc : Decoded(heap[x], ucode, sr1, sr2, cc).NPC = heap[x].NPC
  BY <1>1 DEF Instruction, Accessed, Executed, Decoded
<1>3. CASE SR_stage \/ MoveLatch
  BY <1>3 DEF SR_stage, MoveLatch
<1>4. CASE MEM_stage
  BY <1>1, <1>2, <1>4, MEM_stageHeap
<1>5. CASE AGEX_stage
  BY <1>1, <1>2, <1>5, AGEX_stageHeap
<1>6. CASE DE_stage
  BY <1>1, <1>2, <1>6, DE_stageHeap
<1>7. CASE FETCH_stage
  BY <1>7, FETCH_stageKeeps
<1> QED BY <1>3, <1>4, <1>5, <1>6, <1>7 DEF Next

(* Until the latches move, a valid instruction stays where it is. *)
LEMMA StagesKeep ==
  ASSUME ControlInvariant, Next, at # "MOVE"
  PROVE  /\ PS' = PS
         /\ at # "FETCH" => PC' = PC /\ at' # "MOVE"
         /\ at = "FETCH" => FETCH_stage /\ at' = "MOVE"
         /\ \A s \in Stages : RunsOff(PS[s]) => RunsOff(PS[s])'
<1>1. PS' = PS
  BY DEF Next, SR_stage, MEM_stage, AGEX_stage, DE_stage, FETCH_stage, MoveLatch
<1>2. /\ at # "FETCH" => PC' = PC /\ at' # "MOVE"
      /\ at = "FETCH" => FETCH_stage /\ at' = "MOVE"
  BY DEF Next, SR_stage, MEM_stage, AGEX_stage, DE_stage, FETCH_stage, MoveLatch, State
<1>3. \A s \in Stages : PS[s].V => heap'[PS[s].instruction].NPC = heap[PS[s].instruction].NPC
  BY AddressKept
<1> QED BY <1>1, <1>2, <1>3 DEF RunsOff, AddressOf

-----------------------------------------------------------------------------
(* What the last cycle of run leaves behind. *)
LEMMA LastCycleIsClean ==
  ASSUME ControlInvariant, ControlInvariant', LastExplained, call = "run_last", MoveLatch
  PROVE  HaltIsClean'
<1>1. at = "MOVE" /\ PS' = NEW_PS /\ heap' = heap /\ AfterMEM /\ AfterAGEX /\ AfterDE /\ AfterFETCH
  BY DEF MoveLatch, AfterMEM, AfterAGEX, AfterDE, AfterFETCH
<1>2. /\ NEW_PS["STORE"].V => PS["MEMORY"].V
      /\ NEW_PS["MEMORY"].V => PS["MEMORY"].V \/ PS["AGEX"].V
      /\ NEW_PS["AGEX"].V => PS["AGEX"].V \/ PS["DECODE"].V
  BY <1>1 DEF ControlInvariant, StoreLatched, MemoryLatched, AgexLatched, SameContent
<1>3. DecodeHeld => SameContent(NEW_PS["DECODE"], PS["DECODE"])
  BY <1>1 DEF ControlInvariant, DecodeLatched, DecodeHeld
<1>4. CASE Drained(PS)
  <2>1. ~NEW_PS["STORE"].V /\ ~NEW_PS["MEMORY"].V /\ ~NEW_PS["AGEX"].V
    BY <1>2, <1>4 DEF Drained
  <2>2. NEW_PS["DECODE"].V => AddressOf(heap[NEW_PS["DECODE"].instruction]) = 0
    BY <1>1, <1>3, <1>4 DEF Drained, LastExplained, SameContent
  <2> QED BY <1>1, <2>1, <2>2 DEF HaltIsClean, Valid, On
<1>5. CASE RunsOff(PS["DECODE"])
  <2>1. DecodeHeld => RunsOff(NEW_PS["DECODE"])
    BY <1>3, <1>5 DEF RunsOff, SameContent
  <2>2. ~DecodeHeld => RunsOff(NEW_PS["AGEX"])
    BY <1>1, <1>5 DEF RunsOff, DecodeHeld, ControlInvariant, AgexLatched
  <2>3. \E s \in Stages : RunsOff(NEW_PS[s])
    BY <2>1, <2>2 DEF Stages
  <2>4. \A s \in Stages : NEW_PS[s].V => NEW_PS[s].instruction # NULL
    BY <1>1 DEF ControlInvariant, Filled
  <2>5. Wrapped'
    BY <1>1, <2>3, <2>4 DEF Wrapped, RunsOff, Valid, On
  <2> QED BY <2>5 DEF HaltIsClean
<1> QED BY <1>4, <1>5 DEF LastExplained

-----------------------------------------------------------------------------
(* load_program stores no word beyond the memory. *)
LEMMA BaseType ==
  ASSUME NEW file \in ProgramFile
  PROVE  /\ file.origin \in Int /\ file.words \in Seq(Int) /\ Len(file.words) \in Nat
         /\ DOMAIN file.words = 1..Len(file.words)
         /\ Base(file) \in 0..(WordSize - 1)
         /\ \A k \in DOMAIN file.words : file.words[k] % WordSize \in Word
<1>1. file.origin \in Int /\ file.words \in Seq(Int) /\ Len(file.words) \in Nat
  BY DEF ProgramFile
<1>2. \A n \in Int : n % WordSize \in 0..(WordSize - 1)
  BY Sizes
<1>3. file.origin \div 2 \in Int
  BY <1>1
<1>4. Base(file) \in 0..(WordSize - 1)
  BY <1>2, <1>3 DEF Base
<1>5. DOMAIN file.words = 1..Len(file.words) /\ \A k \in DOMAIN file.words : file.words[k] \in Int
  BY <1>1
<1> QED BY <1>1, <1>2, <1>4, <1>5 DEF Word

LEMMA LoadedMemory ==
  ASSUME NEW m, IsMemory(m), NEW file \in ProgramFile, Fits(file)
  PROVE  IsMemory(Loaded(m, file))
<1> DEFINE base   == Base(file)
           new    == base..(base + Len(file.words) - 1)
           result == [a \in DOMAIN m \cup new |-> IF a \in new THEN file.words[a - base + 1] % WordSize ELSE m[a]]
<1>1. /\ base \in Nat /\ Len(file.words) \in Nat
      /\ \A k \in 1..Len(file.words) : file.words[k] % WordSize \in Word
  BY BaseType
<1>2. file.words = <<>> => Len(file.words) = 0
  OBVIOUS
<1>3. Len(file.words) # 0 => base + Len(file.words) <= WORDS_IN_MEM
  BY <1>2 DEF Fits
<1>4. new \subseteq 0..(WORDS_IN_MEM - 1)
  <2> HIDE DEF base
  <2> QED BY <1>1, <1>3, Sizes
<1>5. \A a \in new : file.words[a - base + 1] % WordSize \in Word
  <2> HIDE DEF base
  <2>1. \A a \in new : a - base + 1 \in 1..Len(file.words)
    BY <1>1
  <2> QED BY <1>1, <2>1
<1>6. IsMemory(result)
  <2> HIDE DEF new, base
  <2> QED BY <1>4, <1>5 DEF IsMemory
<1> QED BY <1>6 DEF Loaded

LEMMA EntryPointWord ==
  ASSUME NEW pc \in Word, NEW file \in ProgramFile
  PROVE  EntryPoint(pc, file) \in Word
<1> DEFINE base == file.origin \div 2
<1>1. base \in Int
  BY BaseType
<1>2. (2 * base) % WordSize \in Word
  <2> HIDE DEF base
  <2>1. 2 * base \in Int
    BY <1>1
  <2>2. (2 * base) % WordSize \in 0..(WordSize - 1)
    BY <2>1, Sizes
  <2> QED BY <2>2 DEF Word
<1> QED BY <1>2 DEF EntryPoint

(* The file that is loaded next. *)
LEMMA FilesType ==
  ASSUME SimTypeOK, load_program
  PROVE  /\ files[loaded + 1] \in ProgramFile /\ files' = files
         /\ loaded \in Nat /\ loaded' = loaded + 1 /\ loaded' \in 0..Len(files)
<1>1. /\ files \in Seq(ProgramFile) /\ loaded \in 0..Len(files) /\ loaded < Len(files)
      /\ loaded' = loaded + 1 /\ files' = files
  BY DEF SimTypeOK, load_program
<1>2. Len(files) \in Nat /\ DOMAIN files = 1..Len(files)
  BY <1>1
<1> HIDE DEF ProgramFile
<1>3. loaded + 1 \in 1..Len(files)
  BY <1>1, <1>2
<1> QED BY <1>1, <1>2, <1>3

(* The pipeline is idle while the programs are loaded. *)
LEMMA LoadKeeps ==
  ASSUME SimTypeOK, ControlInvariant, load_program
  PROVE  ControlInvariant' /\ SimTypeOK'
<1>1. /\ UNCHANGED <<at, REGS, NZP, heap, PS, NEW_PS, agex_sigs, memory_sigs, store_sigs, stall_sigs>>
      /\ UNCHANGED <<left, RUN_BIT>>
  BY DEF load_program, Signal_Entries
<1>2. files[loaded + 1] \in ProgramFile /\ files' = files /\ loaded' \in 0..Len(files')
  BY FilesType
<1>3. TypeOK'
  <2>1. IsMemory(memory) /\ PC \in Word
    BY DEF SimTypeOK, TypeOK
  <2>2. IsMemory(memory') /\ PC' \in Word
    BY <1>2, <2>1, LoadedMemory, EntryPointWord DEF load_program
  <2> QED BY <1>1, <2>2 DEF SimTypeOK, TypeOK
<1>4. Filled' /\ NotYetLatched' /\ StoreLatched' /\ MemoryLatched'
  BY <1>1 DEF ControlInvariant, Filled, NotYetLatched, StoreLatched, MemoryLatched,
         AfterMEM, AfterAGEX, AfterDE, AfterFETCH, SameContent, IsBranchTaken
<1>5. AgexLatched' /\ DecodeLatched' /\ Announced' /\ Interlocked'
  BY <1>1 DEF ControlInvariant, AgexLatched, DecodeLatched, Announced, Interlocked,
         AfterMEM, AfterAGEX, AfterDE, AfterFETCH, SameContent, Raises, UcodeOf
<1>6. WordsFollow' /\ OneOwner' /\ MuxFollows'
  BY <1>1 DEF ControlInvariant, WordsFollow, Past, OneOwner, MuxFollows, IsBranchTaken,
         AfterMEM, Redirects, Raises, UcodeOf
<1>7. SimTypeOK'
  BY <1>1, <1>2, <1>3 DEF load_program, SimTypeOK, Calls, InCycle
<1> QED BY <1>3, <1>4, <1>5, <1>6, <1>7 DEF ControlInvariant

LEMMA SimTypeNext ==
  ASSUME SimTypeOK, ControlInvariant, [SimNext]_simVars
  PROVE  SimTypeOK' /\ ControlInvariant'
<1>1. SimTypeOK /\ ControlInvariant /\ TypeOK
  BY DEF SimTypeOK
<1>2. CASE load_program
  BY <1>2, LoadKeeps
<1>3. ASSUME [Next]_vars, call' \in Calls, files' = files, loaded' = loaded, left' \in Word, RUN_BIT' \in BOOLEAN
      PROVE  SimTypeOK' /\ ControlInvariant'
  <2>1. ControlInvariant'
    BY <1>1, <1>3, InvariantNext
  <2> QED BY <1>1, <1>3, <2>1 DEF SimTypeOK, ControlInvariant
<1>4. CASE UNCHANGED simVars
  BY <1>1, <1>3, <1>4 DEF simVars, simulator, SimTypeOK
<1>5. CASE initialized \/ go \/ go_loop \/ quit
  BY <1>1, <1>3, <1>5 DEF initialized, go, go_loop, quit, SimTypeOK, Calls, InCycle, Halted
<1>6. CASE run_loop
  <2>1. left \in Word /\ left' \in Word
    <3>1. left \in Nat /\ left < WordSize
      BY <1>1, WordIsNat DEF SimTypeOK
    <3>2. left # 0 => left - 1 \in Word
      BY <3>1, Sizes DEF Word
    <3>3. 0 \in Word
      BY Sizes DEF Word
    <3> QED BY <1>1, <1>6, <3>2, <3>3 DEF run_loop, SimTypeOK
  <2> QED BY <1>1, <1>3, <1>6, <2>1 DEF run_loop, SimTypeOK, Calls, InCycle
<1>7. ASSUME NEW n \in RunLengths, run(n) PROVE SimTypeOK' /\ ControlInvariant'
  <2>1. n \in Word
    BY RunLengthsAssumption
  <2> QED BY <1>1, <1>3, <1>7, <2>1 DEF run, SimTypeOK, Calls, InCycle
<1>8. CASE cycle
  <2>1. Next /\ call \in InCycle /\ call' \in Calls /\ RUN_BIT' \in BOOLEAN
    BY <1>1, <1>8 DEF cycle, Returns, SimTypeOK, Calls, InCycle
  <2> QED BY <1>1, <1>3, <1>8, <2>1 DEF cycle, SimTypeOK
<1> QED BY <1>2, <1>4, <1>5, <1>6, <1>7, <1>8 DEF SimNext, Running, Commands

-----------------------------------------------------------------------------
LEMMA HaltInit == SimInit => HaltInvariant
<1> SUFFICES ASSUME SimInit PROVE HaltInvariant
  OBVIOUS
<1>1. Init /\ call = "initialize" /\ files \in CommandLines /\ loaded = 0 /\ left = 0 /\ RUN_BIT = FALSE
  BY DEF SimInit
<1>2. ControlInvariant
  BY <1>1, InvariantInit
<1>3. SimTypeOK
  <2>1. 0 \in Word /\ files \in Seq(ProgramFile)
    BY <1>1, Sizes, CommandLinesAssumption DEF Word
  <2>2. 0 \in 0..Len(files)
    <3>1. Len(files) \in Nat
      BY <2>1
    <3> QED BY <3>1
  <2> QED BY <1>1, <1>2, <2>1, <2>2 DEF SimTypeOK, ControlInvariant, Calls
<1>4. at = "SR" /\ \A s \in Stages : ~PS[s].V
  BY <1>1 DEF Init, EmptyLatch
<1>5. Ended(PS)
  BY <1>4 DEF Ended, Drained, Stages
<1> QED BY <1>1, <1>2, <1>3, <1>4, <1>5 DEF HaltInvariant, BetweenCycles, ZeroExplained, CycleExplained,
           LastExplained, TargetsFollow, HaltIsClean, AfterMEM, InCycle

(* A step of the pipeline within go or run. *)
LEMMA CycleKeeps ==
  ASSUME HaltInvariant, cycle, ControlInvariant'
  PROVE  /\ BetweenCycles' /\ ZeroExplained' /\ CycleExplained'
         /\ LastExplained' /\ TargetsFollow' /\ HaltIsClean'
<1>1. /\ ControlInvariant /\ BetweenCycles /\ CycleExplained /\ LastExplained /\ TargetsFollow
      /\ call \in InCycle /\ RUN_BIT /\ Next
  BY DEF HaltInvariant, BetweenCycles, cycle
<1>2. TargetsFollow'
  BY <1>1, TargetsNext
<1>3. CASE at = "MOVE"
  <2>1. MoveLatch /\ at' = "SR" /\ PC' = PC /\ heap' = heap /\ PS' = NEW_PS
    BY <1>1, <1>3 DEF Next, SR_stage, MEM_stage, AGEX_stage, DE_stage, FETCH_stage, MoveLatch, State
  <2>2. CASE call \in {"run_cycle", "go_cycle"}
    <3>1. call' \in {"run", "go"} /\ RUN_BIT'
      BY <1>1, <1>3, <2>2 DEF cycle, Returns
    <3>2. PC = 0 => Ended(PS)' \/ RunsOff(PS["DECODE"])'
      BY <1>1, <1>3, <2>1, <2>2 DEF CycleExplained, Ended, Drained, RunsOff
    <3> QED BY <1>2, <2>1, <3>1, <3>2 DEF BetweenCycles, ZeroExplained, CycleExplained, LastExplained,
               HaltIsClean, InCycle
  <2>3. CASE call = "run_last"
    <3>1. call' = "prompt" /\ ~RUN_BIT'
      BY <1>3, <2>3 DEF cycle, Returns
    <3>2. HaltIsClean'
      BY <1>1, <2>1, <2>3, LastCycleIsClean
    <3> QED BY <1>2, <2>1, <3>1, <3>2 DEF BetweenCycles, ZeroExplained, CycleExplained, LastExplained,
               InCycle
  <2> QED BY <1>1, <2>2, <2>3 DEF InCycle
<1>4. CASE at # "MOVE"
  <2>1. call' = call /\ RUN_BIT'
    BY <1>1, <1>4 DEF cycle, InCycle
  <2>2. /\ PS' = PS
        /\ at # "FETCH" => PC' = PC /\ at' # "MOVE"
        /\ at = "FETCH" => FETCH_stage /\ at' = "MOVE"
        /\ RunsOff(PS["DECODE"]) => RunsOff(PS["DECODE"])'
    BY <1>1, <1>4, StagesKeep DEF Stages
  <2>3. BetweenCycles' /\ ZeroExplained' /\ HaltIsClean'
    BY <1>1, <2>1 DEF BetweenCycles, ZeroExplained, HaltIsClean, InCycle
  <2>4. CycleExplained'
    <3>1. CASE at = "FETCH"
      BY <1>1, <2>1, <2>2, <3>1, FetchComesToZero DEF CycleExplained
    <3>2. CASE at # "FETCH"
      BY <1>1, <1>4, <2>1, <2>2, <3>2 DEF CycleExplained
    <3> QED BY <3>1, <3>2
  <2>5. LastExplained'
    <3>1. CASE at = "FETCH"
      BY <1>1, <2>1, <2>2, <3>1, FetchedFromZero DEF LastExplained, Drained
    <3>2. CASE at # "FETCH"
      BY <1>1, <1>4, <2>1, <2>2, <3>2 DEF LastExplained, Drained
    <3> QED BY <3>1, <3>2
  <2> QED BY <1>2, <2>3, <2>4, <2>5
<1> QED BY <1>3, <1>4

(* The commands, and the loops of go and run between two cycles. *)
LEMMA HaltNext == HaltInvariant /\ [SimNext]_simVars => HaltInvariant'
<1> SUFFICES ASSUME HaltInvariant, [SimNext]_simVars PROVE HaltInvariant'
  OBVIOUS
<1>1. SimTypeOK' /\ ControlInvariant'
  BY SimTypeNext DEF HaltInvariant
<1>2. BetweenCycles /\ ZeroExplained /\ CycleExplained /\ LastExplained /\ TargetsFollow /\ HaltIsClean
  BY DEF HaltInvariant
<1> DEFINE Goal == /\ BetweenCycles' /\ ZeroExplained' /\ CycleExplained'
                   /\ LastExplained' /\ TargetsFollow' /\ HaltIsClean'
<1>3. CASE UNCHANGED simVars
  <2>1. UNCHANGED <<at, PC, heap, PS, NEW_PS, memory_sigs, stall_sigs, call, RUN_BIT>>
    BY <1>3 DEF simVars, simulator, vars, State, Signal_Entries
  <2>2. BetweenCycles' /\ ZeroExplained' /\ CycleExplained'
    BY <1>2, <2>1 DEF BetweenCycles, ZeroExplained, CycleExplained, Ended, Drained, RunsOff
  <2>3. LastExplained' /\ TargetsFollow' /\ HaltIsClean'
    BY <1>2, <2>1 DEF LastExplained, Drained, RunsOff, DecodeHeld, TargetsFollow, AfterMEM, On,
           IsBranchTaken, HaltIsClean, Wrapped, Valid
  <2> QED BY <1>1, <2>2, <2>3 DEF HaltInvariant
<1>4. CASE cycle
  BY <1>1, <1>4, CycleKeeps DEF HaltInvariant
<1>5. ASSUME at = "SR", UNCHANGED <<at, heap, PS>>,
             call' \notin {"run_cycle", "run_last", "go_cycle"},
             call' \in {"run", "go"} => RUN_BIT',
             call' = "initialize" => \A s \in Stages : ~PS[s].V,
             (call' \in {"initialize", "run", "go"} \/ (call' = "prompt" /\ RUN_BIT')) /\ PC' = 0
               => Ended(PS) \/ RunsOff(PS["DECODE"]),
             call' = "prompt" /\ ~RUN_BIT' => Ended(PS) \/ RunsOff(PS["DECODE"])
      PROVE  HaltInvariant'
  <2>1. Ended(PS)' = Ended(PS) /\ RunsOff(PS["DECODE"])' = RunsOff(PS["DECODE"])
    BY <1>5 DEF Ended, Drained, RunsOff
  <2>2. Ended(PS) => HaltIsClean'
    BY <1>5 DEF Ended, Drained, GoesToZero, HaltIsClean, Valid, On
  <2>3. RunsOff(PS["DECODE"]) => HaltIsClean'
    <3>1. RunsOff(PS["DECODE"]) => PS["DECODE"].instruction # NULL
      BY DEF RunsOff, HaltInvariant, ControlInvariant, Filled, Stages
    <3>2. RunsOff(PS["DECODE"]) => Wrapped'
      BY <1>5, <3>1 DEF RunsOff, Wrapped, Valid, On, Stages
    <3> QED BY <3>2 DEF HaltIsClean
  <2>4. HaltIsClean'
    BY <1>5, <2>2, <2>3 DEF HaltIsClean
  <2> QED BY <1>1, <1>5, <2>1, <2>4 DEF HaltInvariant, BetweenCycles, ZeroExplained, CycleExplained,
             LastExplained, TargetsFollow, AfterMEM, InCycle
<1>6. call \notin InCycle => at = "SR"
  BY <1>2 DEF BetweenCycles
<1>7. CASE load_program
  <2>1. call = "initialize" /\ call' \in {"initialize", "exited"} /\ UNCHANGED <<at, heap, PS>>
    BY <1>7 DEF load_program
  <2>2. \A s \in Stages : ~PS[s].V
    BY <1>2, <2>1 DEF BetweenCycles
  <2>3. Ended(PS)
    BY <2>2 DEF Ended, Drained, Stages
  <2> QED BY <1>5, <1>6, <2>1, <2>2, <2>3 DEF InCycle
<1>8. CASE initialized
  <2>1. call = "initialize" /\ call' = "prompt" /\ RUN_BIT' /\ UNCHANGED <<at, PC, heap, PS>>
    BY <1>8 DEF initialized, vars, State
  <2> QED BY <1>2, <1>5, <1>6, <2>1 DEF InCycle, ZeroExplained
<1>9. CASE quit
  <2>1. call = "prompt" /\ call' = "exited" /\ UNCHANGED <<at, heap, PS>>
    BY <1>9 DEF quit, vars
  <2> QED BY <1>5, <1>6, <2>1 DEF InCycle
<1>10. CASE go
  <2>1. call = "prompt" /\ RUN_BIT /\ call' = "go" /\ RUN_BIT' /\ UNCHANGED <<at, PC, heap, PS>>
    BY <1>10 DEF go, vars, State
  <2> QED BY <1>2, <1>5, <1>6, <2>1 DEF InCycle, ZeroExplained
<1>11. ASSUME NEW n \in RunLengths, run(n) PROVE HaltInvariant'
  <2>1. call = "prompt" /\ RUN_BIT /\ call' = "run" /\ RUN_BIT' /\ UNCHANGED <<at, PC, heap, PS>>
    BY <1>11 DEF run, vars, State
  <2> QED BY <1>2, <1>5, <1>6, <2>1 DEF InCycle, ZeroExplained
<1>12. ASSUME call \in {"run", "go"}, UNCHANGED <<at, PC, heap, PS, NEW_PS, RUN_BIT>>,
              call' = "run_last" => PC = 0, call' \in {"run_cycle", "go_cycle"} => PC # 0,
              call' \in InCycle
       PROVE  HaltInvariant'
  <2>1. at = "SR" /\ RUN_BIT
    BY <1>2, <1>6, <1>12 DEF BetweenCycles, InCycle
  <2>2. PC = 0 => Drained(PS) \/ RunsOff(PS["DECODE"])
    BY <1>2, <1>12 DEF ZeroExplained, Ended
  <2>3. BetweenCycles' /\ ZeroExplained' /\ HaltIsClean' /\ TargetsFollow'
    BY <1>12, <2>1 DEF BetweenCycles, ZeroExplained, HaltIsClean, TargetsFollow, AfterMEM, InCycle
  <2>4. CycleExplained'
    BY <1>12, <2>1 DEF CycleExplained
  <2>5. LastExplained'
    BY <1>12, <2>1, <2>2 DEF LastExplained, Drained, RunsOff
  <2> QED BY <1>1, <2>3, <2>4, <2>5 DEF HaltInvariant
<1>13. CASE run_loop
  <2>1. call = "run" /\ RUN_BIT /\ UNCHANGED <<at, PC, heap, PS, NEW_PS, RUN_BIT>>
    BY <1>2, <1>13 DEF run_loop, vars, State, BetweenCycles
  <2>2. CASE left = 0
    <3>1. call' = "prompt"
      BY <1>13, <2>2 DEF run_loop
    <3> QED BY <1>2, <1>5, <1>6, <2>1, <3>1 DEF InCycle, ZeroExplained
  <2>3. CASE left # 0
    <3>1. call' = IF Halted THEN "run_last" ELSE "run_cycle"
      BY <1>13, <2>3 DEF run_loop
    <3> QED BY <1>12, <2>1, <3>1 DEF Halted, InCycle
  <2> QED BY <2>2, <2>3
<1>14. CASE go_loop
  <2>1. call = "go" /\ RUN_BIT /\ UNCHANGED <<at, PC, heap, PS, NEW_PS>>
    BY <1>2, <1>14 DEF go_loop, vars, State, BetweenCycles
  <2>2. CASE Halted
    <3>1. call' = "prompt" /\ PC = 0
      BY <1>14, <2>2 DEF go_loop, Halted
    <3>2. Ended(PS) \/ RunsOff(PS["DECODE"])
      BY <1>2, <2>1, <3>1 DEF ZeroExplained
    <3> QED BY <1>5, <1>6, <2>1, <3>1, <3>2 DEF InCycle
  <2>3. CASE ~Halted
    <3>1. call' = "go_cycle" /\ RUN_BIT' = TRUE /\ PC # 0
      BY <1>14, <2>3 DEF go_loop, Halted
    <3>2. RUN_BIT' = RUN_BIT
      BY <2>1, <3>1 DEF HaltInvariant, SimTypeOK
    <3> QED BY <1>12, <2>1, <3>1, <3>2 DEF InCycle
  <2> QED BY <2>2, <2>3
<1> QED BY <1>3, <1>4, <1>7, <1>8, <1>9, <1>10, <1>11, <1>13, <1>14 DEF SimNext, Running, Commands

-----------------------------------------------------------------------------
(* At every point of a session a program counter of 0 has a reason, and the pipeline is as
   that reason leaves it. *)
THEOREM HaltInvariantHolds == SimSpec => []HaltInvariant
<1>1. SimInit => HaltInvariant
  BY HaltInit
<1>2. HaltInvariant /\ [SimNext]_simVars => HaltInvariant'
  BY HaltNext
<1> QED BY <1>1, <1>2, PTL DEF SimSpec

(* Loading, go, run and quit, in any order, keep all values in their types, and no program
   file is stored beyond the memory. *)
THEOREM SimTypeCorrect == SimSpec => []SimTypeOK
<1>1. HaltInvariant => SimTypeOK
  BY DEF HaltInvariant
<1> QED BY <1>1, HaltInvariantHolds, PTL

(* go and run notice the end of a program by the program counter alone, and still only when
   everything before the instruction that ends it has been written back and nothing behind
   it has been fetched. *)
THEOREM HaltIsCleanHolds == SimSpec => []HaltIsClean
<1>1. HaltInvariant => HaltIsClean
  BY DEF HaltInvariant
<1> QED BY <1>1, HaltInvariantHolds, PTL

(* No command brings a halted simulator back to life or changes its machine. *)
THEOREM HaltedForGoodHolds == SimSpec => HaltedForGood
<1> DEFINE A == call = "prompt" /\ ~RUN_BIT => UNCHANGED <<vars, RUN_BIT>> /\ call' \in {"prompt", "exited"}
<1>1. [SimNext]_simVars => [A]_simVars
  <2>1. SimNext => A
    BY DEF SimNext, Running, Commands, load_program, initialized, run_loop, go_loop, cycle, go, run, quit, InCycle
  <2> QED BY <2>1
<1> QED BY <1>1, PTL DEF SimSpec, HaltedForGood
-----------------------------------------------------------------------------
(* Where a word is stored and where it is meant to be. *)
LEMMA Displacement ==
  ASSUME NEW a \in 0..(WORDS_IN_MEM - 1), NEW b \in Int
  PROVE  (a - b) % WordSize = IF b % WordSize <= a THEN a - (b % WordSize) ELSE a - (b % WordSize) + WordSize
<1>1. a \in Nat /\ a < 32768 /\ WordSize = 65536
  BY DEF WORDS_IN_MEM, WordSize
<1>2. (a - b) % 65536 = IF b % 65536 <= a THEN a - (b % 65536) ELSE a - (b % 65536) + 65536
  BY <1>1
<1> QED BY <1>1, <1>2

LEMMA LoadedWords ==
  ASSUME NEW m, NEW file \in ProgramFile, Fits(file), NEW a \in 0..(WORDS_IN_MEM - 1)
  PROVE  GetWordAt(Loaded(m, file), a) =
           IF Covers(file, a) THEN file.words[PlaceOf(file, a)] % WordSize ELSE GetWordAt(m, a)
<1> DEFINE base == Base(file)
           n    == Len(file.words)
           new  == base..(base + n - 1)
<1>1. /\ file.origin \in Int /\ n \in Nat /\ DOMAIN file.words = 1..n /\ base \in 0..(WordSize - 1)
      /\ file.words \in Seq(Int)
  BY BaseType
<1>2. n # 0 => base + n <= WORDS_IN_MEM
  <2>1. n # 0 => file.words # <<>>
    BY <1>1
  <2> QED BY <2>1 DEF Fits
<1>3. PlaceOf(file, a) = IF base <= a THEN a - base + 1 ELSE a - base + WordSize + 1
  <2>1. file.origin \div 2 \in Int
    BY <1>1
  <2>2. PlaceOf(file, a) = (IF base <= a THEN a - base ELSE a - base + WordSize) + 1
    BY <2>1, Displacement DEF PlaceOf, Base
  <2> HIDE DEF base
  <2> QED BY <1>1, <2>2, Sizes
<1>4. Covers(file, a) <=> a \in new
  <2>1. Covers(file, a) <=> PlaceOf(file, a) \in 1..n
    BY <1>1 DEF Covers
  <2>2. WORDS_IN_MEM = 32768 /\ WordSize = 65536
    BY DEF WORDS_IN_MEM, WordSize
  <2> DEFINE place == PlaceOf(file, a)
  <2>3. a \in Nat /\ base \in Nat
    BY <1>1
  <2>4. CASE base <= a
    <3>1. place = a - base + 1
      BY <1>3, <2>4
    <3> HIDE DEF base, n, place
    <3>2. place \in 1..n <=> a \in base..(base + n - 1)
      BY <1>1, <2>3, <2>4, <3>1
    <3> QED BY <2>1, <3>2 DEF place
  <2>5. CASE ~(base <= a)
    <3>1. place = a - base + WordSize + 1
      BY <1>3, <2>5
    <3> HIDE DEF base, n, place
    <3>2. n \in Nat
      BY <1>1
    <3>3. place \notin 1..n
      <4>1. CASE n = 0
        BY <4>1
      <4>2. CASE n # 0
        <5>1. base + n <= 32768
          BY <1>2, <2>2, <4>2
        <5>2. place = a - base + 65537
          BY <2>2, <2>3, <3>1
        <5> QED BY <2>3, <3>2, <5>1, <5>2
      <4> QED BY <4>1, <4>2
    <3>4. a \notin base..(base + n - 1)
      BY <2>3, <2>5, <3>2
    <3> QED BY <2>1, <3>3, <3>4 DEF place
  <2> QED BY <2>4, <2>5
<1>5. a \in new => PlaceOf(file, a) = a - base + 1
  <2> HIDE DEF base, n
  <2> QED BY <1>1, <1>3
<1>6. Loaded(m, file) = [b \in DOMAIN m \cup new |->
                           IF b \in new THEN file.words[b - base + 1] % WordSize ELSE m[b]]
  BY DEF Loaded
<1>7. GetWordAt(Loaded(m, file), a) = IF a \in new THEN file.words[a - base + 1] % WordSize ELSE GetWordAt(m, a)
  <2> HIDE DEF new, base
  <2> QED BY <1>6 DEF GetWordAt
<1> HIDE DEF new, base, n
<1> QED BY <1>4, <1>5, <1>7

LEMMA EntryIsStart ==
  ASSUME NEW pc, NEW file \in ProgramFile
  PROVE  EntryPoint(pc, file) = IF pc = 0 THEN StartOf(file) ELSE pc
<1>1. file.origin \in Int
  BY BaseType
<1>2. 2 * (file.origin \div 2) = file.origin - (file.origin % 2)
  BY <1>1
<1> QED BY <1>2 DEF EntryPoint, StartOf

(* One more file on top of those that are loaded. *)
LEMMA LoadOnTop ==
  ASSUME SimTypeOK, LoadedInOrder, load_program
  PROVE  LoadedInOrder'
<1> SUFFICES ASSUME call' = "initialize" PROVE LoadedInOrder'
  BY DEF LoadedInOrder
<1> DEFINE file == files[loaded + 1]
<1>1. file \in ProgramFile /\ files' = files /\ loaded \in Nat /\ loaded' = loaded + 1
  BY FilesType
<1>2. call = "initialize" /\ Fits(file) /\ memory' = Loaded(memory, file) /\ PC' = EntryPoint(PC, file)
  BY DEF load_program
<1>3. PC' = IF PC = 0 THEN StartOf(file) ELSE PC
  BY <1>1, <1>2, EntryIsStart
<1>4. \A a \in 0..(WORDS_IN_MEM - 1) :
        GetWordAt(memory', a) =
          IF Covers(file, a) THEN file.words[PlaceOf(file, a)] % WordSize ELSE GetWordAt(memory, a)
  BY <1>1, <1>2, LoadedWords
<1>5. 1..loaded' = 1..loaded \cup {loaded + 1}
  BY <1>1
<1>6. ASSUME NEW i \in 1..loaded', StartOf(files[i]) # 0, \A j \in 1..(i - 1) : StartOf(files[j]) = 0
      PROVE  PC' = StartOf(files[i])
  <2>1. CASE i \in 1..loaded
    <3>1. PC = StartOf(files[i])
      BY <1>2, <1>6, <2>1 DEF LoadedInOrder
    <3> QED BY <1>3, <1>6, <3>1
  <2>2. CASE i = loaded + 1
    <3>1. 1..(i - 1) = 1..loaded
      BY <1>1, <2>2
    <3>2. PC = 0
      BY <1>2, <1>6, <3>1 DEF LoadedInOrder
    <3> QED BY <1>3, <2>2, <3>2
  <2> QED BY <1>5, <2>1, <2>2
<1>7. ASSUME \A i \in 1..loaded' : StartOf(files[i]) = 0 PROVE PC' = 0
  <2>1. PC = 0
    BY <1>2, <1>5, <1>7 DEF LoadedInOrder
  <2> QED BY <1>3, <1>5, <1>7, <2>1
<1>8. ASSUME NEW a \in 0..(WORDS_IN_MEM - 1), NEW i \in 1..loaded', Covers(files[i], a),
             \A j \in (i + 1)..loaded' : ~Covers(files[j], a)
      PROVE  GetWordAt(memory', a) = files[i].words[PlaceOf(files[i], a)] % WordSize
  <2>1. CASE i \in 1..loaded
    <3>1. loaded + 1 \in (i + 1)..loaded' /\ (i + 1)..loaded \subseteq (i + 1)..loaded'
      BY <1>1, <2>1
    <3>2. GetWordAt(memory, a) = files[i].words[PlaceOf(files[i], a)] % WordSize
      BY <1>2, <1>8, <2>1, <3>1 DEF LoadedInOrder
    <3> QED BY <1>4, <1>8, <3>1, <3>2
  <2>2. CASE i = loaded + 1
    BY <1>4, <1>8, <2>2
  <2> QED BY <1>5, <2>1, <2>2
<1>9. ASSUME NEW a \in 0..(WORDS_IN_MEM - 1), \A i \in 1..loaded' : ~Covers(files[i], a)
      PROVE  GetWordAt(memory', a) = 0
  <2>1. GetWordAt(memory, a) = 0
    BY <1>2, <1>5, <1>9 DEF LoadedInOrder
  <2> QED BY <1>4, <1>5, <1>9, <2>1
<1> HIDE DEF file
<1> QED BY <1>1, <1>6, <1>7, <1>8, <1>9 DEF LoadedInOrder

(* The program counter a program starts with, and every word of its memory, are those of the
   command line, for every number of files, wherever they start and however they overlap. *)
THEOREM LoadedInOrderHolds == SimSpec => []LoadedInOrder
<1>1. SimInit => LoadedInOrder
  <2> SUFFICES ASSUME SimInit PROVE LoadedInOrder
    OBVIOUS
  <2>1. loaded = 0 /\ Init
    BY DEF SimInit
  <2>2. PC = 0 /\ memory = <<>>
    BY <2>1, ImagesArePowerOn DEF Init
  <2>3. 1..loaded = {}
    BY <2>1
  <2> QED BY <2>2, <2>3 DEF LoadedInOrder, GetWordAt
<1>2. SimTypeOK /\ LoadedInOrder /\ [SimNext]_simVars => LoadedInOrder'
  <2> SUFFICES ASSUME SimTypeOK, LoadedInOrder, [SimNext]_simVars PROVE LoadedInOrder'
    OBVIOUS
  <2>1. CASE load_program
    BY <2>1, LoadOnTop
  <2>2. CASE UNCHANGED simVars
    BY <2>2 DEF LoadedInOrder, simVars, simulator, vars, State
  <2>3. CASE initialized \/ run_loop \/ go_loop \/ cycle \/ Commands
    <3>1. call' # "initialize"
      BY <2>3 DEF initialized, run_loop, go_loop, cycle, Commands, go, quit, run, InCycle, Returns
    <3> QED BY <3>1 DEF LoadedInOrder
  <2> QED BY <2>1, <2>2, <2>3 DEF SimNext, Running
<1> QED BY <1>1, <1>2, SimTypeCorrect, PTL DEF SimSpec
=============================================================================
