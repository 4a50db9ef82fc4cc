------------------------- MODULE SimulatorInvariant -------------------------
(***************************************************************************)
(* The inductive invariant behind the halt: why the program counter can    *)
(* only be 0 between two cycles when the program has ended.  Two steps set *)
(* it to 0, in FETCH_stage: a redirection by the instruction in MEMORY,    *)
(* behind which the pipeline is empty, and the wrap behind the last word.  *)
(***************************************************************************)
EXTENDS SimulatorProperties, PipeLineInvariant

(* What the halt needs of a row of the microcode, and TLC evaluates for the shipped one: a
   branch leaves the data cache alone, and a trap reads a whole word from it, so that what
   is on the bus while the cache is not ready is not taken for an address 0. *)
ASSUME RedirectsReadWordsAssumption ==
  \A row \in 0..(CONTROL_STORE_ROWS - 1) :
    /\ "BR_OP" \in ControlStore[row] => "DCACHE_EN" \notin ControlStore[row]
    /\ "TRAP_OP" \in ControlStore[row] => "DATA_SIZE" \in ControlStore[row]

(* The instruction that ends a program, and the one in the last word of the memory. *)
GoesToZero(inst) ==
  \/ "BR_OP" \in inst.MEM_CS /\ inst.ADDRESS = 0
  \/ "TRAP_OP" \in inst.MEM_CS /\ inst.DATA = 0
RunsOff(latch) == latch.V /\ AddressOf(heap[latch.instruction]) = WordSize - 2

(* Only the instruction that ends the program is left. *)
Drained(latches) == \A s \in {"MEMORY", "AGEX", "DECODE"} : ~latches[s].V
Ended(latches) ==
  /\ Drained(latches)
  /\ latches["STORE"].V => GoesToZero(heap[latches["STORE"].instruction])
-----------------------------------------------------------------------------
(* Commands are read and loops are tested between two cycles. *)
BetweenCycles ==
  /\ call \notin InCycle => at = "SR"
  /\ call \in {"run", "go"} \cup InCycle => RUN_BIT
  /\ call = "initialize" => \A s \in Stages : ~PS[s].V

(* There, a program counter of 0 has one of the two reasons. *)
ZeroExplained ==
  PC = 0 /\ (call \in {"initialize", "run", "go"} \/ (call = "prompt" /\ RUN_BIT)) =>
    Ended(PS) \/ RunsOff(PS["DECODE"])

(* go and run start a cycle only while it is not 0; what makes it 0 is then still to be
   moved from NEW_PS to PS. *)
CycleExplained ==
  call \in {"run_cycle", "go_cycle"} =>
    IF at = "MOVE" THEN PC # 0 \/ Ended(NEW_PS) \/ RunsOff(NEW_PS["DECODE"])
                   ELSE PC # 0

(* The last cycle of run starts from there, and fetches from 0. *)
LastExplained ==
  call = "run_last" =>
    /\ Drained(PS) \/ RunsOff(PS["DECODE"])
    /\ at # "MOVE" => PC = 0
    /\ at = "MOVE" /\ ~DecodeHeld /\ NEW_PS["DECODE"].V =>
         AddressOf(heap[NEW_PS["DECODE"].instruction]) = 0

(* The signals of MEM_stage carry the targets of the instruction in MEMORY; while it waits
   for the data cache they are not 0. *)
TargetsFollow ==
  AfterMEM /\ PS["MEMORY"].V =>
    /\ memory_sigs.target_pc = On("MEMORY").ADDRESS
    /\ memory_sigs.trap_pc = On("MEMORY").DATA
    /\ stall_sigs.mem_stall /\ IsBranchTaken =>
         memory_sigs.mem_pc_mux = 2 /\ memory_sigs.trap_pc # 0
    /\ memory_sigs.mem_pc_mux = 1 => "BR_OP" \in On("MEMORY").MEM_CS
    /\ memory_sigs.mem_pc_mux = 2 => "TRAP_OP" \in On("MEMORY").MEM_CS

HaltInvariant ==
  /\ SimTypeOK
  /\ ControlInvariant
  /\ BetweenCycles
  /\ ZeroExplained
  /\ CycleExplained
  /\ LastExplained
  /\ TargetsFollow
  /\ HaltIsClean
=============================================================================
