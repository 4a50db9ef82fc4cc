------------------------ MODULE SimulatorProperties -------------------------
(***************************************************************************)
(* What is claimed of the simulator around the pipeline.                   *)
(***************************************************************************)
EXTENDS Simulator

(* Every variable holds a value of its type; no program file reaches past the memory. *)
SimTypeOK ==
  /\ TypeOK
  /\ call \in Calls
  /\ files \in Seq(ProgramFile) /\ loaded \in 0..Len(files)
  /\ left \in Word
  /\ RUN_BIT \in BOOLEAN

(* Where a file starts in the address space of 16 bits, and which of its words is meant for
   word a, if any is. *)
StartOf(file) == (file.origin - (file.origin % 2)) % WordSize
PlaceOf(file, a) == ((a - (file.origin \div 2)) % WordSize) + 1
Covers(file, a) == PlaceOf(file, a) \in DOMAIN file.words

(* Between two calls of load_program the program counter is the start of the first file that
   does not start at 0, whatever is loaded before and behind it, and a word of the memory is
   that of the last file that has one for it, or 0. *)
LoadedInOrder ==
  call = "initialize" =>
    /\ \A i \in 1..loaded :
         StartOf(files[i]) # 0 /\ (\A j \in 1..(i - 1) : StartOf(files[j]) = 0) => PC = StartOf(files[i])
    /\ (\A i \in 1..loaded : StartOf(files[i]) = 0) => PC = 0
    /\ \A a \in 0..(WORDS_IN_MEM - 1) :
         /\ \A i \in 1..loaded :
              Covers(files[i], a) /\ (\A j \in (i + 1)..loaded : ~Covers(files[j], a)) =>
                GetWordAt(memory, a) = files[i].words[PlaceOf(files[i], a)] % WordSize
         /\ (\A i \in 1..loaded : ~Covers(files[i], a)) => GetWordAt(memory, a) = 0

(* The program counter is 0 because it wrapped behind the last word of the memory. *)
Wrapped == \E s \in Stages : Valid(PS[s]) /\ AddressOf(On(s)) = WordSize - 2

(* When the simulator has halted the program is over: everything before the instruction
   that went to 0 has been written back and nothing behind it has been fetched.  go leaves
   that instruction itself in STORE, run leaves what it has fetched from 0 in DECODE.
   Only when the last word of the memory has been fetched as an instruction is the program
   cut off, that one and whatever is before it in the pipeline unfinished. *)
HaltIsClean ==
  call = "prompt" /\ ~RUN_BIT /\ ~Wrapped =>
    /\ ~Valid(PS["MEMORY"]) /\ ~Valid(PS["AGEX"])
    /\ Valid(PS["STORE"]) => \/ "BR_OP" \in On("STORE").MEM_CS /\ On("STORE").ADDRESS = 0
                             \/ "TRAP_OP" \in On("STORE").MEM_CS /\ On("STORE").DATA = 0
    /\ Valid(PS["DECODE"]) => AddressOf(On("DECODE")) = 0
    /\ ~(Valid(PS["STORE"]) /\ Valid(PS["DECODE"]))

(* A halted simulator stays halted and its machine is not touched again, whatever
   commands follow, so the dumps show the end of the program. *)
HaltedForGood ==
  [][call = "prompt" /\ ~RUN_BIT => UNCHANGED <<vars, RUN_BIT>> /\ call' \in {"prompt", "exited"}]_simVars

(* go and run come back to the prompt, for programs that come to an end. *)
CommandsReturn == call \in InCycle \cup {"run", "go"} ~> call = "prompt"
=============================================================================
