------------------------------ MODULE History -------------------------------
(***************************************************************************)
(* The execution trace (PipeLine::UpdateHistory and idump): one row per    *)
(* instruction, one cell per cycle.  Between FETCH_stage and the loop that *)
(* moves the latches a cycle is added to every row.  Rows know their       *)
(* instruction by its address, and take the stage to print from a letter   *)
(* that every stage leaves in the instruction object it works on.  The     *)
(* dump forgets the rows of the instructions that have retired.            *)
(***************************************************************************)
EXTENDS Simulator, SequencesExt

CONSTANT MaxCycles  \* go and run go on only below this number; a bound for TLC

ASSUME MaxCyclesAssumption == MaxCycles \in Nat
ASSUME NoAddressAssumption == NULL \notin Word  \* a mem_addr that is not valid is none

VARIABLES
  CYCLE_COUNT,          \* Simulator: the cycles completed so far
  current_stage,        \* Instruction: the letter of the last stage that worked on it
  cycle_history,        \* Instruction: its own record of cells
  instruction_history   \* PipeLine: the rows

recording == <<current_stage, cycle_history, instruction_history>>
histVars == <<simVars, CYCLE_COUNT, recording>>

Letter == [STORE |-> "S", MEMORY |-> "M", AGEX |-> "E", DECODE |-> "D"]
Starred == [M |-> "M*", E |-> "E*", D |-> "D*"]
(* The stages whose latch of NEW_PS tells a stall from progress. *)
Stallable == {"DECODE", "AGEX", "MEMORY"}

(* init_pipeline clears the rows. *)
HistInit ==
  /\ SimInit
  /\ CYCLE_COUNT = 0
  /\ current_stage = [o \in Obj |-> ""]
  /\ cycle_history = [o \in Obj |-> <<>>]
  /\ instruction_history = <<>>
-----------------------------------------------------------------------------
(* The statements of the stage functions that set current_stage. *)
At == [SR |-> "STORE", MEM |-> "MEMORY", AGEX |-> "AGEX", DE |-> "DECODE"]

EnterStage ==
  /\ at \in DOMAIN At
  /\ LET o == PS[At[at]].instruction
     IN  current_stage' = IF o = NULL THEN current_stage
                                      ELSE [current_stage EXCEPT ![o] = Letter[At[at]]]
  /\ UNCHANGED <<CYCLE_COUNT, cycle_history, instruction_history>>

(* The object FETCH_stage has created, if it has. *)
EnterFetch ==
  /\ at = "FETCH"
  /\ IF DecodeHeld
     THEN UNCHANGED <<current_stage, cycle_history>>
     ELSE LET o == NEW_PS'["DECODE"].instruction
          IN  /\ current_stage' = [current_stage EXCEPT ![o] = "F"]
              /\ cycle_history' = [cycle_history EXCEPT ![o] = <<>>]
  /\ UNCHANGED <<CYCLE_COUNT, instruction_history>>
-----------------------------------------------------------------------------
(* A mistake the checks must notice: the difference is cut to 16 bits. *)
PCOf_cut(latch) == (heap[latch.instruction].NPC - 2) % WordSize

(* NPC.to_num() - 2: an int, so that an NPC of 0 makes it -2 and not 0xfffe. *)
PCOf(latch) == heap[latch.instruction].NPC - 2
Matches(latch, pc) == Valid(latch) /\ PCOf(latch) = pc

(* A mistake the checks must notice: a held instruction gets a row again. *)
IsNewInstruction_held == Valid(NEW_PS["DECODE"])

(* A valid instruction is going to DECODE that was not in DECODE in this cycle. *)
IsNewInstruction ==
  /\ Valid(NEW_PS["DECODE"])
  /\ \/ instruction_history = <<>>
     \/ Last(instruction_history).pc # PCOf(NEW_PS["DECODE"])
     \/ ~Matches(PS["DECODE"], PCOf(NEW_PS["DECODE"]))

(* A mistake the checks must notice: the int is kept in the row. *)
NewTrace_uncut == [pc |-> PCOf(NEW_PS["DECODE"]), cycle_history |-> <<>>, mem_addr |-> NULL]

(* An InstructionTrace: its pc is a uint16_t; mem_addr is NULL while it is not valid. *)
NewTrace == [pc |-> PCOf(NEW_PS["DECODE"]) % WordSize, cycle_history |-> <<>>, mem_addr |-> NULL]

Rows == IF IsNewInstruction THEN Append(instruction_history, NewTrace) ELSE instruction_history

(* The latches are searched from the oldest instruction to the youngest; the place of the
   first one with this pc, 0 if there is none. *)
SearchOrder == <<"STORE", "MEMORY", "AGEX", "DECODE">>
Place(pc) == SelectInSeq(SearchOrder, LAMBDA s : Matches(PS[s], pc))
InstructionOf(pc) == PS[SearchOrder[Place(pc)]].instruction

(* The letter of a row's cell. *)
StageChar(row) ==
  IF Place(row.pc) # 0 THEN current_stage[InstructionOf(row.pc)]
  ELSE IF row.cycle_history = <<>> THEN "F" ELSE " "

(* A mistake the checks must notice: the latches of this cycle for those of the next. *)
StallsIn_now(row) == {s \in Stallable : StageChar(row) = Letter[s] /\ Matches(PS[s], row.pc)}

(* The stages in which the instruction will be met again. *)
StallsIn(row) == {s \in Stallable : StageChar(row) = Letter[s] /\ Matches(NEW_PS[s], row.pc)}
Cell(row) == IF StallsIn(row) = {} THEN StageChar(row) ELSE Starred[StageChar(row)]

(* A mistake the checks must notice: the address of every instruction in MEMORY. *)
MemAddr_every(row) ==
  IF Place(row.pc) # 0 /\ SearchOrder[Place(row.pc)] = "MEMORY" THEN On("MEMORY").ADDRESS ELSE row.mem_addr

(* The address of a row whose instruction is found in MEMORY and uses the data cache. *)
MemAddr(row) ==
  IF Place(row.pc) # 0 /\ SearchOrder[Place(row.pc)] = "MEMORY" /\ "DCACHE_EN" \in On("MEMORY").MEM_CS
  THEN On("MEMORY").ADDRESS ELSE row.mem_addr

(* cycle_history[current_cycle] = letter, in a row and in recordStage and recordStall. *)
Marked(cells, letter) ==
  [c \in DOMAIN cells \cup {CYCLE_COUNT} |-> IF c = CYCLE_COUNT THEN letter ELSE cells[c]]

Updated(row) ==
  [row EXCEPT !.cycle_history = Marked(@, Cell(row)), !.mem_addr = MemAddr(row)]

(* A mistake the checks must notice: the stall is not recorded in the object. *)
Recorded_unstalled(o) ==
  IF \E row \in ToSet(Rows) : Place(row.pc) # 0 /\ InstructionOf(row.pc) = o
  THEN Marked(cycle_history[o], current_stage[o]) ELSE cycle_history[o]

(* recordStage on the instruction a row has found, then recordStall on the one in the
   latch the stall is seen at. *)
Recorded(o) ==
  LET rows    == ToSet(Rows)
      found   == \E row \in rows : Place(row.pc) # 0 /\ InstructionOf(row.pc) = o
      stalled == {s \in Stallable : PS[s].instruction = o /\ \E row \in rows : s \in StallsIn(row)}
  IN  IF stalled # {} THEN Marked(cycle_history[o], Starred[Letter[CHOOSE s \in stalled : TRUE]])
      ELSE IF found THEN Marked(cycle_history[o], current_stage[o])
      ELSE cycle_history[o]

(* UpdateHistory, after which the latches move, Cycle() returns and the cycle is counted. *)
UpdateHistory ==
  /\ at = "MOVE"
  /\ instruction_history' = [i \in DOMAIN Rows |-> Updated(Rows[i])]
  /\ cycle_history' = [o \in Obj |-> Recorded(o)]
  /\ CYCLE_COUNT' = CYCLE_COUNT + 1
  /\ UNCHANGED current_stage
-----------------------------------------------------------------------------
(* A mistake the checks must notice: a row is dropped when its instruction reaches MEMORY. *)
Retired_early(row) == \E c \in DOMAIN row.cycle_history : row.cycle_history[c] \in {"M", "S"}

(* idump drops a row in which it has printed an S. *)
Retired(row) == \E c \in DOMAIN row.cycle_history : row.cycle_history[c] = "S"

(* What erase leaves of a vector: the elements at these places, in their order. *)
Kept(rows, places) ==
  [k \in 1..Cardinality(places) |->
     rows[CHOOSE i \in places : Cardinality({j \in places : j <= i}) = k]]

Unretired ==
  Kept(instruction_history, {i \in DOMAIN instruction_history : ~Retired(instruction_history[i])})

(* The cells idump prints of a row: nothing behind the first S. *)
Printed(row) ==
  LET cells == row.cycle_history
  IN  [c \in {d \in DOMAIN cells : \A e \in DOMAIN cells : e < d => cells[e] # "S"} |-> cells[c]]

idump ==
  /\ call = "prompt"
  /\ instruction_history' = Unretired
  /\ UNCHANGED <<simVars, CYCLE_COUNT, current_stage, cycle_history>>

(* go ends with DumpHistory, which is idump. *)
go_ends ==
  /\ go_loop /\ Halted
  /\ instruction_history' = Unretired
  /\ UNCHANGED <<CYCLE_COUNT, current_stage, cycle_history>>
-----------------------------------------------------------------------------
TracedCycle == cycle /\ (EnterStage \/ EnterFetch \/ UpdateHistory)

Untraced ==
  /\ \/ load_program \/ initialized \/ go \/ quit
     \/ go_loop /\ ~Halted /\ CYCLE_COUNT < MaxCycles
     \/ run_loop /\ (left = 0 \/ CYCLE_COUNT < MaxCycles)
     \/ \E n \in RunLengths : run(n)
  /\ UNCHANGED <<CYCLE_COUNT, recording>>

HistNext == TracedCycle \/ Untraced \/ idump \/ go_ends

HistSpec == HistInit /\ [][HistNext]_histVars
=============================================================================
