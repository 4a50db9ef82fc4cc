-------------------------- MODULE HistoryInvariant --------------------------
(***************************************************************************)
(* The inductive invariant behind the execution trace: why a row, which    *)
(* looks for its instruction by address and reads the letter in its        *)
(* object, meets the instruction it was made for in the latch it is in.    *)
(***************************************************************************)
EXTENDS HistoryProperties, PipeLineInvariant, SimulatorProperties

(* Cycles are not interrupted. *)
CyclesEnd == call \notin InCycle => at = "SR"

(* Each stage has left its letter in the object of its latch, and no older stage, which
   may have worked on the same object as a bubble, has replaced it. *)
LettersFollow ==
  /\ at # "SR" /\ PS["STORE"].V => current_stage[PS["STORE"].instruction] = "S"
  /\ AfterMEM /\ PS["MEMORY"].V => current_stage[PS["MEMORY"].instruction] = "M"
  /\ AfterAGEX /\ PS["AGEX"].V => current_stage[PS["AGEX"].instruction] = "E"
  /\ AfterDE /\ PS["DECODE"].V => current_stage[PS["DECODE"].instruction] = "D"

(* An instruction that was just fetched has recorded nothing. *)
RecordsStart ==
  at = "MOVE" /\ ~DecodeHeld => cycle_history[NEW_PS["DECODE"].instruction] = <<>>

(* A record of cells holds no cell of a cycle to come. *)
IsRecord(cells) ==
  /\ cells = [c \in DOMAIN cells |-> cells[c]]
  /\ DOMAIN cells \subseteq {c \in Nat : c < CYCLE_COUNT}
IsRow(row) ==
  /\ row = [pc |-> row.pc, cycle_history |-> row.cycle_history, mem_addr |-> row.mem_addr]
  /\ row.pc \in Word
  /\ IsRecord(row.cycle_history)
  /\ row.mem_addr \in Word \cup {NULL}
IsEntry(e) ==
  /\ e = [object |-> e.object, pc |-> e.pc, cells |-> e.cells, mem_addr |-> e.mem_addr]
  /\ e.object \in Obj \cup {NULL}
  /\ e.pc \in Word
  /\ IsRecord(e.cells)
IsList(s) == s \in Seq(ToSet(s))

TraceTypeOK ==
  /\ CYCLE_COUNT \in Nat
  /\ current_stage \in [Obj -> {"", "F", "D", "E", "M", "S"}]
  /\ cycle_history = [o \in Obj |-> cycle_history[o]]
  /\ \A o \in Obj : IsRecord(cycle_history[o])
  /\ IsList(instruction_history)
  /\ \A i \in DOMAIN instruction_history : IsRow(instruction_history[i])
  /\ IsList(fetched)
  /\ \A i \in DOMAIN fetched : IsEntry(fetched[i])
  /\ confused \in BOOLEAN
-----------------------------------------------------------------------------
(* A row and the entry of the same instruction. *)
SameTrace(row, e) ==
  /\ row.pc = e.pc
  /\ Printed(row) = e.cells
  /\ Retired(row) <=> e.object = NULL
RowsFollow ==
  /\ DOMAIN instruction_history = DOMAIN fetched
  /\ \A i \in DOMAIN fetched : SameTrace(instruction_history[i], fetched[i])

(* An instruction in flight is in one latch, where its row can find it; what it has
   recorded of itself is what is known of it, but for the cell of its fetch. *)
FromDecode(cells) == [c \in {d \in DOMAIN cells : cells[d] # "F"} |-> cells[c]]
IsTraced(e) ==
  /\ \E s \in Stages : HoldersOf(e.object) = {s}
  /\ heap[e.object].NPC = e.pc + 2
  /\ cycle_history[e.object] = FromDecode(e.cells)
InFlightTraced == \A i \in DOMAIN fetched : fetched[i].object # NULL => IsTraced(fetched[i])

(* Every valid latch is accounted for, and DECODE holds the instruction fetched last. *)
LatchesTraced ==
  /\ \A s \in Stages : PS[s].V => \E i \in DOMAIN fetched : fetched[i].object = PS[s].instruction
  /\ PS["DECODE"].V =>
       \A i \in DOMAIN fetched : i + 1 \notin DOMAIN fetched => fetched[i].object = PS["DECODE"].instruction

(* An address is fetched again only when the instruction fetched from it before has left. *)
OneAtATime ==
  \A i, j \in DOMAIN fetched : i < j /\ fetched[i].pc = fetched[j].pc => fetched[i].object = NULL

AddressesFollow == \A i \in DOMAIN fetched : ShowsLastRound(i)

(* As long as no address is met twice. *)
AllTraced == RowsFollow /\ InFlightTraced /\ LatchesTraced /\ OneAtATime /\ AddressesFollow

TraceInvariant ==
  /\ SimTypeOK
  /\ ControlInvariant
  /\ CyclesEnd
  /\ LettersFollow
  /\ RecordsStart
  /\ TraceTypeOK
  /\ LastWordsUnmatched
  /\ ~confused => AllTraced
=============================================================================
