------------------------- MODULE HistoryProperties --------------------------
(***************************************************************************)
(* What is claimed of the execution trace.  The history variable fetched   *)
(* is the diagram as it should be: one entry for each instruction that was *)
(* fetched, which follows the instruction's object from latch to latch     *)
(* instead of looking for its address.                                     *)
(***************************************************************************)
EXTENDS History

VARIABLES
  fetched,   \* the instructions fetched so far, as far as their rows have not been dropped
  confused   \* an instruction was fetched that the rows cannot tell from another one

ghosts == <<fetched, confused>>

(* object is NULL once the instruction has left STORE. *)
Entry(o) == [object |-> o, pc |-> AddressOf(heap[o]), cells |-> <<>>, mem_addr |-> NULL]

NewlyFetched == NEW_PS["DECODE"].V /\ ~DecodeHeld
Entries == IF NewlyFetched THEN Append(fetched, Entry(NEW_PS["DECODE"].instruction)) ELSE fetched

(* The one latch of PS an instruction in flight is in; it stalls if it is there again. *)
Home(e) == CHOOSE s \in HoldersOf(e.object) : TRUE
StaysAt(e, s) == NEW_PS[s].instruction = e.object /\ NEW_PS[s].V
TrueCell(e) ==
  IF HoldersOf(e.object) = {} THEN "F"
  ELSE IF StaysAt(e, Home(e)) THEN Starred[Letter[Home(e)]] ELSE Letter[Home(e)]

Followed(e) ==
  IF e.object = NULL THEN e
  ELSE [e EXCEPT !.cells = Marked(@, TrueCell(e)),
                 !.object = IF "STORE" \in HoldersOf(e.object) THEN NULL ELSE @,
                 !.mem_addr = IF "MEMORY" \in HoldersOf(e.object) /\ "DCACHE_EN" \in heap[e.object].MEM_CS
                              THEN heap[e.object].ADDRESS ELSE @]

(* An address is met twice in the pipeline when it is fetched while the instruction
   fetched from it before has not left; 0xfffe and 0xffff, whose NPC has wrapped to 0 and
   1, are -2 and -1 to the rows. *)
Confusing ==
  /\ NewlyFetched
  /\ LET inst == heap[NEW_PS["DECODE"].instruction]
     IN  \/ inst.NPC < 2
         \/ \E i \in DOMAIN fetched : fetched[i].object # NULL /\ fetched[i].pc = AddressOf(inst)

(* The dump is entitled to forget the instructions that have left the pipeline. *)
Follow ==
  IF at = "MOVE" /\ call \in InCycle
  THEN /\ fetched' = [i \in DOMAIN Entries |-> Followed(Entries[i])]
       /\ confused' = (confused \/ Confusing)
  ELSE UNCHANGED ghosts

Forget ==
  /\ fetched' = Kept(fetched, {i \in DOMAIN fetched : fetched[i].object # NULL})
  /\ UNCHANGED confused

TraceInit == HistInit /\ fetched = <<>> /\ confused = FALSE
TraceNext ==
  \/ (TracedCycle \/ Untraced) /\ Follow
  \/ (idump \/ go_ends) /\ Forget

TraceSpec == TraceInit /\ [][TraceNext]_<<histVars, ghosts>>
-----------------------------------------------------------------------------
(* Every variable of the trace holds a value of its type. *)
HistTypeOK ==
  /\ CYCLE_COUNT \in Nat
  /\ current_stage \in [Obj -> {"", "F", "D", "E", "M", "S"}]
  /\ \A o \in Obj : DOMAIN cycle_history[o] \subseteq 0..CYCLE_COUNT
  /\ \A i \in DOMAIN instruction_history :
       /\ instruction_history[i].pc \in Word
       /\ DOMAIN instruction_history[i].cycle_history \subseteq 0..CYCLE_COUNT
       /\ instruction_history[i].mem_addr \in Word \cup {NULL}

(* "This diagram shows the exact state of every instruction in every cycle" (README.md):
   a row for each instruction fetched, in that order, whose printed cells are the stages
   it was in from its fetch to its write-back, with a star for each cycle it lost there. *)
DiagramExact ==
  at = "SR" =>
    /\ DOMAIN instruction_history = DOMAIN fetched
    /\ \A i \in DOMAIN fetched :
         /\ instruction_history[i].pc = fetched[i].pc
         /\ Printed(instruction_history[i]) = fetched[i].cells

(* It does as long as no two instructions in the pipeline have the same address, and
   dumping it in between loses nothing of the instructions that are still in flight. *)
DiagramFaithful == ~confused => DiagramExact

(* The record every instruction object keeps of itself agrees with it. *)
RecordsAgree ==
  at = "SR" /\ ~confused =>
    \A i \in DOMAIN fetched :
      LET e == fetched[i]
      IN  e.object # NULL =>
            cycle_history[e.object] = [c \in {d \in DOMAIN e.cells : e.cells[d] # "F"} |-> e.cells[c]]

(* The rounds of an address from entry i on that have used the data cache. *)
Rounds(i) ==
  {j \in DOMAIN fetched : j >= i /\ fetched[j].pc = fetched[i].pc /\ fetched[j].mem_addr # NULL}

(* A row is met again by every later round of its address: it shows where the last of them
   went in memory, its own instruction if there is no later one, and nothing only if none
   of them has used the data cache. *)
ShowsLastRound(i) ==
  IF Rounds(i) = {} THEN instruction_history[i].mem_addr = NULL
  ELSE \E j \in Rounds(i) :
         /\ \A k \in Rounds(i) : k <= j
         /\ instruction_history[i].mem_addr = fetched[j].mem_addr

(* No row shows an address of another instruction or of a round that was not the last, and
   none misses one. *)
AddressesFaithful == at = "SR" /\ ~confused => \A i \in DOMAIN fetched : ShowsLastRound(i)

(* A row that is never found again: a fetch, then nothing. *)
OnlyFetched(row) ==
  /\ row.mem_addr = NULL
  /\ \A c \in DOMAIN row.cycle_history :
       row.cycle_history[c] = IF \E d \in DOMAIN row.cycle_history : d < c THEN " " ELSE "F"

(* The instructions of the last two addresses are -2 and -1 when they are looked for, and
   the address in a row is a uint16_t: such a row shows a fetch and then nothing, whatever
   its instruction does, is never taken for another's, and no dump ever drops it. *)
LastWordsUnmatched ==
  \A i \in DOMAIN instruction_history :
    LET row == instruction_history[i]
    IN  row.pc >= WordSize - 2 => OnlyFetched(row) /\ ~Retired(row)
=============================================================================
