------------------------- MODULE PipeLineInvariant --------------------------
(***************************************************************************)
(* The inductive invariant behind the control properties of the pipeline.  *)
(* PS is constant while a cycle runs, so each part says how far the cycle  *)
(* has come: what NEW_PS, the signals and the shared objects hold at each  *)
(* point, in terms of PS and of the microcode of each instruction.         *)
(***************************************************************************)
EXTENDS PipeLineProperties

(* The microcode of the instruction a latch of PS points to. *)
UcodeOf(o) == MicroCode(heap[o].IR)
Raises(s, signal) == PS[s].V /\ signal \in UcodeOf(PS[s].instruction)

AfterMEM == at \in {"AGEX", "DE", "FETCH", "MOVE"}
AfterAGEX == at \in {"DE", "FETCH", "MOVE"}
AfterDE == at \in {"FETCH", "MOVE"}
AfterFETCH == at = "MOVE"

SameContent(a, b) == a.instruction = b.instruction /\ a.V = b.V

(* The pipeline fills from DECODE on, and only what is filled is valid, stalls or branches. *)
Filled ==
  /\ \A s \in Stages : PS[s].V => PS[s].instruction # NULL
  /\ PS["DECODE"].instruction = NULL => PS["AGEX"].instruction = NULL /\ ~stall_sigs.dep_stall
  /\ PS["AGEX"].instruction = NULL => PS["MEMORY"].instruction = NULL
  /\ PS["MEMORY"].instruction = NULL =>
       PS["STORE"].instruction = NULL /\ ~stall_sigs.mem_stall /\ ~IsBranchTaken

(* Before a stage has run its latch of NEW_PS is still the one of PS. *)
NotYetLatched ==
  /\ ~AfterMEM => SameContent(NEW_PS["STORE"], PS["STORE"])
  /\ ~AfterAGEX => SameContent(NEW_PS["MEMORY"], PS["MEMORY"])
  /\ ~AfterDE => SameContent(NEW_PS["AGEX"], PS["AGEX"])
  /\ ~AfterFETCH => SameContent(NEW_PS["DECODE"], PS["DECODE"])

(* Afterwards it holds the instruction of the stage before, or keeps its own. *)
StoreLatched ==
  AfterMEM =>
    /\ NEW_PS["STORE"].instruction = PS["MEMORY"].instruction
    /\ NEW_PS["STORE"].V = (PS["MEMORY"].V /\ ~stall_sigs.mem_stall)
MemoryLatched ==
  AfterAGEX =>
    IF stall_sigs.mem_stall THEN SameContent(NEW_PS["MEMORY"], PS["MEMORY"])
                            ELSE SameContent(NEW_PS["MEMORY"], PS["AGEX"])
AgexLatched ==
  AfterDE =>
    IF stall_sigs.mem_stall
    THEN SameContent(NEW_PS["AGEX"], PS["AGEX"])
    ELSE /\ NEW_PS["AGEX"].instruction = PS["DECODE"].instruction
         /\ NEW_PS["AGEX"].V = (~stall_sigs.dep_stall /\ PS["DECODE"].V)
DecodeLatched ==
  AfterFETCH =>
    IF stall_sigs.dep_stall \/ stall_sigs.mem_stall
    THEN SameContent(NEW_PS["DECODE"], PS["DECODE"])
    ELSE /\ NEW_PS["DECODE"].instruction # NULL
         /\ \A s \in Stages : NEW_PS["DECODE"].instruction # PS[s].instruction
         /\ NEW_PS["DECODE"].V => ~Raises("AGEX", "BR_STALL") /\ ~Raises("DECODE", "BR_STALL")

(* A valid control instruction is announced to FETCH_stage by the stage it is in. *)
Announced ==
  /\ AfterMEM /\ Raises("MEMORY", "BR_STALL") => stall_sigs.v_mem_br_stall
  /\ AfterAGEX /\ Raises("AGEX", "BR_STALL") => stall_sigs.v_agex_br_stall
  /\ AfterDE /\ Raises("DECODE", "BR_STALL") => stall_sigs.v_de_br_stall

(* The control words an object carries are the slices of its own microcode row. *)
Past(s) == {PS[s].instruction, NEW_PS[s].instruction}
WordsFollow ==
  \A o \in Obj :
    /\ o \in Past("AGEX") \cup Past("MEMORY") => heap[o].AGEX_CS = ToAGEX_CS(UcodeOf(o))
    /\ o \in Past("MEMORY") => heap[o].MEM_CS = ToMEM_CS(ToAGEX_CS(UcodeOf(o)))

(* Nothing valid follows a valid control instruction that has not left MEMORY. *)
Interlocked ==
  /\ Raises("MEMORY", "BR_STALL") => ~PS["AGEX"].V /\ ~PS["DECODE"].V
  /\ Raises("AGEX", "BR_STALL") => ~PS["DECODE"].V

(* Of the latches that share an object only the youngest may be valid. *)
OneOwner ==
  \A s \in Stages : \A t \in Behind(s) :
    PS[s].instruction = PS[t].instruction => ~PS[s].V

(* The PC mux selects a target only for the instruction in MEMORY, and what an
   untaken branch finds in it is 0. *)
Redirects(o) ==
  \/ "BR_OP" \in UcodeOf(o) /\ ConditionHolds(heap[o])
  \/ "BR_OP" \notin UcodeOf(o) /\ "TRAP_OP" \in UcodeOf(o)
MuxFollows ==
  IsBranchTaken =>
    IF AfterMEM
    THEN PS["MEMORY"].V /\ Redirects(PS["MEMORY"].instruction)
    ELSE Raises("MEMORY", "BR_OP") => ConditionHolds(heap[PS["MEMORY"].instruction])

ControlInvariant ==
  /\ TypeOK
  /\ Filled
  /\ NotYetLatched
  /\ StoreLatched /\ MemoryLatched /\ AgexLatched /\ DecodeLatched
  /\ Announced
  /\ WordsFollow
  /\ Interlocked
  /\ OneOwner
  /\ MuxFollows
=============================================================================
