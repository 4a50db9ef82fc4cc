----------------------------- MODULE Simulator ------------------------------
(***************************************************************************)
(* The simulator around the pipeline (source/Simulator.cpp): the program   *)
(* files are loaded one after the other, then commands are read, and go    *)
(* and run call Cycle() until the program counter is 0 or the cycles are   *)
(* used up.  idump forgets rows of the trace and is in History; the other  *)
(* dump commands only read the state and are left out.                     *)
(***************************************************************************)
EXTENDS PipeLineProperties, Loader

CONSTANTS
  CommandLines,  \* the program files a simulator may be started with, in order
  RunLengths     \* the numbers of cycles asked of run; a bound on a uint16_t

ASSUME CommandLinesAssumption == \A line \in CommandLines : line \in Seq(ProgramFile)
ASSUME RunLengthsAssumption == RunLengths \subseteq Word
(* The machine as the constructors, init_memory and init_state leave it. *)
ASSUME ImagesArePowerOn == Images = {[entry |-> 0, memory |-> <<>>]}

VARIABLES
  call,     \* the function that is active, and where in it
  files,    \* the program files of the command line
  loaded,   \* the number of them load_program has been called for
  left,     \* the cycles run has left
  RUN_BIT

simulator == <<call, files, loaded, left, RUN_BIT>>
simVars == <<vars, simulator>>

(* "run" and "go" are the heads of their loops; within the body of a loop the pipeline
   goes through a cycle.  "run_last" is the cycle after which run halts. *)
InCycle == {"run_cycle", "run_last", "go_cycle"}
Calls == {"initialize", "prompt", "run", "go", "exited"} \cup InCycle

SimInit ==
  /\ Init
  /\ call = "initialize"
  /\ files \in CommandLines /\ loaded = 0
  /\ left = 0
  /\ RUN_BIT = FALSE
-----------------------------------------------------------------------------
load_program ==
  /\ call = "initialize" /\ loaded < Len(files)
  /\ LET file == files[loaded + 1]
     IN  IF Fits(file)
         THEN /\ memory' = Loaded(memory, file)
              /\ PC' = EntryPoint(PC, file)
              /\ UNCHANGED call
         ELSE call' = "exited" /\ UNCHANGED <<memory, PC>>
  /\ loaded' = loaded + 1
  /\ UNCHANGED <<at, REGS, NZP, heap, PS, NEW_PS, Signal_Entries, files, left, RUN_BIT>>

initialized ==
  /\ call = "initialize" /\ loaded = Len(files)
  /\ call' = "prompt"
  /\ RUN_BIT' = TRUE
  /\ UNCHANGED <<vars, files, loaded, left>>
-----------------------------------------------------------------------------
Halted == PC = 0

(* A mistake the checks must notice: a halted simulator accepts run. *)
run_halted(n) ==
  /\ call = "prompt"
  /\ call' = "run"
  /\ left' = n
  /\ UNCHANGED <<vars, files, loaded, RUN_BIT>>

(* run n: a halted program is given one more cycle. *)
run(n) ==
  /\ call = "prompt" /\ RUN_BIT
  /\ call' = "run"
  /\ left' = n
  /\ UNCHANGED <<vars, files, loaded, RUN_BIT>>

run_loop ==
  /\ call = "run"
  /\ call' = IF left = 0 THEN "prompt" ELSE IF Halted THEN "run_last" ELSE "run_cycle"
  /\ left' = IF left = 0 \/ Halted THEN 0 ELSE left - 1
  /\ UNCHANGED <<vars, files, loaded, RUN_BIT>>

(* go: until the program counter is 0. *)
go ==
  /\ call = "prompt" /\ RUN_BIT /\ ~Halted
  /\ call' = "go"
  /\ UNCHANGED <<vars, files, loaded, left, RUN_BIT>>

go_loop ==
  /\ call = "go"
  /\ call' = IF Halted THEN "prompt" ELSE "go_cycle"
  /\ RUN_BIT' = ~Halted
  /\ UNCHANGED <<vars, files, loaded, left>>

(* A command that is refused changes nothing; quit ends the process. *)
quit ==
  /\ call = "prompt"
  /\ call' = "exited"
  /\ UNCHANGED <<vars, files, loaded, left, RUN_BIT>>

(* cycle(): the calls of PipeLine::Cycle, then back to the loop. *)
Returns(c) == CASE c = "run_cycle" -> "run" [] c = "run_last" -> "prompt" [] c = "go_cycle" -> "go"

cycle ==
  /\ call \in InCycle
  /\ Next
  /\ call' = IF at = "MOVE" THEN Returns(call) ELSE call
  /\ RUN_BIT' = IF call = "run_last" /\ at = "MOVE" THEN FALSE ELSE RUN_BIT
  /\ UNCHANGED <<files, loaded, left>>
-----------------------------------------------------------------------------
Running == load_program \/ initialized \/ run_loop \/ go_loop \/ cycle
Commands == go \/ quit \/ \E n \in RunLengths : run(n)

SimNext == Running \/ Commands

(* Every function goes on until it returns; nobody has to type a command. *)
SimSpec == SimInit /\ [][SimNext]_simVars /\ WF_simVars(Running)
=============================================================================
