# The LC-3b pipeline simulator in TLA+

This directory specifies the simulator in `source/` and `include/` of the
repository: a cycle-by-cycle model of its five-stage pipeline, the combinational
logic and microcode it is driven by, the command loop around it, the execution
trace it draws, and the assembler that makes its programs. TLC checks the
specification on small programs. TLAPS proves, for all programs, microcode tables
and cache latencies that satisfy the assumptions named below, the control and
operand interlocks, that overlapped execution does what one instruction at a time
does, what a halt leaves behind, and that the trace shows what happened; for all
operands, that the datapath computes two's complement arithmetic; and for all source
files, that what is assembled is loaded, addressed and listed as it was written.

Everything in the simulator runs in one thread. What makes it hard is that a
clock cycle is spread over five functions that share state by side effects:
five instructions are in flight, stalled instructions leave aliases of
themselves in later latches, signals survive from one cycle to the next, and the
result of a cycle depends on the order in which the stages are called.

## 1. Inventory

| Part | State | Operations | Interaction |
|------|-------|------------|-------------|
| `PipeLine` | latches `PS` and `NEW_PS` | `Cycle`: `SR_stage`, `MEM_stage`, `AGEX_stage`, `DE_stage`, `FETCH_stage`, `UpdateHistory`, `MoveLatch` | calls all the others; the stages communicate through `State`'s signals and through the shared instruction objects |
| `Instruction`, `Latch` | data and control words of an instruction; a pointer to one, a valid bit | `Create`, copying | one object is pointed to by several latches at once |
| `State` | registers, PC, N/Z/P, the signal records of each stage | setters, getters, `rdump` | written by the stages, the PC also by the loader |
| `MainMemory` | 32768 words of two bytes | byte setters and getters, `icache_access`, `dcache_access` with ready bits, `mdump` | read by FETCH, read and written by MEMORY, written by the loader |
| `MicroSequencer` | the control store | `init_control_store`, `GetMicroCodeAt`, one getter per signal, `cdump` | read by every stage |
| `BitField` | - | 16-bit arithmetic, ranges, extension | the arithmetic of everything else |
| `Simulator`, `main` | `RUN_BIT`, cycle count | `load_program`, `initialize`, `run`, `go`, `cycle`, `get_command` | owns the parts, calls `Cycle` |
| execution trace | `instruction_history` (rows), and in every instruction object `current_stage` and `cycle_history` | `UpdateHistory`, `recordStage`, `recordStall`, `idump`, `DumpHistory` | reads the latches between FETCH and the move; the stages write `current_stage` |
| `Disassembler` | - | a word to its listing | called by `idump` |
| `doc/test/lc3b_assembler.py` | symbols, current address, origin, instructions | two passes, the object file | its output is what `load_program` reads |
| `OperationUnit` | - | an unused stub | none |

What is hard, and the properties meant for it (the complete list, each entry at
its line, is `hazards` in `PROJECT.json`):

* read-after-write dependences at every distance, on registers and on the
  condition codes: `OperandsFresh`, `OperandsInvariant`, `ImplementsSequential`;
* control transfers: several stall signals, raised by three stages, have to
  overlap without a gap until the target is known: `ControlInterlock`; the mux
  that selects the target is not reset by an untaken branch: `NoStaleRedirect`;
* shared instruction objects: `SharedObjectHasOneOwner`;
* instructions that must be neither lost nor run twice, and stalls that must end:
  `InstructionsAdvance`, `InstructionsKeepRetiring`, `CommandsReturn`;
* a halt that is noticed by the program counter alone, while the pipeline is not
  empty, and the counter's wrap: `HaltIsClean`, `HaltInvariant`, `HaltedForGood`;
* files loaded over each other, the first of which that is not at 0 gives the entry point, and
  numbers read into an `int` and kept in 16 bits: `LoadedInOrder`, `SimTypeOK`;
* a trace that recognises instructions by their address, marks stalls by comparing
  the latches of two cycles and is dumped, and shortened, in the middle of an
  execution, and compares an `int` with a `uint16_t`: `DiagramFaithful`, `RecordsAgree`,
  `AddressesFaithful`, `LastWordsUnmatched`;
* corners of field widths, shift amounts, signs, byte lanes, and slices of
  control words that must line up with four enumerations and a text file:
  `AluComputes`, `ShifterComputes`, `AddressComputes`, `StoredThenLoaded`;
* three programs with their own idea of the encoding (assembler, pipeline,
  disassembler), and two passes that must count alike: `SymbolsAgree`,
  `LabelsReach`, `LoadsWhereAssembled`, `ListingFaithful`, `RejectsOnlyTheUnencodable`;
  and numbers that one of them cuts to 16 bits and another does not: `AsmTypeOK`.

A cache that is not ready is not on this list: as built, the branches of `dcache_access` and `icache_access` for
that case are never taken. The stall protocol written for it (held latches, repeated accesses, 0xFEED
on the bus) is modelled nevertheless, and checked in the run `latency`.

## 2. Modules

| Module | Models | Extends / instantiates |
|--------|--------|------------------------|
| `BitField` | `include/BitField.h` at 16 bits; a word is the number `to_num()` returns | `Integers` |
| `MicroSequencer` | the signal enumerations of `LC3b.h`, the slices handed from stage to stage, the two-bit getters; a control word is the set of its signals | `BitField` |
| `Ucode` | the control store built from `doc/test/ucode` | `MicroSequencer` |
| `MainMemory` | words, byte lanes, what a cache that is not ready returns | `BitField` |
| `Datapath` | the combinational logic of all stages | `MicroSequencer`, `MainMemory` |
| `Instruction` | instruction objects and what each stage latches into them | `Datapath` |
| `PipeLine` | the stages, one action each, and `MoveLatch` | `Instruction` |
| `Loader` | what `load_program` makes of a file | `MainMemory` |
| `TwosComplement` | the arithmetic the fields of a word are meant by, a reference | `Integers` |
| `Simulator` | `load_program`, `run`, `go`, `quit` around the pipeline | `PipeLineProperties`, `Loader` |
| `History` | the execution trace and its dumps, around the simulator's cycles | `Simulator` |
| `Disassembler` | a word to the statement it is listed as | `BitField` |
| `Assembler` | the two passes, the encodings and their errors | `Disassembler` (for the form of statements) |
| `Sequential` | the abstract specification: one instruction at a time | `Instruction` |
| `PipeLineProperties` | what is claimed of the pipeline, and the refinement mapping to `Sequential` | `PipeLine`, instance of `Sequential` |
| `PipeLineInvariant`, `OperandInvariant`, `RefinementInvariant` | the inductive invariants of control, operands and refinement | `PipeLineProperties`, each other |
| `SimulatorProperties`, `SimulatorInvariant` | the claims about loading and halting, and their inductive invariant | `Simulator`, `PipeLineInvariant` |
| `HistoryProperties`, `HistoryInvariant` | the claims about the trace, and their inductive invariant | `History`; `PipeLineInvariant`, `SimulatorProperties` |
| `AssemblerProperties`, `AssemblerInvariant` | the claims about assembler, loader and listing, and their inductive invariant | `Assembler`, `Loader`, `Instruction`, `Ucode` |
| `DatapathReference` | the claims about the datapath against arithmetic | `Instruction`, `Ucode`, `TwosComplement` |
| `DocumentedBehaviour` | what comments, README and test programs say and the pipeline does not do | `PipeLineProperties` |
| `MCPipeLine`, `MCPrograms`, `MCSimulator`, `MCHistory`, `MCDatapath`, `MCAssembler` | programs, files and operands for TLC | |
| `DatapathProofs`, `DatapathReferenceProofs`, `InterlockProofs`, `SequentialProofs`, `SimulatorProofs`, `HistoryProofs`, `AssemblerProofs`, `ListingProofs` | the proofs | |

### How the model corresponds to the code

*A step is a call.* `Cycle()` calls the five stages and `MoveLatch` in a fixed
order, which the variable `at` records: SR, MEM, AGEX, DE, FETCH, MOVE. Each is
one action which does all that the function does. So within a cycle a stage
sees what the earlier ones wrote, exactly as in the code: `DE_stage` sees the
`v_agex_ld_reg` of this cycle, and reads the register file before it writes the
value `SR_stage` has selected in this cycle.

*Objects and pointers.* `heap` maps object names to instruction objects, and a
latch holds a name or `NULL`. When `DE_stage` stalls, the code still puts the
pointer into the AGEX latch with the valid bit cleared; so does the model.
`shared_ptr` frees an object when its last latch lets go of it, and the model
reuses a name nothing refers to. Four latches of `PS` and the three other ones of
`NEW_PS` can hold at most four different objects when the fifth is created
(`Obj = {1, 2, 3, 4, 5}` is enough, and TLC would report a deadlock if it were
not). The lowest free name is taken, since names carry no meaning.

*Left out of `PipeLine`.* `UpdateHistory` runs between FETCH and MOVE, reads the
latches and writes only the trace, so it is in `History`, which composes it with
the same steps. `fetch_cycle` is written and never used. The decode signals
(`de_sr1`, ...) are local to `DE_stage` in effect, each being assigned before it is read in
the same call. Of the latch's own control words only `MEM_CS` is kept, because
`MEM_stage` reads it.

*Memory* is the function from the word addresses written so far to words. All
other words are 0, as `init_memory` leaves them.

*The caches.* `dcache_access` and `icache_access` have a constant `random = 0`
with the intended `GetCycles() % 9` and `% 13` commented out. The constants
`DCACHE_RANDOM` and `ICACHE_RANDOM` are the values that variable takes. `{0}` is the
program as built; `{0, 1}` is every latency, including the commented one, and is
what the memory stalls are written for, though the program as built cannot reach them. Runs use the
first unless they say otherwise, and the proofs hold for either.

*The loop around it.* `call` is the C++ function that is active. `initialize`
loads the files one at a time, `run` and `go` are the heads of their loops, and in
`run_cycle`, `run_last` and `go_cycle` the pipeline goes through its six steps.
A file is its origin, its words, and whether it can be read; a token that is not
hexadecimal makes the code store the last word up to the end of the memory and
then refuse the file, which is why it counts as not readable. Origin and words are numbers of an
`int`: an origin with bit 31 set has a negative base, which passes the check against the size of the
memory and is cut to 16 bits as an address and as the entry point (`Base`, `EntryPoint`); a base that
is still outside of the array after that ends the process (`Fits`). Words are cut to 16 bits
where they are stored (`Loaded`). `loaded` counts the calls of `load_program`.

*The trace.* A row is `[pc, cycle_history, mem_addr]` and a cell maps a cycle to its
text. `EnterStage` and `EnterFetch` are the assignments to `current_stage` in the stage
functions; they happen in the same step as the stage. `UpdateHistory` is one step
together with the move that follows it. The cells printed are what idump makes of a
row: nothing behind the first S. The ghost variable `fetched` is the diagram as it should
be: it follows each instruction's object through the latches, whereas the code looks for
its address; `confused` becomes true once an address is fetched that is still in flight, or
one the rows cannot hold.

*The assembler.* One step per line and pass. A Python function that may raise an
`AssemblerError` is a set of results here, empty if it raises: a line in error ends the
process in the state `"error"`. A line is label, mnemonic and operands; its splitting is not
modelled, but which first words are taken for labels is (`HasLabel`, `Misread`).

## 3. The abstract specification

`Sequential` is the programmer's machine: fetch, decode, execute, access memory,
write back, then the next instruction, with the same microcode and combinational
logic. `PipeLineProperties` maps the pipeline to it:

* `regs`, `nzp` and `mem` are the pipeline's own;
* `pc` is the address of the oldest valid instruction in flight, or the fetch PC
  if there is none: the chain `NextFetch`, `FromDECODE`, `FromAGEX`, `FromMEMORY`,
  `ArchitecturalPC`. An instruction in STORE counts as in flight until `DE_stage` has
  performed its write-back.

Most steps of the pipeline are then stuttering steps, and the `DE_stage` that writes
an instruction back (or, for one that writes nothing, retires it) is the
abstract step. `ImplementsSequential` says that stalls, bubbles, held latches and
flushed fetches never change what a program computes, nor its order of execution. TLC
checks it, and TLAPS proves it for programs without stores and unconditional
transfers; those do not do what the abstract machine does, see section 5.

## 4. Runs

| Run | Question | Instance | States |
|-----|----------|----------|--------|
| `programs` | does overlapped execution compute what sequential execution does? | all 1728 programs of three out of twelve instructions: dependent ALU and load pairs, the codes, two branches, TRAP; caches as built | 343,422 |
| `latency` | do interlocks, shared objects, operands, redirection, the movement of instructions and the three inductive invariants survive every pattern of cache stalls? | four programs, each cache ready or not in every cycle | 258,184 |
| `liveness` | do stalls end, so that instructions keep retiring? | 36 looping programs, caches as built | 8,376 |
| `simulator` | where are files loaded, where does the program start, and what does halting leave behind, and why? | twelve command lines, among them files at 0, overlapping, too long, unreadable, empty, with origins of 32 bits, running off the end of memory; `go` and `run` of 1, 4 and 9 cycles in any order | 8,327 |
| `datapath` | do logic and microcode compute the ISA's functions? | corner values of the fields of every opcode, 12 x 12 operands | 29,376 |
| `trace` | is every row of the diagram the way of its instruction through the pipeline? | five programs: a dependence on a load, a loop whose load moves, a branch to itself, the end of memory, a TRAP to 0xFFFF; data cache ready or not; `go`, `run 1` and `idump` in any order, 20 cycles | 21,447 |
| `assembler` | does what is assembled mean what was written, where it is loaded, executed and listed? | each instruction with operands at and beyond the limits of its fields; labels at and beyond the limits of the offsets, ahead and back, from an odd origin too; all files of four out of ten lines; labels in front of .ORIG and .END, where only numbers are taken, and behind the end of the address space; a string with a character of more than 16 bits | 65,319 |
| `stores`, `transfers`, `load_use`, `diagram`, `listing` | findings, section 5 | one to three programs each | until the violation |

*Why the bounds are enough.* A dependence or a control transfer can interact with
at most the four instructions in flight. Three instructions, followed by branches
to themselves, put every ordered triple of the chosen instructions into the
pipeline at distances one, two and three, and the twelve instructions cover every
kind of producer (ALU, load, LEA, TRAP's R7), consumer (SR1, SR2, codes) and
redirection (taken, not taken, TRAP). With stalling caches every program runs for
ever, while registers and codes reach a fixed point, so the state space is finite
and covered completely. Programs end in self-branches rather than in a halt because
`Cycle` itself knows no halt. In `datapath` the field values are 0, 1, the largest
positive, the smallest negative, and -1.

In `trace` the cycles are counted, so the space is cut at `MaxCycles`: 20 cycles let each
program go round its loop more than once, or to its halt, with stalls in between. `run 1` in any
order with `go` and `idump` gives a dump between any two cycles. The instruction cache is always
ready there, as built: a missing instruction is a bubble and never has a row. In
`assembler` four lines are enough to put a definition ahead of or behind a reference, an
origin between them, and a repetition of either.

*Fairness.* `Spec` has `WF_vars(Next)`: `go` and `run` call `Cycle()` in a loop and
none of the stage functions can block, so the next call always happens. In
`SimSpec` it is `WF(Running)`: a function that was called goes on until it returns, while
nobody has to type a command. There is no fairness about caches: the run
`liveness` uses the caches as built, which are always ready. `TraceSpec` and `AsmSpec` are
about safety only and state none.

*Termination.* `CHECK_DEADLOCK FALSE` is used where the process ends: in `simulator`, `trace` and
`diagram` by `quit` or a refused file (and at `MaxCycles`), in `assembler` and `listing` by the object file
or an error. The pipeline alone never stops, and deadlock is checked for it.

`CommandsReturn` is claimed for programs that come to an end; the command
lines of the run contain such programs only (a program that loops keeps `go`
busy, as it should).

## 5. Findings

File names with a line are those of the repository, README.md included.

1. **Stores never write memory** (`stores`). `MEM_stage` takes `DCACHE.RW` from
   `memory_latch.MEM_CS` (PipeLine.cpp:543). No code ever puts the instruction's control word
   there: it is in `inst->MEM_CS`, from where all other signals of the stage are taken.
   `doc/test/example.asm:15` and `test_program.asm:3` expect the store to happen. `StoredThenLoaded`
   shows that the alignment logic would be right if the write enable were.
2. **JMP, JSR, JSRR and RET do not transfer control** (`transfers`). The branch logic
   (PipeLine.cpp:577-600) looks at `BR_OP` and `TRAP_OP` only. The comment at
   PipeLine.cpp:891 describes the transfer.
3. **A dependent instruction also waits while its producer is in STORE** (`load_use`), so a
   load-use pair costs three cycles where README.md:299 says two. The behaviour is safe, and
   necessary as long as `DE_stage` reads registers before it writes them back (the mutant
   `RegisterPending_not_store` breaks `ImplementsSequential`); the document is wrong.
4. **A row can get another instance's cell** (`diagram`). `UpdateHistory` finds a row's
   instruction by its address, oldest latch first (PipeLine.cpp:399). A branch to itself is
   fetched again while its first instance is in STORE: the new row begins with that one's S, and
   `idump` prints nothing behind it and drops the row. README.md:218 calls the diagram exact.
5. **LDB and STB are listed as LD and ST** with a nine-bit offset (`listing`,
   Disassembler.cpp:38), though assembler, microcode and address adder take a base register and a six-bit
   offset.

Met while modelling, without a run of their own:

* README.md:45 gives the memory as 64K words where `WORDS_IN_MEM` is 32768; README.md:24
  announces caches of variable latency where the latency is 0.
* `go` stops as soon as the PC is 0, with the TRAP that halts still in STORE, so its R7 is not
  written, while `run` gives the machine one more cycle, after which the PC is 2
  (`HaltIsClean` describes both). Behind the word at 0xFFFE the PC wraps to 0 and the simulator halts with
  unfinished instructions in flight (`Wrapped`).
* A TRAP that waits for the data cache redirects the fetch to 0xFEED until its vector has
  arrived; nothing valid is fetched from there. With the latency as built it never waits.
* The trace compares the int `NPC - 2` with a `uint16_t`: for an instruction at 0xFFFE it is -2, and for one at
  0xFFFF, where a TRAP can lead, it is -1, so its row is made anew in every cycle it is held and its cells stay F and
  blank, and no dump drops it (`Confusing`, `LastWordsUnmatched`). Rows of earlier rounds of a
  loop take over the memory address of a later round: what a row shows is the address of the last round that has
  used the data cache (`AddressesFaithful`). A TRAP has a memory address in its row, too. `idump` and the end of `go` forget the rows of
  retired instructions, so a later dump begins with those in flight.
* The assembler takes shift amounts, trap vectors and 16-bit values for signed numbers: amounts #8 to
  #15, vectors from x80, and .ORIG, .BLKW or .FILL values from x8000 are rejected
  (`OverRejected`). README.md:122 promises labels on lines of their own, but without a colon such a line, and a
  label without a colon in front of RET, is an unknown instruction. Code ahead of the first .ORIG is
  counted from x3000 by the first pass and from the last origin by the second; an object file of a source
  with several .ORIG has no gaps. A label behind which an .ORIG follows keeps its address from before it.
  `SymbolsAgree`, `LabelsReach` and `LoadsWhereAssembled` exclude these by name (`OriginAhead`, `OriginFirst`, `Origins`).
* The characters of a .STRINGZ are not cut to 16 bits (lc3b_assembler.py:377), as the value of a .FILL is
  (:359): one outside the BMP is written with five hex digits or more, and the loader keeps its lower 16 bits.
  `AsmTypeOK` says that nothing else is written with more than 16 bits, `LoadsWhereAssembled` what becomes of it.
* An .END or .ORIG behind a label is no directive: the first pass counts it as an instruction, and the second calls
  it an unknown one (`IsEnd`, `IsOrigin`).
* Of the instructions only branches, JSR and LEA take a label (.FILL does, too). A label where a number or a register is expected is an error, as in
  `TRAP A`, and HALT and RET do not look at what follows them (`TakesLabel`).

## 6. Proofs

TLAPS checks the following for every value of the constants that satisfies the named
assumptions.

| Theorem | Statement |
|---------|-----------|
| `TypeCorrect` (`InterlockProofs`) | `Spec => []TypeOK` |
| `ControlInvariantHolds` | `Spec => []ControlInvariant` |
| `ControlInterlockHolds` | `Spec => []ControlInterlock` |
| `SharedObjectHolds` | `Spec => []SharedObjectHasOneOwner` |
| `NoStaleRedirectHolds` | `Spec => []NoStaleRedirect` |
| `InstructionsAdvanceHolds` | `Spec => InstructionsAdvance`, an action property |
| `OperandsInvariantHolds` | `Spec => []OperandsInvariant` |
| `OperandsFreshHolds` | `Spec => []OperandsFresh` |
| `RefinementInvariantHolds` (`SequentialProofs`) | `PlainPrograms` implies `Spec => []RefinementInvariant` |
| `PipelineImplementsSequential` | `PlainPrograms` implies `Spec => ImplementsSequential`: the refinement |
| `HaltInvariantHolds` (`SimulatorProofs`) | `SimSpec => []HaltInvariant` |
| `SimTypeCorrect` | `SimSpec => []SimTypeOK` |
| `LoadedInOrderHolds` | `SimSpec => []LoadedInOrder` |
| `HaltIsCleanHolds` | `SimSpec => []HaltIsClean` |
| `HaltedForGoodHolds` | `SimSpec => HaltedForGood`, an action property |
| `TraceInvariantHolds` (`HistoryProofs`) | `TraceSpec => []TraceInvariant` |
| `HistTypeHolds` | `TraceSpec => []HistTypeOK` |
| `DiagramFaithfulHolds` | `TraceSpec => []DiagramFaithful` |
| `RecordsAgreeHolds` | `TraceSpec => []RecordsAgree` |
| `AddressesFaithfulHolds` | `TraceSpec => []AddressesFaithful` |
| `LastWordsUnmatchedHolds` | `TraceSpec => []LastWordsUnmatched` |
| `AddressComputesHolds` (`DatapathReferenceProofs`) | `Spec => []AddressComputes`, of `DatapathReference` |
| `AluComputesHolds` | `Spec => []AluComputes` |
| `ShifterComputesHolds` | `Spec => []ShifterComputes` |
| `StoredThenLoadedHolds` | `Spec => []StoredThenLoaded` |
| `AsmTypesHold` (`AssemblerProofs`) | `AsmSpec => []AsmTypeOK` |
| `SymbolsAgreeHolds` | `AsmSpec => []SymbolsAgree` |
| `LoadsWhereAssembledHolds` | `AsmSpec => []LoadsWhereAssembled` |
| `LabelsReachHolds` | `AsmSpec => []LabelsReach` |
| `ListingFaithfulHolds` (`ListingProofs`) | `AsmSpec => []ListingFaithful` |
| `RejectsOnlyTheUnencodableHolds` | `AsmSpec => []RejectsOnlyTheUnencodable` |

These are all the safety properties of the passing runs.

*Assumptions.* TLC evaluates all of them for the constants of the runs.

* The control store has 64 rows of control words (`ControlStoreAssumption`); a row that may redirect
  the fetch raises BR.STALL (`RedirectsStallAssumption`).
* Images are memories with an entry point (`ImagesAssumption`); object names are numbers other than
  `NULL` (`ObjAssumption`).
* For the refinement: a row that uses a register in the address adder, the ALU or the shifter raises SR1.NEEDED
  or SR2.NEEDED, and none is a branch and a trap at once (`NeedsAssumption`). The shipped microcode does.
* For the refinement: the hypothesis `PlainPrograms`, that no word of an image is a store or an
  unconditional transfer. Findings 1 and 2 are why it is needed, and `PlainImages` in `MCPipeLine`
  evaluates that the programs of the runs `programs` and `latency` satisfy it.
* For the halt: a branch leaves the data cache alone, and a trap reads a whole word
  (`RedirectsReadWordsAssumption`); without the second, half of the 0xFEED on the bus of a cache that is not ready
  could become a target.
* A command line is a sequence of program files, whose origins and words are any integers, the lengths given to `run` are words, and the machine is in
  the state of power-on before loading (`CommandLinesAssumption`, `RunLengthsAssumption`,
  `ImagesArePowerOn`).
* Instruction words and operands of the datapath are words (`CodesAssumption`); the control store is the
  shipped one (`Ucode`).
* An address is not `NULL` (`NoAddressAssumption`), which stands for one that is not valid.
* A source file is a sequence of lines, its registers are R0 to R7 and the characters of its strings are Unicode code
  points (`SourcesAssumption`): what the splitting of a line can yield.

Nothing is assumed about latencies or the number of objects, nor, except for the refinement, about programs. The
bound on the cycles of a trace is any number (`MaxCyclesAssumption`).

*Type correctness.* `DatapathProofs` shows that each operator of the datapath returns a
word, a register number or a control word. The step that is not routine is that slices of
control words are again control words, and that addresses cut to words stay
inside the memory. `InterlockProofs` has one lemma per action.

*The control invariant.* `ControlInterlock` speaks of the beginning of a cycle. That it holds
again after `MoveLatch` depends on what each stage left in `NEW_PS`, on the three BR.STALL
signals, and on `FETCH_stage` having combined them. `ControlInvariant` therefore describes
every point within a cycle:

* `Filled`: the pipeline fills from DECODE on, and empty latches raise no signals;
* `NotYetLatched`, `StoreLatched`, `MemoryLatched`, `AgexLatched`, `DecodeLatched`: what
  each latch of `NEW_PS` holds before and after its stage has run;
* `Announced`: a valid control instruction has raised the stall signal of its stage;
* `WordsFollow`: the control words in an object are the slices of its microcode row (this
  turns questions about `AGEX_CS` and `MEM_CS` into questions about the microcode);
* `Interlocked` and `OneOwner`: the properties themselves, at every point of the cycle;
* `MuxFollows`: a PC mux that is not 0 belongs to the instruction in MEMORY. Between two
  cycles it may be stale, but then MEMORY does not hold an untaken branch that would keep it.

`MuxFollows` needs `Interlocked` (the instruction behind a taken branch is a bubble, which
resets the mux), and `OneOwner` needs it not: a new object is in no latch of `PS`, and a
stalled one moves on without its valid bit. `InstructionsAdvance` reads the parts about
`NEW_PS` at the end of the cycle: they say where each valid instruction goes, and `OneOwner` that
it goes nowhere else.

*The operands.* An operand is right in AGEX because it was right in DECODE and nothing older wrote it in
between; DECODE knows what is older only from signals. So `OperandsInvariant` has `DestinationsFollow` (the
destination and the control words an object carries are those of its microcode row),
`ProducersAnnounced` (every valid instruction in AGEX and MEMORY that writes a register or the codes has
said so in this cycle, before `DE_stage` looks), `WriteBackSelected` (what `SR_stage` has selected is
the write of the instruction in STORE and of no other), and `OperandsHold`: each instruction from AGEX to STORE
has the register's present value, and no older one is about to change it. `DE_stage` is the step in which
both sides move: it reads the registers, writes one, and sends the instruction on.

*The refinement.* `RefinementInvariant` says what the abstract machine would know of every
instruction in flight: `InstructionsFetched` (its word is the one at its address, which needs
`MemoryUnwritten`), `ResultsFollow` and `SignalsFollow` (address, result and data are those of its operands and
the memory, though the caches may have answered 0xFEED before), and `PathFollows` (behind each instruction
comes the one its successor rule names, or the PC is there). At the `DE_stage` that retires the
instruction in STORE, `OperandsHold` gives `Sequential!Current` the same operands, `ResultsFollow` the same
results, and `PathFollows` the next `pc`: this is one abstract step. `SequentialProofs` shows that each stage
preserves the invariant, and then that every step maps to that step or to a stutter.

*The halt.* The loops of `run` and `go` see a program counter of 0 and nothing else. `HaltInvariant` says how it
can have become 0 between two cycles (`ZeroExplained`): by a redirection, behind which the pipeline is empty
(`Ended`, from the control invariant), or by the wrap behind the last word (`RunsOff`). `TargetsFollow` excludes
a third way, the target of an instruction that still waits for the data cache. `CycleExplained` and
`LastExplained` carry this through the six steps of a cycle, `BetweenCycles` says that commands come between
cycles only. `SimTypeOK` is part of it, since the loader must never reach beyond the memory.

*The loading.* `LoadedInOrder` is inductive with `SimTypeOK`. A file that fits has its words at the places `PlaceOf`
gives, although the base may be negative (`Displacement`), the entry point is `StartOf` the file (`EntryIsStart`), and
`LoadOnTop` is the step: the file loaded last covers what it covers, and leaves the rest as it was.

*The trace.* A row finds its instruction by address and copies the letter somebody has left in the object. So
`TraceInvariant` has, besides the control invariant, `LettersFollow` (each stage's letter is still in the object of
its latch when the rows are drawn: a younger stage may have worked on the same object, but then it was a
bubble there), `IsTraced` (the object of an entry of `fetched` is in exactly one valid latch, with the address of the row and the
record of its own cells), `LatchesTraced` (no valid latch is without an entry, and DECODE has the last) and `OneAtATime` (of
the entries with one address only the last can be in flight). The step that matters is `UpdateHistory`: `OneOwner`
and `OneAtATime` make the search by address find the entry's own latch, the parts of the control invariant about
`NEW_PS` say whether it stays there, and the number of rows grows exactly when an entry is added. `Kept` takes the same
places from rows and entries, because a row is retired exactly when its entry's instruction has left STORE. For the
memory addresses (`AddressesFollow`): the instruction in MEMORY is the last of its address, by `OneAtATime`, so
its address is the one of the last round for every row that finds it (`AddressMoves`). `LastWordsUnmatched` holds with or
without confusion, because NPC - 2 is at most 65533 (`NeverMatched`).

*The datapath.* The code handles a word bit by bit, the properties speak of numbers. `DatapathProofs`
takes the number `to_num` makes of 16 bits as a digit and twice what follows, down to the last bit
(`ToNumByHalves`), so its quotients by the powers of 2 are these halves (`QuotientsOfNumber`), its bits are
the bits it was made of (`BitsOfNumber`), and a word is the number of its bits (`NumberOfBits`). From these follow the
fields and their sign extension (`LowSixBits` to `LowElevenBits`), `<< 1` as doubling modulo 2^16, and the byte lanes
(`HighByte`, `TwoBytes`). In `DatapathReferenceProofs`, `Microcode` reads the row of each opcode off the control store,
`SignalsArrive` follows its signals through the slices to AGEX and MEMORY, and the address adder and the write enables are
then decided row by row. The reference of AND is a recursive function on pairs of numbers.
That it is the AND of the bits needs an induction, which is done as a descent: the least word that were an exception would have a
half that is one (`ConjunctionIsAnd`). XOR is what the sum of two words is without twice their conjunction. The shifter has one case per amount. The invariant `SomeInstruction` says that the state is an instruction with its operands.

*The assembler.* What ties the passes together is not in the code's state: where the first pass met each line, and how many
words the second had made at each. `AssemblyInvariant` says that there are two such functions, `place` and `start`. `Counted`
is the first pass's arithmetic, `Labelled` makes each symbol the place of its one line, `Ordered` assigns the words to their lines,
and `Contiguous` says, if nothing was assembled ahead of an .ORIG, that the words follow each other from the origin and `place` agrees with
`start` wherever both passes have counted from the same origin. `TargetsComputed` brings in the
datapath: it holds for a word when it is made, because an offset in range survives being masked and extended again. The steps
are the lines of the two passes; `SymbolsAgree`, `LoadsWhereAssembled` and `LabelsReach` are read off it. TLC cannot enumerate the
functions; it has checked the invariant with `place` and `start` computed from the source.

*The listing.* The lemmas `OperateWord` to `PlainWords` give the fields of the word each kind of statement is
encoded to, and the disassembler is evaluated by opcode on these fields (`Lists`). For rejections the other direction is
needed: `Forms` describes every listing there is, by mnemonic, and a statement with one of these listings has an
encoding (`Encodes`). `Rejection`, of `AssemblerInvariant`, says that a process in error stands at a line that has
no encoding or repeats a label.

For each of the invariants of the pipeline, the simulator, the trace and the assembler a lemma per action, with one step per conjunct the action
disturbs, is combined into the inductive step.

*What the proofs corrected.* Four claims that had held on the instances then checked turned out to be too strong, and each
instance now has the case. The diagram is wrong not only for the last word of the memory but also for an
instruction at 0xFFFF, where the vector of a TRAP can lead (`Confusing`). A labelled .END or .ORIG is none (`Reached`). A label
ahead of an .ORIG does not mean the word behind it (`LabelsReach`). And a statement with a label where
only numbers are taken has no listing to compare with (`TakesLabel`).

*Only model-checked.* Liveness (`InstructionsKeepRetiring`, `CommandsReturn`), which is out of the prover's
reach. The refinement is proved for `PlainPrograms` only. The properties of the failing runs are refuted by TLC.

## 7. Not modelled

* Text: the characters of commands, files and dumps, column widths, and how `scanf` splits the input. Any command
  may follow any other in the model. In the code, `scanf` with `%d` or `%i` into a `uint16_t` (Simulator.cpp:165)
  overwrites two bytes next to it, what these are being up to the compiler; and at the end of the input the last
  command is repeated.
* The reading of the microcode file. Its result is modelled; a file that begins with an empty line
  makes the code read a line that was never set.
* In the assembler's input, a `;` or `:` within a string, which the script takes for a comment or a label, and
  mnemonics that only begin like a known one (any word beginning with BR is handed to the branch encoder).
* `rdump`, `mdump`, `cdump` and `help` only print.
* In `BitField`, the exceptions of range assignment and the operators the simulator does not use.
* `OperationUnit` is a stub nobody includes or calls.

## 8. Plan

Done: the pipeline, datapath and microcode, the abstract machine, the simulator loop with loading and
halting, the trace, the assembler and the disassembler; and, proved, every safety property checked of them.

What could follow:

1. The steps liveness rests on, as safety: that a stall for an operand has a producer ahead of it that moves, so
   that only a cache can make it last.
2. The trace of the assembled file as a whole: `LoadsWhereAssembled` composed with `InstructionsFetched`.
3. Should the stores and the unconditional transfers be repaired in the code: the refinement without
   `PlainPrograms`. The invariant then has to say when a store becomes visible to fetches that are
   already under way.
