------------------------ MODULE DocumentedBehaviour -------------------------
(***************************************************************************)
(* What the repository's README, comments and test programs say of the     *)
(* pipeline and the code does not do.  Each property is violated by a run. *)
(***************************************************************************)
EXTENDS PipeLineProperties

(* "STW R1, R2, #0 ; Memory[DATA] = R1" (doc/test/example.asm): when a word store has
   left MEMORY, the word at its address is the register it stored. *)
StoresReachMemory ==
  at = "SR" /\ Valid(PS["STORE"]) /\ {"DCACHE_EN", "DCACHE_RW", "DATA_SIZE"} \subseteq On("STORE").MEM_CS
    => GetWordAt(memory, WordAddress(On("STORE").ADDRESS)) = On("STORE").ALU_RESULT

(* "If a control instruction other than TRAP is supposed to write into the PC, the
   TARGET.PC value [...] should be latched into the PC at the end of the current cycle"
   (FETCH_stage): a JMP, JSR, JSRR or RET in MEMORY sends the fetch to its target. *)
UnconditionalTransfers ==
  at = "MOVE" /\ Valid(PS["MEMORY"]) /\ "UNCOND_OP" \in On("MEMORY").MEM_CS /\ ~stall_sigs.mem_stall
    => PC = On("MEMORY").ADDRESS

(* "Load-Use Hazard: Most expensive - 2 cycle stall" (README.md): what DECODE waits for is
   in AGEX or MEMORY, a register that is being written back holds nothing up. *)
WritebackReleases ==
  at = "FETCH" /\ stall_sigs.dep_stall =>
    LET ucode == MicroCode(On("DECODE").IR)
        ahead(r) == \/ agex_sigs.v_agex_ld_reg /\ agex_sigs.agex_drid = r
                    \/ memory_sigs.v_mem_ld_reg /\ memory_sigs.mem_drid = r
    IN  \/ "SR1_NEEDED" \in ucode /\ ahead(SR1_ID(On("DECODE").IR))
        \/ "SR2_NEEDED" \in ucode /\ ahead(SR2_ID(On("DECODE").IR))
        \/ "BR_OP" \in ucode /\ (agex_sigs.v_agex_ld_cc \/ memory_sigs.v_mem_ld_cc)
=============================================================================
