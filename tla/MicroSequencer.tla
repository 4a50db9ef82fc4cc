--------------------------- MODULE MicroSequencer ---------------------------
(***************************************************************************)
(* Control words.  A control word (cs_bits) is the set of the signals that *)
(* are 1 in it.  The word of an instruction is cut down on its way through *)
(* the pipeline: each stage copies a range of bits of its own word to the  *)
(* word of the next stage, whose enumeration then names those positions.   *)
(* The AGEX_, MEM_ and SR_ prefixes of the enumerators are left out, so a  *)
(* signal has one name in every stage in which it exists.                  *)
(***************************************************************************)
EXTENDS BitField

CS_BITS == <<"SR1_NEEDED", "SR2_NEEDED", "DRMUX",
             "ADDR1MUX", "ADDR2MUX1", "ADDR2MUX0", "LSHF1", "ADDRESSMUX",
             "SR2MUX", "ALUK1", "ALUK0", "ALU_RESULTMUX",
             "BR_OP", "UNCOND_OP", "TRAP_OP", "BR_STALL",
             "DCACHE_EN", "DCACHE_RW", "DATA_SIZE",
             "DR_VALUEMUX1", "DR_VALUEMUX0", "LD_REG", "LD_CC">>

AGEX_CS_BITS == <<"ADDR1MUX", "ADDR2MUX1", "ADDR2MUX0", "LSHF1", "ADDRESSMUX",
                  "SR2MUX", "ALUK1", "ALUK0", "ALU_RESULTMUX",
                  "BR_OP", "UNCOND_OP", "TRAP_OP", "BR_STALL",
                  "DCACHE_EN", "DCACHE_RW", "DATA_SIZE",
                  "DR_VALUEMUX1", "DR_VALUEMUX0", "LD_REG", "LD_CC">>

MEM_CS_BITS == <<"BR_OP", "UNCOND_OP", "TRAP_OP", "BR_STALL",
                 "DCACHE_EN", "DCACHE_RW", "DATA_SIZE",
                 "DR_VALUEMUX1", "DR_VALUEMUX0", "LD_REG", "LD_CC">>

SR_CS_BITS == <<"DR_VALUEMUX1", "DR_VALUEMUX0", "LD_REG", "LD_CC">>

Signals == {CS_BITS[i] : i \in 1..23}
ControlWord == SUBSET Signals

(* Bit k of the next stage's word is bit k + low of this stage's word. *)
Latched(cs, bits, low, next) ==
  {next[k] : k \in {j \in DOMAIN next : bits[j + low] \in cs}}

(* A mistake the checks must notice: the slice begins one bit too low. *)
ToAGEX_CS_low(cs) == Latched(cs, CS_BITS, 2, AGEX_CS_BITS)

(* AGEX_CS<19,0> = de_ucode<22,3>;  MEM_CS<10,0> = AGEX_CS<19,9>;  SR_CS = MEM_CS<10,7>. *)
ToAGEX_CS(cs) == Latched(cs, CS_BITS, 3, AGEX_CS_BITS)
ToMEM_CS(cs) == Latched(cs, AGEX_CS_BITS, 9, MEM_CS_BITS)
ToSR_CS(cs) == Latched(cs, MEM_CS_BITS, 7, SR_CS_BITS)

(* The two-bit fields Get_ADDR2MUX, Get_ALUK and Get_DR_VALUEMUX assemble. *)
Mux(cs, high, low) == (IF high \in cs THEN 2 ELSE 0) + (IF low \in cs THEN 1 ELSE 0)

Get_ADDR2MUX(cs) == Mux(cs, "ADDR2MUX1", "ADDR2MUX0")
Get_ALUK(cs) == Mux(cs, "ALUK1", "ALUK0")
Get_DR_VALUEMUX(cs) == Mux(cs, "DR_VALUEMUX1", "DR_VALUEMUX0")

(* The row of the control store an instruction selects: IR[15:11] and IR[5]. *)
CONTROL_STORE_ROWS == 64
CONTROL_STORE_ADDRESS(ir) == 2 * range(ir, 15, 11) + (IF Bit(ir, 5) THEN 1 ELSE 0)
=============================================================================
