----------------------------- MODULE MCDatapath -----------------------------
(* Every opcode with the corner values of its fields, and of the operands. *)
EXTENDS DatapathReference

Fields(opcode, fields) == {4096 * opcode + f : f \in fields}

CornerCodes ==
  UNION { Fields(opcode, {0, 1, 255, 256, 510, 511}) : opcode \in {0, 14} }
  \cup UNION { Fields(opcode, {0, 1, 31, 32, 33, 63}) : opcode \in {2, 3, 6, 7} }
  \cup UNION { Fields(opcode, {0, 32, 47, 48, 63}) : opcode \in {1, 5, 9} }
  \cup Fields(4, {0, 2048, 2049, 3071, 3072, 4095})
  \cup Fields(12, {0, 448})
  \cup Fields(13, {0, 1, 15, 16, 17, 31, 48, 49, 56, 63})
  \cup Fields(15, {0, 37, 255})

CornerWords == {0, 1, 2, 127, 128, 255, 256, 32767, 32768, 43981, 65534, 65535}
=============================================================================
