---------------------------- MODULE MCAssembler -----------------------------
(* Assembly files for TLC. *)
EXTENDS AssemblerProperties

Plain(mnemonic, operands) == Line(NoLabel, FALSE, mnemonic, operands)
Colon(label, mnemonic, operands) == Line(label, TRUE, mnemonic, operands)
Bare(label, mnemonic, operands) == Line(label, FALSE, mnemonic, operands)
Origin(address) == Plain(".ORIG", <<N(address)>>)

(* One instruction with the limits of its fields on both sides, or of the wrong shape. *)
Around(bits) == {N(-(2^(bits - 1)) - 1), N(-(2^(bits - 1))), N(-1), N(0), N(2^(bits - 1) - 1), N(2^(bits - 1))}
Statements ==
  {Statement(m, <<R(a), R(b), c>>) : m \in {"ADD", "AND", "XOR"}, a \in {0, 5}, b \in {2, 7}, c \in Around(5) \cup {R(1), R(7)}}
  \cup {Statement(m, <<R(a), R(b), c>>) : m \in {"LDB", "LDW", "STB", "STW"}, a \in {1, 6}, b \in {0, 7}, c \in Around(6)}
  \cup {Statement(m, <<R(3), R(b), c>>) : m \in {"LSHF", "RSHFL", "RSHFA"}, b \in {0, 7}, c \in Around(4) \cup {N(15), N(16)}}
  \cup {Statement("LEA", <<R(a), c>>) : a \in 0..7, c \in Around(9)}
  \cup {Statement(m, <<c>>) : m \in DOMAIN nzp, c \in Around(9)}
  \cup {Statement("JSR", <<c>>) : c \in Around(11)}
  \cup {Statement(m, <<R(a)>>) : m \in {"JSRR", "JMP"}, a \in 0..7}
  \cup {Statement("TRAP", <<c>>) : c \in Around(8) \cup {N(32), N(37), N(255), N(256)}}
  \cup {Statement(m, <<>>) : m \in {"HALT", "RET", "RTI", "NOP", "ADD", "JMP"}}
  \cup {Statement(m, <<R(0), N(1)>>) : m \in {"ADD", "LDW", "LSHF", "BR", "TRAP", "JMP"}}

OneInstruction == {<<Origin(12288), Plain(s.mnemonic, s.operands)>> : s \in Statements}

(* Labels at the limits of the offsets, ahead and back, also from an odd origin. *)
Distances == {0, 1, 254, 255, 256, 257, 1022, 1023, 1024}
References == {Statement("LEA", <<R(1), L("A")>>), Statement("BRZ", <<L("A")>>), Statement("JSR", <<L("A")>>)}
FarLabels ==
  UNION { { <<Origin(o), Plain(s.mnemonic, s.operands), Plain(".BLKW", <<N(k)>>), Bare("A", ".FILL", <<L("A")>>)>>,
            <<Origin(o), Colon("A", "", <<>>), Plain(".BLKW", <<N(k)>>), Plain(s.mnemonic, s.operands)>> } :
          o \in {12288, 4097}, k \in Distances, s \in References }

(* Every file of four of these lines. *)
Lines ==
  { Origin(12288), Origin(12544), Plain(".END", <<>>),
    Plain("LEA", <<R(0), L("A")>>), Bare("A", "BR", <<L("B")>>), Colon("A", "", <<>>),
    Bare("A", "RET", <<>>), Bare("B", ".STRINGZ", <<Text(<<72, 105>>)>>), Colon("B", ".BLKW", <<N(2)>>),
    Plain(".FILL", <<L("B")>>) }
Files == [1..4 -> Lines]

(* A label behind the end of the address space, and words behind the end of the memory. *)
HighLabel == {<<Origin(32766), Plain(".BLKW", <<N(16385)>>), Bare("A", ".FILL", <<L("A")>>)>>}

(* A text with the character U+1F600, whose number has 17 bits, and a label behind it. *)
WideText == {<<Origin(12288), Plain("LEA", <<R(1), L("A")>>), Plain(".STRINGZ", <<Text(<<72, 128512>>)>>),
               Bare("A", ".FILL", <<L("A")>>)>>}

(* A label in front of .END and .ORIG, which are then none, and a label that is not read. *)
Unusual ==
  { <<Colon("A", "RET", <<>>), Bare("B", ".END", <<>>), Origin(16384)>>,
    <<Colon("A", "RET", <<>>), Bare("B", ".ORIG", <<N(16384)>>), Plain("BR", <<L("A")>>)>>,
    <<Colon("A", "RET", <<>>), Plain("HALT", <<L("A")>>), Plain(".END", <<>>), Origin(16384)>> }

(* A label where only a number is taken. *)
Misplaced ==
  {<<Colon("A", s.mnemonic, s.operands)>> :
     s \in {Statement("ADD", <<R(1), R(2), L("A")>>), Statement("LDW", <<R(1), R(2), L("A")>>),
            Statement("LSHF", <<R(1), R(2), L("A")>>), Statement("TRAP", <<L("A")>>), Statement("JMP", <<L("A")>>)}}

AllSources == OneInstruction \cup FarLabels \cup Files \cup HighLabel \cup WideText \cup Unusual \cup Misplaced

ByteAccess == {<<Origin(12288), Plain("LDB", <<R(1), R(2), N(3)>>)>>}
=============================================================================
