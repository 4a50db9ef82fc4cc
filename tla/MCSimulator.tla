---------------------------- MODULE MCSimulator -----------------------------
(* Program files and commands for TLC. *)
EXTENDS SimulatorInvariant, Ucode

PowerOn == {[entry |-> 0, memory |-> <<>>]}

File(origin, words) == [origin |-> origin, words |-> words, readable |-> TRUE]

(* Loads, a branch and a TRAP 0x25, whose vector is 0 unless another file sets it. *)
Main == File(12288, <<57345, 24576, 1025, 4129, 61477>>)

CommandLines1 ==
  { <<Main>>,
    (* a vector and a service routine that adds to R0 and ends in TRAP 0x26 *)
    <<Main, File(74, <<1024>>), File(1024, <<4129, 61478>>)>>,
    (* a file at 0 does not set the entry point; a later file overwrites the branch *)
    <<File(0, <<5>>), Main, File(12293, <<4129, 4671>>)>>,
    (* the last words of the memory, and one word too many *)
    <<Main, File(65532, <<4129, 4129>>)>>,
    <<Main, File(65532, <<4129, 4129, 4129>>)>>,
    (* the origins 0x80003000 and 0xFFFFFFFE of 32 bits: the one is loaded at 0x3000, a number
       of more than 16 bits in it is cut, and the other is refused *)
    <<File(-2147471360, <<4129, 61477 + WordSize>>), Main>>,
    <<File(0, <<>>), File(-2, <<4129>>), Main>>,
    (* a program that runs off the end of the memory *)
    <<File(65530, <<4129, 4129, 4129>>)>>,
    (* a file with a token that is no number *)
    <<[Main EXCEPT !.readable = FALSE], Main>>,
    (* nothing but a file at 0; a file without words; a branch to 0 *)
    <<File(0, <<4129>>)>>,
    <<File(12288, <<>>), Main>>,
    <<File(16, <<4129, 4086>>)>> }
=============================================================================
