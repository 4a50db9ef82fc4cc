----------------------------- MODULE MCHistory ------------------------------
(* Program files for TLC whose executions are traced. *)
EXTENDS HistoryInvariant, Ucode

PowerOn == {[entry |-> 0, memory |-> <<>>]}
File(origin, words) == [origin |-> origin, words |-> words, readable |-> TRUE]

(* ADD R0, R0, #1;  BRnzp #-1: a branch to itself *)
SelfBranch == <<File(12288, <<4129, 4095>>)>>
DiagramPrograms == {SelfBranch}

TracedPrograms ==
  { (* LEA R0, #3;  LDW R1, R0, #0;  ADD R2, R1, #5;  BRp #1;  TRAP 0x25; a word of data *)
    <<File(12288, <<57347, 25088, 5221, 513, 61477, 1, 4129>>)>>,
    (* ADD R0, R0, #-2;  LDB R1, R0, #0;  ADD R0, R0, #1;  BRn #-3: a loop with a moving load *)
    <<File(12288, <<4158, 8704, 4129, 2557, 61477>>)>>,
    SelfBranch,
    (* LDW R1, R1, #0 and ADD R1, R1, #1 at the end of memory *)
    <<File(65532, <<25152, 4705>>)>>,
    (* TRAP 0x25 with 0xffff in its place of the vector table *)
    <<File(12288, <<61477>>), File(74, <<65535>>)>> }
=============================================================================
