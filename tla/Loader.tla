------------------------------- MODULE Loader -------------------------------
(***************************************************************************)
(* What Simulator::load_program makes of a program file: the number in its *)
(* first line (origin), those of the others, each as the int that %x has   *)
(* read, and whether all of it can be read.  A file is not readable if it  *)
(* cannot be opened, is empty or has a token that is no number: fscanf     *)
(* then never gets past the token, and the word before it is stored up to  *)
(* the end of the memory.                                                  *)
(***************************************************************************)
EXTENDS MainMemory, Sequences

ProgramFile == [origin : Int, words : Seq(Int), readable : BOOLEAN]

(* The word address of the first word: what bits16 keeps of program_base. *)
Base(file) == (file.origin \div 2) % WordSize

(* A mistake the checks must notice: one word too many. *)
Fits_and_one(file) == file.readable /\ Base(file) + Len(file.words) <= WORDS_IN_MEM + 1

(* A file with a word beyond the memory is refused, and so is one that is not readable.
   program_base may be negative: the comparison of ints lets it pass, and MEMORY.at is given
   16 bits of it. *)
Fits(file) ==
  /\ file.readable
  /\ file.words # <<>> =>
       file.origin \div 2 < WORDS_IN_MEM /\ Base(file) + Len(file.words) <= WORDS_IN_MEM

(* The words of a file, cut to 16 bits and written over what is there. *)
Loaded(m, file) ==
  LET new == Base(file)..(Base(file) + Len(file.words) - 1)
  IN  [a \in DOMAIN m \cup new |->
         IF a \in new THEN file.words[a - Base(file) + 1] % WordSize ELSE m[a]]

(* A mistake the checks must notice: every file with an entry sets the program counter. *)
EntryPoint_last(pc, file) ==
  LET entry == (2 * (file.origin \div 2)) % WordSize IN IF entry # 0 THEN entry ELSE pc

(* The program counter is set as long as it is 0; bits16 keeps 16 bits of it. *)
EntryPoint(pc, file) == IF pc = 0 THEN (2 * (file.origin \div 2)) % WordSize ELSE pc
=============================================================================
