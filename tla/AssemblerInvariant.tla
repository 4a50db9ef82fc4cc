------------------------- MODULE AssemblerInvariant -------------------------
(***************************************************************************)
(* The inductive invariant behind what is claimed of the assembler.  What  *)
(* the first pass has met where is not kept by the code, only the labels   *)
(* are: place[i] is the address at which it met line i, and start[i] the   *)
(* number of words the second pass had made when it came to line i.        *)
(***************************************************************************)
EXTENDS AssemblerProperties

(* The types the steps need, for the whole record of a word. *)
Assembled == [address : Nat, word : CodePoint, line_num : Nat]
AsmTypes ==
  /\ AsmTypeOK
  /\ source \in Sources
  /\ line_num \in Nat
  /\ symbols = [name \in DOMAIN symbols |-> symbols[name]]
  /\ instructions \in Seq(Assembled)

(* The first n - 1 lines, counted. *)
Counted(place, n) ==
  /\ place[1] = 12288
  /\ \A i \in 1..(n - 1) :
       IF IsOrigin(i) THEN place[i + 1] \in Count(source[i].operands)
                      ELSE \E size \in Size(source[i]) : place[i + 1] = place[i] + size

(* Their labels, each the one of a single line. *)
Labelled(place, n) ==
  /\ DOMAIN symbols = {source[i].label : i \in {j \in 1..(n - 1) : HasLabel(source[j])}}
  /\ \A i \in 1..(n - 1) : HasLabel(source[i]) => symbols[source[i].label] = place[i]
  /\ \A i, j \in 1..(n - 1) :
       HasLabel(source[i]) /\ HasLabel(source[j]) /\ source[i].label = source[j].label => i = j

Scanned == 1..(line_num - 1) \subseteq Reached

FirstPass(place) ==
  /\ Scanned
  /\ instructions = <<>>
  /\ Counted(place, line_num)
  /\ Labelled(place, line_num)
  /\ current_address = place[line_num]
  /\ (\A i \in 1..(line_num - 1) : ~IsOrigin(i)) => origin = 12288

(* From here on the second pass counts what the first has counted. *)
Agrees(i) == OriginAhead(i) \/ Origins = {}

SymbolsFixed(place, last) ==
  /\ Reached = 1..(last - 1)
  /\ Counted(place, last)
  /\ Labelled(place, last)

(* The words are in the order of their lines. *)
Ordered(start) ==
  /\ start[1] = 0
  /\ start[line_num] = Len(instructions)
  /\ \A i \in 1..line_num : start[i] \in 0..Len(instructions)
  /\ \A k \in DOMAIN instructions : instructions[k].line_num \in 1..(line_num - 1)
  /\ \A i \in 1..line_num : \A k \in DOMAIN instructions : k <= start[i] <=> instructions[k].line_num < i

(* No word is ahead of an .ORIG: they follow each other from the origin on. *)
InFront == \A j \in 1..(line_num - 1) : IsOrigin(j) => \A k \in DOMAIN instructions : j < instructions[k].line_num

Contiguous(place, start) ==
  /\ \A k \in DOMAIN instructions : instructions[k].address = origin + 2 * (k - 1)
  /\ current_address = origin + 2 * Len(instructions)
  /\ \A i \in 1..line_num :
       Agrees(i) /\ (\A j \in i..(line_num - 1) : ~IsOrigin(j)) => place[i] = origin + 2 * start[i]

(* The address an instruction that names a label computes, from its place and the label's. *)
TargetComputed(k) ==
  LET e == instructions[k]
      l == source[e.line_num]
  IN  HasTarget(l) =>
        /\ Target(l) \in DOMAIN symbols
        /\ MemAddress(InAGEX(e)) =
             (2 * WordAddress(e.address) + 2 + 2 * ((symbols[Target(l)] - (e.address + 2)) \div 2)) % WordSize
TargetsComputed == \A k \in DOMAIN instructions : TargetComputed(k)

SecondPass(place, start, last) ==
  /\ line_num <= last
  /\ SymbolsFixed(place, last)
  /\ Origins = {} => origin = 12288
  /\ Agrees(line_num) => current_address = place[line_num]
  /\ Ordered(start)
  /\ InFront => Contiguous(place, start)
  /\ TargetsComputed

AssemblyInvariant ==
  /\ AsmTypes
  /\ pass = "first" => \E place \in [Nat -> Nat] : FirstPass(place)
  /\ pass = "second" => \E place, start \in [Nat -> Nat], last \in Nat \ {0} : SecondPass(place, start, last)
  /\ pass = "written" =>
       \E place, start \in [Nat -> Nat] : SecondPass(place, start, line_num)

(* Why an instruction has ended the process. *)
Rejection ==
  pass = "error" => AtLine /\ (IsInstruction(Current) => Duplicate(line_num) \/ Words(Current) = {})
=============================================================================
