--------------------------- MODULE HistoryProofs ----------------------------
(***************************************************************************)
(* The execution trace, for every program, microcode, cache latency and    *)
(* sequence of commands.                                                   *)
(***************************************************************************)
EXTENDS HistoryInvariant, SimulatorProofs, FiniteSetTheorems, SequenceTheorems

(* Kept takes the elements at the kept places in ascending order, each of them once, and
   takes them from every list at the same places. *)
LEMMA KeptPlaces ==
  ASSUME NEW n \in Nat, NEW I \in SUBSET (1..n)
  PROVE  \E m \in Nat : \E h \in [1..m -> I] :
           /\ \A k, l \in 1..m : k < l => h[k] < h[l]
           /\ \A i \in I : \E k \in 1..m : h[k] = i
           /\ \A s : Kept(s, I) = [k \in 1..m |-> s[h[k]]]
<1> DEFINE m == Cardinality(I)
           Below(i) == {j \in I : j <= i}
           r == [i \in I |-> Cardinality(Below(i))]
           h == [k \in 1..m |-> CHOOSE i \in I : Cardinality(Below(i)) = k]
<1>1. IsFiniteSet(I) /\ m \in Nat
  <2>1. IsFiniteSet(1..n)
    BY FS_Interval
  <2>2. IsFiniteSet(I)
    BY <2>1, FS_Subset
  <2> QED BY <2>2, FS_CardinalityType
<1>2. ASSUME NEW i \in I PROVE IsFiniteSet(Below(i)) /\ r[i] \in 1..m
  <2>1. IsFiniteSet(Below(i)) /\ Cardinality(Below(i)) <= m
    BY <1>1, FS_Subset
  <2>2. Cardinality(Below(i)) \in Nat
    BY <2>1, FS_CardinalityType
  <2>3. i \in Below(i)
    OBVIOUS
  <2>4. Cardinality(Below(i)) # 0
    BY <2>1, <2>3, FS_EmptySet
  <2> QED BY <1>1, <2>1, <2>2, <2>4
<1>3. ASSUME NEW i \in I, NEW j \in I, i < j PROVE r[i] < r[j]
  <2>1. Below(i) \in SUBSET Below(j) /\ j \in Below(j) /\ j \notin Below(i)
    <3>1. \A x \in I : x \in Int
      OBVIOUS
    <3>2. \A x \in I : x <= i => x <= j
      BY <1>3, <3>1
    <3>3. j <= j /\ ~(j <= i)
      BY <1>3, <3>1
    <3> QED BY <3>2, <3>3, Zenon
  <2>2. Cardinality(Below(i)) <= Cardinality(Below(j)) /\ Cardinality(Below(i)) # Cardinality(Below(j))
    BY <1>2, <2>1, FS_Subset
  <2> QED BY <1>1, <1>2, <2>2
<1>4. \A k \in 1..m : \E i \in I : r[i] = k
  <2>1. r \in Injection(I, 1..m)
    <3>1. r \in [I -> 1..m]
      BY <1>2
    <3>2. ASSUME NEW i \in I, NEW j \in I, r[i] = r[j] PROVE i = j
      <4>1. i \in Nat /\ j \in Nat /\ r[i] \in Nat /\ r[j] \in Nat
        BY <1>1, <1>2
      <4>2. ~(i < j) /\ ~(j < i)
        BY <1>3, <3>2, <4>1
      <4> QED BY <4>1, <4>2
    <3> QED BY <3>1, <3>2 DEF Injection, IsInjective
  <2>2. IsFiniteSet(1..m) /\ Cardinality(1..m) = m
    BY <1>1, FS_Interval
  <2>3. r \in Surjection(I, 1..m)
    <3> HIDE DEF r, m
    <3> QED BY <1>1, <2>1, <2>2, FS_Injection DEF m
  <2> QED BY <2>3 DEF Surjection
<1>5. ASSUME NEW k \in 1..m PROVE h[k] \in I /\ r[h[k]] = k
  BY <1>4
<1>6. \A k, l \in 1..m : k < l => h[k] < h[l]
  <2> SUFFICES ASSUME NEW k \in 1..m, NEW l \in 1..m, k < l PROVE h[k] < h[l]
    OBVIOUS
  <2>1. h[k] \in I /\ h[l] \in I /\ r[h[k]] = k /\ r[h[l]] = l
    BY <1>5
  <2> DEFINE a == h[k]
             b == h[l]
  <2>2. a \in I /\ b \in I /\ r[a] = k /\ r[b] = l
    BY <2>1
  <2>3. k \in Int /\ l \in Int
    BY <1>1
  <2> HIDE DEF a, b, r, h
  <2>4. a \in Int /\ b \in Int /\ a # b /\ ~(b < a)
    BY <1>3, <2>2, <2>3
  <2>5. a < b
    BY <2>4
  <2> QED BY <2>5 DEF a, b
<1>7. \A i \in I : \E k \in 1..m : h[k] = i
  <2> SUFFICES ASSUME NEW i \in I PROVE h[r[i]] = i /\ r[i] \in 1..m
    OBVIOUS
  <2> DEFINE k == r[i]
             a == h[k]
  <2>1. k \in 1..m /\ a \in I /\ r[a] = r[i]
    BY <1>2, <1>5
  <2>2. \A x \in I : x \in Int
    OBVIOUS
  <2>3. r[i] \in Int
    BY <1>1, <2>1
  <2> HIDE DEF a, r
  <2>4. ~(a < i) /\ ~(i < a)
    BY <1>3, <2>1, <2>3
  <2>5. a = i
    BY <2>1, <2>2, <2>4
  <2> QED BY <2>1, <2>5 DEF a
<1>8. \A s : Kept(s, I) = [k \in 1..m |-> s[h[k]]]
  BY DEF Kept
<1>9. h \in [1..m -> I]
  BY <1>5
<1> HIDE DEF h, m
<1> QED BY <1>1, <1>6, <1>7, <1>8, <1>9

-----------------------------------------------------------------------------
(* A cell is added behind all others. *)
LEMMA MarkedCells ==
  ASSUME CYCLE_COUNT \in Nat, NEW cells, IsRecord(cells), NEW letter
  PROVE  /\ DOMAIN Marked(cells, letter) = DOMAIN cells \cup {CYCLE_COUNT}
         /\ \A c \in DOMAIN cells : c \in Nat /\ c < CYCLE_COUNT
         /\ Marked(cells, letter)[CYCLE_COUNT] = letter
         /\ \A c \in DOMAIN cells : Marked(cells, letter)[c] = cells[c]
<1>1. \A c \in DOMAIN cells : c \in Nat /\ c < CYCLE_COUNT
  BY DEF IsRecord
<1> QED BY <1>1 DEF Marked

LEMMA MarkedRecord ==
  ASSUME CYCLE_COUNT \in Nat, CYCLE_COUNT' = CYCLE_COUNT + 1, NEW cells, IsRecord(cells),
         NEW letter, NEW marked, marked = Marked(cells, letter)
  PROVE  IsRecord(marked)'
<1>1. /\ DOMAIN marked = DOMAIN cells \cup {CYCLE_COUNT}
      /\ \A c \in DOMAIN cells : c \in Nat /\ c < CYCLE_COUNT
  BY MarkedCells
<1>2. marked = [c \in DOMAIN marked |-> marked[c]]
  BY DEF Marked
<1>3. \A c \in DOMAIN marked : c \in Nat /\ c < CYCLE_COUNT'
  BY <1>1
<1> QED BY <1>2, <1>3 DEF IsRecord

LEMMA EmptyRecord == IsRecord(<<>>)
BY DEF IsRecord

(* A later cycle keeps what was recorded. *)
LEMMA RecordKept ==
  ASSUME CYCLE_COUNT \in Nat, CYCLE_COUNT' = CYCLE_COUNT + 1, NEW cells, IsRecord(cells)
  PROVE  IsRecord(cells)'
BY DEF IsRecord

(* What is printed of a row whose instruction has not been in STORE is all of it. *)
LEMMA PrintedWhole ==
  ASSUME NEW row, IsRecord(row.cycle_history), ~Retired(row)
  PROVE  Printed(row) = row.cycle_history
<1> DEFINE cells == row.cycle_history
           shown == {d \in DOMAIN cells : \A e \in DOMAIN cells : e < d => cells[e] # "S"}
<1>1. shown = DOMAIN cells
  BY DEF Retired
<1>2. Printed(row) = [c \in shown |-> cells[c]]
  BY DEF Printed
<1>3. cells = [c \in DOMAIN cells |-> cells[c]]
  BY DEF IsRecord
<1> QED BY <1>1, <1>2, <1>3

(* A new cell is printed until then, and never afterwards. *)
LEMMA PrintedMarked ==
  ASSUME CYCLE_COUNT \in Nat, NEW row, IsRecord(row.cycle_history), NEW letter,
         NEW marked, marked.cycle_history = Marked(row.cycle_history, letter)
  PROVE  /\ Retired(row) => Retired(marked) /\ Printed(marked) = Printed(row)
         /\ ~Retired(row) =>
              /\ Printed(marked) = Marked(Printed(row), letter)
              /\ Retired(marked) <=> letter = "S"
<1> DEFINE cells == row.cycle_history
           more == marked.cycle_history
           shown == {d \in DOMAIN cells : \A e \in DOMAIN cells : e < d => cells[e] # "S"}
           shown_more == {d \in DOMAIN more : \A e \in DOMAIN more : e < d => more[e] # "S"}
<1>1. /\ DOMAIN more = DOMAIN cells \cup {CYCLE_COUNT}
      /\ \A c \in DOMAIN cells : c \in Nat /\ c < CYCLE_COUNT
      /\ more[CYCLE_COUNT] = letter
      /\ \A c \in DOMAIN cells : more[c] = cells[c]
  BY MarkedCells
<1>2. Printed(row) = [c \in shown |-> cells[c]] /\ Printed(marked) = [c \in shown_more |-> more[c]]
  BY DEF Printed
<1>3. \A d, e \in DOMAIN more : e < d => e \in DOMAIN cells
  BY <1>1
<1>4. CASE Retired(row)
  <2>1. PICK s \in DOMAIN cells : cells[s] = "S"
    BY <1>4 DEF Retired
  <2>2. s \in DOMAIN more /\ more[s] = "S" /\ s < CYCLE_COUNT
    BY <1>1, <2>1
  <2>3. CYCLE_COUNT \notin shown_more
    BY <2>2
  <2>4. \A d \in DOMAIN cells : d \in shown_more <=> d \in shown
    BY <1>1, <1>3
  <2>5. shown_more = shown
    BY <1>1, <2>3, <2>4
  <2>6. \A c \in shown : more[c] = cells[c]
    BY <1>1
  <2> HIDE DEF shown, shown_more
  <2>7. Printed(marked) = Printed(row)
    BY <1>2, <2>5, <2>6
  <2> QED BY <1>4, <2>2, <2>7 DEF Retired
<1>5. CASE ~Retired(row)
  <2>1. \A c \in DOMAIN cells : cells[c] # "S"
    BY <1>5 DEF Retired
  <2>2. Retired(marked) <=> letter = "S"
    BY <1>1, <2>1 DEF Retired
  <2>3. shown_more = DOMAIN more
    BY <1>1, <1>3, <2>1
  <2>4. Printed(row) = cells
    BY <1>5, PrintedWhole
  <2>5. more = [c \in DOMAIN more |-> more[c]]
    BY DEF Marked
  <2>6. Printed(marked) = more
    BY <1>2, <2>3, <2>5
  <2> QED BY <1>5, <2>2, <2>4, <2>6
<1> QED BY <1>4, <1>5

(* The record an instruction keeps of itself begins behind the cell of its fetch. *)
LEMMA FromDecodeMarked ==
  ASSUME CYCLE_COUNT \in Nat, NEW cells, IsRecord(cells), NEW letter, NEW marked,
         marked = Marked(cells, letter), letter # "F"
  PROVE  FromDecode(marked) = Marked(FromDecode(cells), letter)
<1> DEFINE D == {d \in DOMAIN cells : cells[d] # "F"}
           E == {d \in DOMAIN marked : marked[d] # "F"}
<1>1. /\ DOMAIN marked = DOMAIN cells \cup {CYCLE_COUNT}
      /\ \A c \in DOMAIN cells : c \in Nat /\ c < CYCLE_COUNT
      /\ marked[CYCLE_COUNT] = letter
      /\ \A c \in DOMAIN cells : marked[c] = cells[c]
  BY MarkedCells
<1>2. E = D \cup {CYCLE_COUNT} /\ CYCLE_COUNT \notin D
  BY <1>1
<1>3. FromDecode(marked) = [c \in E |-> marked[c]] /\ FromDecode(cells) = [c \in D |-> cells[c]]
  BY DEF FromDecode
<1>4. \A c \in D : marked[c] = cells[c]
  BY <1>1
<1> DEFINE record == [c \in D |-> cells[c]]
<1>5. Marked(record, letter) =
        [c \in D \cup {CYCLE_COUNT} |-> IF c = CYCLE_COUNT THEN letter ELSE record[c]]
  BY DEF Marked
<1>6. \A c \in D : record[c] = cells[c]
  OBVIOUS
<1> HIDE DEF D, E, record
<1>7. [c \in E |-> marked[c]] = Marked(record, letter)
  BY <1>1, <1>2, <1>4, <1>5, <1>6
<1> QED BY <1>3, <1>7 DEF record, D
-----------------------------------------------------------------------------
LEMMA ListPlaces ==
  ASSUME NEW s, IsList(s)
  PROVE  Len(s) \in Nat /\ DOMAIN s = 1..Len(s) /\ s = [i \in 1..Len(s) |-> s[i]]
BY LenProperties DEF IsList

LEMMA PlacesList ==
  ASSUME NEW m \in Nat, NEW s, s = [i \in 1..m |-> s[i]]
  PROVE  IsList(s) /\ Len(s) = m
<1>1. s \in [1..m -> ToSet(s)]
  BY DEF ToSet
<1>2. s \in Seq(ToSet(s))
  BY <1>1, SeqDef
<1>3. DOMAIN s = 1..m /\ DOMAIN s = 1..Len(s) /\ Len(s) \in Nat
  BY <1>1, <1>2, LenProperties
<1>4. Len(s) = m
  BY <1>3
<1> QED BY <1>2, <1>4 DEF IsList

LEMMA AppendPlaces ==
  ASSUME NEW s, IsList(s), NEW e
  PROVE  /\ IsList(Append(s, e))
         /\ DOMAIN Append(s, e) = 1..(Len(s) + 1) /\ Len(s) \in Nat
         /\ \A i \in 1..Len(s) : Append(s, e)[i] = s[i]
         /\ Append(s, e)[Len(s) + 1] = e
<1> DEFINE S == ToSet(s) \cup {e}
           t == Append(s, e)
<1>1. s \in Seq(S) /\ e \in S
  <2>1. s \in Seq(ToSet(s))
    BY DEF IsList
  <2>2. \A T : Seq(T) = UNION {[1..n -> T] : n \in Nat}
    BY SeqDef
  <2>3. PICK n \in Nat : s \in [1..n -> ToSet(s)]
    BY <2>1, <2>2
  <2>4. s \in [1..n -> S]
    BY <2>3
  <2> QED BY <2>2, <2>4
<1> HIDE DEF S
<1>2. /\ t \in Seq(S) /\ Len(t) = Len(s) + 1
      /\ \A i \in 1..Len(s) : t[i] = s[i]
      /\ t[Len(s) + 1] = e
  BY <1>1, AppendProperties
<1>3. Len(s) \in Nat /\ Len(t) \in Nat /\ DOMAIN t = 1..Len(t) /\ t \in [1..Len(t) -> S]
  BY <1>1, <1>2, LenProperties
<1>4. t = [i \in 1..Len(t) |-> t[i]]
  <2> HIDE DEF t
  <2> QED BY <1>3
<1>5. IsList(t)
  BY <1>3, <1>4, PlacesList
<1> QED BY <1>2, <1>3, <1>5

(* A valid object is in one latch. *)
LEMMA OneHolder ==
  ASSUME ControlInvariant, NEW s \in Stages, NEW t \in Stages, PS[s].V, PS[t].V,
         PS[s].instruction = PS[t].instruction
  PROVE  s = t
BY DEF ControlInvariant, OneOwner, Behind, Stages

(* The search finds a latch with the address, or there is none. *)
LEMMA PlaceFound ==
  ASSUME NEW pc
  PROVE  /\ Place(pc) = 0 <=> \A s \in Stages : ~Matches(PS[s], pc)
         /\ Place(pc) # 0 => SearchOrder[Place(pc)] \in Stages /\ Matches(PS[SearchOrder[Place(pc)]], pc)
<1> DEFINE I == {i \in 1..Len(SearchOrder) : Matches(PS[SearchOrder[i]], pc)}
<1>1. /\ Len(SearchOrder) = 4
      /\ SearchOrder[1] = "STORE" /\ SearchOrder[2] = "MEMORY" /\ SearchOrder[3] = "AGEX" /\ SearchOrder[4] = "DECODE"
  BY DEF SearchOrder
<1>2. Place(pc) = IF I # {} THEN Min(I) ELSE 0
  BY DEF Place, SelectInSeq
<1>3. I \in SUBSET {1, 2, 3, 4}
  BY <1>1
<1>4. ASSUME I # {} PROVE Min(I) \in I
  <2>1. \E x \in I : \A y \in I : x <= y
    <3>1. 1 \in I \/ 2 \in I \/ 3 \in I \/ 4 \in I
      BY <1>3, <1>4, Zenon
    <3> HIDE DEF I
    <3>2. 1 \in I => \A y \in I : 1 <= y
      BY <1>3
    <3>3. 1 \notin I /\ 2 \in I => \A y \in I : 2 <= y
      BY <1>3
    <3>4. 1 \notin I /\ 2 \notin I /\ 3 \in I => \A y \in I : 3 <= y
      BY <1>3
    <3>5. 1 \notin I /\ 2 \notin I /\ 3 \notin I /\ 4 \in I => \A y \in I : 4 <= y
      BY <1>3
    <3> QED BY <3>1, <3>2, <3>3, <3>4, <3>5
  <2> HIDE DEF I
  <2> QED BY <2>1 DEF Min
<1>5. \A i \in {1, 2, 3, 4} : SearchOrder[i] \in Stages
  BY <1>1 DEF Stages
<1>6. I = {} <=> \A s \in Stages : ~Matches(PS[s], pc)
  <2>1. I = {} <=> \A i \in {1, 2, 3, 4} : ~Matches(PS[SearchOrder[i]], pc)
    BY <1>1
  <2> QED BY <1>1, <2>1 DEF Stages
<1>7. I # {} => Min(I) # 0 /\ SearchOrder[Min(I)] \in Stages /\ Matches(PS[SearchOrder[Min(I)]], pc)
  BY <1>1, <1>4, <1>5
<1> HIDE DEF I
<1> QED BY <1>2, <1>6, <1>7

(* The number of a row is the address of its instruction, if NPC has not wrapped. *)
LEMMA RowAddress ==
  ASSUME NEW npc \in Word
  PROVE  /\ Add(npc, WordSize - 2) \in Word
         /\ (npc - 2) % WordSize \in Word
         /\ npc >= 2 => npc = Add(npc, WordSize - 2) + 2 /\ (npc - 2) % WordSize = Add(npc, WordSize - 2)
<1>1. npc \in Nat /\ npc <= 65535 /\ WordSize = 65536
  BY Sizes DEF Word
<1>2. Add(npc, WordSize - 2) = (npc + 65534) % 65536
  BY <1>1 DEF Add
<1>3. (npc + 65534) % 65536 = IF npc >= 2 THEN npc - 2 ELSE npc + 65534
  BY <1>1
<1>4. (npc - 2) % 65536 = IF npc >= 2 THEN npc - 2 ELSE npc + 65534
  BY <1>1
<1>5. \A x \in Nat : x <= 65535 => x \in Word
  BY Sizes DEF Word
<1>6. npc >= 2 => npc - 2 \in Nat /\ npc - 2 <= 65535 /\ npc = (npc - 2) + 2
  BY <1>1
<1>7. npc < 2 => npc + 65534 \in Nat /\ npc + 65534 <= 65535
  BY <1>1
<1>8. npc >= 2 \/ npc < 2
  BY <1>1
<1>9. ~(npc >= 2 /\ npc < 2)
  BY <1>1
<1>10. (npc - 2) % WordSize = (npc - 2) % 65536
  BY <1>1
<1> HIDE DEF WordSize, Word
<1>11. CASE npc >= 2
  BY <1>2, <1>3, <1>4, <1>5, <1>6, <1>10, <1>11
<1>12. CASE ~(npc >= 2)
  BY <1>2, <1>3, <1>4, <1>5, <1>7, <1>8, <1>10, <1>12
<1> QED BY <1>11, <1>12

(* A latch with the address of an entry in flight holds that entry's instruction. *)
LEMMA LatchOfEntry ==
  ASSUME TraceInvariant, AllTraced, NEW s \in Stages, PS[s].V
  PROVE  \E i \in DOMAIN fetched :
           /\ fetched[i].object = PS[s].instruction /\ fetched[i].object # NULL
           /\ PCOf(PS[s]) = fetched[i].pc /\ Matches(PS[s], fetched[i].pc)
<1>1. PS[s].instruction \in Obj /\ PS[s].instruction # NULL
  BY ValidObjects, ObjAssumption DEF TraceInvariant
<1>2. PICK i \in DOMAIN fetched : fetched[i].object = PS[s].instruction
  BY DEF AllTraced, LatchesTraced
<1>3. heap[fetched[i].object].NPC = fetched[i].pc + 2 /\ fetched[i].pc \in Word
  BY <1>1, <1>2 DEF AllTraced, InFlightTraced, IsTraced, TraceInvariant, TraceTypeOK, IsEntry
<1>4. fetched[i].pc \in Int
  BY <1>3, WordIsNat
<1> QED BY <1>1, <1>2, <1>3, <1>4 DEF PCOf, Matches, Valid

LEMMA SameEntry ==
  ASSUME TraceInvariant, AllTraced, NEW i \in DOMAIN fetched, NEW j \in DOMAIN fetched,
         fetched[i].object # NULL, fetched[j].object # NULL, fetched[i].pc = fetched[j].pc
  PROVE  i = j
<1>1. i \in Nat /\ j \in Nat
  <2>1. Len(fetched) \in Nat /\ DOMAIN fetched = 1..Len(fetched)
    BY ListPlaces DEF TraceInvariant, TraceTypeOK
  <2> QED BY <2>1
<1>2. ~(i < j) /\ ~(j < i)
  BY DEF AllTraced, OneAtATime
<1> QED BY <1>1, <1>2

(* The search finds the one latch an instruction in flight is in. *)
LEMMA EntryFound ==
  ASSUME TraceInvariant, AllTraced, NEW i \in DOMAIN fetched, fetched[i].object # NULL
  PROVE  \E s \in Stages :
           /\ HoldersOf(fetched[i].object) = {s} /\ Home(fetched[i]) = s
           /\ PS[s].V /\ PS[s].instruction = fetched[i].object
           /\ Place(fetched[i].pc) # 0 /\ SearchOrder[Place(fetched[i].pc)] = s
<1>1. PICK s \in Stages : HoldersOf(fetched[i].object) = {s}
  BY DEF AllTraced, InFlightTraced, IsTraced
<1>2. PS[s].V /\ PS[s].instruction = fetched[i].object
  BY <1>1 DEF HoldersOf
<1>3. Home(fetched[i]) = s
  BY <1>1 DEF Home
<1>4. PICK j \in DOMAIN fetched :
        /\ fetched[j].object = PS[s].instruction /\ fetched[j].object # NULL
        /\ PCOf(PS[s]) = fetched[j].pc /\ Matches(PS[s], fetched[j].pc)
  BY <1>2, LatchOfEntry
<1>5. heap[fetched[i].object].NPC = fetched[i].pc + 2 /\ fetched[i].pc \in Int
  <2>1. fetched[i].pc \in Word
    BY DEF TraceInvariant, TraceTypeOK, IsEntry
  <2> QED BY <2>1, WordIsNat DEF AllTraced, InFlightTraced, IsTraced
<1>6. Matches(PS[s], fetched[i].pc)
  BY <1>2, <1>5 DEF Matches, Valid, PCOf
<1>7. ASSUME NEW t \in Stages, Matches(PS[t], fetched[i].pc) PROVE t = s
  <2>1. PS[t].V /\ PCOf(PS[t]) = fetched[i].pc
    BY <1>7 DEF Matches, Valid
  <2>2. PICK k \in DOMAIN fetched :
          /\ fetched[k].object = PS[t].instruction /\ fetched[k].object # NULL
          /\ PCOf(PS[t]) = fetched[k].pc
    BY <2>1, LatchOfEntry
  <2>3. k = i
    BY <2>1, <2>2, SameEntry
  <2> QED BY <1>2, <2>1, <2>2, <2>3, OneHolder DEF TraceInvariant
<1>8. Place(fetched[i].pc) # 0 /\ SearchOrder[Place(fetched[i].pc)] = s
  BY <1>6, <1>7, PlaceFound
<1> QED BY <1>1, <1>2, <1>3, <1>8

(* It finds nothing at an address nothing in flight was fetched from. *)
LEMMA NothingFound ==
  ASSUME TraceInvariant, AllTraced, NEW pc,
         \A i \in DOMAIN fetched : fetched[i].object # NULL => fetched[i].pc # pc
  PROVE  Place(pc) = 0 /\ \A s \in Stages : ~Matches(PS[s], pc)
<1>1. ASSUME NEW s \in Stages PROVE ~Matches(PS[s], pc)
  <2> SUFFICES ASSUME PS[s].V, PCOf(PS[s]) = pc PROVE FALSE
    BY DEF Matches, Valid
  <2> QED BY LatchOfEntry
<1> QED BY <1>1, PlaceFound
-----------------------------------------------------------------------------
(* What the end of a cycle finds in NEW_PS. *)
LEMMA NewLatches ==
  ASSUME ControlInvariant, at = "MOVE"
  PROVE  /\ DecodeHeld => SameContent(NEW_PS["DECODE"], PS["DECODE"])
         /\ ~DecodeHeld => /\ NEW_PS["DECODE"].instruction \in Obj
                           /\ \A t \in Stages : PS[t].instruction # NEW_PS["DECODE"].instruction
         /\ \A s \in Stages : NEW_PS[s].V =>
              \/ s = "DECODE" /\ ~DecodeHeld
              \/ \E t \in Stages : PS[t].V /\ PS[t].instruction = NEW_PS[s].instruction
         /\ PS["STORE"].V => ~(NEW_PS["STORE"].V /\ NEW_PS["STORE"].instruction = PS["STORE"].instruction)
<1>1. AfterMEM /\ AfterAGEX /\ AfterDE /\ AfterFETCH
  BY DEF AfterMEM, AfterAGEX, AfterDE, AfterFETCH
<1>2. StoreLatched /\ MemoryLatched /\ AgexLatched /\ DecodeLatched
  BY DEF ControlInvariant
<1>3. NEW_PS["DECODE"].instruction \in Obj \cup {NULL}
  BY DEF ControlInvariant, TypeOK, Latch, Stages
<1>4. /\ DecodeHeld => SameContent(NEW_PS["DECODE"], PS["DECODE"])
      /\ ~DecodeHeld => /\ NEW_PS["DECODE"].instruction \in Obj
                        /\ \A t \in Stages : PS[t].instruction # NEW_PS["DECODE"].instruction
  BY <1>1, <1>2, <1>3 DEF DecodeLatched, DecodeHeld
<1>5. /\ NEW_PS["STORE"].V => PS["MEMORY"].V /\ PS["MEMORY"].instruction = NEW_PS["STORE"].instruction
      /\ NEW_PS["MEMORY"].V => \/ PS["MEMORY"].V /\ PS["MEMORY"].instruction = NEW_PS["MEMORY"].instruction
                               \/ PS["AGEX"].V /\ PS["AGEX"].instruction = NEW_PS["MEMORY"].instruction
      /\ NEW_PS["AGEX"].V => \/ PS["AGEX"].V /\ PS["AGEX"].instruction = NEW_PS["AGEX"].instruction
                             \/ PS["DECODE"].V /\ PS["DECODE"].instruction = NEW_PS["AGEX"].instruction
      /\ NEW_PS["DECODE"].V /\ DecodeHeld => PS["DECODE"].V /\ PS["DECODE"].instruction = NEW_PS["DECODE"].instruction
  BY <1>1, <1>2, <1>4 DEF StoreLatched, MemoryLatched, AgexLatched, SameContent
<1>6. PS["STORE"].V => ~(NEW_PS["STORE"].V /\ NEW_PS["STORE"].instruction = PS["STORE"].instruction)
  <2> SUFFICES ASSUME PS["STORE"].V, NEW_PS["STORE"].V, NEW_PS["STORE"].instruction = PS["STORE"].instruction
               PROVE  FALSE
    OBVIOUS
  <2>1. PS["MEMORY"].V /\ PS["MEMORY"].instruction = PS["STORE"].instruction
    BY <1>5
  <2>2. "MEMORY" \in Stages /\ "STORE" \in Stages
    BY DEF Stages
  <2>3. "MEMORY" = "STORE"
    BY <2>1, <2>2, OneHolder
  <2> QED BY <2>3
<1>7. \A s \in Stages : s \in {"DECODE", "AGEX", "MEMORY", "STORE"}
  BY DEF Stages
<1>8. \A s \in {"DECODE", "AGEX", "MEMORY", "STORE"} : s \in Stages
  BY DEF Stages
<1> QED BY <1>4, <1>5, <1>6, <1>7, <1>8

(* A latch of NEW_PS with the address of an instruction in flight holds that instruction. *)
LEMMA StaysInRow ==
  ASSUME TraceInvariant, AllTraced, at = "MOVE", ~Confusing,
         NEW i \in DOMAIN fetched, fetched[i].object # NULL, NEW s \in Stages
  PROVE  Matches(NEW_PS[s], fetched[i].pc) <=> StaysAt(fetched[i], s)
<1>1. heap[fetched[i].object].NPC = fetched[i].pc + 2 /\ fetched[i].pc \in Int
  <2>1. fetched[i].pc \in Word
    BY DEF TraceInvariant, TraceTypeOK, IsEntry
  <2> QED BY <2>1, WordIsNat DEF AllTraced, InFlightTraced, IsTraced
<1>2. ASSUME StaysAt(fetched[i], s) PROVE Matches(NEW_PS[s], fetched[i].pc)
  BY <1>1, <1>2 DEF StaysAt, Matches, Valid, PCOf
<1>3. ASSUME Matches(NEW_PS[s], fetched[i].pc) PROVE StaysAt(fetched[i], s)
  <2> DEFINE x == NEW_PS[s].instruction
  <2>1. NEW_PS[s].V /\ x # NULL /\ heap[x].NPC - 2 = fetched[i].pc
    BY <1>3 DEF Matches, Valid, PCOf
  <2>2. x \in Obj /\ heap[x].NPC \in Word
    BY <2>1, ValidObjects DEF TraceInvariant, ControlInvariant, TypeOK, Instruction
  <2>3. CASE s = "DECODE" /\ ~DecodeHeld
    <3>1. NewlyFetched
      BY <2>1, <2>3 DEF NewlyFetched
    <3>2. ~(heap[x].NPC < 2) /\ fetched[i].pc # AddressOf(heap[x])
      BY <2>3, <3>1 DEF Confusing
    <3>3. heap[x].NPC \in Int
      BY <2>2, WordIsNat
    <3>4. heap[x].NPC = AddressOf(heap[x]) + 2 /\ AddressOf(heap[x]) \in Word
      BY <2>2, <3>2, <3>3, RowAddress DEF AddressOf
    <3>5. AddressOf(heap[x]) \in Int
      BY <3>4, WordIsNat
    <3> QED BY <1>1, <2>1, <3>2, <3>4, <3>5
  <2>4. CASE \E t \in Stages : PS[t].V /\ PS[t].instruction = x
    <3>1. PICK t \in Stages : PS[t].V /\ PS[t].instruction = x
      BY <2>4
    <3>2. PICK j \in DOMAIN fetched :
            fetched[j].object = x /\ fetched[j].object # NULL /\ PCOf(PS[t]) = fetched[j].pc
      BY <3>1, LatchOfEntry
    <3>3. fetched[j].pc = fetched[i].pc
      BY <2>1, <3>1, <3>2 DEF PCOf
    <3>4. i = j
      BY <3>2, <3>3, SameEntry
    <3> QED BY <2>1, <3>2, <3>4 DEF StaysAt
  <2> QED BY <2>1, <2>3, <2>4, NewLatches DEF TraceInvariant
<1> QED BY <1>2, <1>3
(* The cell of a row in flight is the stage its own instruction is in, with a star if it is
   met there again. *)
LEMMA LetterFound ==
  ASSUME TraceInvariant, at = "MOVE", NEW s \in Stages, PS[s].V
  PROVE  current_stage[PS[s].instruction] = Letter[s]
<1>1. AfterMEM /\ AfterAGEX /\ AfterDE /\ at # "SR"
  BY DEF AfterMEM, AfterAGEX, AfterDE
<1>2. LettersFollow
  BY DEF TraceInvariant
<1>3. s \in {"DECODE", "AGEX", "MEMORY", "STORE"}
  BY DEF Stages
<1> QED BY <1>1, <1>2, <1>3 DEF LettersFollow, Letter

LEMMA Letters ==
  /\ \A s, t \in Stages : Letter[s] = Letter[t] => s = t
  /\ \A s \in Stages : Letter[s] # "F" /\ Letter[s] # " " /\ (Letter[s] = "S" <=> s = "STORE")
  /\ \A s \in Stallable : s \in Stages /\ s # "STORE" /\ Starred[Letter[s]] # "F" /\ Starred[Letter[s]] # "S"
  /\ \A s \in Stages : s # "STORE" => s \in Stallable
BY DEF Letter, Starred, Stages, Stallable

LEMMA CellFollows ==
  ASSUME TraceInvariant, AllTraced, at = "MOVE", ~Confusing,
         NEW i \in DOMAIN fetched, fetched[i].object # NULL,
         NEW row, row.pc = fetched[i].pc
  PROVE  \E s \in Stages :
           /\ HoldersOf(fetched[i].object) = {s}
           /\ StallsIn(row) = IF StaysAt(fetched[i], s) THEN {s} ELSE {}
           /\ StaysAt(fetched[i], s) => s \in Stallable
           /\ Cell(row) = TrueCell(fetched[i])
           /\ Cell(row) = IF StaysAt(fetched[i], s) THEN Starred[Letter[s]] ELSE Letter[s]
           /\ Cell(row) # "F" /\ (Cell(row) = "S" <=> s = "STORE")
           /\ Place(row.pc) # 0 /\ SearchOrder[Place(row.pc)] = s
           /\ InstructionOf(row.pc) = fetched[i].object /\ current_stage[fetched[i].object] = Letter[s]
           /\ PS[s].V /\ PS[s].instruction = fetched[i].object
<1> DEFINE e == fetched[i]
<1>1. PICK s \in Stages :
           /\ HoldersOf(e.object) = {s} /\ Home(e) = s
           /\ PS[s].V /\ PS[s].instruction = e.object
           /\ Place(e.pc) # 0 /\ SearchOrder[Place(e.pc)] = s
  BY EntryFound
<1>2. InstructionOf(row.pc) = e.object
  BY <1>1 DEF InstructionOf
<1>3. StageChar(row) = Letter[s] /\ current_stage[e.object] = Letter[s]
  BY <1>1, <1>2, LetterFound DEF StageChar
<1>4. StaysAt(e, s) => s \in Stallable
  <2>1. s = "STORE" => ~StaysAt(e, s)
    BY <1>1, NewLatches DEF StaysAt, TraceInvariant
  <2> QED BY <2>1, Letters
<1>5. \A t \in Stallable : Matches(NEW_PS[t], row.pc) <=> StaysAt(e, t)
  BY StaysInRow, Letters
<1>6. StallsIn(row) = IF StaysAt(e, s) THEN {s} ELSE {}
  <2>1. \A t : t \in StallsIn(row) <=> t \in Stallable /\ Letter[s] = Letter[t] /\ StaysAt(e, t)
    BY <1>3, <1>5 DEF StallsIn
  <2>2. \A t \in Stallable : Letter[s] = Letter[t] => t = s
    BY Letters
  <2>3. \A t : t \in StallsIn(row) <=> t = s /\ StaysAt(e, s)
    BY <1>4, <2>1, <2>2
  <2> QED BY <2>3
<1>7. Cell(row) = IF StaysAt(e, s) THEN Starred[Letter[s]] ELSE Letter[s]
  BY <1>3, <1>6 DEF Cell
<1>8. TrueCell(e) = IF StaysAt(e, s) THEN Starred[Letter[s]] ELSE Letter[s]
  BY <1>1 DEF TrueCell
<1>9. Cell(row) # "F" /\ (Cell(row) = "S" <=> s = "STORE")
  BY <1>4, <1>7, Letters
<1> QED BY <1>1, <1>2, <1>3, <1>4, <1>6, <1>7, <1>8, <1>9

(* The row of an instruction that has just been fetched. *)
LEMMA FetchedCell ==
  ASSUME TraceInvariant, AllTraced, at = "MOVE", ~Confusing, NewlyFetched,
         NEW row, row.pc = AddressOf(heap[NEW_PS["DECODE"].instruction])
  PROVE  /\ Place(row.pc) = 0
         /\ StallsIn(row) = {}
         /\ row.cycle_history = <<>> => Cell(row) = "F"
         /\ HoldersOf(NEW_PS["DECODE"].instruction) = {}
<1>1. \A i \in DOMAIN fetched : fetched[i].object # NULL => fetched[i].pc # row.pc
  BY DEF Confusing
<1>2. Place(row.pc) = 0
  BY <1>1, NothingFound
<1>3. StageChar(row) = IF row.cycle_history = <<>> THEN "F" ELSE " "
  BY <1>2 DEF StageChar
<1>4. StallsIn(row) = {}
  BY <1>3, Letters DEF StallsIn
<1>5. HoldersOf(NEW_PS["DECODE"].instruction) = {}
  BY NewLatches DEF NewlyFetched, HoldersOf, TraceInvariant
<1> QED BY <1>2, <1>3, <1>4, <1>5 DEF Cell
(* A stall is only seen at the latch a row has found. *)
LEMMA StallFound ==
  ASSUME TraceInvariant, at = "MOVE", NEW row, NEW s \in StallsIn(row)
  PROVE  /\ s \in Stallable /\ PS[s].V /\ Matches(PS[s], row.pc) /\ Matches(NEW_PS[s], row.pc)
         /\ Place(row.pc) # 0 /\ InstructionOf(row.pc) = PS[s].instruction
<1>1. s \in Stallable /\ StageChar(row) = Letter[s] /\ Matches(NEW_PS[s], row.pc)
  BY DEF StallsIn
<1>2. s \in Stages /\ Letter[s] # "F" /\ Letter[s] # " "
  BY <1>1, Letters
<1>3. Place(row.pc) # 0 /\ current_stage[InstructionOf(row.pc)] = Letter[s]
  BY <1>1, <1>2 DEF StageChar
<1> DEFINE t == SearchOrder[Place(row.pc)]
<1>4. t \in Stages /\ Matches(PS[t], row.pc) /\ PS[t].V /\ InstructionOf(row.pc) = PS[t].instruction
  BY <1>3, PlaceFound DEF Matches, Valid, InstructionOf
<1>5. Letter[t] = Letter[s]
  BY <1>3, <1>4, LetterFound
<1>6. t = s
  BY <1>2, <1>4, <1>5, Letters
<1> QED BY <1>1, <1>3, <1>4, <1>6

(* What an instruction in flight records of itself is what its row shows. *)
LEMMA RecordFollows ==
  ASSUME TraceInvariant, AllTraced, at = "MOVE", ~Confusing,
         NEW i \in DOMAIN fetched, fetched[i].object # NULL,
         NEW row \in ToSet(Rows), row.pc = fetched[i].pc
  PROVE  Recorded(fetched[i].object) = Marked(cycle_history[fetched[i].object], TrueCell(fetched[i]))
<1> DEFINE e == fetched[i]
           o == e.object
           rows == ToSet(Rows)
           stalled == {s \in Stallable : PS[s].instruction = o /\ \E r \in rows : s \in StallsIn(r)}
           found == \E r \in rows : Place(r.pc) # 0 /\ InstructionOf(r.pc) = o
<1>1. PICK s \in Stages :
           /\ HoldersOf(o) = {s}
           /\ StallsIn(row) = IF StaysAt(e, s) THEN {s} ELSE {}
           /\ StaysAt(e, s) => s \in Stallable
           /\ Cell(row) = TrueCell(e)
           /\ Cell(row) = IF StaysAt(e, s) THEN Starred[Letter[s]] ELSE Letter[s]
           /\ Place(row.pc) # 0 /\ InstructionOf(row.pc) = o /\ current_stage[o] = Letter[s]
           /\ PS[s].V /\ PS[s].instruction = o
  BY CellFollows
<1>2. found
  BY <1>1
<1>3. \A t \in stalled : t = s
  <2> TAKE t \in stalled
  <2>1. PICK r \in rows : t \in StallsIn(r)
    OBVIOUS
  <2>2. t \in Stages /\ PS[t].V /\ PS[t].instruction = o
    BY <2>1, StallFound, Letters
  <2> QED BY <1>1, <2>2, OneHolder DEF TraceInvariant
<1>4. s \in stalled <=> StaysAt(e, s)
  <2>1. StaysAt(e, s) => s \in stalled
    BY <1>1
  <2>2. ASSUME s \in stalled PROVE StaysAt(e, s)
    <3>1. PICK r \in rows : s \in StallsIn(r)
      BY <2>2
    <3>2. Matches(PS[s], r.pc) /\ Matches(NEW_PS[s], r.pc)
      BY <3>1, StallFound
    <3>3. PICK j \in DOMAIN fetched :
            /\ fetched[j].object = PS[s].instruction /\ fetched[j].object # NULL
            /\ PCOf(PS[s]) = fetched[j].pc
      BY <1>1, LatchOfEntry
    <3>4. r.pc = fetched[j].pc
      BY <3>2, <3>3 DEF Matches
    <3>5. StaysAt(fetched[j], s)
      BY <3>2, <3>3, <3>4, StaysInRow
    <3> QED BY <1>1, <3>3, <3>5 DEF StaysAt
  <2> QED BY <2>1, <2>2
<1>5. Recorded(o) = IF stalled # {} THEN Marked(cycle_history[o], Starred[Letter[CHOOSE t \in stalled : TRUE]])
                    ELSE IF found THEN Marked(cycle_history[o], current_stage[o])
                    ELSE cycle_history[o]
  BY DEF Recorded
<1>6. CASE StaysAt(e, s)
  <2>1. stalled = {s}
    BY <1>3, <1>4, <1>6
  <2>2. (CHOOSE t \in stalled : TRUE) = s
    BY <2>1
  <2> HIDE DEF stalled, found
  <2> QED BY <1>1, <1>5, <1>6, <2>1, <2>2
<1>7. CASE ~StaysAt(e, s)
  <2>1. stalled = {}
    BY <1>3, <1>4, <1>7
  <2> HIDE DEF stalled, found
  <2> QED BY <1>1, <1>2, <1>5, <1>7, <2>1
<1> QED BY <1>6, <1>7

(* An object no valid latch holds records nothing. *)
LEMMA RecordStays ==
  ASSUME TraceInvariant, at = "MOVE", NEW o, \A s \in Stages : PS[s].V => PS[s].instruction # o
  PROVE  Recorded(o) = cycle_history[o]
<1> DEFINE rows == ToSet(Rows)
           stalled == {s \in Stallable : PS[s].instruction = o /\ \E r \in rows : s \in StallsIn(r)}
           found == \E r \in rows : Place(r.pc) # 0 /\ InstructionOf(r.pc) = o
<1>1. stalled = {}
  <2> SUFFICES ASSUME NEW s \in stalled PROVE FALSE
    OBVIOUS
  <2>1. PICK r \in rows : s \in StallsIn(r)
    OBVIOUS
  <2> QED BY <2>1, StallFound, Letters
<1>2. ~found
  <2> SUFFICES ASSUME NEW r \in rows, Place(r.pc) # 0, InstructionOf(r.pc) = o PROVE FALSE
    OBVIOUS
  <2> QED BY PlaceFound DEF InstructionOf, Matches, Valid
<1>3. Recorded(o) = IF stalled # {} THEN Marked(cycle_history[o], Starred[Letter[CHOOSE t \in stalled : TRUE]])
                    ELSE IF found THEN Marked(cycle_history[o], current_stage[o])
                    ELSE cycle_history[o]
  BY DEF Recorded
<1> HIDE DEF stalled, found
<1> QED BY <1>1, <1>2, <1>3
-----------------------------------------------------------------------------
(* The rows and the entries of this cycle. *)
LEMMA NewTraceType ==
  ASSUME TraceInvariant, at = "MOVE"
  PROVE  /\ IsNewInstruction => IsRow(NewTrace)
         /\ NewlyFetched => IsEntry(Entry(NEW_PS["DECODE"].instruction))
<1> DEFINE o == NEW_PS["DECODE"].instruction
<1>1. NEW_PS["DECODE"].V => o \in Obj /\ heap[o].NPC \in Word
  BY ValidObjects DEF TraceInvariant, ControlInvariant, TypeOK, Instruction, Stages
<1>2. IsRecord(<<>>)
  BY DEF IsRecord
<1>3. heap[o].NPC \in Word => AddressOf(heap[o]) \in Word /\ PCOf(NEW_PS["DECODE"]) % WordSize \in Word
  BY RowAddress DEF AddressOf, PCOf
<1>4. IsNewInstruction => IsRow(NewTrace)
  BY <1>1, <1>2, <1>3 DEF IsNewInstruction, Valid, IsRow, NewTrace
<1>5. NewlyFetched => IsEntry(Entry(o))
  BY <1>1, <1>2, <1>3 DEF NewlyFetched, IsEntry, Entry
<1> QED BY <1>4, <1>5

LEMMA RowsType ==
  ASSUME TraceInvariant, at = "MOVE"
  PROVE  IsList(Rows) /\ \A i \in DOMAIN Rows : IsRow(Rows[i])
<1>1. IsList(instruction_history) /\ \A i \in DOMAIN instruction_history : IsRow(instruction_history[i])
  BY DEF TraceInvariant, TraceTypeOK
<1>2. CASE ~IsNewInstruction
  BY <1>1, <1>2 DEF Rows
<1>3. CASE IsNewInstruction
  <2> DEFINE t == Append(instruction_history, NewTrace)
             n == Len(instruction_history)
  <2>1. /\ IsList(t) /\ DOMAIN t = 1..(n + 1) /\ n \in Nat
        /\ \A i \in 1..n : t[i] = instruction_history[i]
        /\ t[n + 1] = NewTrace
    BY <1>1, AppendPlaces
  <2>2. DOMAIN instruction_history = 1..n
    BY <1>1, ListPlaces
  <2>3. Rows = t
    BY <1>3 DEF Rows
  <2> HIDE DEF t, n
  <2>4. \A i \in 1..(n + 1) : i \in 1..n \/ i = n + 1
    BY <2>1
  <2>5. IsRow(NewTrace)
    BY <1>3, NewTraceType
  <2>6. \A i \in DOMAIN t : IsRow(t[i])
    BY <1>1, <2>1, <2>2, <2>4, <2>5
  <2> QED BY <2>1, <2>3, <2>6
<1> QED BY <1>2, <1>3

LEMMA EntriesType ==
  ASSUME TraceInvariant, at = "MOVE"
  PROVE  IsList(Entries) /\ \A i \in DOMAIN Entries : IsEntry(Entries[i])
<1> DEFINE new == Entry(NEW_PS["DECODE"].instruction)
<1>1. IsList(fetched) /\ \A i \in DOMAIN fetched : IsEntry(fetched[i])
  BY DEF TraceInvariant, TraceTypeOK
<1>2. CASE ~NewlyFetched
  BY <1>1, <1>2 DEF Entries
<1>3. CASE NewlyFetched
  <2> DEFINE t == Append(fetched, new)
             n == Len(fetched)
  <2>1. /\ IsList(t) /\ DOMAIN t = 1..(n + 1) /\ n \in Nat
        /\ \A i \in 1..n : t[i] = fetched[i]
        /\ t[n + 1] = new
    BY <1>1, AppendPlaces
  <2>2. DOMAIN fetched = 1..n
    BY <1>1, ListPlaces
  <2>3. Entries = t
    BY <1>3 DEF Entries
  <2>4. IsEntry(new)
    BY <1>3, NewTraceType
  <2> HIDE DEF t, n, new
  <2>5. \A i \in 1..(n + 1) : i \in 1..n \/ i = n + 1
    BY <2>1
  <2>6. \A i \in DOMAIN t : IsEntry(t[i])
    BY <1>1, <2>1, <2>2, <2>4, <2>5
  <2> QED BY <2>1, <2>3, <2>6
<1> QED BY <1>2, <1>3

LEMMA UpdatedRow ==
  ASSUME TraceInvariant, NEW row, IsRow(row)
  PROVE  /\ Updated(row).pc = row.pc
         /\ Updated(row).cycle_history = Marked(row.cycle_history, Cell(row))
         /\ Updated(row).mem_addr = MemAddr(row)
         /\ Updated(row) = [pc |-> Updated(row).pc, cycle_history |-> Updated(row).cycle_history,
                            mem_addr |-> Updated(row).mem_addr]
         /\ MemAddr(row) \in Word \cup {NULL}
<1>1. row = [pc |-> row.pc, cycle_history |-> row.cycle_history, mem_addr |-> row.mem_addr]
      /\ row.mem_addr \in Word \cup {NULL}
  BY DEF IsRow
<1>2. PS["MEMORY"].V => heap[PS["MEMORY"].instruction].ADDRESS \in Word
  BY ValidObjects DEF TraceInvariant, ControlInvariant, TypeOK, Instruction, Stages
<1>3. MemAddr(row) \in Word \cup {NULL}
  BY <1>1, <1>2, PlaceFound DEF MemAddr, Matches, Valid, On
<1> DEFINE cells == Marked(row.cycle_history, Cell(row))
           addr == MemAddr(row)
           up == Updated(row)
<1>4. up = [row EXCEPT !.cycle_history = cells, !.mem_addr = addr]
  BY DEF Updated
<1> HIDE DEF cells, addr, up
<1>5. up = [pc |-> row.pc, cycle_history |-> cells, mem_addr |-> addr]
  BY <1>1, <1>4
<1>6. /\ up.pc = row.pc /\ up.cycle_history = cells /\ up.mem_addr = addr
      /\ up = [pc |-> up.pc, cycle_history |-> up.cycle_history, mem_addr |-> up.mem_addr]
  BY <1>5
<1> QED BY <1>3, <1>6 DEF cells, addr, up

LEMMA FollowedEntry ==
  ASSUME NEW e, IsEntry(e), e.object # NULL
  PROVE  /\ Followed(e).pc = e.pc
         /\ Followed(e).cells = Marked(e.cells, TrueCell(e))
         /\ Followed(e).object = IF "STORE" \in HoldersOf(e.object) THEN NULL ELSE e.object
         /\ Followed(e).mem_addr =
              IF "MEMORY" \in HoldersOf(e.object) /\ "DCACHE_EN" \in heap[e.object].MEM_CS
              THEN heap[e.object].ADDRESS ELSE e.mem_addr
         /\ Followed(e) = [object |-> Followed(e).object, pc |-> Followed(e).pc,
                           cells |-> Followed(e).cells, mem_addr |-> Followed(e).mem_addr]
<1>1. e = [object |-> e.object, pc |-> e.pc, cells |-> e.cells, mem_addr |-> e.mem_addr]
  BY DEF IsEntry
<1> QED BY <1>1 DEF Followed

LEMMA UpdatedType ==
  ASSUME TraceInvariant, CYCLE_COUNT' = CYCLE_COUNT + 1, NEW row, IsRow(row), NEW u, u = Updated(row)
  PROVE  IsRow(u)'
<1>1. /\ u.pc = row.pc
      /\ u.cycle_history = Marked(row.cycle_history, Cell(row))
      /\ u = [pc |-> u.pc, cycle_history |-> u.cycle_history, mem_addr |-> u.mem_addr]
      /\ u.mem_addr \in Word \cup {NULL}
  BY UpdatedRow
<1>2. row.pc \in Word /\ IsRecord(row.cycle_history) /\ CYCLE_COUNT \in Nat
  BY DEF IsRow, TraceInvariant, TraceTypeOK
<1>3. IsRecord(u.cycle_history)'
  BY <1>1, <1>2, MarkedRecord
<1> QED BY <1>1, <1>2, <1>3 DEF IsRow

LEMMA FollowedType ==
  ASSUME TraceInvariant, CYCLE_COUNT' = CYCLE_COUNT + 1, NEW e, IsEntry(e), NEW f, f = Followed(e)
  PROVE  IsEntry(f)'
<1>1. CYCLE_COUNT \in Nat /\ IsRecord(e.cells) /\ e.object \in Obj \cup {NULL} /\ e.pc \in Word
      /\ e = [object |-> e.object, pc |-> e.pc, cells |-> e.cells, mem_addr |-> e.mem_addr]
  BY DEF IsEntry, TraceInvariant, TraceTypeOK
<1>2. CASE e.object = NULL
  <2>1. f = e
    BY <1>2 DEF Followed
  <2>2. IsRecord(e.cells)'
    BY <1>1, RecordKept
  <2> QED BY <1>1, <2>1, <2>2 DEF IsEntry
<1>3. CASE e.object # NULL
  <2>1. /\ f.pc = e.pc /\ f.cells = Marked(e.cells, TrueCell(e))
        /\ f.object \in {NULL, e.object}
        /\ f = [object |-> f.object, pc |-> f.pc, cells |-> f.cells, mem_addr |-> f.mem_addr]
    BY <1>3, FollowedEntry
  <2>2. IsRecord(f.cells)'
    BY <1>1, <2>1, MarkedRecord
  <2> QED BY <1>1, <2>1, <2>2 DEF IsEntry
<1> QED BY <1>2, <1>3
-----------------------------------------------------------------------------
(* A row is added exactly when an instruction has been fetched. *)
LEMMA RowForEachFetch ==
  ASSUME TraceInvariant, AllTraced, at = "MOVE", ~Confusing
  PROVE  /\ IsNewInstruction <=> NewlyFetched
         /\ NewlyFetched => NewTrace.pc = AddressOf(heap[NEW_PS["DECODE"].instruction])
<1> DEFINE o == NEW_PS["DECODE"].instruction
           pc == PCOf(NEW_PS["DECODE"])
<1>1. NEW_PS["DECODE"].V => o \in Obj /\ o # NULL /\ heap[o].NPC \in Word
  BY ValidObjects, ObjAssumption DEF TraceInvariant, ControlInvariant, TypeOK, Instruction, Stages
<1>2. ASSUME NewlyFetched
      PROVE  IsNewInstruction /\ NewTrace.pc = AddressOf(heap[o])
  <2>1. NEW_PS["DECODE"].V /\ ~(heap[o].NPC < 2)
    BY <1>2 DEF NewlyFetched, Confusing
  <2>2. heap[o].NPC \in Word /\ heap[o].NPC \in Int
    BY <1>1, <2>1, WordIsNat
  <2>3. /\ heap[o].NPC = AddressOf(heap[o]) + 2 /\ AddressOf(heap[o]) \in Word
        /\ (heap[o].NPC - 2) % WordSize = AddressOf(heap[o])
    BY <2>1, <2>2, RowAddress DEF AddressOf
  <2>4. pc = AddressOf(heap[o])
    <3>1. AddressOf(heap[o]) \in Int
      BY <2>3, WordIsNat
    <3> QED BY <2>3, <3>1 DEF PCOf
  <2>5. ~Matches(PS["DECODE"], pc)
    <3> SUFFICES ASSUME PS["DECODE"].V, PCOf(PS["DECODE"]) = pc PROVE FALSE
      BY DEF Matches, Valid
    <3>1. PICK i \in DOMAIN fetched : fetched[i].object # NULL /\ PCOf(PS["DECODE"]) = fetched[i].pc
      BY LatchOfEntry DEF Stages
    <3> QED BY <1>2, <2>4, <3>1 DEF Confusing
  <2>6. NewTrace.pc = AddressOf(heap[o])
    BY <2>3 DEF NewTrace, PCOf
  <2> QED BY <1>1, <2>1, <2>5, <2>6 DEF IsNewInstruction, Valid
<1>3. ASSUME ~NewlyFetched, NEW_PS["DECODE"].V
      PROVE  ~IsNewInstruction
  <2>1. DecodeHeld
    BY <1>3 DEF NewlyFetched
  <2>2. PS["DECODE"].V /\ PS["DECODE"].instruction = o
    BY <1>3, <2>1, NewLatches DEF TraceInvariant, SameContent
  <2>3. PICK i \in DOMAIN fetched :
          fetched[i].object = o /\ PCOf(PS["DECODE"]) = fetched[i].pc /\ Matches(PS["DECODE"], fetched[i].pc)
    BY <2>2, LatchOfEntry DEF Stages
  <2>4. pc = fetched[i].pc
    BY <2>2, <2>3 DEF PCOf
  <2> DEFINE n == Len(fetched)
  <2>5. n \in Nat /\ DOMAIN fetched = 1..n
    BY ListPlaces DEF TraceInvariant, TraceTypeOK
  <2>6. /\ DOMAIN instruction_history = DOMAIN fetched
        /\ Len(instruction_history) \in Nat /\ DOMAIN instruction_history = 1..Len(instruction_history)
    BY ListPlaces DEF TraceInvariant, TraceTypeOK, AllTraced, RowsFollow
  <2>7. Len(instruction_history) = n /\ n \in DOMAIN fetched /\ n + 1 \notin DOMAIN fetched
    <3> HIDE DEF n
    <3> QED BY <2>3, <2>5, <2>6
  <2>8. fetched[n].object = o
    BY <2>2, <2>7 DEF AllTraced, LatchesTraced
  <2>9. n = i
    <3>1. heap[o].NPC = fetched[n].pc + 2 /\ heap[o].NPC = fetched[i].pc + 2
      BY <1>1, <1>3, <2>3, <2>7, <2>8 DEF AllTraced, InFlightTraced, IsTraced
    <3>2. fetched[n].pc \in Word /\ fetched[i].pc \in Word
      BY <2>3, <2>7 DEF TraceInvariant, TraceTypeOK, IsEntry
    <3>3. fetched[n].pc = fetched[i].pc
      BY <3>1, <3>2, WordIsNat
    <3> QED BY <1>1, <1>3, <2>3, <2>7, <2>8, <3>3, SameEntry
  <2>10. Last(instruction_history).pc = pc
    BY <2>3, <2>4, <2>7, <2>9 DEF Last, AllTraced, RowsFollow, SameTrace
  <2>11. instruction_history # <<>>
    BY <2>3, <2>6
  <2> QED BY <2>3, <2>4, <2>10, <2>11 DEF IsNewInstruction
<1> QED BY <1>2, <1>3 DEF IsNewInstruction, Valid

LEMMA MoveLists ==
  ASSUME TraceInvariant, AllTraced, at = "MOVE", ~Confusing
  PROVE  \E n \in Nat :
           /\ DOMAIN fetched = 1..n /\ DOMAIN Rows = DOMAIN Entries
           /\ \A i \in 1..n : /\ i \in DOMAIN Rows /\ Rows[i] \in ToSet(Rows)
                              /\ Rows[i] = instruction_history[i] /\ Entries[i] = fetched[i]
           /\ ~NewlyFetched => DOMAIN Rows = 1..n
           /\ NewlyFetched => /\ DOMAIN Rows = 1..(n + 1)
                              /\ Rows[n + 1] = NewTrace
                              /\ Entries[n + 1] = Entry(NEW_PS["DECODE"].instruction)
<1> DEFINE n == Len(fetched)
           new == Entry(NEW_PS["DECODE"].instruction)
<1>1. n \in Nat /\ DOMAIN fetched = 1..n /\ IsList(fetched)
  BY ListPlaces DEF TraceInvariant, TraceTypeOK
<1>2. /\ DOMAIN instruction_history = DOMAIN fetched /\ IsList(instruction_history)
      /\ Len(instruction_history) \in Nat /\ DOMAIN instruction_history = 1..Len(instruction_history)
  BY ListPlaces DEF TraceInvariant, TraceTypeOK, AllTraced, RowsFollow
<1>3. Len(instruction_history) = n
  <2> HIDE DEF n
  <2> QED BY <1>1, <1>2
<1>4. CASE ~NewlyFetched
  <2>1. Rows = instruction_history /\ Entries = fetched
    BY <1>4, RowForEachFetch DEF Rows, Entries
  <2> QED BY <1>1, <1>2, <1>4, <2>1 DEF ToSet
<1>5. CASE NewlyFetched
  <2>1. Rows = Append(instruction_history, NewTrace) /\ Entries = Append(fetched, new)
    BY <1>5, RowForEachFetch DEF Rows, Entries
  <2>2. /\ DOMAIN Rows = 1..(n + 1) /\ Rows[n + 1] = NewTrace
        /\ \A i \in 1..n : Rows[i] = instruction_history[i]
    BY <1>2, <1>3, <2>1, AppendPlaces
  <2>3. /\ DOMAIN Entries = 1..(n + 1) /\ Entries[n + 1] = new
        /\ \A i \in 1..n : Entries[i] = fetched[i]
    BY <1>1, <2>1, AppendPlaces
  <2>4. \A i \in 1..n : i \in DOMAIN Rows
    BY <1>1, <2>2
  <2>5. \A i \in DOMAIN Rows : Rows[i] \in ToSet(Rows)
    BY DEF ToSet
  <2> HIDE DEF n, new
  <2> QED BY <1>1, <1>5, <2>2, <2>3, <2>4, <2>5 DEF new
<1> QED BY <1>4, <1>5

(* An instruction in flight and its row go through the end of the cycle together. *)
LEMMA InFlightMoves ==
  ASSUME TraceInvariant, AllTraced, MoveLatch, ~Confusing,
         NEW i \in DOMAIN fetched, NEW o \in Obj, fetched[i].object = o,
         NEW row \in ToSet(Rows), IsRow(row), SameTrace(row, fetched[i]),
         NEW u, u = Updated(row), NEW f, f = Followed(fetched[i])
  PROVE  /\ SameTrace(u, f) /\ f.pc = fetched[i].pc
         /\ f.object = IF PS["STORE"].V /\ PS["STORE"].instruction = o THEN NULL ELSE o
         /\ f.object # NULL =>
              /\ \E s \in Stages : HoldersOf(o)' = {s}
              /\ Recorded(o) = FromDecode(f.cells)
<1> DEFINE e == fetched[i]
<1>1. at = "MOVE" /\ o # NULL /\ e.object # NULL /\ row.pc = e.pc /\ ~Retired(row) /\ Printed(row) = e.cells
  BY ObjAssumption DEF MoveLatch, SameTrace
<1>2. PICK s \in Stages :
           /\ HoldersOf(o) = {s}
           /\ Cell(row) = TrueCell(e)
           /\ Cell(row) # "F" /\ (Cell(row) = "S" <=> s = "STORE")
           /\ Place(row.pc) # 0 /\ SearchOrder[Place(row.pc)] = s
           /\ PS[s].V /\ PS[s].instruction = o
  BY <1>1, CellFollows
<1>3. /\ u.pc = row.pc
      /\ u.cycle_history = Marked(row.cycle_history, Cell(row))
  BY UpdatedRow
<1>4. IsEntry(e) /\ CYCLE_COUNT \in Nat /\ IsRecord(e.cells) /\ IsRecord(row.cycle_history)
  BY DEF TraceInvariant, TraceTypeOK, IsEntry, IsRow
<1>5. /\ f.pc = e.pc
      /\ f.cells = Marked(e.cells, TrueCell(e))
      /\ f.object = IF "STORE" \in HoldersOf(o) THEN NULL ELSE o
  BY <1>1, <1>4, FollowedEntry
<1>6. Printed(u) = f.cells /\ (Retired(u) <=> s = "STORE")
  BY <1>1, <1>2, <1>3, <1>4, <1>5, PrintedMarked
<1>7. f.object = NULL <=> s = "STORE"
  BY <1>1, <1>2, <1>5
<1>8. f.object = IF PS["STORE"].V /\ PS["STORE"].instruction = o THEN NULL ELSE o
  BY <1>5 DEF HoldersOf, Stages
<1>9. ASSUME f.object # NULL PROVE \E t \in Stages : HoldersOf(o)' = {t}
  <2>1. s # "STORE" /\ s \in HoldersOf(o)
    BY <1>2, <1>7, <1>9
  <2>2. HoldersOf(o)' \in {{s}, {Onward(s)}}
    BY <1>1, <2>1, AdvanceFollows DEF TraceInvariant, Advance
  <2>3. Onward(s) \in Stages
    BY <2>1 DEF Onward, Stages
  <2> QED BY <2>2, <2>3
<1>10. Recorded(o) = FromDecode(f.cells)
  <2>1. Recorded(o) = Marked(cycle_history[o], TrueCell(e))
    BY <1>1, RecordFollows
  <2>2. cycle_history[o] = FromDecode(e.cells)
    BY <1>1 DEF AllTraced, InFlightTraced, IsTraced
  <2>3. FromDecode(f.cells) = Marked(FromDecode(e.cells), TrueCell(e))
    BY <1>2, <1>4, <1>5, FromDecodeMarked
  <2> QED BY <2>1, <2>2, <2>3
<1>11. SameTrace(u, f)
  BY <1>1, <1>3, <1>5, <1>6, <1>7 DEF SameTrace
<1> QED BY <1>5, <1>8, <1>9, <1>10, <1>11

(* One that has left is not disturbed. *)
LEMMA RetiredMoves ==
  ASSUME TraceInvariant, AllTraced, at = "MOVE", ~Confusing,
         NEW i \in DOMAIN fetched, fetched[i].object = NULL,
         NEW row, IsRow(row), SameTrace(row, fetched[i]),
         NEW u, u = Updated(row), NEW f, f = Followed(fetched[i])
  PROVE  f = fetched[i] /\ SameTrace(u, f)
<1>1. f = fetched[i]
  BY DEF Followed
<1>2. /\ u.pc = row.pc
      /\ u.cycle_history = Marked(row.cycle_history, Cell(row))
      /\ u.mem_addr = MemAddr(row)
  BY UpdatedRow
<1>3. Retired(row) /\ Printed(row) = fetched[i].cells /\ row.pc = fetched[i].pc
  BY DEF SameTrace
<1>4. CYCLE_COUNT \in Nat /\ IsRecord(row.cycle_history)
  BY DEF TraceInvariant, TraceTypeOK, IsRow
<1>5. Retired(u) /\ Printed(u) = Printed(row)
  BY <1>2, <1>3, <1>4, PrintedMarked
<1>6. SameTrace(u, f)
  BY <1>1, <1>2, <1>3, <1>5 DEF SameTrace
<1> QED BY <1>1, <1>6

(* An entry gets the address of its own instruction, a row that of the instruction in
   MEMORY with the address of the row. *)
UsesCache(e) ==
  e.object # NULL /\ "MEMORY" \in HoldersOf(e.object) /\ "DCACHE_EN" \in heap[e.object].MEM_CS

LEMMA AddressMoves ==
  ASSUME TraceInvariant, AllTraced, NEW i \in DOMAIN fetched,
         NEW row, row = instruction_history[i],
         NEW u, u = Updated(row), NEW f, f = Followed(fetched[i])
  PROVE  /\ f.mem_addr = IF UsesCache(fetched[i]) THEN heap[fetched[i].object].ADDRESS
                         ELSE fetched[i].mem_addr
         /\ UsesCache(fetched[i]) => heap[fetched[i].object].ADDRESS # NULL
         /\ \A j \in DOMAIN fetched :
              UsesCache(fetched[j]) /\ fetched[j].pc = fetched[i].pc =>
                u.mem_addr = heap[fetched[j].object].ADDRESS
         /\ (\A j \in DOMAIN fetched : UsesCache(fetched[j]) => fetched[j].pc # fetched[i].pc)
              => u.mem_addr = row.mem_addr
<1>1. IsRow(row) /\ row.pc = fetched[i].pc /\ IsEntry(fetched[i])
  BY DEF TraceInvariant, TraceTypeOK, AllTraced, RowsFollow, SameTrace
<1>2. u.mem_addr = MemAddr(row)
  BY <1>1, UpdatedRow
<1>3. f.mem_addr = IF UsesCache(fetched[i]) THEN heap[fetched[i].object].ADDRESS ELSE fetched[i].mem_addr
  <2>1. CASE fetched[i].object = NULL
    BY <2>1 DEF Followed, UsesCache
  <2>2. CASE fetched[i].object # NULL
    BY <1>1, <2>2, FollowedEntry DEF UsesCache
  <2> QED BY <2>1, <2>2
<1>4. UsesCache(fetched[i]) => heap[fetched[i].object].ADDRESS # NULL
  <2> SUFFICES ASSUME UsesCache(fetched[i]) PROVE heap[fetched[i].object].ADDRESS \in Word
    BY NoAddressAssumption
  <2>1. fetched[i].object \in Obj
    BY <1>1 DEF UsesCache, IsEntry
  <2> QED BY <2>1 DEF TraceInvariant, ControlInvariant, TypeOK, Instruction
<1>5. ASSUME NEW j \in DOMAIN fetched, UsesCache(fetched[j]), fetched[j].pc = fetched[i].pc
      PROVE  u.mem_addr = heap[fetched[j].object].ADDRESS
  <2>1. fetched[j].object # NULL /\ "MEMORY" \in HoldersOf(fetched[j].object)
        /\ "DCACHE_EN" \in heap[fetched[j].object].MEM_CS
    BY <1>5 DEF UsesCache
  <2>2. /\ Place(fetched[j].pc) # 0 /\ SearchOrder[Place(fetched[j].pc)] = "MEMORY"
        /\ PS["MEMORY"].instruction = fetched[j].object
    BY <2>1, EntryFound
  <2>3. On("MEMORY") = heap[fetched[j].object]
    BY <2>2 DEF On
  <2> QED BY <1>1, <1>2, <1>5, <2>1, <2>2, <2>3 DEF MemAddr
<1>6. ASSUME \A j \in DOMAIN fetched : UsesCache(fetched[j]) => fetched[j].pc # fetched[i].pc
      PROVE  u.mem_addr = row.mem_addr
  <2> SUFFICES ASSUME Place(row.pc) # 0, SearchOrder[Place(row.pc)] = "MEMORY",
                      "DCACHE_EN" \in On("MEMORY").MEM_CS
               PROVE  FALSE
    BY <1>2 DEF MemAddr
  <2>1. Matches(PS["MEMORY"], row.pc) /\ "MEMORY" \in Stages
    BY PlaceFound DEF Stages
  <2>2. PS["MEMORY"].V /\ PCOf(PS["MEMORY"]) = row.pc
    BY <2>1 DEF Matches, Valid
  <2>3. PICK j \in DOMAIN fetched :
          /\ fetched[j].object = PS["MEMORY"].instruction /\ fetched[j].object # NULL
          /\ PCOf(PS["MEMORY"]) = fetched[j].pc
    BY <2>1, <2>2, LatchOfEntry
  <2>4. UsesCache(fetched[j])
    BY <2>1, <2>2, <2>3 DEF UsesCache, HoldersOf, On
  <2> QED BY <1>1, <1>6, <2>2, <2>3, <2>4
<1> QED BY <1>3, <1>4, <1>5, <1>6

(* No latch holds the instruction of a row at one of the last two addresses. *)
LEMMA NeverMatched ==
  ASSUME ControlInvariant, NEW pc \in Word, pc >= WordSize - 2
  PROVE  Place(pc) = 0
<1>1. ASSUME NEW s \in Stages PROVE ~Matches(PS[s], pc)
  <2> SUFFICES ASSUME PS[s].V, PCOf(PS[s]) = pc PROVE FALSE
    BY DEF Matches, Valid
  <2>1. heap[PS[s].instruction].NPC \in Word
    BY ValidObjects DEF ControlInvariant, TypeOK, Instruction
  <2>2. heap[PS[s].instruction].NPC \in Int /\ heap[PS[s].instruction].NPC <= 65535 /\ WordSize = 65536
    BY <2>1, Sizes DEF Word
  <2> QED BY <2>2, WordIsNat DEF PCOf
<1> QED BY <1>1, PlaceFound

(* It gets a cell of its fetch, if it has none, or an empty one. *)
LEMMA OnlyFetchedKept ==
  ASSUME TraceInvariant, NEW row, IsRow(row), row.pc >= WordSize - 2, OnlyFetched(row),
         NEW u, u = Updated(row)
  PROVE  OnlyFetched(u) /\ ~Retired(u)
<1>1. /\ u.cycle_history = Marked(row.cycle_history, Cell(row)) /\ u.mem_addr = MemAddr(row)
      /\ row.pc \in Word /\ CYCLE_COUNT \in Nat
      /\ row.cycle_history = [c \in DOMAIN row.cycle_history |-> row.cycle_history[c]]
      /\ DOMAIN row.cycle_history \subseteq {c \in Nat : c < CYCLE_COUNT}
  BY UpdatedRow DEF TraceInvariant, TraceTypeOK, IsRow, IsRecord
<1>2. Place(row.pc) = 0
  BY <1>1, NeverMatched DEF TraceInvariant
<1>3. u.mem_addr = NULL
  BY <1>1, <1>2 DEF MemAddr, OnlyFetched
<1> DEFINE cells == row.cycle_history
           next == u.cycle_history
<1>4. cells = <<>> <=> DOMAIN cells = {}
  <2>1. DOMAIN <<>> = {}
    OBVIOUS
  <2>2. DOMAIN cells = {} => cells = <<>>
    BY <1>1
  <2> QED BY <2>1, <2>2
<1>5. Cell(row) = IF DOMAIN cells = {} THEN "F" ELSE " "
  <2>1. StageChar(row) = IF DOMAIN cells = {} THEN "F" ELSE " "
    BY <1>2, <1>4 DEF StageChar
  <2>2. \A s \in Stallable : Letter[s] # "F" /\ Letter[s] # " "
    BY Letters
  <2>3. \A s \in Stallable : StageChar(row) # Letter[s]
    BY <2>1, <2>2
  <2>4. StallsIn(row) = {}
    BY <2>3 DEF StallsIn
  <2> QED BY <2>1, <2>4 DEF Cell
<1>6. /\ DOMAIN next = DOMAIN cells \cup {CYCLE_COUNT}
      /\ \A c \in DOMAIN next : next[c] = IF c = CYCLE_COUNT THEN Cell(row) ELSE cells[c]
  BY <1>1 DEF Marked
<1>7. \A c \in DOMAIN cells : cells[c] = IF \E d \in DOMAIN cells : d < c THEN " " ELSE "F"
  BY DEF OnlyFetched
<1>8. DOMAIN cells \subseteq {c \in Nat : c < CYCLE_COUNT}
  BY <1>1
<1> HIDE DEF cells, next
<1>9. ASSUME NEW c \in DOMAIN next
      PROVE  next[c] = IF \E d \in DOMAIN next : d < c THEN " " ELSE "F"
  <2>1. CASE c = CYCLE_COUNT
    <3>1. (\E d \in DOMAIN next : d < c) <=> DOMAIN cells # {}
      BY <1>1, <1>6, <1>8, <2>1
    <3> QED BY <1>5, <1>6, <2>1, <3>1
  <2>2. CASE c # CYCLE_COUNT
    <3>1. c \in DOMAIN cells /\ c \in Nat /\ c < CYCLE_COUNT
      BY <1>6, <1>8, <2>2
    <3>2. (\E d \in DOMAIN next : d < c) <=> \E d \in DOMAIN cells : d < c
      BY <1>1, <1>6, <3>1
    <3> QED BY <1>6, <1>7, <2>2, <3>1, <3>2
  <2> QED BY <2>1, <2>2
<1>10. OnlyFetched(u)
  BY <1>3, <1>9 DEF OnlyFetched, next
<1>11. ~Retired(u)
  BY <1>9 DEF Retired, next
<1> QED BY <1>10, <1>11

LEMMA LastWordsMove ==
  ASSUME TraceInvariant, at = "MOVE", UpdateHistory
  PROVE  LastWordsUnmatched'
<1>1. instruction_history' = [i \in DOMAIN Rows |-> Updated(Rows[i])]
  BY DEF UpdateHistory
<1>2. IsList(Rows) /\ \A i \in DOMAIN Rows : IsRow(Rows[i])
  BY RowsType
<1>3. ASSUME NEW i \in DOMAIN Rows, Rows[i].pc >= WordSize - 2 PROVE OnlyFetched(Rows[i])
  <2>1. CASE i \in DOMAIN instruction_history /\ Rows[i] = instruction_history[i]
    BY <1>3, <2>1 DEF TraceInvariant, LastWordsUnmatched
  <2>2. CASE Rows[i] = NewTrace
    <3>1. DOMAIN <<>> = {}
      OBVIOUS
    <3> QED BY <2>2, <3>1 DEF NewTrace, OnlyFetched
  <2>3. CASE ~IsNewInstruction
    BY <2>1, <2>3 DEF Rows
  <2>4. CASE IsNewInstruction
    <3> DEFINE old == instruction_history
               n == Len(instruction_history)
    <3>1. IsList(old) /\ n \in Nat /\ DOMAIN old = 1..n
      BY ListPlaces DEF TraceInvariant, TraceTypeOK
    <3>2. /\ DOMAIN Rows = 1..(n + 1) /\ Rows[n + 1] = NewTrace
          /\ \A j \in 1..n : Rows[j] = old[j]
      BY <2>4, <3>1, AppendPlaces DEF Rows
    <3> HIDE DEF n
    <3>3. i \in 1..n \/ i = n + 1
      BY <3>1, <3>2
    <3> QED BY <2>1, <2>2, <3>1, <3>2, <3>3
  <2> QED BY <2>3, <2>4
<1>4. ASSUME NEW i \in DOMAIN Rows, NEW u, u = Updated(Rows[i]), u.pc >= WordSize - 2
      PROVE  OnlyFetched(u) /\ ~Retired(u)
  <2>1. u.pc = Rows[i].pc /\ IsRow(Rows[i])
    BY <1>2, <1>4, UpdatedRow
  <2> QED BY <1>3, <1>4, <2>1, OnlyFetchedKept
<1> QED BY <1>1, <1>4 DEF LastWordsUnmatched, OnlyFetched, Retired

(* A fetched instruction is in DECODE in the next cycle, its row and its entry begin alike. *)
LEMMA FetchedMoves ==
  ASSUME TraceInvariant, AllTraced, MoveLatch, ~Confusing, NewlyFetched,
         NEW o, o = NEW_PS["DECODE"].instruction,
         NEW u, u = Updated(NewTrace), NEW f, f = Followed(Entry(o))
  PROVE  /\ o \in Obj /\ o # NULL /\ SameTrace(u, f) /\ f.pc = AddressOf(heap[o]) /\ f.object = o
         /\ HoldersOf(o)' = {"DECODE"}
         /\ heap[o].NPC = f.pc + 2
         /\ Recorded(o) = FromDecode(f.cells)
         /\ u.mem_addr = NULL /\ f.mem_addr = NULL
<1> DEFINE e == Entry(o)
<1>1. at = "MOVE" /\ PS' = NEW_PS /\ ~DecodeHeld /\ NEW_PS["DECODE"].V
  BY DEF MoveLatch, NewlyFetched
<1>2. /\ o \in Obj /\ o # NULL
      /\ \A t \in Stages : PS[t].instruction # o
  BY <1>1, NewLatches, ObjAssumption DEF TraceInvariant
<1>3. /\ IsNewInstruction
      /\ NewTrace.pc = AddressOf(heap[o]) /\ NewTrace.cycle_history = <<>> /\ NewTrace.mem_addr = NULL
      /\ IsRow(NewTrace) /\ IsEntry(e)
  <2>1. IsNewInstruction /\ NewTrace.pc = AddressOf(heap[o])
    BY <1>1, RowForEachFetch
  <2>2. IsRow(NewTrace) /\ IsEntry(e)
    BY <1>1, <2>1, NewTraceType
  <2> QED BY <2>1, <2>2 DEF NewTrace
<1>4. e.object = o /\ e.pc = AddressOf(heap[o]) /\ e.cells = <<>> /\ e.mem_addr = NULL
  BY DEF Entry
<1>5. Place(NewTrace.pc) = 0 /\ Cell(NewTrace) = "F" /\ HoldersOf(o) = {}
  BY <1>1, <1>3, FetchedCell
<1>6. TrueCell(e) = "F"
  BY <1>4, <1>5 DEF TrueCell
<1>7. f.pc = e.pc /\ f.cells = Marked(<<>>, "F") /\ f.object = o /\ f.mem_addr = NULL
  BY <1>2, <1>3, <1>4, <1>5, <1>6, FollowedEntry
<1>8. /\ u.pc = NewTrace.pc
      /\ u.cycle_history = Marked(<<>>, "F")
      /\ u.mem_addr = NULL
  BY <1>3, <1>5, UpdatedRow DEF MemAddr
<1>9. CYCLE_COUNT \in Nat /\ IsRecord(<<>>)
  BY <1>3 DEF TraceInvariant, TraceTypeOK, IsRow
<1>10. ~Retired(NewTrace) /\ Printed(NewTrace) = <<>>
  BY <1>3, <1>9, PrintedWhole DEF Retired
<1>11. Printed(u) = f.cells /\ ~Retired(u)
  <2>1. u.cycle_history = Marked(NewTrace.cycle_history, "F")
    BY <1>3, <1>8
  <2> QED BY <1>3, <1>7, <1>9, <1>10, <2>1, PrintedMarked
<1>12. SameTrace(u, f)
  BY <1>2, <1>3, <1>4, <1>7, <1>8, <1>11 DEF SameTrace
<1>13. FromDecode(f.cells) = <<>>
  <2> DEFINE cells == f.cells
             D == {d \in DOMAIN cells : cells[d] # "F"}
  <2>1. DOMAIN cells = {CYCLE_COUNT} /\ cells[CYCLE_COUNT] = "F"
    <3>1. DOMAIN <<>> = {}
      OBVIOUS
    <3> QED BY <1>7, <3>1 DEF Marked
  <2>2. D = {}
    BY <2>1
  <2>3. FromDecode(f.cells) = [c \in D |-> cells[c]]
    BY DEF FromDecode
  <2> HIDE DEF D, cells
  <2> QED BY <2>2, <2>3
<1>14. Recorded(o) = <<>>
  <2>1. Recorded(o) = cycle_history[o]
    BY <1>1, <1>2, RecordStays
  <2> QED BY <1>1, <2>1 DEF TraceInvariant, RecordsStart
<1>15. HoldersOf(o)' = {"DECODE"}
  <2>1. ASSUME NEW s \in Stages, NEW_PS[s].V, NEW_PS[s].instruction = o PROVE s = "DECODE"
    BY <1>1, <1>2, <2>1, NewLatches DEF TraceInvariant
  <2>2. "DECODE" \in Stages
    BY DEF Stages
  <2>3. \A s : s \in HoldersOf(o)' <=> s \in Stages /\ NEW_PS[s].instruction = o /\ NEW_PS[s].V
    BY <1>1 DEF HoldersOf
  <2> QED BY <1>1, <2>1, <2>2, <2>3
<1>16. heap[o].NPC = f.pc + 2
  <2>1. heap[o].NPC \in Word
    BY <1>2 DEF TraceInvariant, ControlInvariant, TypeOK, Instruction
  <2>2. ~(heap[o].NPC < 2) /\ heap[o].NPC \in Int
    BY <2>1, WordIsNat DEF Confusing
  <2> QED BY <1>4, <1>7, <2>1, <2>2, RowAddress DEF AddressOf
<1>17. f.pc = AddressOf(heap[o])
  BY <1>4, <1>7
<1>18. Recorded(o) = FromDecode(f.cells)
  BY <1>13, <1>14
<1> QED BY <1>2, <1>7, <1>8, <1>12, <1>15, <1>16, <1>17, <1>18

(* What has been fetched before goes through the end of the cycle with its row. *)
LEMMA EntryMoves ==
  ASSUME TraceInvariant, AllTraced, MoveLatch, ~Confusing, NEW i \in DOMAIN fetched,
         NEW row \in ToSet(Rows), row = instruction_history[i],
         NEW u, u = Updated(row), NEW f, f = Followed(fetched[i])
  PROVE  /\ SameTrace(u, f) /\ f.pc = fetched[i].pc
         /\ fetched[i].object = NULL => f.object = NULL
         /\ fetched[i].object # NULL =>
              f.object = IF PS["STORE"].V /\ PS["STORE"].instruction = fetched[i].object
                         THEN NULL ELSE fetched[i].object
         /\ f.object # NULL =>
              /\ f.object \in Obj
              /\ \E s \in Stages : {t \in Stages : NEW_PS[t].instruction = f.object /\ NEW_PS[t].V} = {s}
              /\ heap[f.object].NPC = f.pc + 2
              /\ Recorded(f.object) = FromDecode(f.cells)
<1>1. at = "MOVE" /\ PS' = NEW_PS
  BY DEF MoveLatch
<1>2. IsRow(row) /\ SameTrace(row, fetched[i]) /\ fetched[i].object \in Obj \cup {NULL}
  BY DEF TraceInvariant, TraceTypeOK, IsEntry, AllTraced, RowsFollow
<1>3. CASE fetched[i].object = NULL
  <2>1. f = fetched[i] /\ SameTrace(u, f)
    BY <1>1, <1>2, <1>3, RetiredMoves
  <2> QED BY <1>3, <2>1
<1>4. CASE fetched[i].object # NULL
  <2>1. PICK o : o = fetched[i].object
    OBVIOUS
  <2>2. o \in Obj
    BY <1>2, <1>4, <2>1
  <2>3. /\ SameTrace(u, f) /\ f.pc = fetched[i].pc
        /\ f.object = IF PS["STORE"].V /\ PS["STORE"].instruction = o THEN NULL ELSE o
        /\ f.object # NULL =>
             /\ \E s \in Stages : HoldersOf(o)' = {s}
             /\ Recorded(o) = FromDecode(f.cells)
    BY <1>2, <2>2, <2>1, InFlightMoves
  <2>4. HoldersOf(o)' = {t \in Stages : NEW_PS[t].instruction = o /\ NEW_PS[t].V}
    BY <1>1 DEF HoldersOf
  <2>5. heap[o].NPC = fetched[i].pc + 2
    BY <1>4, <2>1 DEF AllTraced, InFlightTraced, IsTraced
  <2>6. f.object # NULL => f.object = o
    BY <2>3
  <2> QED BY <1>4, <2>2, <2>1, <2>3, <2>4, <2>5, <2>6
<1> QED BY <1>3, <1>4

LEMMA MoveTraced ==
  ASSUME TraceInvariant, AllTraced, MoveLatch, UpdateHistory, ~Confusing,
         fetched' = [i \in DOMAIN Entries |-> Followed(Entries[i])]
  PROVE  AllTraced'
<1> DEFINE R == instruction_history'
           F == fetched'
           o == NEW_PS["DECODE"].instruction
<1>1. at = "MOVE" /\ PS' = NEW_PS /\ heap' = heap
  BY DEF MoveLatch
<1>2. /\ R = [i \in DOMAIN Rows |-> Updated(Rows[i])]
      /\ cycle_history' = [x \in Obj |-> Recorded(x)]
  BY DEF UpdateHistory
<1>3. PICK n \in Nat :
        /\ DOMAIN fetched = 1..n /\ DOMAIN Rows = DOMAIN Entries
        /\ \A i \in 1..n : /\ i \in DOMAIN Rows /\ Rows[i] \in ToSet(Rows)
                           /\ Rows[i] = instruction_history[i] /\ Entries[i] = fetched[i]
        /\ ~NewlyFetched => DOMAIN Rows = 1..n
        /\ NewlyFetched => /\ DOMAIN Rows = 1..(n + 1)
                           /\ Rows[n + 1] = NewTrace
                           /\ Entries[n + 1] = Entry(o)
  BY <1>1, MoveLists
<1>4. /\ DOMAIN R = DOMAIN F /\ DOMAIN F = DOMAIN Rows
      /\ \A i \in DOMAIN F : i \in 1..n \/ (NewlyFetched /\ i = n + 1)
      /\ \A i \in DOMAIN F : i \in Nat
  <2>1. DOMAIN R = DOMAIN F /\ DOMAIN F = DOMAIN Rows
    BY <1>2, <1>3
  <2>2. n + 1 \in Nat /\ \A i \in 1..(n + 1) : i \in 1..n \/ i = n + 1
    OBVIOUS
  <2> QED BY <1>3, <2>1, <2>2
<1>5. ASSUME NEW i \in 1..n
      PROVE  /\ i \in DOMAIN F
             /\ SameTrace(R[i], F[i]) /\ F[i].pc = fetched[i].pc
             /\ fetched[i].object = NULL => F[i].object = NULL
             /\ fetched[i].object # NULL =>
                  F[i].object = IF PS["STORE"].V /\ PS["STORE"].instruction = fetched[i].object
                                THEN NULL ELSE fetched[i].object
             /\ F[i].object # NULL =>
                  /\ F[i].object \in Obj
                  /\ \E s \in Stages : {t \in Stages : NEW_PS[t].instruction = F[i].object /\ NEW_PS[t].V} = {s}
                  /\ heap[F[i].object].NPC = F[i].pc + 2
                  /\ Recorded(F[i].object) = FromDecode(F[i].cells)
  <2> DEFINE u == R[i]
             f == F[i]
             row == Rows[i]
  <2>1. i \in DOMAIN Rows /\ row \in ToSet(Rows) /\ row = instruction_history[i] /\ Entries[i] = fetched[i]
    BY <1>3
  <2>2. u = Updated(row) /\ f = Followed(fetched[i]) /\ i \in DOMAIN F /\ i \in DOMAIN fetched
    BY <1>2, <1>3, <1>4, <2>1
  <2> HIDE DEF u, f, row
  <2>3. /\ SameTrace(u, f) /\ f.pc = fetched[i].pc
        /\ fetched[i].object = NULL => f.object = NULL
        /\ fetched[i].object # NULL =>
             f.object = IF PS["STORE"].V /\ PS["STORE"].instruction = fetched[i].object
                        THEN NULL ELSE fetched[i].object
        /\ f.object # NULL =>
             /\ f.object \in Obj
             /\ \E s \in Stages : {t \in Stages : NEW_PS[t].instruction = f.object /\ NEW_PS[t].V} = {s}
             /\ heap[f.object].NPC = f.pc + 2
             /\ Recorded(f.object) = FromDecode(f.cells)
    BY <2>1, <2>2, EntryMoves
  <2> QED BY <2>2, <2>3 DEF u, f
<1>6. ASSUME NewlyFetched
      PROVE  /\ n + 1 \in DOMAIN F
             /\ o \in Obj /\ SameTrace(R[n + 1], F[n + 1]) /\ F[n + 1].pc = AddressOf(heap[o])
             /\ F[n + 1].object = o
             /\ {t \in Stages : NEW_PS[t].instruction = o /\ NEW_PS[t].V} = {"DECODE"}
             /\ heap[o].NPC = F[n + 1].pc + 2
             /\ Recorded(o) = FromDecode(F[n + 1].cells)
             /\ R[n + 1].mem_addr = NULL /\ F[n + 1].mem_addr = NULL
  <2> DEFINE u == R[n + 1]
             f == F[n + 1]
  <2>1. PICK x : x = o
    OBVIOUS
  <2>2. n + 1 \in DOMAIN Rows /\ n + 1 \in DOMAIN F
    BY <1>3, <1>4, <1>6
  <2>3. u = Updated(NewTrace) /\ f = Followed(Entry(x)) /\ x = NEW_PS["DECODE"].instruction
    BY <1>2, <1>3, <1>6, <2>1, <2>2
  <2> HIDE DEF u, f, o
  <2>4. /\ x \in Obj /\ SameTrace(u, f) /\ f.pc = AddressOf(heap[x]) /\ f.object = x
        /\ HoldersOf(x)' = {"DECODE"}
        /\ heap[x].NPC = f.pc + 2
        /\ Recorded(x) = FromDecode(f.cells)
        /\ u.mem_addr = NULL /\ f.mem_addr = NULL
    BY <1>6, <2>3, FetchedMoves
  <2>5. {t \in Stages : NEW_PS[t].instruction = x /\ NEW_PS[t].V} = {"DECODE"}
    BY <1>1, <2>4 DEF HoldersOf
  <2> QED BY <2>1, <2>2, <2>3, <2>4, <2>5 DEF u, f
<1> HIDE DEF o
<1>7. RowsFollow'
  <2>1. \A i \in DOMAIN F : SameTrace(R[i], F[i])
    BY <1>4, <1>5, <1>6
  <2> QED BY <1>4, <2>1 DEF RowsFollow, SameTrace, Printed, Retired
<1>8. InFlightTraced'
  <2> SUFFICES ASSUME NEW i \in DOMAIN F, F[i].object # NULL
               PROVE  /\ \E s \in Stages : {t \in Stages : NEW_PS[t].instruction = F[i].object /\ NEW_PS[t].V} = {s}
                      /\ heap[F[i].object].NPC = F[i].pc + 2
                      /\ cycle_history'[F[i].object] = FromDecode(F[i].cells)
    BY <1>1 DEF InFlightTraced, IsTraced, HoldersOf, FromDecode
  <2>1. CASE i \in 1..n
    BY <1>2, <1>5, <2>1
  <2>2. CASE NewlyFetched /\ i = n + 1
    <3>1. "DECODE" \in Stages
      BY DEF Stages
    <3> QED BY <1>2, <1>6, <2>2, <3>1
  <2> QED BY <1>4, <2>1, <2>2
<1>9. ASSUME NEW s \in Stages, NEW_PS[s].V, NEW i \in 1..n, fetched[i].object = NEW_PS[s].instruction
      PROVE  F[i].object = NEW_PS[s].instruction
  <2>1. PICK x : x = NEW_PS[s].instruction
    OBVIOUS
  <2>2. x \in Obj /\ x # NULL
    BY <1>9, <2>1, ValidObjects, ObjAssumption DEF TraceInvariant
  <2>3. s \in HoldersOf(x)'
    BY <1>1, <1>9, <2>1 DEF HoldersOf
  <2>4. ~("STORE" \in HoldersOf(x))
    BY <1>1, <2>2, <2>3, AdvanceFollows DEF TraceInvariant, Advance
  <2>5. ~(PS["STORE"].V /\ PS["STORE"].instruction = x)
    BY <2>4 DEF HoldersOf, Stages
  <2> QED BY <1>5, <1>9, <2>2, <2>5, <2>1
<1>10. ASSUME NEW s \in Stages, NEW_PS[s].V
       PROVE  \E i \in DOMAIN F : F[i].object = NEW_PS[s].instruction
  <2>1. CASE s = "DECODE" /\ ~DecodeHeld
    BY <1>6, <1>10, <2>1 DEF NewlyFetched, o
  <2>2. CASE \E t \in Stages : PS[t].V /\ PS[t].instruction = NEW_PS[s].instruction
    <3>1. PICK i \in 1..n : fetched[i].object = NEW_PS[s].instruction
      BY <1>3, <2>2 DEF AllTraced, LatchesTraced
    <3> QED BY <1>5, <1>9, <1>10, <3>1
  <2> QED BY <1>1, <1>10, <2>1, <2>2, NewLatches DEF TraceInvariant
<1>11. ASSUME NEW_PS["DECODE"].V, NEW i \in DOMAIN F, i + 1 \notin DOMAIN F
       PROVE  F[i].object = NEW_PS["DECODE"].instruction
  <2>1. CASE NewlyFetched
    <3>1. i = n + 1
      <4>1. i \in 1..n => i + 1 \in DOMAIN F
        <5>1. DOMAIN F = 1..(n + 1)
          BY <1>3, <1>4, <2>1
        <5> HIDE DEF F
        <5> QED BY <5>1
      <4> QED BY <1>4, <1>11, <4>1
    <3> QED BY <1>6, <2>1, <3>1 DEF o
  <2>2. CASE ~NewlyFetched
    <3>1. DOMAIN F = 1..n /\ i \in 1..n /\ i + 1 \notin DOMAIN fetched
      BY <1>3, <1>4, <1>11, <2>2
    <3>2. PS["DECODE"].V /\ PS["DECODE"].instruction = NEW_PS["DECODE"].instruction
      BY <1>1, <1>11, <2>2, NewLatches DEF NewlyFetched, TraceInvariant, SameContent
    <3>3. fetched[i].object = NEW_PS["DECODE"].instruction
      BY <1>3, <3>1, <3>2 DEF AllTraced, LatchesTraced
    <3> QED BY <1>9, <1>11, <3>1, <3>3 DEF Stages
  <2> QED BY <2>1, <2>2
<1>12. LatchesTraced'
  BY <1>1, <1>10, <1>11 DEF LatchesTraced
<1>13. OneAtATime'
  <2> SUFFICES ASSUME NEW i \in DOMAIN F, NEW j \in DOMAIN F, i < j, F[i].pc = F[j].pc
               PROVE  F[i].object = NULL
    BY DEF OneAtATime
  <2>1. i \in 1..n
    <3>1. i \in Nat /\ j \in Nat /\ (j \in 1..n \/ j = n + 1)
      BY <1>4
    <3> HIDE DEF F
    <3>2. i < n + 1
      BY <3>1
    <3>3. i # n + 1
      BY <3>1, <3>2
    <3> QED BY <1>4, <3>3 DEF F
  <2>2. CASE j \in 1..n
    <3>1. fetched[i].pc = fetched[j].pc
      BY <1>5, <2>1, <2>2
    <3>2. fetched[i].object = NULL
      BY <1>3, <2>1, <2>2, <3>1 DEF AllTraced, OneAtATime
    <3> QED BY <1>5, <2>1, <3>2
  <2>3. CASE NewlyFetched /\ j = n + 1
    <3>1. fetched[i].pc = AddressOf(heap[o])
      BY <1>5, <1>6, <2>1, <2>3
    <3>2. fetched[i].object = NULL
      BY <1>3, <2>1, <2>3, <3>1 DEF Confusing, o
    <3> QED BY <1>5, <2>1, <3>2
  <2> QED BY <1>4, <2>2, <2>3
<1>14. ASSUME NEW i \in 1..n
       PROVE  /\ F[i].mem_addr = IF UsesCache(fetched[i]) THEN heap[fetched[i].object].ADDRESS
                                 ELSE fetched[i].mem_addr
              /\ UsesCache(fetched[i]) => heap[fetched[i].object].ADDRESS # NULL
              /\ \A j \in 1..n : UsesCache(fetched[j]) /\ fetched[j].pc = fetched[i].pc =>
                                 R[i].mem_addr = heap[fetched[j].object].ADDRESS
              /\ (\A j \in 1..n : UsesCache(fetched[j]) => fetched[j].pc # fetched[i].pc)
                   => R[i].mem_addr = instruction_history[i].mem_addr
  <2> DEFINE u == R[i]
             f == F[i]
             row == Rows[i]
  <2>1. i \in DOMAIN Rows /\ row = instruction_history[i] /\ Entries[i] = fetched[i]
    BY <1>3
  <2>2. u = Updated(row) /\ f = Followed(fetched[i]) /\ i \in DOMAIN fetched
    BY <1>2, <1>3, <1>4, <2>1
  <2> HIDE DEF u, f, row
  <2>3. /\ f.mem_addr = IF UsesCache(fetched[i]) THEN heap[fetched[i].object].ADDRESS
                        ELSE fetched[i].mem_addr
        /\ UsesCache(fetched[i]) => heap[fetched[i].object].ADDRESS # NULL
        /\ \A j \in 1..n : UsesCache(fetched[j]) /\ fetched[j].pc = fetched[i].pc =>
                           u.mem_addr = heap[fetched[j].object].ADDRESS
        /\ (\A j \in 1..n : UsesCache(fetched[j]) => fetched[j].pc # fetched[i].pc)
             => u.mem_addr = instruction_history[i].mem_addr
    BY <1>3, <2>1, <2>2, AddressMoves
  <2> QED BY <2>3 DEF u, f
<1>15. AddressesFollow'
  <2> DEFINE later(i) == {j \in DOMAIN F : j >= i /\ F[j].pc = F[i].pc /\ F[j].mem_addr # NULL}
  <2> SUFFICES ASSUME NEW i \in DOMAIN F
               PROVE  IF later(i) = {} THEN R[i].mem_addr = NULL
                      ELSE \E j \in later(i) : /\ \A k \in later(i) : k <= j
                                               /\ R[i].mem_addr = F[j].mem_addr
    BY DEF AddressesFollow, ShowsLastRound, Rounds
  <2>1. CASE NewlyFetched /\ i = n + 1
    <3>1. \A j \in DOMAIN F : j >= i => j = n + 1
      BY <1>4, <2>1
    <3>2. later(i) = {}
      BY <1>6, <2>1, <3>1
    <3> QED BY <1>6, <2>1, <3>2
  <2>2. ASSUME i \in 1..n
        PROVE  \A j : j \in later(i) <=>
                        j \in 1..n /\ j >= i /\ fetched[j].pc = fetched[i].pc /\ F[j].mem_addr # NULL
    <3>1. \A j \in DOMAIN F : F[j].mem_addr # NULL => j \in 1..n
      BY <1>4, <1>6
    <3>2. \A j \in 1..n : j \in DOMAIN F /\ F[j].pc = fetched[j].pc
      BY <1>5
    <3> HIDE DEF F
    <3> QED BY <2>2, <3>1, <3>2
  <2>3. CASE i \in 1..n /\ \E j \in 1..n : UsesCache(fetched[j]) /\ fetched[j].pc = fetched[i].pc
    <3>1. PICK j \in 1..n : UsesCache(fetched[j]) /\ fetched[j].pc = fetched[i].pc
      BY <2>3
    <3>2. ASSUME NEW k \in 1..n, fetched[k].pc = fetched[i].pc PROVE k <= j
      <4>1. ~(j < k)
        BY <1>3, <3>1, <3>2 DEF AllTraced, OneAtATime, UsesCache
      <4> QED BY <4>1
    <3>3. R[i].mem_addr = F[j].mem_addr /\ F[j].mem_addr # NULL
      BY <1>14, <2>3, <3>1
    <3>4. j >= i
      BY <2>3, <3>2
    <3>5. j \in later(i)
      BY <2>2, <2>3, <3>1, <3>3, <3>4
    <3>6. \A k \in later(i) : k <= j
      BY <2>2, <2>3, <3>2
    <3> HIDE DEF later
    <3> QED BY <3>3, <3>5, <3>6
  <2>4. CASE i \in 1..n /\ \A j \in 1..n : UsesCache(fetched[j]) => fetched[j].pc # fetched[i].pc
    <3>1. R[i].mem_addr = instruction_history[i].mem_addr
      BY <1>14, <2>4
    <3>2. ASSUME NEW j \in 1..n, fetched[j].pc = fetched[i].pc PROVE F[j].mem_addr = fetched[j].mem_addr
      BY <1>14, <2>4, <3>2
    <3>3. \A j : j \in later(i) <=> j \in Rounds(i)
      BY <1>3, <2>2, <2>4, <3>2 DEF Rounds
    <3>4. \A j \in Rounds(i) : F[j].mem_addr = fetched[j].mem_addr
      BY <1>3, <3>2 DEF Rounds
    <3>5. ShowsLastRound(i)
      BY <1>3, <2>4 DEF AllTraced, AddressesFollow
    <3> HIDE DEF later, F, R
    <3>6. later(i) = Rounds(i)
      BY <3>3
    <3> QED BY <3>1, <3>4, <3>5, <3>6 DEF ShowsLastRound
  <2> QED BY <1>4, <2>1, <2>3, <2>4
<1> QED BY <1>7, <1>8, <1>12, <1>13, <1>15 DEF AllTraced

LEMMA MoveTypes ==
  ASSUME TraceInvariant, at = "MOVE", UpdateHistory, confused' \in BOOLEAN,
         fetched' = [i \in DOMAIN Entries |-> Followed(Entries[i])]
  PROVE  TraceTypeOK'
<1>1. /\ instruction_history' = [i \in DOMAIN Rows |-> Updated(Rows[i])]
      /\ cycle_history' = [o \in Obj |-> Recorded(o)]
      /\ CYCLE_COUNT' = CYCLE_COUNT + 1 /\ current_stage' = current_stage
      /\ TraceTypeOK /\ CYCLE_COUNT \in Nat
  BY DEF UpdateHistory, TraceInvariant, TraceTypeOK
<1>2. IsList(instruction_history)' /\ \A i \in DOMAIN instruction_history' : IsRow(instruction_history[i])'
  <2>1. IsList(Rows) /\ \A i \in DOMAIN Rows : IsRow(Rows[i])
    BY RowsType
  <2>2. Len(Rows) \in Nat /\ DOMAIN Rows = 1..Len(Rows)
    BY <2>1, ListPlaces
  <2>3. ASSUME NEW i \in DOMAIN Rows PROVE IsRow(instruction_history[i])'
    <3>1. PICK u : u = Updated(Rows[i])
      OBVIOUS
    <3>2. IsRow(u)'
      BY <1>1, <2>1, <3>1, UpdatedType
    <3>3. instruction_history'[i] = u
      BY <1>1, <3>1
    <3> QED BY <3>2, <3>3 DEF IsRow, IsRecord
  <2> DEFINE t == instruction_history'
             n == Len(Rows)
  <2>4. t = [i \in 1..n |-> t[i]] /\ DOMAIN t = DOMAIN Rows
    BY <1>1, <2>2
  <2> HIDE DEF t, n
  <2>5. IsList(t)
    BY <2>2, <2>4, PlacesList DEF n
  <2> QED BY <2>3, <2>4, <2>5 DEF t, IsList
<1>3. IsList(fetched)' /\ \A i \in DOMAIN fetched' : IsEntry(fetched[i])'
  <2>1. IsList(Entries) /\ \A i \in DOMAIN Entries : IsEntry(Entries[i])
    BY EntriesType
  <2>2. Len(Entries) \in Nat /\ DOMAIN Entries = 1..Len(Entries)
    BY <2>1, ListPlaces
  <2>3. ASSUME NEW i \in DOMAIN Entries PROVE IsEntry(fetched[i])'
    <3>1. PICK f : f = Followed(Entries[i])
      OBVIOUS
    <3>2. IsEntry(f)'
      BY <1>1, <2>1, <3>1, FollowedType
    <3>3. fetched'[i] = f
      BY <3>1
    <3> QED BY <3>2, <3>3 DEF IsEntry, IsRecord
  <2> DEFINE t == fetched'
             n == Len(Entries)
  <2>4. t = [i \in 1..n |-> t[i]] /\ DOMAIN t = DOMAIN Entries
    BY <2>2
  <2> HIDE DEF t, n
  <2>5. IsList(t)
    BY <2>2, <2>4, PlacesList DEF n
  <2> QED BY <2>3, <2>4, <2>5 DEF t, IsList
<1>4. ASSUME NEW o \in Obj PROVE IsRecord(cycle_history[o])'
  <2>1. IsRecord(cycle_history[o])
    BY <1>1 DEF TraceTypeOK
  <2>2. PICK cells : cells = cycle_history[o]
    OBVIOUS
  <2>3. PICK r : r = Recorded(o)
    OBVIOUS
  <2>4. \/ r = cells
        \/ \E letter : r = Marked(cells, letter)
    BY <2>2, <2>3 DEF Recorded
  <2>5. IsRecord(r)'
    <3>1. IsRecord(cells)
      BY <2>1, <2>2
    <3> QED BY <1>1, <2>4, <3>1, RecordKept, MarkedRecord
  <2>6. cycle_history'[o] = r
    BY <1>1, <2>3
  <2> QED BY <2>5, <2>6 DEF IsRecord
<1>5. cycle_history' = [o \in Obj |-> cycle_history'[o]]
  BY <1>1
<1>6. CYCLE_COUNT' \in Nat
  BY <1>1
<1>7. current_stage' \in [Obj -> {"", "F", "D", "E", "M", "S"}]
  <2>1. current_stage \in [Obj -> {"", "F", "D", "E", "M", "S"}]
    BY <1>1 DEF TraceTypeOK
  <2> QED BY <1>1, <2>1
<1> QED BY <1>2, <1>3, <1>4, <1>5, <1>6, <1>7 DEF TraceTypeOK
-----------------------------------------------------------------------------
LEMMA KeptList ==
  ASSUME NEW s, IsList(s), NEW I, I \subseteq DOMAIN s, NEW t, t = Kept(s, I)
  PROVE  IsList(t) /\ \A k \in DOMAIN t : \E i \in DOMAIN s : t[k] = s[i]
<1>1. Len(s) \in Nat /\ DOMAIN s = 1..Len(s)
  BY ListPlaces
<1>2. PICK m \in Nat : \E h \in [1..m -> I] :
        /\ \A k, l \in 1..m : k < l => h[k] < h[l]
        /\ \A i \in I : \E k \in 1..m : h[k] = i
        /\ \A q : Kept(q, I) = [k \in 1..m |-> q[h[k]]]
  <2>1. I \in SUBSET (1..Len(s))
    BY <1>1
  <2> QED BY <1>1, <2>1, KeptPlaces, Zenon
<1>3. PICK h \in [1..m -> I] : t = [k \in 1..m |-> s[h[k]]]
  BY <1>2
<1>4. t = [k \in 1..m |-> t[k]]
  BY <1>3
<1>5. IsList(t)
  BY <1>4, PlacesList
<1> QED BY <1>3, <1>5

(* The dump forgets the rows of the instructions that have left and no others. *)
LEMMA DumpTypes ==
  ASSUME TraceInvariant, instruction_history' = Unretired, Forget,
         UNCHANGED <<CYCLE_COUNT, current_stage, cycle_history>>
  PROVE  TraceTypeOK'
<1>1. TraceTypeOK /\ confused' = confused
  BY DEF TraceInvariant, Forget
<1>2. IsList(instruction_history)' /\ \A i \in DOMAIN instruction_history' : IsRow(instruction_history[i])'
  <2> DEFINE I == {i \in DOMAIN instruction_history : ~Retired(instruction_history[i])}
             t == instruction_history'
  <2>1. I \subseteq DOMAIN instruction_history /\ t = Kept(instruction_history, I)
    BY DEF Unretired
  <2> HIDE DEF I, t
  <2>2. IsList(t) /\ \A k \in DOMAIN t : \E i \in DOMAIN instruction_history : t[k] = instruction_history[i]
    <3>1. IsList(instruction_history)
      BY <1>1 DEF TraceTypeOK
    <3> QED BY <2>1, <3>1, KeptList
  <2>3. \A k \in DOMAIN t : IsRow(t[k])
    BY <1>1, <2>2 DEF TraceTypeOK
  <2> QED BY <2>2, <2>3 DEF t, IsList, IsRow, IsRecord
<1>3. IsList(fetched)' /\ \A i \in DOMAIN fetched' : IsEntry(fetched[i])'
  <2> DEFINE I == {i \in DOMAIN fetched : fetched[i].object # NULL}
             t == fetched'
  <2>1. I \subseteq DOMAIN fetched /\ t = Kept(fetched, I)
    BY DEF Forget
  <2> HIDE DEF I, t
  <2>2. IsList(t) /\ \A k \in DOMAIN t : \E i \in DOMAIN fetched : t[k] = fetched[i]
    <3>1. IsList(fetched)
      BY <1>1 DEF TraceTypeOK
    <3> QED BY <2>1, <3>1, KeptList
  <2>3. \A k \in DOMAIN t : IsEntry(t[k])
    BY <1>1, <2>2 DEF TraceTypeOK
  <2> QED BY <2>2, <2>3 DEF t, IsList, IsEntry, IsRecord
<1>4. \A o \in Obj : IsRecord(cycle_history[o])'
  BY <1>1 DEF TraceTypeOK, IsRecord
<1> QED BY <1>1, <1>2, <1>3, <1>4 DEF TraceTypeOK

LEMMA LastWordsDump ==
  ASSUME TraceInvariant, instruction_history' = Unretired
  PROVE  LastWordsUnmatched'
<1> DEFINE I == {i \in DOMAIN instruction_history : ~Retired(instruction_history[i])}
           t == instruction_history'
<1>1. I \subseteq DOMAIN instruction_history /\ t = Kept(instruction_history, I)
  BY DEF Unretired
<1>2. IsList(instruction_history)
  BY DEF TraceInvariant, TraceTypeOK
<1> HIDE DEF I, t
<1>3. \A k \in DOMAIN t : \E i \in DOMAIN instruction_history : t[k] = instruction_history[i]
  BY <1>1, <1>2, KeptList
<1>4. ASSUME NEW k \in DOMAIN t, t[k].pc >= WordSize - 2 PROVE OnlyFetched(t[k]) /\ ~Retired(t[k])
  BY <1>3, <1>4 DEF TraceInvariant, LastWordsUnmatched
<1> QED BY <1>4 DEF t, LastWordsUnmatched, OnlyFetched, Retired

LEMMA DumpTraced ==
  ASSUME TraceInvariant, AllTraced, instruction_history' = Unretired, Forget,
         UNCHANGED <<heap, PS, CYCLE_COUNT, current_stage, cycle_history>>
  PROVE  AllTraced'
<1> DEFINE I == {i \in DOMAIN fetched : fetched[i].object # NULL}
           R == instruction_history'
           F == fetched'
           n == Len(fetched)
<1>1. /\ n \in Nat /\ DOMAIN fetched = 1..n
      /\ RowsFollow /\ InFlightTraced /\ LatchesTraced /\ OneAtATime /\ AddressesFollow
  BY ListPlaces DEF TraceInvariant, TraceTypeOK, AllTraced
<1>2. I = {i \in DOMAIN instruction_history : ~Retired(instruction_history[i])}
  BY <1>1 DEF RowsFollow, SameTrace
<1>3. R = Kept(instruction_history, I) /\ F = Kept(fetched, I)
  BY <1>2 DEF Unretired, Forget
<1>4. I \in SUBSET (1..n)
  BY <1>1
<1>5. PICK m \in Nat : \E h \in [1..m -> I] :
        /\ \A k, l \in 1..m : k < l => h[k] < h[l]
        /\ \A i \in I : \E k \in 1..m : h[k] = i
        /\ \A s : Kept(s, I) = [k \in 1..m |-> s[h[k]]]
  <2> HIDE DEF I, R, F, n
  <2> QED BY <1>1, <1>4, KeptPlaces, Zenon
<1>6. PICK h \in [1..m -> I] :
        /\ \A k, l \in 1..m : k < l => h[k] < h[l]
        /\ \A i \in I : \E k \in 1..m : h[k] = i
        /\ \A s : Kept(s, I) = [k \in 1..m |-> s[h[k]]]
  BY <1>5
<1>7. R = [k \in 1..m |-> instruction_history[h[k]]] /\ F = [k \in 1..m |-> fetched[h[k]]]
  BY <1>3, <1>6, Zenon
<1>8. DOMAIN R = 1..m /\ DOMAIN F = 1..m
  BY <1>6, <1>7
<1>9. ASSUME NEW k \in 1..m
      PROVE  /\ h[k] \in DOMAIN fetched /\ h[k] \in Nat /\ k \in Nat
             /\ R[k] = instruction_history[h[k]] /\ F[k] = fetched[h[k]] /\ fetched[h[k]].object # NULL
  <2>1. h[k] \in I
    BY <1>6, <1>7
  <2>2. R[k] = instruction_history[h[k]] /\ F[k] = fetched[h[k]]
    BY <1>6, <1>7
  <2>3. h[k] \in Nat
    BY <1>4, <2>1
  <2> QED BY <2>1, <2>2, <2>3
<1> HIDE DEF I, R, F, n
<1>10. RowsFollow'
  <2>1. \A k \in 1..m : SameTrace(R[k], F[k])
    BY <1>1, <1>9 DEF RowsFollow
  <2> QED BY <1>8, <2>1 DEF R, F, RowsFollow, SameTrace, Printed, Retired
<1>11. InFlightTraced'
  <2>1. \A k \in 1..m : IsTraced(F[k])
    BY <1>1, <1>9 DEF InFlightTraced
  <2> QED BY <1>8, <2>1 DEF F, InFlightTraced, IsTraced, HoldersOf, FromDecode
<1>12. LatchesTraced'
  <2>1. ASSUME NEW s \in Stages, PS[s].V PROVE \E k \in 1..m : F[k].object = PS[s].instruction
    <3>1. PS[s].instruction # NULL
      BY <2>1, ValidObjects, ObjAssumption DEF TraceInvariant
    <3>2. PICK i \in DOMAIN fetched : fetched[i].object = PS[s].instruction
      BY <1>1, <2>1 DEF LatchesTraced
    <3>3. i \in I
      BY <3>1, <3>2 DEF I
    <3> QED BY <1>6, <1>7, <1>9, <3>2, <3>3
  <2>2. ASSUME PS["DECODE"].V, NEW k \in 1..m, k + 1 \notin 1..m
        PROVE  F[k].object = PS["DECODE"].instruction
    <3>1. PS["DECODE"].instruction # NULL /\ "DECODE" \in Stages
      BY <2>2, ValidObjects, ObjAssumption DEF TraceInvariant, Stages
    <3>2. n >= 1 /\ n + 1 \notin 1..n /\ n \in DOMAIN fetched
      <4>1. h[k] \in 1..n
        BY <1>1, <1>9
      <4> QED BY <1>1, <4>1
    <3>3. fetched[n].object = PS["DECODE"].instruction
      BY <1>1, <2>2, <3>2 DEF LatchesTraced
    <3>4. n \in I
      BY <3>1, <3>2, <3>3 DEF I
    <3>5. PICK l \in 1..m : h[l] = n
      BY <1>6, <1>7, <3>4
    <3>6. k = m
      BY <1>9, <2>2
    <3>7. ~(l < k)
      <4>1. h[k] \in 1..n
        BY <1>1, <1>9
      <4>2. ~(h[l] < h[k])
        BY <1>1, <3>5, <4>1
      <4> QED BY <1>6, <1>7, <4>2
    <3>8. l = k
      <4>1. l <= m /\ l \in Nat
        BY <1>9
      <4> QED BY <3>6, <3>7, <4>1
    <3> QED BY <1>9, <3>3, <3>5, <3>8
  <2> QED BY <1>8, <2>1, <2>2 DEF F, LatchesTraced
<1>13. OneAtATime'
  <2> SUFFICES ASSUME NEW k \in 1..m, NEW l \in 1..m, k < l, F[k].pc = F[l].pc PROVE F[k].object = NULL
    BY <1>8 DEF F, OneAtATime
  <2>1. h[k] < h[l]
    BY <1>6, <1>7
  <2> QED BY <1>1, <1>9, <2>1 DEF OneAtATime
<1>14. AddressesFollow'
  <2> DEFINE later(k) == {j \in 1..m : j >= k /\ F[j].pc = F[k].pc /\ F[j].mem_addr # NULL}
  <2>1. ASSUME NEW k \in 1..m, NEW j \in DOMAIN fetched, j > h[k] PROVE fetched[j].pc # fetched[h[k]].pc
    <3>1. j \in Nat
      BY <1>1
    <3>2. h[k] < j
      BY <1>9, <2>1, <3>1
    <3> QED BY <1>1, <1>9, <3>2 DEF OneAtATime
  <2>2. ASSUME NEW k \in 1..m
        PROVE  IF later(k) = {} THEN R[k].mem_addr = NULL
               ELSE \E j \in later(k) : (\A l \in later(k) : l <= j) /\ R[k].mem_addr = F[j].mem_addr
    <3>1. ASSUME NEW j \in Rounds(h[k]) PROVE j = h[k]
      <4>1. j \in DOMAIN fetched /\ j >= h[k] /\ fetched[j].pc = fetched[h[k]].pc /\ j \in Nat
        BY <1>1, <3>1 DEF Rounds
      <4>2. ~(j > h[k])
        BY <2>1, <4>1
      <4> QED BY <1>9, <4>1, <4>2
    <3>2. ASSUME NEW j \in later(k) PROVE j = k
      <4>1. ~(k < j)
        BY <1>8, <1>9, <1>13, <3>2 DEF OneAtATime, F
      <4> QED BY <3>2, <4>1
    <3>3. ShowsLastRound(h[k])
      BY <1>1, <1>9 DEF AddressesFollow
    <3>4. CASE F[k].mem_addr = NULL
      <4>1. h[k] \notin Rounds(h[k])
        BY <1>9, <3>4 DEF Rounds
      <4>2. Rounds(h[k]) = {}
        BY <3>1, <4>1
      <4>3. R[k].mem_addr = NULL
        BY <1>9, <3>3, <4>2 DEF ShowsLastRound
      <4>4. later(k) = {}
        BY <3>2, <3>4
      <4> QED BY <4>3, <4>4
    <3>5. CASE F[k].mem_addr # NULL
      <4>1. h[k] \in Rounds(h[k])
        BY <1>9, <3>5 DEF Rounds
      <4>2. R[k].mem_addr = F[k].mem_addr
        BY <1>9, <3>1, <3>3, <4>1 DEF ShowsLastRound
      <4>3. k \in later(k)
        BY <3>5
      <4>4. \A l \in later(k) : l <= k
        BY <3>2
      <4> QED BY <4>2, <4>3, <4>4
    <3> QED BY <3>4, <3>5
  <2> QED BY <1>8, <2>2 DEF R, F, AddressesFollow, ShowsLastRound, Rounds
<1> QED BY <1>10, <1>11, <1>12, <1>13, <1>14 DEF AllTraced
-----------------------------------------------------------------------------
(* A stage leaves its letter, or clears the record of the object it creates, and nothing
   else of the trace changes. *)
LEMMA StageLetters ==
  ASSUME TraceInvariant, ControlInvariant', Next, at # "MOVE", EnterStage \/ EnterFetch
  PROVE  /\ PS' = PS
         /\ LettersFollow' /\ RecordsStart'
         /\ current_stage' \in [Obj -> {"", "F", "D", "E", "M", "S"}]
         /\ \/ cycle_history' = cycle_history
            \/ \E o \in Obj : /\ cycle_history' = [cycle_history EXCEPT ![o] = <<>>]
                             /\ \A s \in Stages : PS[s].instruction # o
<1>1. /\ ControlInvariant /\ LettersFollow
      /\ current_stage \in [Obj -> {"", "F", "D", "E", "M", "S"}]
      /\ cycle_history = [o \in Obj |-> cycle_history[o]]
  BY DEF TraceInvariant, TraceTypeOK
<1>2. PS' = PS
  BY <1>1, StagesKeep
<1>3. \A s \in Stages : /\ PS[s].V => PS[s].instruction \in Obj
                       /\ PS[s].instruction \in Obj \cup {NULL}
  BY <1>1, ValidObjects DEF ControlInvariant, TypeOK, Latch
<1>4. \A s \in Stages : \A t \in Behind(s) : PS[s].V => PS[s].instruction # PS[t].instruction
  BY <1>1 DEF ControlInvariant, OneOwner
<1>5. \A s \in {"STORE", "MEMORY", "AGEX", "DECODE"} : s \in Stages
  BY DEF Stages
<1>6. /\ PS["STORE"].V => /\ PS["STORE"].instruction # PS["MEMORY"].instruction
                         /\ PS["STORE"].instruction # PS["AGEX"].instruction
                         /\ PS["STORE"].instruction # PS["DECODE"].instruction
      /\ PS["MEMORY"].V => /\ PS["MEMORY"].instruction # PS["AGEX"].instruction
                          /\ PS["MEMORY"].instruction # PS["DECODE"].instruction
      /\ PS["AGEX"].V => PS["AGEX"].instruction # PS["DECODE"].instruction
  BY <1>4, <1>5 DEF Behind
<1>7. at \in Steps
  BY <1>1 DEF ControlInvariant, TypeOK
<1>8. ASSUME NEW s \in Stages, NEW c \in {"D", "E", "M", "S"},
             current_stage' = IF PS[s].instruction = NULL THEN current_stage
                              ELSE [current_stage EXCEPT ![PS[s].instruction] = c]
      PROVE  /\ current_stage' \in [Obj -> {"", "F", "D", "E", "M", "S"}]
             /\ PS[s].V => current_stage'[PS[s].instruction] = c
             /\ \A t \in Stages : PS[t].V /\ PS[t].instruction # PS[s].instruction =>
                   current_stage'[PS[t].instruction] = current_stage[PS[t].instruction]
  BY <1>1, <1>3, <1>8, ObjAssumption
<1>9. CASE at = "SR"
  <2>1. /\ current_stage' = IF PS["STORE"].instruction = NULL THEN current_stage
                            ELSE [current_stage EXCEPT ![PS["STORE"].instruction] = "S"]
        /\ cycle_history' = cycle_history
    BY <1>9 DEF EnterStage, EnterFetch, At, Letter
  <2>2. at' = "MEM"
    BY <1>9 DEF Next, SR_stage, MEM_stage, AGEX_stage, DE_stage, FETCH_stage, MoveLatch
  <2>3. ~AfterMEM' /\ ~AfterAGEX' /\ ~AfterDE'
    BY <2>2 DEF AfterMEM, AfterAGEX, AfterDE
  <2>4. /\ current_stage' \in [Obj -> {"", "F", "D", "E", "M", "S"}]
        /\ PS["STORE"].V => current_stage'[PS["STORE"].instruction] = "S"
    BY <1>5, <1>8, <2>1
  <2>5. LettersFollow'
    BY <1>2, <2>3, <2>4 DEF LettersFollow
  <2>6. RecordsStart'
    BY <2>2 DEF RecordsStart
  <2> QED BY <1>2, <2>1, <2>4, <2>5, <2>6
<1>10. CASE at = "MEM"
  <2>1. /\ current_stage' = IF PS["MEMORY"].instruction = NULL THEN current_stage
                            ELSE [current_stage EXCEPT ![PS["MEMORY"].instruction] = "M"]
        /\ cycle_history' = cycle_history
    BY <1>10 DEF EnterStage, EnterFetch, At, Letter
  <2>2. at' = "AGEX"
    BY <1>10 DEF Next, SR_stage, MEM_stage, AGEX_stage, DE_stage, FETCH_stage, MoveLatch
  <2>3. ~AfterAGEX' /\ ~AfterDE'
    BY <2>2 DEF AfterAGEX, AfterDE
  <2>4. /\ current_stage' \in [Obj -> {"", "F", "D", "E", "M", "S"}]
        /\ PS["MEMORY"].V => current_stage'[PS["MEMORY"].instruction] = "M"
        /\ PS["STORE"].V => current_stage'[PS["STORE"].instruction] = current_stage[PS["STORE"].instruction]
    <3>1. /\ current_stage' \in [Obj -> {"", "F", "D", "E", "M", "S"}]
          /\ PS["MEMORY"].V => current_stage'[PS["MEMORY"].instruction] = "M"
          /\ \A t \in Stages : PS[t].V /\ PS[t].instruction # PS["MEMORY"].instruction =>
                current_stage'[PS[t].instruction] = current_stage[PS[t].instruction]
      BY <1>5, <1>8, <2>1
    <3> QED BY <1>5, <1>6, <3>1
  <2>5. PS["STORE"].V => current_stage[PS["STORE"].instruction] = "S"
    BY <1>1, <1>10 DEF LettersFollow
  <2>6. LettersFollow'
    BY <1>2, <2>3, <2>4, <2>5 DEF LettersFollow
  <2>7. RecordsStart'
    BY <2>2 DEF RecordsStart
  <2> QED BY <1>2, <2>1, <2>4, <2>6, <2>7
<1>11. CASE at = "AGEX"
  <2>1. /\ current_stage' = IF PS["AGEX"].instruction = NULL THEN current_stage
                            ELSE [current_stage EXCEPT ![PS["AGEX"].instruction] = "E"]
        /\ cycle_history' = cycle_history
    BY <1>11 DEF EnterStage, EnterFetch, At, Letter
  <2>2. at' = "DE"
    BY <1>11 DEF Next, SR_stage, MEM_stage, AGEX_stage, DE_stage, FETCH_stage, MoveLatch
  <2>3. ~AfterDE'
    BY <2>2 DEF AfterDE
  <2>4. /\ current_stage' \in [Obj -> {"", "F", "D", "E", "M", "S"}]
        /\ PS["AGEX"].V => current_stage'[PS["AGEX"].instruction] = "E"
        /\ PS["STORE"].V => current_stage'[PS["STORE"].instruction] = current_stage[PS["STORE"].instruction]
        /\ PS["MEMORY"].V => current_stage'[PS["MEMORY"].instruction] = current_stage[PS["MEMORY"].instruction]
    <3>1. /\ current_stage' \in [Obj -> {"", "F", "D", "E", "M", "S"}]
          /\ PS["AGEX"].V => current_stage'[PS["AGEX"].instruction] = "E"
          /\ \A t \in Stages : PS[t].V /\ PS[t].instruction # PS["AGEX"].instruction =>
                current_stage'[PS[t].instruction] = current_stage[PS[t].instruction]
      BY <1>5, <1>8, <2>1
    <3> QED BY <1>5, <1>6, <3>1
  <2>5. /\ PS["STORE"].V => current_stage[PS["STORE"].instruction] = "S"
        /\ PS["MEMORY"].V => current_stage[PS["MEMORY"].instruction] = "M"
    BY <1>1, <1>11 DEF LettersFollow, AfterMEM
  <2>6. LettersFollow'
    BY <1>2, <2>3, <2>4, <2>5 DEF LettersFollow
  <2>7. RecordsStart'
    BY <2>2 DEF RecordsStart
  <2> QED BY <1>2, <2>1, <2>4, <2>6, <2>7
<1>12. CASE at = "DE"
  <2>1. /\ current_stage' = IF PS["DECODE"].instruction = NULL THEN current_stage
                            ELSE [current_stage EXCEPT ![PS["DECODE"].instruction] = "D"]
        /\ cycle_history' = cycle_history
    BY <1>12 DEF EnterStage, EnterFetch, At, Letter
  <2>2. at' = "FETCH"
    BY <1>12 DEF Next, SR_stage, MEM_stage, AGEX_stage, DE_stage, FETCH_stage, MoveLatch
  <2>3. /\ current_stage' \in [Obj -> {"", "F", "D", "E", "M", "S"}]
        /\ PS["DECODE"].V => current_stage'[PS["DECODE"].instruction] = "D"
        /\ PS["STORE"].V => current_stage'[PS["STORE"].instruction] = current_stage[PS["STORE"].instruction]
        /\ PS["MEMORY"].V => current_stage'[PS["MEMORY"].instruction] = current_stage[PS["MEMORY"].instruction]
        /\ PS["AGEX"].V => current_stage'[PS["AGEX"].instruction] = current_stage[PS["AGEX"].instruction]
    <3>1. /\ current_stage' \in [Obj -> {"", "F", "D", "E", "M", "S"}]
          /\ PS["DECODE"].V => current_stage'[PS["DECODE"].instruction] = "D"
          /\ \A t \in Stages : PS[t].V /\ PS[t].instruction # PS["DECODE"].instruction =>
                current_stage'[PS[t].instruction] = current_stage[PS[t].instruction]
      BY <1>5, <1>8, <2>1
    <3> QED BY <1>5, <1>6, <3>1
  <2>4. /\ PS["STORE"].V => current_stage[PS["STORE"].instruction] = "S"
        /\ PS["MEMORY"].V => current_stage[PS["MEMORY"].instruction] = "M"
        /\ PS["AGEX"].V => current_stage[PS["AGEX"].instruction] = "E"
    BY <1>1, <1>12 DEF LettersFollow, AfterMEM, AfterAGEX
  <2>5. LettersFollow'
    BY <1>2, <2>3, <2>4 DEF LettersFollow
  <2>6. RecordsStart'
    BY <2>2 DEF RecordsStart
  <2> QED BY <1>2, <2>1, <2>3, <2>5, <2>6
<1>13. CASE at = "FETCH"
  <2> DEFINE o == NEW_PS'["DECODE"].instruction
  <2>1. FETCH_stage /\ at' = "MOVE" /\ DecodeHeld' = DecodeHeld
    BY <1>1, <1>13, StagesKeep, FETCH_stageKeeps
  <2>2. ASSUME NEW s \in Stages, PS[s].V PROVE current_stage[PS[s].instruction] = Letter[s]
    <3>1. AfterMEM /\ AfterAGEX /\ AfterDE /\ at # "SR" /\ LettersFollow
      BY <1>1, <1>13 DEF AfterMEM, AfterAGEX, AfterDE
    <3>2. s \in {"STORE", "MEMORY", "AGEX", "DECODE"}
      BY DEF Stages
    <3> QED BY <2>2, <3>1, <3>2 DEF LettersFollow, Letter
  <2>3. CASE DecodeHeld
    <3>1. current_stage' = current_stage /\ cycle_history' = cycle_history
      BY <1>13, <2>3 DEF EnterStage, EnterFetch, At
    <3>2. LettersFollow'
      BY <1>2, <1>5, <2>2, <3>1 DEF LettersFollow, Letter
    <3>3. RecordsStart'
      BY <2>1, <2>3 DEF RecordsStart
    <3> QED BY <1>1, <1>2, <3>1, <3>2, <3>3
  <2>4. CASE ~DecodeHeld
    <3>1. /\ current_stage' = [current_stage EXCEPT ![o] = "F"]
          /\ cycle_history' = [cycle_history EXCEPT ![o] = <<>>]
      BY <1>13, <2>4 DEF EnterStage, EnterFetch, At
    <3>2. o \in Obj /\ \A s \in Stages : PS[s].instruction # o
      <4>1. AfterFETCH'
        BY <2>1 DEF AfterFETCH
      <4>2. ~(stall_sigs'.dep_stall \/ stall_sigs'.mem_stall)
        BY <2>1, <2>4 DEF DecodeHeld
      <4>3. o # NULL /\ \A s \in Stages : o # PS'[s].instruction
        BY <4>1, <4>2 DEF ControlInvariant, DecodeLatched
      <4>4. o \in Obj \cup {NULL}
        BY <1>5 DEF ControlInvariant, TypeOK, Latch
      <4> QED BY <1>2, <4>3, <4>4
    <3> HIDE DEF o
    <3>3. \A s \in Stages : PS[s].V => current_stage'[PS[s].instruction] = Letter[s]
      BY <1>1, <1>3, <2>2, <3>1, <3>2
    <3>4. LettersFollow'
      BY <1>2, <1>5, <3>3 DEF LettersFollow, Letter
    <3>5. cycle_history'[o] = <<>>
      BY <1>1, <3>1, <3>2
    <3>6. RecordsStart'
      BY <3>5 DEF RecordsStart, o
    <3>7. current_stage' \in [Obj -> {"", "F", "D", "E", "M", "S"}]
      BY <1>1, <3>1
    <3> QED BY <1>2, <3>1, <3>2, <3>4, <3>6, <3>7
  <2> QED BY <2>3, <2>4
<1> QED BY <1>7, <1>9, <1>10, <1>11, <1>12, <1>13 DEF Steps

(* While the instructions in flight keep their latches, addresses and records, so do rows
   and entries. *)
LEMMA RestTraced ==
  ASSUME TraceInvariant, AllTraced, UNCHANGED <<instruction_history, fetched>>, PS' = PS,
         \A s \in Stages : PS[s].V =>
           /\ heap'[PS[s].instruction].NPC = heap[PS[s].instruction].NPC
           /\ cycle_history'[PS[s].instruction] = cycle_history[PS[s].instruction]
  PROVE  AllTraced'
<1>1. RowsFollow' /\ LatchesTraced' /\ OneAtATime' /\ AddressesFollow'
  BY DEF AllTraced, RowsFollow, SameTrace, Printed, Retired, LatchesTraced, OneAtATime,
         AddressesFollow, ShowsLastRound, Rounds
<1>2. ASSUME NEW i \in DOMAIN fetched, fetched[i].object # NULL
      PROVE  /\ \E s \in Stages : HoldersOf(fetched[i].object) = {s}
             /\ heap'[fetched[i].object].NPC = fetched[i].pc + 2
             /\ cycle_history'[fetched[i].object] = FromDecode(fetched[i].cells)
  <2>1. IsTraced(fetched[i])
    BY <1>2 DEF AllTraced, InFlightTraced
  <2>2. PICK s \in Stages : HoldersOf(fetched[i].object) = {s}
    BY <2>1 DEF IsTraced
  <2>3. PS[s].V /\ PS[s].instruction = fetched[i].object
    BY <2>2 DEF HoldersOf
  <2> QED BY <2>1, <2>2, <2>3 DEF IsTraced
<1>3. InFlightTraced'
  BY <1>2 DEF InFlightTraced, IsTraced, HoldersOf, FromDecode
<1> QED BY <1>1, <1>3 DEF AllTraced

LEMMA RestTypes ==
  ASSUME TraceTypeOK, UNCHANGED <<CYCLE_COUNT, instruction_history, fetched, confused>>,
         current_stage' \in [Obj -> {"", "F", "D", "E", "M", "S"}],
         \/ cycle_history' = cycle_history
         \/ \E o \in Obj : cycle_history' = [cycle_history EXCEPT ![o] = <<>>]
  PROVE  TraceTypeOK'
<1>1. /\ CYCLE_COUNT' \in Nat
      /\ IsList(instruction_history') /\ IsList(fetched') /\ confused' \in BOOLEAN
  BY DEF TraceTypeOK
<1>2. /\ \A i \in DOMAIN instruction_history' : IsRow(instruction_history[i])'
      /\ \A i \in DOMAIN fetched' : IsEntry(fetched[i])'
  BY DEF TraceTypeOK, IsRow, IsEntry, IsRecord
<1>3. /\ cycle_history' = [o \in Obj |-> cycle_history'[o]]
      /\ \A o \in Obj : cycle_history'[o] \in {cycle_history[o], <<>>}
  BY DEF TraceTypeOK
<1>4. IsRecord(<<>>)
  BY EmptyRecord
<1>5. \A o \in Obj : IsRecord(cycle_history'[o])
  BY <1>3, <1>4 DEF TraceTypeOK
<1>6. \A o \in Obj : IsRecord(cycle_history[o])'
  BY <1>5 DEF IsRecord
<1> QED BY <1>1, <1>2, <1>3, <1>6 DEF TraceTypeOK, IsList
-----------------------------------------------------------------------------
LEMMA TraceStarts == TraceInit => TraceInvariant
<1> SUFFICES ASSUME TraceInit PROVE TraceInvariant
  OBVIOUS
<1>1. /\ SimInit /\ CYCLE_COUNT = 0
      /\ current_stage = [o \in Obj |-> ""] /\ cycle_history = [o \in Obj |-> <<>>]
      /\ instruction_history = <<>> /\ fetched = <<>> /\ confused = FALSE
  BY DEF TraceInit, HistInit
<1>2. SimTypeOK /\ ControlInvariant
  BY <1>1, HaltInit DEF HaltInvariant
<1>3. at = "SR" /\ \A s \in Stages : ~PS[s].V
  BY <1>1 DEF SimInit, Init, EmptyLatch
<1>4. CyclesEnd /\ LettersFollow /\ RecordsStart
  BY <1>3 DEF CyclesEnd, LettersFollow, RecordsStart, AfterMEM, AfterAGEX, AfterDE
<1>5. IsList(<<>>) /\ DOMAIN <<>> = {}
  BY DEF IsList
<1>6. TraceTypeOK
  BY <1>1, <1>5, EmptyRecord DEF TraceTypeOK
<1>7. AllTraced
  BY <1>1, <1>3, <1>5 DEF AllTraced, RowsFollow, InFlightTraced, LatchesTraced, OneAtATime,
                          AddressesFollow, Stages
<1>8. LastWordsUnmatched
  BY <1>1, <1>5 DEF LastWordsUnmatched
<1> QED BY <1>2, <1>4, <1>6, <1>7, <1>8 DEF TraceInvariant

LEMMA TraceSteps ==
  ASSUME TraceInvariant, [TraceNext]_<<histVars, ghosts>>
  PROVE  TraceInvariant'
<1>1. /\ SimTypeOK /\ ControlInvariant /\ CyclesEnd /\ LettersFollow /\ RecordsStart /\ TraceTypeOK
      /\ LastWordsUnmatched /\ confused \in BOOLEAN /\ (~confused => AllTraced)
  BY DEF TraceInvariant, TraceTypeOK
<1>2. SimTypeOK' /\ ControlInvariant'
  <2>1. [SimNext]_simVars
    BY DEF TraceNext, TracedCycle, Untraced, idump, go_ends, SimNext, Running, Commands, histVars
  <2> QED BY <1>1, <2>1, SimTypeNext
<1>3. CASE TracedCycle /\ Follow /\ at = "MOVE"
  <2>1. MoveLatch /\ UpdateHistory /\ call \in InCycle
    BY <1>3 DEF TracedCycle, cycle, Next, SR_stage, MEM_stage, AGEX_stage, DE_stage, FETCH_stage,
                EnterStage, EnterFetch, At
  <2>2. /\ fetched' = [i \in DOMAIN Entries |-> Followed(Entries[i])]
        /\ confused' = (confused \/ Confusing)
    BY <1>3, <2>1 DEF Follow
  <2>3. confused' \in BOOLEAN /\ (~confused' => ~confused /\ ~Confusing)
    <3> HIDE DEF Confusing
    <3> QED BY <2>2, Zenon
  <2>4. TraceTypeOK'
    BY <1>3, <2>1, <2>2, <2>3, MoveTypes
  <2>5. ~confused' => AllTraced'
    BY <1>1, <2>1, <2>2, <2>3, MoveTraced
  <2>6. at' = "SR"
    BY <2>1 DEF MoveLatch
  <2>7. CyclesEnd' /\ LettersFollow' /\ RecordsStart'
    BY <2>6 DEF CyclesEnd, LettersFollow, RecordsStart, AfterMEM, AfterAGEX, AfterDE
  <2>8. LastWordsUnmatched'
    BY <1>3, <2>1, LastWordsMove
  <2> QED BY <1>2, <2>4, <2>5, <2>7, <2>8 DEF TraceInvariant
<1>4. CASE TracedCycle /\ Follow /\ at # "MOVE"
  <2>1. /\ Next /\ (EnterStage \/ EnterFetch) /\ call' = call /\ call \in InCycle
        /\ UNCHANGED <<CYCLE_COUNT, instruction_history, fetched, confused>>
    BY <1>4 DEF TracedCycle, cycle, UpdateHistory, EnterStage, EnterFetch, Follow, ghosts
  <2>2. /\ PS' = PS /\ LettersFollow' /\ RecordsStart'
        /\ current_stage' \in [Obj -> {"", "F", "D", "E", "M", "S"}]
        /\ \/ cycle_history' = cycle_history
           \/ \E o \in Obj : /\ cycle_history' = [cycle_history EXCEPT ![o] = <<>>]
                            /\ \A s \in Stages : PS[s].instruction # o
    BY <1>2, <1>4, <2>1, StageLetters
  <2>3. TraceTypeOK'
    BY <1>1, <2>1, <2>2, RestTypes
  <2>4. ASSUME NEW s \in Stages, PS[s].V
        PROVE  /\ heap'[PS[s].instruction].NPC = heap[PS[s].instruction].NPC
               /\ cycle_history'[PS[s].instruction] = cycle_history[PS[s].instruction]
    <3>1. heap'[PS[s].instruction].NPC = heap[PS[s].instruction].NPC
      BY <1>1, <2>1, <2>4, AddressKept
    <3>2. PS[s].instruction \in Obj
      BY <1>1, <2>4, ValidObjects
    <3>3. cycle_history = [o \in Obj |-> cycle_history[o]]
      BY <1>1 DEF TraceTypeOK
    <3>4. cycle_history'[PS[s].instruction] = cycle_history[PS[s].instruction]
      BY <2>2, <3>2, <3>3
    <3> QED BY <3>1, <3>4
  <2>5. ~confused' => AllTraced'
    BY <1>1, <2>1, <2>2, <2>4, RestTraced
  <2>6. CyclesEnd'
    BY <2>1 DEF CyclesEnd
  <2>7. LastWordsUnmatched'
    BY <1>1, <2>1 DEF LastWordsUnmatched, OnlyFetched, Retired
  <2> QED BY <1>2, <2>2, <2>3, <2>5, <2>6, <2>7 DEF TraceInvariant
<1>5. CASE (idump \/ go_ends) /\ Forget
  <2>1. /\ call \notin InCycle /\ instruction_history' = Unretired /\ confused' = confused
        /\ UNCHANGED <<at, PS, heap, CYCLE_COUNT, current_stage, cycle_history>>
    BY <1>5 DEF idump, go_ends, go_loop, Forget, InCycle, simVars, vars
  <2>2. at = "SR" /\ at' = "SR"
    BY <1>1, <2>1 DEF CyclesEnd
  <2>3. TraceTypeOK'
    BY <1>5, <2>1, DumpTypes
  <2>4. ~confused' => AllTraced'
    BY <1>1, <1>5, <2>1, DumpTraced
  <2>5. CyclesEnd' /\ LettersFollow' /\ RecordsStart'
    BY <2>2 DEF CyclesEnd, LettersFollow, RecordsStart, AfterMEM, AfterAGEX, AfterDE
  <2>6. LastWordsUnmatched'
    BY <2>1, LastWordsDump
  <2> QED BY <1>2, <2>3, <2>4, <2>5, <2>6 DEF TraceInvariant
<1>6. CASE (Untraced /\ Follow) \/ UNCHANGED <<histVars, ghosts>>
  <2>1. UNCHANGED <<at, PS, heap, NEW_PS, stall_sigs, CYCLE_COUNT, recording>>
    <3>1. CASE Untraced
      BY <3>1 DEF Untraced, load_program, initialized, go, quit, go_loop, run_loop, run, vars, Signal_Entries
    <3>2. CASE UNCHANGED <<histVars, ghosts>>
      BY <3>2 DEF histVars, simVars, vars, Signal_Entries
    <3> QED BY <1>6, <3>1, <3>2
  <2>2. ghosts' = ghosts /\ CyclesEnd'
    <3>1. CASE Untraced /\ Follow
      <4>1. call \notin InCycle
        BY <3>1 DEF Untraced, load_program, initialized, go, quit, go_loop, run_loop, run, InCycle
      <4>2. at = "SR"
        BY <1>1, <4>1 DEF CyclesEnd
      <4> QED BY <2>1, <3>1, <4>2 DEF Follow, CyclesEnd
    <3>2. CASE UNCHANGED <<histVars, ghosts>>
      BY <1>1, <3>2 DEF histVars, simVars, simulator, vars, CyclesEnd
    <3> QED BY <1>6, <3>1, <3>2
  <2>3. UNCHANGED <<instruction_history, fetched, confused, cycle_history, current_stage>>
    BY <2>1, <2>2 DEF ghosts, recording
  <2>4. TraceTypeOK'
    BY <1>1, <2>1, <2>3, RestTypes DEF TraceTypeOK
  <2>5. ~confused' => AllTraced'
    BY <1>1, <2>1, <2>3, RestTraced
  <2>6. LettersFollow' /\ RecordsStart'
    BY <1>1, <2>1, <2>3 DEF LettersFollow, RecordsStart, DecodeHeld, AfterMEM, AfterAGEX, AfterDE
  <2>7. LastWordsUnmatched'
    BY <1>1, <2>3 DEF LastWordsUnmatched, OnlyFetched, Retired
  <2> QED BY <1>2, <2>2, <2>4, <2>5, <2>6, <2>7 DEF TraceInvariant
<1> QED BY <1>3, <1>4, <1>5, <1>6 DEF TraceNext

(* What makes the rows find their instructions holds at every step of every command. *)
THEOREM TraceInvariantHolds == TraceSpec => []TraceInvariant
<1>1. TraceInit => TraceInvariant
  BY TraceStarts
<1>2. TraceInvariant /\ [TraceNext]_<<histVars, ghosts>> => TraceInvariant'
  BY TraceSteps
<1> QED BY <1>1, <1>2, PTL DEF TraceSpec

(* No variable of the trace leaves its type: no row, and no record of an instruction
   object, ever holds a cell of a cycle that has not been reached. *)
THEOREM HistTypeHolds == TraceSpec => []HistTypeOK
<1>1. TraceInvariant => HistTypeOK
  <2> SUFFICES ASSUME TraceInvariant PROVE HistTypeOK
    OBVIOUS
  <2>1. TraceTypeOK /\ CYCLE_COUNT \in Nat
    BY DEF TraceInvariant, TraceTypeOK
  <2>2. {c \in Nat : c < CYCLE_COUNT} \subseteq 0..CYCLE_COUNT
    BY <2>1
  <2>3. \A o \in Obj : DOMAIN cycle_history[o] \subseteq 0..CYCLE_COUNT
    BY <2>1, <2>2 DEF TraceTypeOK, IsRecord
  <2>4. ASSUME NEW i \in DOMAIN instruction_history
        PROVE  /\ instruction_history[i].pc \in Word
               /\ DOMAIN instruction_history[i].cycle_history \subseteq 0..CYCLE_COUNT
               /\ instruction_history[i].mem_addr \in Word \cup {NULL}
    <3>1. IsRow(instruction_history[i])
      BY <2>1 DEF TraceTypeOK
    <3> QED BY <2>2, <3>1 DEF IsRow, IsRecord
  <2> QED BY <2>1, <2>3, <2>4 DEF TraceTypeOK, HistTypeOK
<1> QED BY <1>1, TraceInvariantHolds, PTL

(* Whatever is run, stalled, redirected or dumped in between, the diagram has one row for
   each instruction fetched, in that order, and each row shows where its instruction was in
   each cycle, as long as no two instructions in the pipeline have the same address. *)
THEOREM DiagramFaithfulHolds == TraceSpec => []DiagramFaithful
<1>1. TraceInvariant => DiagramFaithful
  BY DEF TraceInvariant, AllTraced, RowsFollow, SameTrace, DiagramFaithful, DiagramExact
<1> QED BY <1>1, TraceInvariantHolds, PTL

(* The record an instruction object keeps of itself is its part of that diagram. *)
THEOREM RecordsAgreeHolds == TraceSpec => []RecordsAgree
<1>1. TraceInvariant => RecordsAgree
  BY DEF TraceInvariant, AllTraced, InFlightTraced, IsTraced, FromDecode, RecordsAgree
<1> QED BY <1>1, TraceInvariantHolds, PTL

(* Whatever is looked up by address, a row never shows the memory access of an instruction
   with another address, nor of a round that is not the last. *)
THEOREM AddressesFaithfulHolds == TraceSpec => []AddressesFaithful
<1>1. TraceInvariant => AddressesFaithful
  BY DEF TraceInvariant, AllTraced, AddressesFollow, AddressesFaithful
<1> QED BY <1>1, TraceInvariantHolds, PTL

(* Whatever runs up to the end of memory, its last instructions are never found again by
   their rows: the comparison of an int with a uint16_t misses them and finds no other. *)
THEOREM LastWordsUnmatchedHolds == TraceSpec => []LastWordsUnmatched
<1>1. TraceInvariant => LastWordsUnmatched
  BY DEF TraceInvariant
<1> QED BY <1>1, TraceInvariantHolds, PTL
=============================================================================
