-------------------------- MODULE RangeWalkProofs ---------------------------
(***************************************************************************)
(* DisassembleRange, for every slice, start address, opcode set and        *)
(* decoders that honour the contract.  What makes its addresses right      *)
(* across the top of the address space is modular arithmetic: an address   *)
(* computed from the previous instruction's equals one computed from the   *)
(* offset.                                                                 *)
(*                                                                         *)
(* What is found is characterised apart from the loop, as a Listing: the   *)
(* loop's result is one, there is no other for the slice and the address,  *)
(* and a listing of a slice cut short is the beginning of one.  Facts      *)
(* about its recursive functions rest on Induction, below: a set of        *)
(* numbers with 0 in it and the successor of each is all of them.          *)
(***************************************************************************)
EXTENDS RangeWalk, AnswersProofs, FiniteSetTheorems, WellFoundedInduction

\* A nonempty set of naturals has a least element.
LEMMA Least ==
  ASSUME NEW S \in SUBSET Nat, S # {}
  PROVE  \E i \in S : \A j \in S : i <= j
<1> DEFINE R == OpToRel(<, Nat)
<1>1. R = {ss \in Nat \X Nat : ss[1] < ss[2]}
  BY Zenon DEF OpToRel
<1>2. IsWellFoundedOn(R, Nat)
  BY NatLessThanWellFounded
<1> HIDE DEF R
<1>3. PICK i \in S : \A j \in S : ~(<<j, i>> \in R)
  BY <1>2, WFMin
<1>4. ASSUME NEW j \in S
      PROVE  i <= j
  <2>1. i \in Nat /\ j \in Nat
    OBVIOUS
  <2>2. ~(j < i)
    BY <1>1, <1>3, <2>1
  <2> QED BY <2>1, <2>2
<1> QED BY <1>4

\* What holds of 0, and of i whenever it holds of i - 1, holds up to n.
LEMMA Induction ==
  ASSUME NEW n \in Nat, NEW S, 0 \in S, \A i \in 1..n : i - 1 \in S => i \in S
  PROVE  \A i \in 0..n : i \in S
<1> DEFINE Others == (0..n) \ S
<1> SUFFICES ASSUME Others # {}
             PROVE  FALSE
  OBVIOUS
<1>1. PICK k \in Others : \A j \in Others : k <= j
  <2>1. Others \in SUBSET Nat
    OBVIOUS
  <2> HIDE DEF Others
  <2> QED BY <2>1, Least
<1>2. k \in 1..n
  BY <1>1
<1> QED BY <1>1, <1>2

\* A chain of values, each made from the one before.
Chain(f, n, S, first, step) ==
  /\ f \in [0..n -> S]
  /\ f[0] = first
  /\ \A i \in 1..n : f[i] = step[i][f[i - 1]]

\* There is one, whatever the step, as long as it stays within the set.
LEMMA ChainExists ==
  ASSUME NEW n \in Nat, NEW S, NEW first \in S, NEW step,
         \A i \in 1..n : \A x \in S : step[i][x] \in S
  PROVE  \E f : Chain(f, n, S, first, step)
<1> DEFINE Some(k) == \E f : Chain(f, k, S, first, step)
           None == {k \in 0..n : ~Some(k)}
<1> SUFFICES ASSUME None # {}
             PROVE  FALSE
  <2>1. n \in 0..n /\ None = {}
    OBVIOUS
  <2> QED BY <2>1, Zenon
<1> HIDE DEF Some
<1>0. None \in SUBSET Nat
  OBVIOUS
<1>1. PICK k \in None : \A j \in None : k <= j
  <2> HIDE DEF None
  <2> QED BY <1>0, Least
<1>2. k # 0
  <2>1. Chain([i \in 0..0 |-> first], 0, S, first, step)
    BY DEF Chain
  <2>2. Some(0)
    BY <2>1, Zenon DEF Some
  <2> QED BY <2>2
<1>3. k - 1 \in 0..n /\ k - 1 \notin None /\ k \in 1..n
  BY <1>1, <1>2
<1>4. PICK f : Chain(f, k - 1, S, first, step)
  BY <1>3 DEF Some
<1> DEFINE g == [i \in 0..k |-> IF i = k THEN step[k][f[k - 1]] ELSE f[i]]
<1>5. f[k - 1] \in S /\ step[k][f[k - 1]] \in S
  BY <1>3, <1>4 DEF Chain
<1>6. g \in [0..k -> S] /\ g[0] = first
  BY <1>3, <1>4, <1>5 DEF Chain
<1>7. ASSUME NEW i \in 1..k
      PROVE  g[i] = step[i][g[i - 1]]
  BY <1>3, <1>4, <1>7 DEF Chain
<1>8. Chain(g, k, S, first, step)
  BY <1>6, <1>7 DEF Chain
<1>9. Some(k)
  BY <1>8, Zenon DEF Some
<1> QED BY <1>9

\* A function whose first value is in a set, and each other with the one before.
LEMMA StaysIn ==
  ASSUME NEW n \in Nat, NEW S, NEW f, f = [i \in 0..n |-> f[i]],
         f[0] \in S, \A i \in 1..n : f[i - 1] \in S => f[i] \in S
  PROVE  f \in [0..n -> S]
<1> DEFINE In == {i \in 0..n : f[i] \in S}
<1>1. 0 \in In /\ \A i \in 1..n : i - 1 \in In => i \in In
  OBVIOUS
<1>2. \A i \in 0..n : i \in In
  <2> HIDE DEF In
  <2> QED BY <1>1, Induction
<1> QED BY <1>2

-----------------------------------------------------------------------------
\* Ends(found) adds up the sizes.
LEMMA EndsAre ==
  ASSUME NEW found, Len(found) \in Nat, \A i \in 1..Len(found) : found[i].size \in Nat
  PROVE  /\ Ends(found) \in [0..Len(found) -> Nat]
         /\ Ends(found)[0] = 0
         /\ \A i \in 1..Len(found) : Ends(found)[i] = Ends(found)[i - 1] + found[i].size
<1> DEFINE n == Len(found)
           step == [i \in 1..n |-> [x \in Nat |-> x + found[i].size]]
<1>1. \A i \in 1..n : \A x \in Nat : step[i][x] = x + found[i].size
  OBVIOUS
<1>2. \A i \in 1..n : \A x \in Nat : step[i][x] \in Nat
  BY <1>1
<1> HIDE DEF step
<1>3. PICK f : Chain(f, n, Nat, 0, step)
  BY <1>2, ChainExists
<1>4. f = [i \in 0..n |-> IF i = 0 THEN 0 ELSE f[i - 1] + found[i].size]
  <2>1. \A i \in 0..n : f[i] = IF i = 0 THEN 0 ELSE f[i - 1] + found[i].size
    <3>1. \A i \in 1..n : f[i - 1] \in Nat /\ f[i] = step[i][f[i - 1]]
      BY <1>3 DEF Chain
    <3>2. \A i \in 1..n : f[i] = f[i - 1] + found[i].size
      BY <1>1, <3>1
    <3> QED BY <1>3, <3>2 DEF Chain
  <2> QED BY <1>3, <2>1 DEF Chain
<1>5. Ends(found) = [i \in 0..n |-> IF i = 0 THEN 0 ELSE Ends(found)[i - 1] + found[i].size]
  BY <1>4, Zenon DEF Ends
<1> DEFINE E == Ends(found)
<1>6. E \in [0..n -> Nat] /\ E[0] = 0 /\ \A i \in 1..n : E[i] = E[i - 1] + found[i].size
  <2> HIDE DEF E
  <2>1. E = [i \in 0..n |-> IF i = 0 THEN 0 ELSE E[i - 1] + found[i].size]
    BY <1>5 DEF E
  <2>2. /\ E = [i \in 0..n |-> E[i]] /\ E[0] = 0
        /\ \A i \in 1..n : E[i] = E[i - 1] + found[i].size
    <3>1. \A i \in 0..n : E[i] = IF i = 0 THEN 0 ELSE E[i - 1] + found[i].size
      BY <2>1
    <3>2. E = [i \in 0..n |-> E[i]]
      BY <2>1, <3>1
    <3> QED BY <3>1, <3>2
  <2>3. \A i \in 1..n : E[i - 1] \in Nat => E[i] \in Nat
    <3> SUFFICES ASSUME NEW i \in 1..n, E[i - 1] \in Nat
                 PROVE  E[i] \in Nat
      OBVIOUS
    <3>1. E[i] = E[i - 1] + found[i].size /\ found[i].size \in Nat
      BY <2>2
    <3> QED BY <3>1
  <2>4. n \in Nat /\ E[0] \in Nat
    BY <2>2
  <2> HIDE DEF n
  <2>5. E \in [0..n -> Nat]
    BY <2>2, <2>3, <2>4, StaysIn
  <2> QED BY <2>2, <2>5
<1> QED BY <1>6

\* BytesOf(found) puts the bytes together.
LEMMA BytesAre ==
  ASSUME NEW found, Len(found) \in Nat, \A i \in 1..Len(found) : found[i].bytes \in Seq(Byte)
  PROVE  /\ BytesOf(found) \in [0..Len(found) -> Seq(Byte)]
         /\ BytesOf(found)[0] = << >>
         /\ \A i \in 1..Len(found) : BytesOf(found)[i] = BytesOf(found)[i - 1] \o found[i].bytes
<1> DEFINE n == Len(found)
           step == [i \in 1..n |-> [x \in Seq(Byte) |-> x \o found[i].bytes]]
<1>1. \A i \in 1..n : \A x \in Seq(Byte) : step[i][x] = x \o found[i].bytes
  OBVIOUS
<1>2. \A i \in 1..n : \A x \in Seq(Byte) : step[i][x] \in Seq(Byte)
  BY <1>1
<1> HIDE DEF step
<1>0. n \in Nat /\ << >> \in Seq(Byte)
  BY EmptySeq
<1>3. PICK f : Chain(f, n, Seq(Byte), << >>, step)
  <2> HIDE DEF n
  <2> QED BY <1>0, <1>2, ChainExists
<1>4. f = [i \in 0..n |-> IF i = 0 THEN << >> ELSE f[i - 1] \o found[i].bytes]
  <2>1. \A i \in 0..n : f[i] = IF i = 0 THEN << >> ELSE f[i - 1] \o found[i].bytes
    <3> DEFINE B == Seq(Byte)
    <3>1. Chain(f, n, B, << >>, step)
      BY <1>3
    <3>2. \A i \in 1..n : \A x \in B : step[i][x] = x \o found[i].bytes
      BY <1>1
    <3> HIDE DEF B, n
    <3>3. \A i \in 1..n : f[i - 1] \in B /\ f[i] = step[i][f[i - 1]]
      BY <1>0, <3>1 DEF Chain
    <3>4. \A i \in 1..n : f[i] = f[i - 1] \o found[i].bytes
      BY <3>2, <3>3
    <3>5. f[0] = << >>
      BY <3>1 DEF Chain
    <3>6. \A i \in 0..n : i # 0 => i \in 1..n
      BY <1>0
    <3> QED BY <3>4, <3>5, <3>6, Zenon
  <2> QED BY <1>3, <2>1 DEF Chain
<1>5. BytesOf(found)
        = [i \in 0..n |-> IF i = 0 THEN << >> ELSE BytesOf(found)[i - 1] \o found[i].bytes]
  BY <1>4, Zenon DEF BytesOf
<1> DEFINE E == BytesOf(found)
<1>6. E \in [0..n -> Seq(Byte)] /\ E[0] = << >> /\ \A i \in 1..n : E[i] = E[i - 1] \o found[i].bytes
  <2> HIDE DEF E
  <2>1. E = [i \in 0..n |-> IF i = 0 THEN << >> ELSE E[i - 1] \o found[i].bytes]
    BY <1>5 DEF E
  <2>2. /\ E = [i \in 0..n |-> E[i]] /\ E[0] = << >>
        /\ \A i \in 1..n : E[i] = E[i - 1] \o found[i].bytes
    <3>1. \A i \in 0..n : E[i] = IF i = 0 THEN << >> ELSE E[i - 1] \o found[i].bytes
      BY <2>1
    <3>2. E = [i \in 0..n |-> E[i]]
      BY <2>1, <3>1
    <3> QED BY <3>1, <3>2
  <2>3. \A i \in 1..n : E[i - 1] \in Seq(Byte) => E[i] \in Seq(Byte)
    <3> SUFFICES ASSUME NEW i \in 1..n, E[i - 1] \in Seq(Byte)
                 PROVE  E[i] \in Seq(Byte)
      OBVIOUS
    <3>1. E[i] = E[i - 1] \o found[i].bytes /\ found[i].bytes \in Seq(Byte)
      BY <2>2
    <3> QED BY <3>1
  <2>4. n \in Nat /\ E[0] \in Seq(Byte)
    BY <1>0, <2>2
  <2> HIDE DEF n
  <2>5. E \in [0..n -> Seq(Byte)]
    BY <2>2, <2>3, <2>4, StaysIn
  <2> QED BY <2>2, <2>5
<1> QED BY <1>6

\* The instructions of a listing.
LEMMA EntriesOf ==
  ASSUME NEW found \in Seq(Entry)
  PROVE  /\ Len(found) \in Nat
         /\ \A i \in 1..Len(found) :
              /\ found[i] \in Entry /\ found[i].size \in Nat /\ found[i].size >= 2
              /\ found[i].bytes \in Seq(Byte)
<1>1. Len(found) \in Nat /\ \A i \in 1..Len(found) : found[i] \in Entry
  BY LenProperties, ElementOfSeq
<1>2. \A e \in Entry : e.size \in Nat /\ e.size >= 2 /\ e.bytes \in Seq(Byte)
  BY MaxLenAssumption DEF Entry
<1> QED BY <1>1, <1>2

\* Every instruction moves the offset on.
LEMMA EndsOf ==
  ASSUME NEW found \in Seq(Entry)
  PROVE  /\ \A i \in 0..Len(found) : Ends(found)[i] \in Nat
         /\ Ends(found)[0] = 0
         /\ \A i \in 1..Len(found) :
              /\ Ends(found)[i] = Ends(found)[i - 1] + found[i].size
              /\ Ends(found)[i - 1] < Ends(found)[i]
<1>1. /\ Len(found) \in Nat
      /\ \A i \in 1..Len(found) : found[i].size \in Nat /\ found[i].size >= 2
  BY EntriesOf
<1>2. /\ Ends(found) \in [0..Len(found) -> Nat] /\ Ends(found)[0] = 0
      /\ \A i \in 1..Len(found) : Ends(found)[i] = Ends(found)[i - 1] + found[i].size
  BY <1>1, EndsAre
<1>3. \A i \in 0..Len(found) : Ends(found)[i] \in Nat
  BY <1>2
<1>4. ASSUME NEW i \in 1..Len(found)
      PROVE  Ends(found)[i - 1] < Ends(found)[i]
  <2>1. \A x, y \in Nat : y >= 2 => x < x + y
    OBVIOUS
  <2>2. i - 1 \in 0..Len(found)
    BY <1>1
  <2>3. Ends(found)[i - 1] \in Nat
    BY <1>3, <2>2
  <2> QED BY <1>1, <1>2, <2>1, <2>3
<1> QED BY <1>2, <1>3, <1>4

\* What is behind more instructions is a greater offset.
LEMMA EndsGrow ==
  ASSUME NEW found \in Seq(Entry)
  PROVE  \A j \in 0..Len(found) : \A i \in 0..Len(found) : i < j => Ends(found)[i] < Ends(found)[j]
<1> DEFINE n == Len(found)
           E == Ends(found)
           S == {j \in 0..n : \A i \in 0..n : i < j => E[i] < E[j]}
<1>1. /\ n \in Nat /\ \A i \in 0..n : E[i] \in Nat
      /\ \A i \in 1..n : E[i - 1] < E[i]
  BY EntriesOf, EndsOf
<1> HIDE DEF n, E
<1>2. 0 \in S
  BY <1>1
<1>3. ASSUME NEW j \in 1..n, j - 1 \in S
      PROVE  j \in S
  <2>1. ASSUME NEW i \in 0..n, i < j
        PROVE  E[i] < E[j]
    <3>1. E[j - 1] < E[j] /\ E[j - 1] \in Nat /\ E[j] \in Nat /\ E[i] \in Nat
      BY <1>1
    <3>2. i = j - 1 \/ i < j - 1
      BY <2>1
    <3> QED BY <1>3, <3>1, <3>2
  <2> QED BY <2>1
<1>4. \A j \in 0..n : j \in S
  <2> HIDE DEF S
  <2> QED BY <1>1, <1>2, <1>3, Induction
<1>5. \A j \in 0..n : \A i \in 0..n : i < j => E[i] < E[j]
  BY <1>4
<1> QED BY <1>5 DEF n, E

\* The offsets depend on nothing but the instructions before them.
LEMMA EndsAgree ==
  ASSUME NEW found \in Seq(Entry), NEW other \in Seq(Entry), NEW m \in Nat,
         m <= Len(found), m <= Len(other), \A i \in 1..m : found[i] = other[i]
  PROVE  \A i \in 0..m : Ends(found)[i] = Ends(other)[i]
<1> DEFINE E == Ends(found)
           F == Ends(other)
           S == {i \in 0..m : E[i] = F[i]}
<1>1. /\ E[0] = 0 /\ F[0] = 0
      /\ \A i \in 1..m : E[i] = E[i - 1] + found[i].size /\ F[i] = F[i - 1] + other[i].size
  BY EntriesOf, EndsOf
<1> HIDE DEF E, F
<1>2. 0 \in S /\ \A i \in 1..m : i - 1 \in S => i \in S
  <2>1. 0 \in S
    BY <1>1
  <2>2. ASSUME NEW i \in 1..m, i - 1 \in S
        PROVE  i \in S
    <3>1. E[i - 1] = F[i - 1] /\ found[i].size = other[i].size
      BY <2>2
    <3>2. E[i] = F[i]
      BY ONLY <1>1, <3>1, i \in 1..m
    <3> QED BY <3>2
  <2> QED BY <2>1, <2>2
<1>3. \A i \in 0..m : i \in S
  <2> HIDE DEF S
  <2> QED BY <1>2, Induction
<1>4. \A i \in 0..m : E[i] = F[i]
  BY <1>3
<1> QED BY <1>4 DEF E, F

\* A listing goes on with what Decode says of the bytes behind it.
LEMMA WalkedOn ==
  ASSUME NEW found \in Seq(Entry), NEW bytes, NEW base, NEW entry \in Entry, NEW from,
         Walked(found, bytes, base), from = Ends(found)[Len(found)], Decodes(bytes, from),
         entry = Located((base + from) % AddressSpace, Outcome(Rest(bytes, from)))
  PROVE  /\ Ends(Append(found, entry))[Len(found) + 1] = from + entry.size
         /\ Walked(Append(found, entry), bytes, base)
<1> DEFINE n == Len(found)
           longer == Append(found, entry)
<1>1. /\ longer \in Seq(Entry) /\ Len(longer) = n + 1 /\ n \in Nat /\ longer[n + 1] = entry
      /\ \A i \in 1..n : longer[i] = found[i]
  BY EntriesOf, AppendProperties
<1> HIDE DEF longer
<1>2. \A i \in 0..n : Ends(longer)[i] = Ends(found)[i]
  <2>1. n <= Len(longer) /\ n <= Len(found)
    BY <1>1
  <2> QED BY <1>1, <2>1, EndsAgree
<1>3. Ends(longer)[n + 1] = from + entry.size
  <2>1. n + 1 \in 1..Len(longer) /\ (n + 1) - 1 = n /\ n \in 0..n
    BY <1>1
  <2>2. Ends(longer)[n + 1] = Ends(longer)[(n + 1) - 1] + longer[n + 1].size
    BY <1>1, <2>1, EndsOf
  <2> QED BY <1>1, <1>2, <2>1, <2>2
<1>4. ASSUME NEW i \in 1..Len(longer)
      PROVE  /\ Decodes(bytes, Ends(longer)[i - 1])
             /\ longer[i] = Located((base + Ends(longer)[i - 1]) % AddressSpace,
                                    Outcome(Rest(bytes, Ends(longer)[i - 1])))
  <2>1. i - 1 \in 0..n /\ Ends(longer)[i - 1] = Ends(found)[i - 1]
    BY <1>1, <1>2
  <2>2. CASE i = n + 1
    <3>1. Ends(found)[i - 1] = from /\ longer[i] = entry
      BY <1>1, <2>2
    <3> QED BY <2>1, <3>1, Zenon
  <2>3. CASE i # n + 1
    <3>1. i \in 1..n /\ longer[i] = found[i]
      BY <1>1, <2>3
    <3>2. /\ Decodes(bytes, Ends(found)[i - 1])
          /\ found[i] = Located((base + Ends(found)[i - 1]) % AddressSpace,
                                Outcome(Rest(bytes, Ends(found)[i - 1])))
      BY <3>1, Zenon DEF Walked
    <3> QED BY <2>1, <3>1, <3>2, Zenon
  <2> QED BY <2>2, <2>3
<1>5. Walked(longer, bytes, base)
  BY <1>4, Zenon DEF Walked
<1> QED BY <1>3, <1>5 DEF longer

-----------------------------------------------------------------------------
\* data[from:], for any slice.
LEMMA RestOf ==
  ASSUME NEW bytes \in Seq(Byte), NEW from \in 0..Len(bytes)
  PROVE  /\ Rest(bytes, from) \in Seq(Byte)
         /\ Len(Rest(bytes, from)) = Len(bytes) - from
         /\ \A i \in 1..(Len(bytes) - from) : Rest(bytes, from)[i] = bytes[from + i]
<1>1. /\ Len(bytes) \in Nat /\ from \in Nat /\ from <= Len(bytes)
      /\ \A i \in (from + 1)..Len(bytes) : bytes[i] \in Byte
  BY LenProperties, ElementOfSeq
<1>2. from + 1 \in 1..(Len(bytes) + 1)
  BY <1>1
<1> QED BY <1>1, <1>2, SubSeqProperties DEF Rest

\* data[:cut], for any slice.
LEMMA CutOf ==
  ASSUME NEW bytes \in Seq(Byte), NEW cut \in 0..Len(bytes)
  PROVE  /\ SubSeq(bytes, 1, cut) \in Seq(Byte)
         /\ Len(SubSeq(bytes, 1, cut)) = cut
         /\ \A i \in 1..cut : SubSeq(bytes, 1, cut)[i] = bytes[i]
<1>1. /\ Len(bytes) \in Nat /\ cut \in Nat /\ cut <= Len(bytes)
      /\ \A i \in 1..cut : bytes[i] \in Byte
  BY LenProperties, ElementOfSeq
<1> QED BY <1>1, SubSeqProperties

\* data[from:][:size] is data[from:from+size].
LEMMA PartOf ==
  ASSUME NEW bytes \in Seq(Byte), NEW from \in 0..Len(bytes), NEW size \in 0..(Len(bytes) - from)
  PROVE  SubSeq(Rest(bytes, from), 1, size) = SubSeq(bytes, from + 1, from + size)
<1> DEFINE rest == Rest(bytes, from)
           a == SubSeq(rest, 1, size)
           b == SubSeq(bytes, from + 1, from + size)
<1>1. /\ Len(bytes) \in Nat /\ from \in Nat /\ size \in Nat /\ from + size <= Len(bytes)
      /\ \A i \in (from + 1)..(from + size) : bytes[i] \in Byte
  BY LenProperties, ElementOfSeq
<1>2. b \in Seq(Byte) /\ Len(b) = size /\ \A i \in 1..size : b[i] = bytes[from + i]
  <2>1. /\ b \in Seq(Byte)
        /\ Len(b) = IF from + 1 <= from + size THEN from + size - (from + 1) + 1 ELSE 0
        /\ \A i \in 1..(from + size - (from + 1) + 1) : b[i] = bytes[from + 1 + i - 1]
    BY <1>1, SubSeqProperties
  <2> HIDE DEF b
  <2> QED BY <1>1, <2>1
<1>3. a \in Seq(Byte) /\ Len(a) = size /\ \A i \in 1..size : a[i] = bytes[from + i]
  <2>1. /\ rest \in Seq(Byte)
        /\ Len(rest) = Len(bytes) - from
        /\ \A i \in 1..(Len(bytes) - from) : rest[i] = bytes[from + i]
    BY RestOf
  <2> HIDE DEF rest
  <2>2. size \in 0..Len(rest)
    BY <2>1
  <2>3. a \in Seq(Byte) /\ Len(a) = size /\ \A i \in 1..size : a[i] = rest[i]
    BY <2>1, <2>2, CutOf
  <2> HIDE DEF a
  <2> QED BY <1>1, <2>1, <2>3
<1> HIDE DEF a, b
<1>4. a = b
  BY <1>1, <1>2, <1>3, SeqEqual
<1> QED BY <1>4 DEF a, b

\* data[:from] and data[from:][:size] are data[:from+size].
LEMMA Joins ==
  ASSUME NEW bytes \in Seq(Byte), NEW from \in 0..Len(bytes), NEW size \in 0..(Len(bytes) - from)
  PROVE  SubSeq(bytes, 1, from) \o SubSeq(Rest(bytes, from), 1, size)
           = SubSeq(bytes, 1, from + size)
<1>1. /\ Len(bytes) \in Nat /\ 1 \in 1..(Len(bytes) + 1) /\ from \in (1 - 1)..Len(bytes)
      /\ from + size \in from..Len(bytes)
  BY LenProperties
<1>2. SubSeq(bytes, 1, from) \o SubSeq(bytes, from + 1, from + size)
        = SubSeq(bytes, 1, from + size)
  BY <1>1, ConcatAdjacentSubSeq
<1> QED BY <1>2, PartOf

-----------------------------------------------------------------------------
\* One instruction of a listing: the bytes from the one before it to its end.
LEMMA WalkedStep ==
  ASSUME NEW bytes \in Seq(Byte), NEW found \in Seq(Entry), NEW base,
         NEW i \in 1..Len(found), NEW from,
         Len(bytes) <= MaxLen, Walked(found, bytes, base), from = Ends(found)[i - 1]
  PROVE  /\ from \in 0..Len(bytes) /\ from < Len(bytes)
         /\ Decodes(bytes, from)
         /\ found[i] = Located((base + from) % AddressSpace, Outcome(Rest(bytes, from)))
         /\ found[i].size = Outcome(Rest(bytes, from)).size
         /\ found[i].size \in 2..(Len(bytes) - from)
         /\ found[i].bytes = SubSeq(Rest(bytes, from), 1, found[i].size)
         /\ Ends(found)[i] = from + found[i].size
<1> DEFINE rest == Rest(bytes, from)
<1>1. /\ Len(found) \in Nat /\ Len(bytes) \in Nat /\ i - 1 \in 0..Len(found)
      /\ from \in Nat /\ Ends(found)[i] = from + found[i].size
  <2>1. Len(found) \in Nat /\ Len(bytes) \in Nat
    BY LenProperties
  <2>2. i - 1 \in 0..Len(found)
    BY <2>1
  <2> QED BY <2>1, <2>2, EndsOf
<1>2. /\ Decodes(bytes, from)
      /\ found[i] = Located((base + from) % AddressSpace, Outcome(rest))
  BY Zenon DEF Walked
<1>3. from < Len(bytes) /\ from \in 0..Len(bytes) /\ Outcome(rest).kind = "ok"
  BY <1>1, <1>2 DEF Decodes
<1>4. rest \in Seq(Byte) /\ Len(rest) = Len(bytes) - from /\ Len(rest) <= MaxLen
  <2>1. rest \in Seq(Byte) /\ Len(rest) = Len(bytes) - from
    BY <1>3, RestOf
  <2> HIDE DEF rest
  <2> QED BY <1>1, <2>1, MaxLenAssumption
<1> HIDE DEF rest
<1>5. /\ Outcome(rest).size \in 2..Len(rest)
      /\ Outcome(rest).bytes = SubSeq(rest, 1, Outcome(rest).size)
  BY <1>3, <1>4, InstructionFits
<1>6. found[i].size = Outcome(rest).size /\ found[i].bytes = Outcome(rest).bytes
  BY <1>2 DEF Located
<1>7. found[i].size \in 2..(Len(bytes) - from) /\ found[i].bytes = SubSeq(rest, 1, found[i].size)
  <2>1. found[i].bytes = SubSeq(rest, 1, found[i].size)
    BY <1>5, <1>6, Zenon
  <2> QED BY <1>4, <1>5, <1>6, <2>1
<1> QED BY <1>1, <1>2, <1>3, <1>6, <1>7 DEF rest

\* The bytes of a listing are those it was found in, up to its end.
LEMMA ListingTiles ==
  ASSUME NEW bytes \in Seq(Byte), NEW found \in Seq(Entry), NEW base,
         Len(bytes) <= MaxLen, Walked(found, bytes, base)
  PROVE  BytesOf(found)[Len(found)] = SubSeq(bytes, 1, Ends(found)[Len(found)])
<1> DEFINE n == Len(found)
           E == Ends(found)
           B == BytesOf(found)
           S == {i \in 0..n : B[i] = SubSeq(bytes, 1, E[i])}
<1>1. /\ n \in Nat /\ E[0] = 0 /\ B[0] = << >>
      /\ \A i \in 1..n : B[i] = B[i - 1] \o found[i].bytes
  BY EntriesOf, EndsOf, BytesAre
<1>2. 0 \in S
  <2>1. SubSeq(bytes, 1, 0) = << >>
    BY SubSeqEmpty
  <2>2. B[0] = SubSeq(bytes, 1, E[0]) /\ 0 \in 0..n
    BY <1>1, <2>1
  <2> QED BY <2>2
<1>3. ASSUME NEW i \in 1..n, i - 1 \in S
      PROVE  i \in S
  <2> DEFINE from == E[i - 1]
             size == found[i].size
  <2>1. /\ from \in 0..Len(bytes) /\ size \in 2..(Len(bytes) - from)
        /\ found[i].bytes = SubSeq(Rest(bytes, from), 1, size)
        /\ E[i] = from + size
    BY WalkedStep
  <2>2. B[i - 1] = SubSeq(bytes, 1, from)
    BY <1>3
  <2>3. B[i] = B[i - 1] \o found[i].bytes
    BY <1>1
  <2> HIDE DEF from, size, B, E
  <2>4. size \in 0..(Len(bytes) - from)
    BY <2>1
  <2>5. SubSeq(bytes, 1, from) \o SubSeq(Rest(bytes, from), 1, size)
          = SubSeq(bytes, 1, from + size)
    BY <2>1, <2>4, Joins
  <2>6. B[i] = SubSeq(bytes, 1, E[i])
    BY <2>1, <2>2, <2>3, <2>5, Zenon
  <2>7. i \in 0..n
    BY <1>1
  <2> QED BY <2>6, <2>7
<1>4. n \in S
  <2> HIDE DEF S, n
  <2>1. \A i \in 0..n : i \in S
    BY <1>1, <1>2, <1>3, Induction
  <2> QED BY <1>1, <2>1
<1> QED BY <1>4

\* There is one listing of a slice at an address: of two, neither is longer.
LEMMA ListingsAgree ==
  ASSUME NEW bytes \in Seq(Byte), NEW found \in Seq(Entry), NEW other \in Seq(Entry), NEW base,
         Walked(found, bytes, base), Walked(other, bytes, base), Len(found) <= Len(other)
  PROVE  /\ \A i \in 1..Len(found) : found[i] = other[i]
         /\ \A i \in 0..Len(found) : Ends(found)[i] = Ends(other)[i]
<1> DEFINE n == Len(found)
           E == Ends(found)
           F == Ends(other)
           What(from) == Located((base + from) % AddressSpace, Outcome(Rest(bytes, from)))
           S == {i \in 0..n : E[i] = F[i]}
<1>1. /\ n \in Nat /\ E[0] = 0 /\ F[0] = 0
      /\ \A i \in 1..n : E[i] = E[i - 1] + found[i].size /\ F[i] = F[i - 1] + other[i].size
  <2>1. n \in Nat /\ \A i \in 1..n : i \in 1..Len(other)
    BY EntriesOf
  <2>2. E[0] = 0 /\ \A i \in 1..n : E[i] = E[i - 1] + found[i].size
    BY EndsOf
  <2>3. F[0] = 0 /\ \A i \in 1..Len(other) : F[i] = F[i - 1] + other[i].size
    BY EndsOf
  <2> HIDE DEF E, F, n
  <2> QED BY <2>1, <2>2, <2>3
<1>2. \A i \in 1..n : found[i] = What(E[i - 1]) /\ other[i] = What(F[i - 1])
  <2>1. \A i \in 1..n : i \in 1..Len(other)
    BY EntriesOf
  <2> QED BY <2>1, Zenon DEF Walked
<1> HIDE DEF E, F, What, n
<1>3. 0 \in S /\ \A i \in 1..n : i - 1 \in S => i \in S
  <2>1. ASSUME NEW i \in 1..n, i - 1 \in S
        PROVE  i \in S
    <3>1. E[i - 1] = F[i - 1] /\ i \in 0..n
      BY <1>1, <2>1
    <3>2. found[i] = other[i]
      BY <1>2, <3>1, Zenon
    <3>3. E[i] = F[i]
      BY <1>1, <3>1, <3>2
    <3> QED BY <3>1, <3>3
  <2>2. 0 \in S
    BY <1>1
  <2> QED BY <2>1, <2>2
<1>4. \A i \in 0..n : i \in S
  <2> HIDE DEF S
  <2> QED BY <1>1, <1>3, Induction
<1>5. \A i \in 0..n : E[i] = F[i]
  BY <1>4
<1>6. \A i \in 1..n : found[i] = other[i]
  <2>1. \A i \in 1..n : i - 1 \in 0..n
    BY <1>1
  <2> QED BY <1>2, <1>5, <2>1, Zenon
<1> QED BY <1>5, <1>6 DEF n, E, F

\* What DisassembleRange finds depends on nothing but the slice and the address.
LEMMA SameListing ==
  ASSUME NEW bytes \in Seq(Byte), NEW found \in Seq(Entry), NEW other \in Seq(Entry), NEW base,
         Listing(found, bytes, base), Listing(other, bytes, base)
  PROVE  found = other
<1>1. /\ Walked(found, bytes, base) /\ ~Decodes(bytes, Ends(found)[Len(found)])
      /\ Walked(other, bytes, base) /\ ~Decodes(bytes, Ends(other)[Len(other)])
  BY DEF Listing
<1>2. Len(found) \in Nat /\ Len(other) \in Nat
  BY EntriesOf
<1>3. ~(Len(found) < Len(other))
  <2> SUFFICES ASSUME Len(found) < Len(other)
               PROVE  FALSE
    OBVIOUS
  <2>1. Len(found) + 1 \in 1..Len(other) /\ (Len(found) + 1) - 1 = Len(found)
        /\ Len(found) \in 0..Len(found) /\ Len(found) <= Len(other)
    BY <1>2
  <2>2. Ends(found)[Len(found)] = Ends(other)[Len(found)]
    BY <1>1, <2>1, ListingsAgree
  <2>3. Decodes(bytes, Ends(other)[(Len(found) + 1) - 1])
    BY <1>1, <2>1, Zenon DEF Walked
  <2> QED BY <1>1, <2>1, <2>2, <2>3, Zenon
<1>4. ~(Len(other) < Len(found))
  <2> SUFFICES ASSUME Len(other) < Len(found)
               PROVE  FALSE
    OBVIOUS
  <2>1. Len(other) + 1 \in 1..Len(found) /\ (Len(other) + 1) - 1 = Len(other)
        /\ Len(other) \in 0..Len(other) /\ Len(other) <= Len(found)
    BY <1>2
  <2>2. Ends(other)[Len(other)] = Ends(found)[Len(other)]
    BY <1>1, <2>1, ListingsAgree
  <2>3. Decodes(bytes, Ends(found)[(Len(other) + 1) - 1])
    BY <1>1, <2>1, Zenon DEF Walked
  <2> QED BY <1>1, <2>1, <2>2, <2>3, Zenon
<1>5. Len(found) = Len(other)
  BY <1>2, <1>3, <1>4
<1>6. \A i \in 1..Len(found) : found[i] = other[i]
  BY <1>1, <1>2, <1>5, ListingsAgree
<1> QED BY <1>5, <1>6, SeqEqual

-----------------------------------------------------------------------------
\* A decoder that succeeds within the first k bytes of more of them succeeds on
\* those k alone: it asks for no byte it does not use.
LEMMA VerdictFits ==
  ASSUME NEW op \in Known \cap Opcodes, NEW k \in 2..MaxLen, NEW len \in k..MaxLen,
         Verdict(op, len).kind = "ok", Verdict(op, len).size <= k
  PROVE  Verdict(op, k) = Verdict(op, len)
<1> DEFINE V(i) == Verdict(op, k + i)
           Fits(v) == v.kind = "ok" /\ v.size <= k
           S == {i \in 0..(len - k) : ~Fits(V(i))}
<1>1. /\ k \in Nat /\ len \in Nat /\ len - k \in Nat /\ MaxLen \in Nat
      /\ k + 0 = k /\ k + (len - k) = len
  BY MaxLenAssumption
<1>2. ASSUME NEW i \in 1..(len - k), i - 1 \in S
      PROVE  i \in S
  <2> DEFINE m == k + (i - 1)
             v == Verdict(op, m)
             w == Verdict(op, m + 1)
  <2>1. /\ m \in 2..MaxLen /\ m + 1 \in m..MaxLen /\ m + 1 = k + i /\ m \in Nat /\ m >= k
        /\ i \in 0..(len - k)
    BY <1>1
  <2>2. Bounded(v, m, MaxLen) /\ Continues(v, m, w, m + 1)
    BY <2>1, ContractOf
  <2>3. ~Fits(v) /\ V(i) = w
    BY <1>2, <2>1
  <2> HIDE DEF v, w, m, V
  <2>4. /\ v.kind \in {"ok", "more", "error"}
        /\ v.kind = "more" => v.missing \in 1..(MaxLen - m)
    BY <1>1, <2>1, <2>2, BoundedCases
  <2>5. CASE v.kind # "more"
    BY <2>1, <2>2, <2>3, <2>5 DEF Continues
  <2>6. CASE v.kind = "more" /\ v.missing = 1
    <3>1. m + 1 = m + v.missing
      BY <2>6
    <3>2. w.kind = "ok" => w.size = m + 1
      BY <2>2, <2>6, <3>1 DEF Continues
    <3>3. ~Fits(w)
      BY <1>1, <2>1, <3>2
    <3> QED BY <2>1, <2>3, <3>3
  <2>7. CASE v.kind = "more" /\ v.missing # 1
    <3>1. m + 1 < m + v.missing
      BY <2>1, <2>4, <2>7
    <3>2. w = More(v.missing - ((m + 1) - m), v.context)
      BY <2>2, <2>7, <3>1 DEF Continues
    <3>3. w.kind = "more"
      BY <3>2, Fields
    <3>4. ~Fits(w)
      BY <3>3
    <3> QED BY <2>1, <2>3, <3>4
  <2> QED BY <2>4, <2>5, <2>6, <2>7
<1>3. 0 \notin S
  <2> SUFFICES ASSUME 0 \in S
               PROVE  FALSE
    OBVIOUS
  <2>1. V(len - k) = Verdict(op, len) /\ len - k \in 0..(len - k)
    BY <1>1
  <2>2. len - k \notin S
    BY <2>1
  <2> HIDE DEF S
  <2>3. \A i \in 0..(len - k) : i \in S
    BY <1>1, <1>2, Induction
  <2> QED BY <2>1, <2>2, <2>3
<1>4. Verdict(op, k).kind = "ok"
  <2>1. V(0) = Verdict(op, k) /\ 0 \in 0..(len - k)
    BY <1>1
  <2> QED BY <1>3, <2>1
<1>5. Continues(Verdict(op, k), k, Verdict(op, len), len)
  BY ContractOf
<1> QED BY <1>4, <1>5 DEF Continues

\* An instruction is found from its own bytes alone.
LEMMA OutcomeFits ==
  ASSUME NEW bytes \in Seq(Byte), NEW k \in 2..Len(bytes), Len(bytes) <= MaxLen,
         Outcome(bytes).kind = "ok", Outcome(bytes).size <= k
  PROVE  Outcome(SubSeq(bytes, 1, k)) = Outcome(bytes)
<1> DEFINE d == SubSeq(bytes, 1, k)
           op == OpcodeOf(bytes)
<1>1. Len(bytes) \in Nat /\ k \in Nat /\ k \in 0..Len(bytes) /\ Len(bytes) >= 2 /\ k >= 2
  BY LenProperties
<1>2. d \in Seq(Byte) /\ Len(d) = k /\ \A i \in 1..k : d[i] = bytes[i]
  BY <1>1, CutOf
<1>3. OpcodeOf(d) = op
  BY <1>1, <1>2 DEF OpcodeOf
<1>4. \A j \in 0..k : SubSeq(d, 1, j) = SubSeq(bytes, 1, j)
  <2> SUFFICES ASSUME NEW j \in 0..k
               PROVE  SubSeq(d, 1, j) = SubSeq(bytes, 1, j)
    OBVIOUS
  <2> HIDE DEF d
  <2>1. j \in 0..Len(d) /\ j \in 0..Len(bytes) /\ j \in Nat
    BY <1>1, <1>2
  <2>2. /\ SubSeq(d, 1, j) \in Seq(Byte) /\ Len(SubSeq(d, 1, j)) = j
        /\ \A i \in 1..j : SubSeq(d, 1, j)[i] = d[i]
    BY <1>2, <2>1, CutOf
  <2>3. /\ SubSeq(bytes, 1, j) \in Seq(Byte) /\ Len(SubSeq(bytes, 1, j)) = j
        /\ \A i \in 1..j : SubSeq(bytes, 1, j)[i] = bytes[i]
    BY <2>1, CutOf
  <2>4. \A i \in 1..j : SubSeq(d, 1, j)[i] = SubSeq(bytes, 1, j)[i]
    BY <1>1, <1>2, <2>1, <2>2, <2>3
  <2> QED BY <2>2, <2>3, <2>4, SeqEqual
<1> HIDE DEF d
<1>5. Len(d) >= 2 /\ Len(d) \in Nat
  BY <1>1, <1>2
<1>6. CASE op \notin Known
  <2>1. Outcome(bytes) = Instruction(2, SubSeq(bytes, 1, 2), TRUE)
    BY <1>1, <1>6, OutcomeCases
  <2>2. Outcome(d) = Instruction(2, SubSeq(d, 1, 2), TRUE)
    BY <1>3, <1>5, <1>6, OutcomeCases
  <2>3. SubSeq(d, 1, 2) = SubSeq(bytes, 1, 2)
    BY <1>1, <1>4
  <2> QED BY <2>1, <2>2, <2>3 DEF d
<1>7. CASE op \in Known
  <2> DEFINE v == Verdict(op, k)
             w == Verdict(op, Len(bytes))
  <2>1. Outcome(bytes) = Answer(w, bytes)
    BY <1>1, <1>7, OutcomeCases
  <2>2. Outcome(d) = Answer(v, d)
    <3>1. Outcome(d) = Answer(Verdict(OpcodeOf(d), Len(d)), d)
      BY <1>3, <1>5, <1>7, OutcomeCases
    <3> QED BY <1>2, <1>3, <3>1, Zenon
  <2>3. /\ op \in Known \cap Opcodes /\ k \in 2..MaxLen /\ Len(bytes) \in k..MaxLen
        /\ Len(bytes) \in 2..MaxLen /\ Len(bytes) \in Len(bytes)..MaxLen
    BY <1>1, <1>7, OpcodeIsWord, MaxLenAssumption
  <2>4. Bounded(w, Len(bytes), MaxLen)
    BY <2>3, ContractOf
  <2>5. w.kind = "ok" /\ w.size = Outcome(bytes).size /\ w.size \in 2..Len(bytes)
    <3> HIDE DEF w
    <3>1. w.kind \in {"ok", "more", "error"} /\ (w.kind = "ok" => w.size \in 2..Len(bytes))
      BY <1>1, <2>4, BoundedCases, MaxLenAssumption
    <3>2. w.kind = "more" => Outcome(bytes) = Partial(Len(bytes), w.missing, w.context)
      BY <2>1, Zenon DEF Answer
    <3>3. w.kind = "error" => Outcome(bytes) = Rejected(w.context)
      BY <2>1, Zenon DEF Answer
    <3>4. w.kind = "ok"
      BY <3>1, <3>2, <3>3, AnswerFields
    <3>5. Outcome(bytes) = Instruction(w.size, SubSeq(bytes, 1, w.size), FALSE)
      BY <2>1, <3>4, Zenon DEF Answer
    <3>6. Outcome(bytes).size = w.size
      <4> DEFINE found == Instruction(w.size, SubSeq(bytes, 1, w.size), FALSE)
      <4>1. found.size = w.size
        BY DEF Instruction
      <4> HIDE DEF found
      <4>2. Outcome(bytes) = found
        BY <3>5 DEF found
      <4> QED BY <4>1, <4>2, Zenon
    <3> QED BY <3>1, <3>4, <3>6
  <2>6. v = w
    <3>1. w.kind = "ok" /\ w.size <= k
      BY <2>5
    <3> QED BY <2>3, <3>1, VerdictFits
  <2>7. SubSeq(d, 1, w.size) = SubSeq(bytes, 1, w.size)
    <3> HIDE DEF w
    <3>1. w.size \in 0..k
      BY <1>1, <2>5
    <3> QED BY <1>4, <3>1
  <2> HIDE DEF v, w
  <2>8. Answer(v, d) = Answer(w, bytes)
    BY <2>5, <2>6, <2>7, Zenon DEF Answer
  <2> QED BY <2>1, <2>2, <2>8 DEF d
<1> QED BY <1>6, <1>7

\* data[:cut][from:] is data[from:][:cut-from].
LEMMA RestOfCut ==
  ASSUME NEW bytes \in Seq(Byte), NEW cut \in 0..Len(bytes), NEW from \in 0..cut
  PROVE  /\ Rest(SubSeq(bytes, 1, cut), from) = SubSeq(Rest(bytes, from), 1, cut - from)
         /\ cut - from \in 0..Len(Rest(bytes, from))
         /\ Len(Rest(bytes, from)) = Len(bytes) - from
         /\ Rest(bytes, from) \in Seq(Byte)
<1> DEFINE d == SubSeq(bytes, 1, cut)
           rest == Rest(bytes, from)
           a == Rest(d, from)
           b == SubSeq(rest, 1, cut - from)
<1>1. Len(bytes) \in Nat /\ cut \in Nat /\ from \in Nat /\ from \in 0..Len(bytes)
  BY LenProperties
<1>2. d \in Seq(Byte) /\ Len(d) = cut /\ \A i \in 1..cut : d[i] = bytes[i]
  BY CutOf
<1>3. /\ rest \in Seq(Byte) /\ Len(rest) = Len(bytes) - from
      /\ \A i \in 1..(Len(bytes) - from) : rest[i] = bytes[from + i]
  BY <1>1, RestOf
<1> HIDE DEF d, rest
<1>4. /\ a \in Seq(Byte) /\ Len(a) = cut - from
      /\ \A i \in 1..(cut - from) : a[i] = d[from + i]
  BY <1>1, <1>2, RestOf
<1>5. cut - from \in 0..Len(rest) /\ cut - from \in Nat
  BY <1>1, <1>3
<1>6. b \in Seq(Byte) /\ Len(b) = cut - from /\ \A i \in 1..(cut - from) : b[i] = rest[i]
  BY <1>3, <1>5, CutOf
<1> HIDE DEF a, b
<1>7. ASSUME NEW i \in 1..(cut - from)
      PROVE  a[i] = b[i]
  <2>1. i \in 1..(Len(bytes) - from) /\ from + i \in 1..cut
    BY <1>1
  <2> QED BY <1>2, <1>3, <1>4, <1>6, <2>1
<1>8. a = b
  BY <1>4, <1>6, <1>7, SeqEqual
<1> QED BY <1>3, <1>5, <1>8 DEF a, b, d, rest

\* The instructions that end within the first bytes are the first ones.
LEMMA FittingOnes ==
  ASSUME NEW found \in Seq(Entry), NEW cut \in Nat
  PROVE  \E m \in 0..Len(found) : {i \in 1..Len(found) : Ends(found)[i] <= cut} = 1..m
<1> DEFINE n == Len(found)
           E == Ends(found)
           Long == {i \in 1..n : ~(E[i] <= cut)}
<1>1. /\ n \in Nat /\ \A i \in 0..n : E[i] \in Nat
      /\ \A j \in 0..n : \A i \in 0..n : i < j => E[i] < E[j]
  BY EntriesOf, EndsOf, EndsGrow
<1> HIDE DEF n, E
<1>2. CASE Long = {}
  <2>1. {i \in 1..n : E[i] <= cut} = 1..n /\ n \in 0..n
    BY <1>1, <1>2
  <2> QED BY <2>1 DEF n, E
<1>3. CASE Long # {}
  <2>1. PICK k \in Long : \A j \in Long : k <= j
    <3>1. Long \in SUBSET Nat
      OBVIOUS
    <3> HIDE DEF Long
    <3> QED BY <1>3, <3>1, Least
  <2>2. ASSUME NEW i \in 1..n
        PROVE  E[i] <= cut <=> i \in 1..(k - 1)
    <3>1. CASE i < k
      BY <2>1, <3>1
    <3>2. CASE i >= k
      <4>1. E[k] <= E[i] /\ ~(E[k] <= cut) /\ E[i] \in Nat /\ E[k] \in Nat
        BY <1>1, <2>1, <3>2
      <4> QED BY <2>1, <3>2, <4>1
    <3> QED BY <2>1, <3>1, <3>2
  <2>3. k - 1 \in 0..n /\ \A i \in 1..(k - 1) : i \in 1..n
    BY <1>1, <2>1
  <2>4. {i \in 1..n : E[i] <= cut} = 1..(k - 1)
    BY <2>2, <2>3, Zenon
  <2> QED BY <2>3, <2>4 DEF n, E
<1> QED BY <1>2, <1>3

\* The first instructions of a listing.
LEMMA FirstOnes ==
  ASSUME NEW found \in Seq(Entry), NEW m \in 0..Len(found)
  PROVE  /\ SubSeq(found, 1, m) \in Seq(Entry) /\ Len(SubSeq(found, 1, m)) = m
         /\ m \in Nat /\ m <= Len(found)
         /\ \A i \in 1..m : SubSeq(found, 1, m)[i] = found[i] /\ i \in 1..Len(found)
         /\ \A i \in 0..m : Ends(SubSeq(found, 1, m))[i] = Ends(found)[i]
<1> DEFINE short == SubSeq(found, 1, m)
<1>1. /\ m \in Nat /\ m <= Len(found) /\ \A i \in 1..m : i \in 1..Len(found)
      /\ \A i \in 1..m : found[i] \in Entry
  BY EntriesOf
<1>2. /\ short \in Seq(Entry) /\ Len(short) = IF 1 <= m THEN m - 1 + 1 ELSE 0
      /\ \A i \in 1..(m - 1 + 1) : short[i] = found[1 + i - 1]
  BY <1>1, SubSeqProperties
<1> HIDE DEF short
<1>3. short \in Seq(Entry) /\ Len(short) = m /\ \A i \in 1..m : short[i] = found[i]
  BY <1>1, <1>2
<1>4. \A i \in 0..m : Ends(short)[i] = Ends(found)[i]
  BY <1>1, <1>3, EndsAgree
<1> QED BY <1>1, <1>3, <1>4 DEF short

\* A listing of a slice, up to a cut, is the listing of the slice cut there.
LEMMA ListingCut ==
  ASSUME NEW bytes \in Seq(Byte), NEW found \in Seq(Entry), NEW base,
         NEW cut \in 0..Len(bytes), NEW m, Len(bytes) <= MaxLen,
         Listing(found, bytes, base),
         m = Cardinality({i \in 1..Len(found) : Ends(found)[i] <= cut})
  PROVE  Listing(SubSeq(found, 1, m), SubSeq(bytes, 1, cut), base)
<1> DEFINE n == Len(found)
           E == Ends(found)
           d == SubSeq(bytes, 1, cut)
           short == SubSeq(found, 1, m)
           From(from) == Outcome(Rest(bytes, from))
           Cut(from) == Outcome(Rest(d, from))
<1>1. /\ n \in Nat /\ Len(bytes) \in Nat /\ cut \in Nat /\ cut <= Len(bytes)
      /\ Walked(found, bytes, base) /\ ~Decodes(bytes, E[n])
  BY LenProperties DEF Listing
<1>2. m \in 0..n /\ \A i \in 1..n : E[i] <= cut <=> i \in 1..m
  <2>1. PICK k \in 0..n : {i \in 1..n : E[i] <= cut} = 1..k
    BY <1>1, FittingOnes
  <2>2. Cardinality(1..k) = k
    BY <1>1, <2>1, FS_Interval
  <2>3. m = k
    BY <2>1, <2>2
  <2>4. \A i \in 1..n : E[i] <= cut <=> i \in 1..k
    BY <2>1
  <2> QED BY <2>1, <2>3, <2>4
<1>3. /\ short \in Seq(Entry) /\ Len(short) = m /\ m \in Nat /\ m <= n
      /\ \A i \in 1..m : short[i] = found[i] /\ i \in 1..n
      /\ \A i \in 0..m : Ends(short)[i] = E[i]
  BY <1>2, FirstOnes, Zenon
<1>4. d \in Seq(Byte) /\ Len(d) = cut
  BY CutOf
<1> HIDE DEF short, n
<1>5. ASSUME NEW i \in 1..m
      PROVE  /\ Decodes(d, E[i - 1])
             /\ short[i] = Located((base + E[i - 1]) % AddressSpace, Cut(E[i - 1]))
  <2> DEFINE from == E[i - 1]
             rest == Rest(bytes, from)
  <2>1. /\ from \in 0..Len(bytes) /\ Decodes(bytes, from)
        /\ found[i] = Located((base + from) % AddressSpace, From(from))
        /\ found[i].size = From(from).size
        /\ found[i].size \in 2..(Len(bytes) - from)
        /\ E[i] = from + found[i].size
    <3>1. i \in 1..Len(found)
      BY <1>3 DEF n
    <3> QED BY <1>1, <3>1, WalkedStep
  <2>2. E[i] <= cut
    BY <1>2, <1>3
  <2> HIDE DEF E, from
  <2>3. /\ from \in 0..cut /\ from \in Nat /\ From(from).size <= cut - from
        /\ cut - from >= 2
    <3>1. found[i].size \in Nat /\ found[i].size >= 2 /\ from \in Nat
      BY <1>1, <2>1
    <3>2. from + found[i].size <= cut
      BY <2>1, <2>2
    <3> QED BY <1>1, <2>1, <3>1, <3>2
  <2>4. /\ Rest(d, from) = SubSeq(rest, 1, cut - from)
        /\ cut - from \in 0..Len(rest) /\ Len(rest) = Len(bytes) - from /\ rest \in Seq(Byte)
    BY <2>3, RestOfCut
  <2>5. Outcome(rest).kind = "ok"
    BY <2>1 DEF Decodes
  <2> HIDE DEF rest, d
  <2>6. cut - from \in 2..Len(rest) /\ Len(rest) <= MaxLen
    BY <1>1, <2>3, <2>4, MaxLenAssumption
  <2>7. Outcome(SubSeq(rest, 1, cut - from)) = Outcome(rest)
    <3>1. Outcome(rest).size <= cut - from
      BY <2>3 DEF rest
    <3> QED BY <2>4, <2>5, <2>6, <3>1, OutcomeFits
  <2>8. Cut(from) = From(from)
    BY <2>4, <2>7 DEF rest
  <2>9. from < Len(d)
    BY <1>1, <1>4, <2>3
  <2>10. Decodes(d, from)
    BY <2>5, <2>8, <2>9, Zenon DEF Decodes, rest
  <2>11. short[i] = Located((base + from) % AddressSpace, Cut(from))
    BY <1>3, <2>1, <2>8, Zenon
  <2> QED BY <2>10, <2>11 DEF from
<1>6. Walked(short, d, base)
  <2>1. \A i \in 1..m : Ends(short)[i - 1] = E[i - 1]
    <3>1. \A i \in 1..m : i - 1 \in 0..m
      BY <1>3
    <3> QED BY <1>3, <3>1
  <2> HIDE DEF E
  <2> QED BY <1>3, <1>5, <2>1, Zenon DEF Walked
<1>7. ~Decodes(d, E[m])
  <2> DEFINE from == E[m]
             rest == Rest(bytes, from)
             part == Rest(d, from)
  <2> SUFFICES ASSUME Decodes(d, from)
               PROVE  FALSE
    OBVIOUS
  <2>1. from \in Nat /\ from < cut /\ Outcome(part).kind = "ok"
    <3>1. m \in 0..Len(found)
      BY <1>2 DEF n
    <3>2. from \in Nat
      BY <3>1, EndsOf
    <3> QED BY <1>4, <3>2 DEF Decodes
  <2> HIDE DEF E, from
  <2>2. /\ part = SubSeq(rest, 1, cut - from)
        /\ cut - from \in 0..Len(rest) /\ Len(rest) = Len(bytes) - from /\ rest \in Seq(Byte)
    <3>1. from \in 0..cut
      BY <1>1, <2>1
    <3> QED BY <3>1, RestOfCut
  <2> HIDE DEF rest, part, d
  <2>3. part \in Seq(Byte) /\ Len(part) = cut - from
    BY <2>2, CutOf
  <2>4. Len(rest) <= MaxLen /\ Len(part) <= MaxLen /\ Len(rest) >= Len(part)
    BY <1>1, <2>1, <2>2, <2>3, MaxLenAssumption
  <2>5. Outcome(rest) = Outcome(part)
    <3>1. SubSeq(rest, 1, Len(part)) = part
      BY <2>2, <2>3
    <3>2. Outcome(part).kind # "partial"
      BY <2>1
    <3> QED BY <2>2, <2>3, <2>4, <3>1, <3>2, FinalOutcome
  <2>6. Outcome(part).size \in 2..(cut - from)
    BY <2>1, <2>3, <2>4, InstructionFits
  <2>7. Decodes(bytes, from)
    <3>1. from < Len(bytes)
      BY <1>1, <2>1
    <3> QED BY <2>1, <2>5, <3>1, Zenon DEF Decodes, rest
  <2>8. m # n
    <3> SUFFICES ASSUME m = n
                 PROVE  FALSE
      OBVIOUS
    <3> QED BY <1>1, <2>7, Zenon DEF from
  <2>9. m + 1 \in 1..n /\ (m + 1) - 1 = m
    BY <1>1, <1>2, <1>3, <2>8
  <2>10. found[m + 1].size = Outcome(rest).size /\ E[m + 1] = from + found[m + 1].size
    <3>1. m + 1 \in 1..Len(found) /\ from = Ends(found)[(m + 1) - 1]
      BY <2>9 DEF n, from, E
    <3>2. PICK i \in 1..Len(found) : i = m + 1 /\ from = Ends(found)[i - 1]
      BY <3>1
    <3>3. /\ found[i].size = Outcome(Rest(bytes, from)).size
          /\ Ends(found)[i] = from + found[i].size
      <4>1. \A at \in 1..Len(found) : \A behind :
              behind = Ends(found)[at - 1] =>
                /\ found[at].size = Outcome(Rest(bytes, behind)).size
                /\ Ends(found)[at] = behind + found[at].size
        BY <1>1, WalkedStep
      <4> QED BY <3>2, <4>1
    <3> QED BY ONLY <3>2, <3>3 DEF rest, E
  <2>11. E[m + 1] <= cut
    BY <1>1, <2>1, <2>5, <2>6, <2>10
  <2>12. m + 1 \in 1..m
    BY <1>2, <2>9, <2>11
  <2> QED BY <1>3, <2>12
<1>8. Ends(short)[Len(short)] = E[m]
  BY <1>3
<1> QED BY <1>6, <1>7, <1>8, Zenon DEF Listing, short, E

-----------------------------------------------------------------------------
\* data[offset:] is a slice of bytes, the rest of data.
LEMMA RestOfData ==
  ASSUME TypeOK
  PROVE  /\ data \in Seq(Byte) /\ Len(data) \in Nat /\ Len(data) <= MaxLen /\ offset \in Nat
         /\ Rest(data, offset) \in Seq(Byte)
         /\ Len(Rest(data, offset)) = Len(data) - offset
         /\ Len(Rest(data, offset)) <= MaxLen
<1>1. /\ data \in Seq(Byte) /\ Len(data) \in Nat /\ Len(data) <= MaxLen
      /\ offset \in Nat /\ offset <= Len(data) /\ MaxLen \in Nat
  BY SlicesAssumption, LenProperties, MaxLenAssumption DEF TypeOK
<1>2. \A i \in (offset + 1)..Len(data) : data[i] \in Byte
  BY <1>1, ElementOfSeq
<1>3. offset + 1 <= Len(data) + 1
  BY <1>1
<1> QED BY <1>1, <1>2, <1>3, SubSeqProperties DEF Rest

LEMMA WalkIInvInit == Init => WalkIInv
<1> SUFFICES ASSUME Init
             PROVE  WalkIInv
  OBVIOUS
<1>1. instructions = << >> /\ instructions \in Seq(Entry) /\ Len(instructions) = 0
  BY EmptySeq DEF Init
<1>2. Len(data) \in Nat
  BY SlicesAssumption, LenProperties DEF Init
<1>3. TypeOK
  <2>1. /\ data \in Slices /\ startAddress \in 0..(AddressSpace - 1)
        /\ offset = 0 /\ returned \in BOOLEAN
    BY DEF Init
  <2> QED BY <1>1, <1>2, <2>1 DEF TypeOK
<1>4. Ends(instructions)[Len(instructions)] = 0
  BY <1>1, EndsOf
<1>5. Walked(instructions, data, startAddress)
  BY <1>1 DEF Walked
<1> QED BY <1>1, <1>3, <1>4, <1>5 DEF Init, WalkIInv, Adjacent, StopsForAReason

\* One more instruction: it lies behind the last one, and ends at the new offset.
LEMMA DecodeNextKeeps == ASSUME WalkIInv, DecodeNext PROVE WalkIInv'
<1> DEFINE rest  == Rest(data, offset)
           found == Outcome(rest)
           entry == Located(AddressAt(offset), found)
           k     == Len(instructions)
<1>0. TypeOK /\ Adjacent /\ instructions \in Seq(Entry) /\ StopsForAReason
      /\ (~returned => err = NoError)
  BY DEF WalkIInv
<1>1. /\ offset \in Nat /\ Len(data) \in Nat /\ offset < Len(data)
      /\ startAddress \in 0..(AddressSpace - 1) /\ k \in Nat
      /\ AddressSpace \in Nat \ {0} /\ MaxLen \in Nat
  BY <1>0, RestOfData, LenProperties, AddressSpaceAssumption, MaxLenAssumption
     DEF DecodeNext, TypeOK
<1>2. /\ found.size \in 2..(Len(data) - offset) /\ found.size <= MaxLen
      /\ found.bytes \in Seq(Byte) /\ Len(found.bytes) = found.size
      /\ found.fallback \in BOOLEAN
  <2>1. rest \in Seq(Byte) /\ Len(rest) = Len(data) - offset /\ Len(rest) <= MaxLen
    BY <1>0, RestOfData
  <2>2. found.kind = "ok"
    BY DEF DecodeNext
  <2> HIDE DEF rest
  <2>3. /\ found.size \in 2..Len(rest) /\ found.bytes \in Seq(Byte)
        /\ Len(found.bytes) = found.size /\ found.fallback \in BOOLEAN
    BY <2>1, <2>2, InstructionFits
  <2> QED BY <1>1, <2>1, <2>3
<1>3. /\ instructions' = Append(instructions, entry)
      /\ offset' = offset + found.size
      /\ UNCHANGED <<data, startAddress, err, returned>> /\ ~returned
  BY DEF DecodeNext
<1>4. AddressAt(offset) \in 0..(AddressSpace - 1)
  BY <1>1 DEF AddressAt
<1> HIDE DEF found
<1>5. /\ entry \in Entry /\ entry.address = AddressAt(offset) /\ entry.size = found.size
      /\ entry.bytes = found.bytes
  BY <1>1, <1>2, <1>4 DEF Entry, Located
<1> HIDE DEF entry
<1>6. /\ instructions' \in Seq(Entry) /\ Len(instructions') = k + 1
      /\ \A i \in 1..k : instructions'[i] = instructions[i]
      /\ instructions'[k + 1] = entry
  BY <1>0, <1>1, <1>3, <1>5, AppendProperties
<1>7. TypeOK'
  <2>1. offset' \in 0..Len(data')
    <3>1. \A step \in 2..(Len(data) - offset) : offset + step \in 0..Len(data)
      BY ONLY <1>1
    <3> QED BY <1>2, <1>3, <3>1
  <2>2. ASSUME NEW i \in 1..Len(instructions')
        PROVE  /\ instructions'[i].address \in 0..(AddressSpace - 1)
               /\ instructions'[i].size \in 2..MaxLen
               /\ Len(instructions'[i].bytes) = instructions'[i].size
    <3>1. CASE i \in 1..k
      <4>1. instructions'[i] = instructions[i]
        BY <1>6, <3>1
      <4> QED BY <1>0, <3>1, <4>1 DEF TypeOK
    <3>2. CASE i = k + 1
      <4>1. instructions'[i] = entry
        BY <1>6, <3>2
      <4>2. found.size \in 2..MaxLen
        BY <1>1, <1>2
      <4> QED BY <1>2, <1>4, <1>5, <4>1, <4>2
    <3> QED BY <1>1, <1>6, <3>1, <3>2
  <2> QED BY <1>0, <1>3, <2>1, <2>2 DEF TypeOK
<1>8. Adjacent'
  <2>1. instructions'[1].address = startAddress
    <3>1. CASE k = 0
      <4>1. offset = 0
        BY <1>0, <3>1, EmptySeq DEF WalkIInv
      <4>2. AddressAt(0) = startAddress
        BY ONLY <1>1 DEF AddressAt
      <4>3. instructions'[1] = entry
        BY <1>1, <1>6, <3>1
      <4> QED BY <1>5, <4>1, <4>2, <4>3
    <3>2. CASE k > 0
      <4>1. instructions # << >> /\ 1 \in 1..k
        BY <1>1, <3>2, EmptySeq
      <4> QED BY <1>0, <1>6, <4>1 DEF Adjacent
    <3> QED BY <1>1, <3>1, <3>2
  <2>2. ASSUME NEW i \in 1..k
        PROVE  instructions'[i + 1].address = After(i)'
    <3>1. After(i)' = After(i) /\ instructions # << >>
      BY <1>1, <1>6, EmptySeq DEF After
    <3>2. CASE i < k
      <4>1. i \in 1..(k - 1) /\ i + 1 \in 1..k
        BY <1>1, <3>2
      <4>2. instructions'[i + 1] = instructions[i + 1]
        BY <1>6, <4>1
      <4> QED BY <1>0, <3>1, <4>1, <4>2 DEF Adjacent
    <3>3. CASE i = k
      BY <1>0, <1>5, <1>6, <3>1, <3>3 DEF Adjacent
    <3> QED BY <1>1, <3>2, <3>3
  <2>3. After(Len(instructions))' = AddressAt(offset)'
    <3>1. After(Len(instructions))' = (entry.address + entry.size) % AddressSpace
      BY <1>6 DEF After
    <3>2. startAddress + offset \in Nat /\ found.size \in Nat
      BY <1>1, <1>2
    <3>3. (entry.address + entry.size) % AddressSpace
            = ((startAddress + offset) + found.size) % AddressSpace
      <4>1. entry.address = (startAddress + offset) % AddressSpace /\ entry.size = found.size
        BY <1>5 DEF AddressAt
      <4>2. (((startAddress + offset) % AddressSpace) + found.size) % AddressSpace
              = ((startAddress + offset) + found.size) % AddressSpace
        BY <1>1, <3>2, Wraps
      <4> QED BY <4>1, <4>2
    <3>4. (startAddress + offset) + found.size = startAddress' + offset'
      BY <1>1, <1>3, <3>2
    <3> QED BY <3>1, <3>3, <3>4 DEF AddressAt
  <2>4. ASSUME NEW i \in 1..(Len(instructions') - 1)
        PROVE  instructions'[i + 1].address = After(i)'
    BY <1>1, <1>6, <2>2
  <2> QED BY <1>3, <2>1, <2>3, <2>4 DEF Adjacent
<1>9. StopsForAReason' /\ (~returned => err = NoError)'
  BY <1>0, <1>3 DEF StopsForAReason
<1>10. instructions' # << >>
  BY <1>1, <1>6, EmptySeq
<1>11. /\ offset' = Ends(instructions')[Len(instructions')]
       /\ Walked(instructions', data', startAddress')
  <2>1. /\ Walked(instructions, data, startAddress) /\ offset = Ends(instructions)[k]
        /\ Decodes(data, offset)
        /\ entry = Located((startAddress + offset) % AddressSpace, Outcome(Rest(data, offset)))
    BY Zenon DEF WalkIInv, DecodeNext, Decodes, entry, found, rest, AddressAt
  <2>2. /\ Ends(Append(instructions, entry))[k + 1] = offset + entry.size
        /\ Walked(Append(instructions, entry), data, startAddress)
    <3>1. instructions \in Seq(Entry) /\ entry \in Entry
      BY <1>0, <1>5
    <3> QED BY <2>1, <3>1, WalkedOn
  <2> QED BY <1>3, <1>5, <1>6, <2>2, Zenon
<1>12. ~returned'
  BY <1>3
<1> QED BY <1>6, <1>7, <1>8, <1>9, <1>10, <1>11, <1>12 DEF WalkIInv

\* The error is about all of what is left.
LEMMA StopAtErrorKeeps == ASSUME WalkIInv, StopAtError PROVE WalkIInv'
<1> DEFINE rest  == Rest(data, offset)
           found == Outcome(rest)
<1>1. TypeOK /\ Adjacent /\ instructions \in Seq(Entry)
  BY DEF WalkIInv
<1>2. rest \in Seq(Byte) /\ Len(rest) = Len(data) - offset /\ Len(rest) <= MaxLen
  BY <1>1, RestOfData
<1>3. found.kind # "ok" /\ offset < Len(data) /\ err' = found /\ returned'
      /\ UNCHANGED <<data, startAddress, offset, instructions>>
  BY DEF StopAtError
<1> HIDE DEF rest
<1>4. found.kind \in {"partial", "error"} /\ (found.kind = "partial" => found.have = Len(rest))
  BY <1>2, <1>3, Otherwise
<1>5. found # NoError
  BY <1>4 DEF NoError
<1> HIDE DEF found
<1>6. StopsForAReason'
  BY <1>2, <1>3, <1>4, <1>5 DEF StopsForAReason
<1>7. TypeOK' /\ Adjacent' /\ instructions' \in Seq(Entry)
  BY <1>1, <1>3 DEF TypeOK, Adjacent, After, AddressAt, StopAtError
<1>8. /\ offset' = Ends(instructions')[Len(instructions')]
      /\ Walked(instructions', data', startAddress')
  BY <1>3, Zenon DEF WalkIInv
<1>9. ~Decodes(data', offset')
  BY <1>3, Zenon DEF Decodes, rest, found
<1> QED BY <1>3, <1>6, <1>7, <1>8, <1>9 DEF WalkIInv, StopAtError

\* Without an error the loop ends at the slice's end.
LEMMA ReachEndKeeps == ASSUME WalkIInv, ReachEnd PROVE WalkIInv'
<1>1. TypeOK /\ Adjacent /\ instructions \in Seq(Entry) /\ err = NoError
  BY DEF WalkIInv, ReachEnd
<1>2. returned' /\ UNCHANGED <<data, startAddress, offset, instructions, err>>
      /\ ~(offset < Len(data))
  BY DEF ReachEnd
<1>3. offset = Len(data)
  BY <1>1, <1>2, RestOfData DEF TypeOK
<1>4. TypeOK' /\ Adjacent' /\ instructions' \in Seq(Entry)
  BY <1>1, <1>2 DEF TypeOK, Adjacent, After, AddressAt
<1>5. /\ offset' = Ends(instructions')[Len(instructions')]
      /\ Walked(instructions', data', startAddress')
  BY <1>2, Zenon DEF WalkIInv
<1>6. ~Decodes(data', offset')
  BY <1>2, Zenon DEF Decodes
<1> QED BY <1>1, <1>2, <1>3, <1>4, <1>5, <1>6 DEF WalkIInv, StopsForAReason

LEMMA WalkIInvNext == WalkIInv /\ [Next]_vars => WalkIInv'
<1> SUFFICES ASSUME WalkIInv, [Next]_vars
             PROVE  WalkIInv'
  OBVIOUS
<1>1. CASE UNCHANGED vars
  <2>1. UNCHANGED <<data, startAddress, offset, instructions, err, returned>>
    BY <1>1 DEF vars
  <2>2. TypeOK' /\ Adjacent' /\ StopsForAReason'
    BY <2>1 DEF WalkIInv, TypeOK, Adjacent, After, AddressAt, StopsForAReason
  <2> QED BY <2>1, <2>2 DEF WalkIInv
<1> QED BY <1>1, DecodeNextKeeps, StopAtErrorKeeps, ReachEndKeeps DEF Next

-----------------------------------------------------------------------------
\* Between any two rounds of DisassembleRange its invariant holds.
THEOREM Invariance == Spec => []WalkIInv
BY WalkIInvInit, WalkIInvNext, PTL DEF Spec

\* The offset never passes the end of the slice, and every instruction has as
\* many bytes as its size says.
THEOREM TypeCorrect == Spec => []TypeOK
<1>1. WalkIInv => TypeOK
  BY DEF WalkIInv
<1> QED BY <1>1, Invariance, PTL

\* Each instruction DisassembleRange returns begins where the one before it
\* ends, for every start address.
THEOREM NoGaps == Spec => []Adjacent
<1>1. WalkIInv => Adjacent
  BY DEF WalkIInv
<1> QED BY <1>1, Invariance, PTL

\* DisassembleRange stops at the end of the slice or at an error about all of
\* the bytes it leaves.
THEOREM StopsRightly == Spec => []StopsForAReason
<1>1. WalkIInv => StopsForAReason
  BY DEF WalkIInv
<1> QED BY <1>1, Invariance, PTL

\* What DisassembleRange has found when it returns is the listing of its slice.
LEMMA ReturnsListing ==
  ASSUME WalkIInv, returned
  PROVE  Listing(instructions, data, startAddress)
BY Zenon DEF WalkIInv, Listing

\* A slice cut short makes DisassembleRange return the beginning of what it
\* returns for the whole slice.
THEOREM CutShortHolds == Spec => []CutShort
<1>1. WalkIInv => CutShort
  <2> SUFFICES ASSUME WalkIInv, returned, NEW cut \in 0..Len(data), NEW m,
                      m = Cardinality({i \in 1..Len(instructions) : Ends(instructions)[i] <= cut})
               PROVE  Listing(SubSeq(instructions, 1, m), SubSeq(data, 1, cut), startAddress)
    BY Zenon DEF CutShort
  <2>1. data \in Seq(Byte) /\ Len(data) <= MaxLen /\ instructions \in Seq(Entry)
    BY RestOfData DEF WalkIInv
  <2>2. Listing(instructions, data, startAddress)
    BY ReturnsListing
  <2> QED BY <2>1, <2>2, ListingCut
<1> QED BY <1>1, Invariance, PTL

\* The bytes of the instructions DisassembleRange has found are the slice up to
\* its offset, none left out and none twice.
THEOREM NothingLost == Spec => []Tiled
<1>1. WalkIInv => Tiled
  <2> SUFFICES ASSUME WalkIInv
               PROVE  Tiled
    OBVIOUS
  <2>1. /\ data \in Seq(Byte) /\ Len(data) <= MaxLen /\ instructions \in Seq(Entry)
        /\ Walked(instructions, data, startAddress)
        /\ offset = Ends(instructions)[Len(instructions)]
    BY RestOfData DEF WalkIInv
  <2>2. BytesOf(instructions)[Len(instructions)]
          = SubSeq(data, 1, Ends(instructions)[Len(instructions)])
    BY <2>1, ListingTiles
  <2> QED BY <2>1, <2>2, Zenon DEF Tiled
<1> QED BY <1>1, Invariance, PTL

\* DisassembleRange is a function of the slice and the address: what it returns
\* is the only listing there is.
THEOREM OneListing ==
  Spec => [](returned => \A found \in Seq(Entry) :
                           Listing(found, data, startAddress) <=> found = instructions)
<1>1. WalkIInv /\ returned => \A found \in Seq(Entry) :
                            Listing(found, data, startAddress) <=> found = instructions
  <2> SUFFICES ASSUME WalkIInv, returned, NEW found \in Seq(Entry)
               PROVE  Listing(found, data, startAddress) <=> found = instructions
    OBVIOUS
  <2>1. data \in Seq(Byte) /\ instructions \in Seq(Entry)
    BY RestOfData DEF WalkIInv
  <2>2. Listing(instructions, data, startAddress)
    BY ReturnsListing
  <2>3. Listing(found, data, startAddress) => found = instructions
    BY <2>1, <2>2, SameListing
  <2> QED BY <2>2, <2>3, Zenon
<1> QED BY <1>1, Invariance, PTL

\* Decode finds an instruction again in every slice that begins with its bytes.
LEMMA FoundAgain ==
  ASSUME NEW rest \in Seq(Byte), Len(rest) <= MaxLen, Outcome(rest).kind = "ok",
         NEW s \in Seq(Byte), Len(s) <= MaxLen, Outcome(rest).size <= Len(s),
         SubSeq(s, 1, Outcome(rest).size) = Outcome(rest).bytes
  PROVE  Outcome(s) = Outcome(rest)
<1> DEFINE found == Outcome(rest)
<1>1. /\ found.size \in 2..Len(rest) /\ Len(rest) \in Nat
      /\ found.bytes = SubSeq(rest, 1, found.size)
      /\ found.bytes \in Seq(Byte) /\ Len(found.bytes) = found.size
  BY InstructionFits, LenProperties
<1>2. Outcome(found.bytes) = found
  <2>1. found.size <= found.size
    BY <1>1
  <2> QED BY <1>1, <2>1, OutcomeFits
<1> HIDE DEF found
<1>3. found.kind = "ok" /\ found.size <= Len(s) /\ SubSeq(s, 1, found.size) = found.bytes
  BY DEF found
<1>4. Outcome(found.bytes).kind # "partial"
  BY <1>2, <1>3
<1>5. Len(s) >= Len(found.bytes) /\ SubSeq(s, 1, Len(found.bytes)) = found.bytes
  BY <1>1, <1>3
<1>6. Outcome(s) = Outcome(found.bytes)
  BY <1>1, <1>4, <1>5, FinalOutcome
<1> QED BY <1>2, <1>6 DEF found

\* An instruction of a listing is Decode's of some bytes no longer than the slice.
LEMMA EntryOfListing ==
  ASSUME NEW bytes \in Seq(Byte), Len(bytes) <= MaxLen, NEW found \in Seq(Entry),
         NEW base, Walked(found, bytes, base), NEW i \in 1..Len(found)
  PROVE  \E rest \in Seq(Byte) :
           /\ Len(rest) <= MaxLen /\ Outcome(rest).kind = "ok"
           /\ \E at : found[i] = Located(at, Outcome(rest))
<1> DEFINE from == Ends(found)[i - 1]
           rest == Rest(bytes, from)
<1>1. Len(found) \in Nat /\ i - 1 \in 0..Len(found) /\ Len(bytes) \in Nat /\ MaxLen \in Nat
  BY LenProperties, MaxLenAssumption
<1>2. from \in Nat
  BY <1>1, EndsOf
<1>3. /\ from < Len(bytes) /\ Outcome(rest).kind = "ok"
      /\ found[i] = Located((base + from) % AddressSpace, Outcome(rest))
  BY DEF Walked, Decodes
<1> HIDE DEF from
<1>4. from \in 0..Len(bytes)
  BY <1>1, <1>2, <1>3
<1>5. rest \in Seq(Byte) /\ Len(rest) = Len(bytes) - from
  BY <1>4, RestOf
<1>6. Len(rest) <= MaxLen
  <2> HIDE DEF rest
  <2> QED BY <1>1, <1>2, <1>5
<1> HIDE DEF rest
<1> QED BY <1>3, <1>5, <1>6

\* An instruction of a range stands alone: Decode finds it, but for the address, in
\* every slice that begins with its Bytes, in these themselves as well.
THEOREM StandsAlone ==
  Spec => [](\A i \in 1..Len(instructions) : \A s \in Seq(Byte) :
               LET found == instructions[i]
               IN  found.size <= Len(s) /\ Len(s) <= MaxLen
                   /\ SubSeq(s, 1, found.size) = found.bytes =>
                     Outcome(s).kind = "ok" /\ found = Located(found.address, Outcome(s)))
<1>1. WalkIInv => \A i \in 1..Len(instructions) : \A s \in Seq(Byte) :
                LET found == instructions[i]
                IN  found.size <= Len(s) /\ Len(s) <= MaxLen
                    /\ SubSeq(s, 1, found.size) = found.bytes =>
                      Outcome(s).kind = "ok" /\ found = Located(found.address, Outcome(s))
  <2> SUFFICES ASSUME WalkIInv, NEW i \in 1..Len(instructions), NEW s \in Seq(Byte),
                      instructions[i].size <= Len(s), Len(s) <= MaxLen,
                      SubSeq(s, 1, instructions[i].size) = instructions[i].bytes
               PROVE  /\ Outcome(s).kind = "ok"
                      /\ instructions[i] = Located(instructions[i].address, Outcome(s))
    OBVIOUS
  <2> DEFINE found == instructions[i]
  <2>1. data \in Seq(Byte) /\ Len(data) <= MaxLen
    BY RestOfData DEF WalkIInv
  <2>2. instructions \in Seq(Entry) /\ Walked(instructions, data, startAddress)
    BY DEF WalkIInv
  <2>3. PICK rest \in Seq(Byte) :
          /\ Len(rest) <= MaxLen /\ Outcome(rest).kind = "ok"
          /\ \E at : found = Located(at, Outcome(rest))
    BY <2>1, <2>2, EntryOfListing
  <2> DEFINE answer == Outcome(rest)
  <2> HIDE DEF found
  <2>4. PICK at : found = Located(at, answer)
    BY <2>3
  <2> HIDE DEF answer
  <2>5. found.size = answer.size /\ found.bytes = answer.bytes /\ found.address = at
    BY <2>4 DEF Located
  <2>6. Outcome(s) = Outcome(rest)
    <3>1. Outcome(rest).size <= Len(s) /\ SubSeq(s, 1, Outcome(rest).size) = Outcome(rest).bytes
      BY <2>5 DEF found, answer
    <3> QED BY <2>3, <3>1, FoundAgain
  <2>7. Outcome(s).kind = "ok" /\ found = Located(found.address, Outcome(s))
    BY <2>3, <2>4, <2>5, <2>6 DEF answer
  <2> QED BY <2>7 DEF found
<1> QED BY <1>1, Invariance, PTL

\* The bytes still to be gone through, and the return.
Left == (Len(data) - offset) + (IF returned THEN 0 ELSE 1)

LEMMA LeftIsBounded ==
  TypeOK => Left \in Nat /\ Left <= Len(data) + 1 /\ Len(data) <= MaxLen /\ Len(data) \in Nat
<1> SUFFICES ASSUME TypeOK
             PROVE  Left \in Nat /\ Left <= Len(data) + 1 /\ Len(data) <= MaxLen /\ Len(data) \in Nat
  OBVIOUS
<1>1. Len(data) \in Nat /\ Len(data) <= MaxLen /\ offset \in Nat /\ offset <= Len(data)
  BY RestOfData DEF TypeOK
<1> QED BY <1>1 DEF Left

LEMMA RoundSpends == ASSUME WalkIInv, Next PROVE Left' < Left
<1>1. Len(data) \in Nat /\ offset \in Nat /\ offset <= Len(data)
  BY RestOfData DEF WalkIInv, TypeOK
<1>2. CASE DecodeNext
  <2> DEFINE rest == Rest(data, offset)
  <2>1. rest \in Seq(Byte) /\ Len(rest) <= MaxLen /\ Outcome(rest).kind = "ok"
    BY <1>2, RestOfData DEF WalkIInv, DecodeNext
  <2>2. Outcome(rest).size \in 2..Len(rest) /\ Len(rest) \in Nat
    <3> HIDE DEF rest
    <3> QED BY <2>1, InstructionFits, LenProperties
  <2>3. offset' = offset + Outcome(rest).size /\ data' = data /\ returned' = returned
    BY <1>2 DEF DecodeNext
  <2> HIDE DEF rest
  <2>4. Outcome(rest).size \in Nat /\ Outcome(rest).size >= 2
    BY <2>2
  <2>5. \A step \in Nat : step >= 2 => Len(data) - (offset + step) < Len(data) - offset
    BY ONLY <1>1
  <2> QED BY <1>1, <2>3, <2>4, <2>5 DEF Left
<1>3. CASE StopAtError
  BY <1>1, <1>3 DEF StopAtError, Left
<1>4. CASE ReachEnd
  BY <1>1, <1>4 DEF ReachEnd, Left
<1> QED BY <1>2, <1>3, <1>4 DEF Next

\* Every round of DisassembleRange's loop brings it nearer to its return: it cannot
\* go round more often than the slice has bytes.
THEOREM ComesNearer == Spec => [](Left \in Nat) /\ [][Left' < Left]_vars
<1>1. WalkIInv => Left \in Nat
  BY LeftIsBounded DEF WalkIInv
<1>2. WalkIInv /\ [Next]_vars => [Left' < Left]_vars
  BY RoundSpends
<1> QED BY <1>1, <1>2, Invariance, PTL DEF Spec

=============================================================================
