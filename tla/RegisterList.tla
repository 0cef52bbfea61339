---------------------------- MODULE RegisterList ----------------------------
(***************************************************************************)
(* formatRegisterList and formatRegisterRange (special.go): the text of a  *)
(* MOVEM register list.  A register is its bit in the mask: 0 to 7 are D0  *)
(* to D7, 8 to 15 are A0 to A7.  The text is the sequence of its ranges, a *)
(* range the pair of registers it names first and last.                    *)
(***************************************************************************)
EXTENDS Naturals, Sequences

CONSTANT Masks  \* sets of registers

ASSUME MasksAssumption == \A m \in Masks : \A p \in m : p \in Nat /\ p <= 15

VARIABLES
  mask,       \* regListMask, as a set of bits
  bit,        \* the next bit of the mask to be tested
  registers,  \* the registers listed so far
  i,          \* where the current range starts in registers
  j,          \* how far it has been followed, or i before that
  ranges      \* result

regVars == <<mask, bit, registers, i, j, ranges>>

\* Mutation: the loops run to a bit 16.
ListedLate == bit = 17

Listed == bit = 16

Finished == Listed /\ i > Len(registers)

RegInit ==
  /\ mask \in Masks
  /\ bit = 0
  /\ registers = << >>
  /\ i = 1
  /\ j = 1
  /\ ranges = << >>

\* The loops of formatRegisterList.
TestBit ==
  /\ ~Listed
  /\ bit' = bit + 1
  /\ registers' = IF bit \in mask THEN Append(registers, bit) ELSE registers
  /\ UNCHANGED <<mask, i, j, ranges>>

extractRegNum(register) == register % 8

\* Mutation: wherever a range ends, the next register may follow.
FollowsAny(k) ==
  extractRegNum(registers[k]) <= extractRegNum(registers[k - 1]) + 1

\* Mutation: only address registers form ranges.
FollowsInA(k) ==
  /\ extractRegNum(registers[k]) = extractRegNum(registers[k - 1]) + 1
  /\ registers[k] >= 8

\* currNum == prevNum+1, whatever the registers' kinds.
Follows(k) == extractRegNum(registers[k]) = extractRegNum(registers[k - 1]) + 1

StartRange ==
  /\ Listed
  /\ i <= Len(registers)
  /\ j = i
  /\ j' = i + 1
  /\ UNCHANGED <<mask, bit, registers, i, ranges>>

ExtendRange ==
  /\ Listed
  /\ i < j
  /\ j <= Len(registers)
  /\ Follows(j)
  /\ j' = j + 1
  /\ UNCHANGED <<mask, bit, registers, i, ranges>>

\* Mutation: the next range starts behind the register that did not follow.
CloseRangeSkips ==
  /\ Listed
  /\ i < j
  /\ ~(j <= Len(registers) /\ Follows(j))
  /\ ranges' = Append(ranges, <<registers[i], registers[j - 1]>>)
  /\ i' = j + 1
  /\ j' = j + 1
  /\ UNCHANGED <<mask, bit, registers>>

\* The range is written, with one name or two.
CloseRange ==
  /\ Listed
  /\ i < j
  /\ ~(j <= Len(registers) /\ Follows(j))
  /\ ranges' = Append(ranges, <<registers[i], registers[j - 1]>>)
  /\ i' = j
  /\ j' = j
  /\ UNCHANGED <<mask, bit, registers>>

RegNext == TestBit \/ StartRange \/ ExtendRange \/ CloseRange

RegSpec == RegInit /\ [][RegNext]_regVars

-----------------------------------------------------------------------------
\* The registers a text names: a range stands for all from its first to its
\* last, in the order D0 to D7, A0 to A7.
Denoted(text) ==
  {p \in 0..15 : \E k \in DOMAIN text : text[k][1] <= p /\ p <= text[k][2]}

\* The last data register of the mask and the first address register have
\* consecutive numbers.
Straddles ==
  \E d \in mask, a \in mask :
    /\ d < 8
    /\ a = d + 9
    /\ \A p \in mask : p <= d \/ a <= p

\* The values of the loops' variables.
RegTypeOK ==
  /\ mask \in Masks
  /\ bit \in Nat /\ bit <= 16
  /\ registers \in Seq(Nat)
  /\ i \in Nat /\ 1 <= i
  /\ j \in Nat /\ i <= j
  /\ ranges \in Seq(Nat \X Nat)

\* The text names the registers of the mask, no more and no fewer, except
\* for the masks whose data registers end one number below the address
\* registers: theirs always names registers that are not in the mask.
TextIsMask == Finished => (Denoted(ranges) = mask <=> ~Straddles)

\* The text is as short as the numbers allow: no range goes on where the one
\* before it stops.
RangesAreMaximal ==
  \A k \in 1..(Len(ranges) - 1) :
    extractRegNum(ranges[k + 1][1]) # extractRegNum(ranges[k][2]) + 1

-----------------------------------------------------------------------------
(* The inductive invariant behind RegisterListProofs.                      *)

\* The registers below `bit` that are in the mask, in ascending order.
ListSoFar ==
  /\ \A k \in 1..Len(registers) : registers[k] \in mask /\ registers[k] < bit
  /\ \A p \in mask : p < bit => \E k \in 1..Len(registers) : registers[k] = p
  /\ \A k, l \in 1..Len(registers) : k < l => registers[k] < registers[l]

\* The range being followed: its registers' numbers are consecutive, and
\* unless the mask straddles all registers in between are in it.
OpenRange ==
  /\ j <= Len(registers) + 1
  /\ ~Listed => j = 1 /\ ranges = << >>
  /\ \A k \in i..(j - 2) : Follows(k + 1)
  /\ i < j => \A p \in 0..15 :
       registers[i] <= p /\ p <= registers[j - 1] /\ p \notin mask => Straddles

\* The ranges written stand for the first i - 1 registers: each is in one of
\* them, with its successor if that follows, and nothing else is, unless
\* the mask straddles.
ClosedRanges ==
  /\ \A k \in 1..(i - 1) : \E r \in 1..Len(ranges) :
       /\ ranges[r][1] <= registers[k]
       /\ registers[k] <= ranges[r][2]
       /\ k < i - 1 /\ Follows(k + 1) => registers[k + 1] <= ranges[r][2]
  /\ \A r \in 1..Len(ranges), p \in 0..15 :
       ranges[r][1] <= p /\ p <= ranges[r][2] /\ p \notin mask => Straddles

\* Behind the last range written, the next register does not follow.
LastRange ==
  /\ (ranges = << >>) = (i = 1)
  /\ ranges # << >> => ranges[Len(ranges)][2] = registers[i - 1]
  /\ 1 < i /\ i <= Len(registers) => ~Follows(i)

RegIInv ==
  /\ RegTypeOK
  /\ ListSoFar
  /\ OpenRange
  /\ ClosedRanges
  /\ LastRange
  /\ RangesAreMaximal

=============================================================================
