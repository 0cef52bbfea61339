------------------------- MODULE GrowingSliceProofs -------------------------
(***************************************************************************)
(* The properties of GrowingSlice for every set of opcodes, from the       *)
(* decoders' contract and the order of the opcode table.                   *)
(***************************************************************************)
EXTENDS GrowingSlice, DecodersProofs

\* What Decode says about more bytes continues what it said about fewer.
LEMMA SliceTwins ==
  ASSUME NEW word \in Nat, NEW len \in Nat, NEW m \in Nat, len >= 2, m >= len
  PROVE  Twins(DecodeSlice(FindDecoder(word), word, len), len,
               DecodeSlice(FindDecoder(word), word, m), m, LongestInstruction)
<1>1. CASE FindDecoder(word) = NoDecoder
  <2>1. Twins(Start, len, Start, m, 10)
    BY StartTwins, LimitTwins
  <2> QED BY <1>1, <2>1 DEF DecodeSlice, LongestInstruction
<1>2. CASE FindDecoder(word) # NoDecoder
  <2>1. FindDecoder(word) \in DecoderNames
    BY <1>2, FindDecoderFindsADecoder
  <2>2. Bounded(Decode(FindDecoder(word), word, m), m, 10)
    BY <2>1, DecodersHonourContract
  <2>3. /\ Bounded(Decode(FindDecoder(word), word, len), len, 10)
        /\ Continues(Decode(FindDecoder(word), word, len), len,
                     Decode(FindDecoder(word), word, m), m)
    BY <2>1, DecodersHonourContract
  <2> QED BY <1>2, <2>2, <2>3 DEF Twins, DecodeSlice, LongestInstruction
<1> QED BY <1>1, <1>2

\* The caller's verdict is the one on the bytes it has; a final one ends there.
IInv ==
  /\ op \in Opcodes
  /\ decoder = FindDecoder(op)
  /\ fed \in 2..LongestInstruction
  /\ verdict = DecodeSlice(decoder, op, fed)
  /\ verdict.kind = "ok" => verdict.size = fed

LEMMA VerdictBounded ==
  ASSUME IInv
  PROVE  /\ op \in Nat
         /\ Bounded(verdict, fed, LongestInstruction)
<1>1. op \in Nat /\ fed \in Nat /\ fed >= 2
  BY OpcodesAssumption DEF IInv, LongestInstruction
<1>2. Bounded(DecodeSlice(FindDecoder(op), op, fed), fed, LongestInstruction)
  BY <1>1, SliceTwins DEF Twins
<1> QED BY <1>1, <1>2 DEF IInv

\* Init: on the opcode word alone a success has no operand.
LEMMA IInvInit == Init => IInv
<1> SUFFICES ASSUME Init
             PROVE  IInv
  OBVIOUS
<1>1. op \in Nat /\ decoder = FindDecoder(op) /\ fed = 2
  BY OpcodesAssumption DEF Init
<1>2. Bounded(DecodeSlice(FindDecoder(op), op, 2), 2, LongestInstruction)
  BY <1>1, SliceTwins DEF Twins
<1>3. verdict.kind = "ok" => verdict.size \in 2..2
  BY <1>1, <1>2, BoundedCases DEF Init, LongestInstruction
<1> QED BY <1>1, <1>3 DEF Init, IInv, LongestInstruction

\* What a retry finds, by the contract.
LEMMA RetryContinues ==
  ASSUME IInv, Retry
  PROVE  /\ verdict.missing \in 1..(LongestInstruction - fed)
         /\ fed' \in (fed + 1)..(fed + verdict.missing)
         /\ Continues(verdict, fed, verdict', fed')
<1>1. verdict.kind = "more" /\ fed \in Nat /\ fed >= 2 /\ op \in Nat
  BY VerdictBounded DEF IInv, Retry, LongestInstruction
<1>2. verdict.missing \in 1..(LongestInstruction - fed)
  BY <1>1, VerdictBounded, BoundedCases DEF LongestInstruction
<1>3. fed' \in (fed + 1)..(fed + verdict.missing)
  BY DEF Retry
<1>4. fed' \in Nat /\ fed' >= fed
  BY <1>1, <1>2, <1>3 DEF LongestInstruction
<1>5. Continues(DecodeSlice(FindDecoder(op), op, fed), fed,
                DecodeSlice(FindDecoder(op), op, fed'), fed')
  BY <1>1, <1>4, SliceTwins DEF Twins
<1> QED BY <1>2, <1>3, <1>5 DEF IInv, Retry

LEMMA IInvNext == IInv /\ [Next]_vars => IInv'
<1> SUFFICES ASSUME IInv, [Next]_vars
             PROVE  IInv'
  OBVIOUS
<1>1. CASE Retry
  <2>1. /\ verdict.missing \in 1..(LongestInstruction - fed)
        /\ fed' \in (fed + 1)..(fed + verdict.missing)
        /\ Continues(verdict, fed, verdict', fed')
        /\ verdict.kind = "more"
    BY <1>1, RetryContinues DEF Retry
  <2>2. op' = op /\ decoder' = decoder /\ verdict' = DecodeSlice(decoder', op', fed')
    BY <1>1 DEF Retry
  <2>3. fed' \in 2..LongestInstruction
    BY <2>1 DEF IInv, LongestInstruction
  <2>4. verdict'.kind = "ok" => verdict'.size = fed'
    <3>1. CASE fed' < fed + verdict.missing
      BY <2>1, <3>1, Fields DEF Continues
    <3>2. CASE fed' = fed + verdict.missing
      BY <2>1, <3>2 DEF Continues
    <3> QED BY <2>1, <3>1, <3>2 DEF IInv, LongestInstruction
  <2> QED BY <2>2, <2>3, <2>4 DEF IInv
<1>2. CASE UNCHANGED vars
  BY <1>2 DEF vars, IInv
<1> QED BY <1>1, <1>2 DEF Next

THEOREM Invariance == Spec => []IInv
BY IInvInit, IInvNext, PTL DEF Spec

-----------------------------------------------------------------------------
\* No value leaves its range; no decoder's verdict is of a fourth kind.
THEOREM TypeCorrect == Spec => []TypeOK
<1>1. IInv => TypeOK
  <2> SUFFICES ASSUME IInv
               PROVE  TypeOK
    OBVIOUS
  <2>1. op \in Nat /\ fed \in Nat
    BY OpcodesAssumption DEF IInv, LongestInstruction
  <2>2. verdict.kind \in {"ok", "more", "error"}
    BY <2>1, VerdictBounded, BoundedCases DEF LongestInstruction
  <2>3. decoder \in DecoderNames \cup {NoDecoder}
    BY <2>1, FindDecoderFindsADecoder DEF IInv
  <2> QED BY <2>2, <2>3 DEF IInv, TypeOK
<1> QED BY <1>1, Invariance, PTL

\* A caller that adds only what is reported missing never has a byte too many.
THEOREM EndsThere == Spec => []EndsWithTheInstruction
<1>1. IInv => EndsWithTheInstruction
  BY DEF IInv, EndsWithTheInstruction
<1> QED BY <1>1, Invariance, PTL

\* No decoder of the table ever asks for an eleventh byte.
THEOREM NeverAnEleventhByte == Spec => []NeverBeyondTheLongest
<1>1. IInv => NeverBeyondTheLongest
  <2> SUFFICES ASSUME IInv, verdict.kind = "more"
               PROVE  fed + verdict.missing <= LongestInstruction
    BY DEF NeverBeyondTheLongest
  <2>1. fed \in Nat
    BY DEF IInv, LongestInstruction
  <2>2. verdict.missing \in 1..(LongestInstruction - fed)
    BY <2>1, VerdictBounded, BoundedCases DEF LongestInstruction
  <2> QED BY <2>1, <2>2 DEF LongestInstruction
<1> QED BY <1>1, Invariance, PTL

\* The count reported missing goes down by exactly the bytes supplied.
THEOREM MissingCountsDown == Spec => CountsDown
<1>1. IInv /\ [Next]_vars =>
        [fed' < fed + verdict.missing =>
           verdict' = More(verdict.missing - (fed' - fed), verdict.context)]_vars
  <2> SUFFICES ASSUME IInv, Retry, fed' < fed + verdict.missing
               PROVE  verdict' = More(verdict.missing - (fed' - fed), verdict.context)
    BY DEF Next, vars
  <2> QED BY RetryContinues DEF Continues, Retry
<1> QED BY <1>1, Invariance, PTL DEF Spec, CountsDown

\* The first pattern of a bucket that matches is the most special one.
THEOREM SpecialBeforeGeneral == Spec => []MostSpecificFirst
<1>1. IInv => MostSpecificFirst
  <2> DEFINE nibble == op \div 4096
             bucket == opcodeBuckets[nibble]
  <2> SUFFICES ASSUME IInv, Hits(op, nibble) # {}
               PROVE  \E i \in Hits(op, nibble) :
                        /\ decoder = bucket[i].decoder
                        /\ \A j \in Hits(op, nibble) :
                             FixedBits(bucket[j]) \subseteq FixedBits(bucket[i])
    BY DEF MostSpecificFirst, FixedBits, Hits
  <2>1. op \in Nat /\ op <= 65535 /\ decoder = FindDecoder(op)
    BY OpcodesAssumption DEF IInv
  <2>2. nibble = (op \div 4096) % 16
    BY <2>1
  <2> HIDE DEF nibble
  <2>3. \E i \in Hits(op, nibble) :
          /\ FindDecoder(op) = bucket[i].decoder
          /\ \A j \in Hits(op, nibble) :
               FixedBits(bucket[j]) \subseteq FixedBits(bucket[i])
    BY <2>1, <2>2, FirstIsMostSpecific
  <2> QED BY <2>1, <2>3
<1> QED BY <1>1, Invariance, PTL

=============================================================================
