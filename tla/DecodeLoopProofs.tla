-------------------------- MODULE DecodeLoopProofs --------------------------
(***************************************************************************)
(* One call of decodeInstruction, for every reader, memory, opcode set and *)
(* decoder that honours the contract.                                      *)
(*                                                                         *)
(* The inductive invariant says where the call is.  Its core is InRead:    *)
(* while readUntil is short of its target, the decoder's verdict on the    *)
(* bytes collected so far asks for exactly the rest of them, although the  *)
(* decoder was last run on fewer; and once the target is reached, a        *)
(* success ends there.  Both are kept by each Read because of Continues.   *)
(***************************************************************************)
EXTENDS DecodeLoop, AnswersProofs

\* The opcode word of bytes is an opcode, and not the marker for none.
LEMMA OpcodeTypes ==
  ASSUME NEW bytes \in Seq(Byte), Len(bytes) >= 2
  PROVE  OpcodeOf(bytes) \in Opcodes /\ OpcodeOf(bytes) # NoOpcode
BY OpcodeIsWord DEF NoOpcode

\* The bytes a read appends are bytes, as many as it says.
LEMMA BytesType ==
  ASSUME TypeOK, NEW at \in Nat, NEW count \in Nat, Holds(at, count)
  PROVE  /\ Bytes(at, count) \in Seq(Byte) /\ Len(Bytes(at, count)) = count
         /\ \A i \in 1..count : at + (i - 1) \in DOMAIN image
<1>1. \A i \in 1..count : at + (i - 1) \in DOMAIN image
  BY DEF Holds
<1>2. image \in [DOMAIN image -> Byte]
  BY ImagesAssumption DEF TypeOK
<1>3. \A i \in 1..count : image[at + (i - 1)] \in Byte
  BY <1>1, <1>2
<1>4. Bytes(at, count) \in [1..count -> Byte]
  BY <1>3 DEF Bytes
<1> QED BY <1>1, <1>4

\* What Read does to the bytes collected.
LEMMA ReadData ==
  ASSUME TypeOK, InRead, Read
  PROVE  /\ data' \in Seq(Byte)
         /\ n' \in Nat /\ n' <= need - Len(data)
         /\ Len(data') = Len(data) + n'
         /\ \A i \in 1..Len(data) : data'[i] = data[i]
         /\ \A i \in 1..n' : /\ ReadAddress + (i - 1) \in DOMAIN image
                             /\ data'[Len(data) + i] = image[ReadAddress + (i - 1)]
         /\ Len(data) >= 2 => OpcodeOf(data') = OpcodeOf(data)
<1>1. Len(data) \in Nat /\ need \in Nat /\ Len(data) < need
  BY LenProperties, MaxLenAssumption DEF TypeOK, InRead, Read
<1>2. n' \in Nat /\ n' <= need - Len(data)
  BY <1>1 DEF Read
<1>3. ReadAddress \in Nat
  BY <1>1, AddressSpaceAssumption DEF ReadAddress, TypeOK
<1> DEFINE more == Bytes(ReadAddress, n')
<1>4. more \in Seq(Byte) /\ Len(more) = n' /\ data \in Seq(Byte) /\ data' = data \o more
  BY <1>2, <1>3, BytesType DEF Read, TypeOK
<1>5. \A i \in 1..n' : more[i] = image[ReadAddress + (i - 1)]
  BY DEF Bytes
<1> HIDE DEF more
<1>6. /\ data' \in Seq(Byte)
      /\ Len(data') = Len(data) + n'
      /\ \A i \in 1..(Len(data) + n') :
           data'[i] = IF i <= Len(data) THEN data[i] ELSE more[i - Len(data)]
  BY <1>4, ConcatProperties
<1>7. \A i \in 1..Len(data) : data'[i] = data[i]
  BY <1>1, <1>2, <1>6
<1>8. ASSUME NEW i \in 1..n'
      PROVE  data'[Len(data) + i] = image[ReadAddress + (i - 1)]
  <2>1. /\ Len(data) + i \in 1..(Len(data) + n') /\ ~(Len(data) + i <= Len(data))
        /\ (Len(data) + i) - Len(data) = i
    BY <1>1, <1>2
  <2>2. data'[Len(data) + i] = more[i]
    BY <1>6, <2>1
  <2> QED BY <1>5, <2>2
<1>9. Len(data) >= 2 => OpcodeOf(data') = OpcodeOf(data)
  BY <1>1, <1>7 DEF OpcodeOf
<1>10. \A i \in 1..n' : ReadAddress + (i - 1) \in DOMAIN image
  BY <1>2, <1>3, BytesType DEF Read
<1> HIDE DEF more
<1> QED BY <1>2, <1>6, <1>7, <1>8, <1>9, <1>10

-----------------------------------------------------------------------------
\* A call starts with a slice, or with nothing and a reader.
LEMMA IInvInit == Init => IInv
<1> SUFFICES ASSUME Init
             PROVE  IInv
  OBVIOUS
<1>1. data \in Seq(Byte) /\ Len(data) <= MaxLen /\ (source = "reader" => Len(data) = 0)
  <2>1. CASE source = "slice" /\ data \in Slices
    BY <2>1, SlicesAssumption
  <2>2. CASE source = "reader" /\ data = << >>
    BY <2>2, EmptySeq, MaxLenAssumption
  <2> QED BY <2>1, <2>2 DEF Init
<1>2. 0 \in 0..MaxLen /\ 0 \in 0..MaxChanges
  BY MaxLenAssumption, MaxChangesAssumption
<1>3. TypeOK
  BY <1>1, <1>2 DEF Init, TypeOK
<1> QED BY <1>1, <1>3 DEF Init, IInv, AtEntry, AtDispatch, AtDecode, InRead, Answered

LEMMA FetchOpcodeKeeps == ASSUME IInv, FetchOpcode PROVE IInv'
<1> USE DEF FetchOpcode, outside
<1>0. TypeOK /\ Len(data) \in Nat /\ pc = "entry" /\ opcode = NoOpcode /\ answer = NoAnswer
  BY LenProperties DEF IInv, TypeOK, AtEntry, Answered
<1>1. CASE source = "slice"
  <2>1. pc' = "done" /\ answer' = Partial(Len(data), 2 - Len(data), "opcode")
        /\ cause' = "none" /\ UNCHANGED <<need, context>>
    BY <1>1 DEF Return
  <2>2. data' = data /\ Outcome(data) = Partial(Len(data), 2 - Len(data), "opcode")
    BY <1>0, OutcomeCases
  <2>3. TypeOK'
    BY <1>0, <2>1 DEF TypeOK
  <2> QED BY <1>0, <1>1, <2>1, <2>2, <2>3 DEF IInv, AtEntry, AtDispatch, AtDecode, InRead, Answered
<1>2. CASE source = "reader"
  <2>1. pc' = "read" /\ need' = 2 /\ context' = "opcode" /\ UNCHANGED <<answer, cause>>
    BY <1>2 DEF ReadUntil
  <2>2. TypeOK'
    BY <1>0, <2>1, MaxLenAssumption DEF TypeOK
  <2> QED BY <1>0, <1>2, <2>1, <2>2 DEF IInv, AtEntry, AtDispatch, AtDecode, InRead, Answered
<1> QED BY <1>0, <1>1, <1>2 DEF TypeOK

LEMMA HaveOpcodeKeeps == ASSUME IInv, HaveOpcode PROVE IInv'
<1>1. TypeOK'
  BY DEF IInv, TypeOK, HaveOpcode, outside
<1> QED BY <1>1, LenProperties
        DEF IInv, TypeOK, HaveOpcode, outside, AtEntry, AtDispatch, AtDecode, InRead, Answered

LEMMA DispatchKeeps == ASSUME IInv, Dispatch PROVE IInv'
<1> USE DEF Dispatch, outside
<1>0. /\ TypeOK /\ pc = "dispatch" /\ Len(data) \in Nat /\ Len(data) >= 2 /\ Len(data) <= MaxLen
      /\ source = "reader" => Len(data) = 2
      /\ opcode' = OpcodeOf(data) /\ opcode' \in Opcodes /\ opcode' # NoOpcode
      /\ answer = NoAnswer /\ data' = data
  BY LenProperties, OpcodeTypes DEF IInv, TypeOK, AtDispatch, Answered
<1>1. CASE OpcodeOf(data) \in Known
  <2>1. pc' = "decode" /\ UNCHANGED <<answer, cause>>
    BY <1>1 DEF Return
  <2>2. TypeOK'
    BY <1>0, <2>1 DEF TypeOK
  <2>3. Dispatched'
    BY <1>0, <1>1 DEF Dispatched
  <2>4. source = "reader" => Exact'
    <3> SUFFICES ASSUME source = "reader", Verdict(OpcodeOf(data), Len(data)).kind = "ok"
                 PROVE  Verdict(OpcodeOf(data), Len(data)).size = Len(data)
      BY <1>0 DEF Exact
    <3> DEFINE v == Verdict(OpcodeOf(data), Len(data))
    <3>1. Bounded(v, Len(data), MaxLen)
      BY <1>0, <1>1, ContractOf, MaxLenAssumption
    <3>2. v.kind = "ok" /\ Len(data) = 2
      BY <1>0
    <3> HIDE DEF v
    <3>3. v.size \in 2..Len(data)
      BY <1>0, <3>1, <3>2, BoundedCases, MaxLenAssumption
    <3>4. v.size = Len(data)
      BY <3>2, <3>3
    <3> QED BY <3>4 DEF v
  <2>5. AtDecode' /\ AtEntry' /\ AtDispatch' /\ InRead'
    BY <2>1, <2>3, <2>4 DEF AtEntry, AtDispatch, AtDecode, InRead
  <2>6. Answered'
    BY <1>0, <2>1 DEF Answered
  <2> QED BY <2>2, <2>5, <2>6 DEF IInv
<1>2. CASE OpcodeOf(data) \notin Known
  <2>1. /\ pc' = "done" /\ answer' = Instruction(2, SubSeq(data, 1, 2), TRUE)
        /\ cause' = "none" /\ UNCHANGED need
    BY <1>2 DEF Return
  <2>2. TypeOK'
    BY <1>0, <2>1 DEF TypeOK
  <2>3. Outcome(data) = Instruction(2, SubSeq(data, 1, 2), TRUE)
    BY <1>0, <1>2, OutcomeCases
  <2>4. answer'.kind = "ok" /\ answer'.size = 2
    BY <2>1 DEF Instruction
  <2>5. Answered'
    BY <1>0, <2>1, <2>3, <2>4 DEF Answered
  <2>6. AtDecode' /\ AtEntry' /\ AtDispatch' /\ InRead'
    BY <2>1 DEF AtEntry, AtDispatch, AtDecode, InRead
  <2> QED BY <2>2, <2>5, <2>6 DEF IInv
<1> QED BY <1>1, <1>2

LEMMA RunDecoderKeeps == ASSUME IInv, RunDecoder PROVE IInv'
<1> DEFINE v == Verdict(opcode, Len(data))
<1>0. /\ TypeOK /\ pc = "decode" /\ Dispatched /\ (source = "reader" => Exact)
      /\ Len(data) \in 2..MaxLen /\ Len(data) \in Nat /\ opcode \in Opcodes /\ opcode # NoOpcode
      /\ data \in Seq(Byte) /\ answer = NoAnswer
  BY LenProperties, OpcodeTypes, MaxLenAssumption
     DEF IInv, TypeOK, AtDecode, Answered, RunDecoder, Dispatched
<1>1. Bounded(v, Len(data), MaxLen)
  BY <1>0, ContractOf, MaxLenAssumption DEF Dispatched
<1>2. v.kind \in {"ok", "more", "error"}
  BY <1>0, <1>1, BoundedCases, MaxLenAssumption
<1>3. Outcome(data) = Answer(v, data)
  BY <1>0, OutcomeCases DEF Dispatched
<1>4. UNCHANGED <<source, address, image, changes, data, opcode, n, err>>
  BY DEF RunDecoder, outside
<1>5. CASE v.kind # "more" \/ source = "slice"
  <2>1. pc' = "done" /\ answer' = Answer(v, data) /\ cause' = "none" /\ need' = need
    <3>1. ~(v.kind = "more" /\ source = "reader")
      BY <1>5
    <3> QED BY <3>1 DEF RunDecoder, Return
  <2>2. TypeOK'
    BY <1>0, <1>4, <2>1 DEF TypeOK
  <2>3. source = "reader" /\ answer'.kind = "ok" => answer'.size = Len(data)
    <3> SUFFICES ASSUME source = "reader", answer'.kind = "ok"
                 PROVE  answer'.size = Len(data)
      OBVIOUS
    <3>1. v.kind # "error"
      BY <2>1, AnswerFields, Zenon DEF Answer
    <3>2. v.kind = "ok"
      BY <1>2, <1>5, <3>1
    <3>3. answer' = Instruction(v.size, SubSeq(data, 1, v.size), FALSE)
      BY <2>1, <3>2, Zenon DEF Answer
    <3>4. answer'.size = v.size
      BY <3>3 DEF Instruction
    <3> QED BY <1>0, <3>2, <3>4 DEF Exact
  <2>4. source = "reader" => answer'.kind # "partial"
    <3> SUFFICES ASSUME source = "reader"
                 PROVE  answer'.kind # "partial"
      OBVIOUS
    <3>1. CASE v.kind = "ok"
      BY <2>1, <3>1, AnswerFields, Zenon DEF Answer
    <3>2. CASE v.kind = "error"
      BY <2>1, <3>2, AnswerFields, Zenon DEF Answer
    <3> QED BY <1>2, <1>5, <3>1, <3>2
  <2> HIDE DEF v
  <2>5. Answered'
    BY <1>3, <1>4, <2>1, <2>3, <2>4 DEF Answered
  <2>6. AtDecode' /\ AtEntry' /\ AtDispatch' /\ InRead'
    BY <2>1 DEF AtEntry, AtDispatch, AtDecode, InRead
  <2> QED BY <2>2, <2>5, <2>6 DEF IInv
<1>6. CASE v.kind = "more" /\ source = "reader"
  <2>1. pc' = "read" /\ need' = Len(data) + v.missing /\ context' = v.context
        /\ UNCHANGED <<answer, cause>>
    <3>1. ~(v.kind # "more" \/ source = "slice")
      BY <1>6
    <3> QED BY <3>1 DEF RunDecoder, ReadUntil
  <2>2. v.missing \in 1..(MaxLen - Len(data)) /\ v = More(v.missing, v.context)
    BY <1>0, <1>1, <1>6, BoundedCases, MaxLenAssumption
  <2>3. need' \in 0..MaxLen /\ Len(data) < need' /\ need' - Len(data) = v.missing
    BY <1>0, <2>1, <2>2, MaxLenAssumption
  <2>4. TypeOK'
    BY <1>0, <1>4, <2>1, <2>3 DEF TypeOK
  <2>5. v = More(need' - Len(data), context')
    BY <2>1, <2>2, <2>3
  <2>6. Dispatched'
    BY <1>0, <1>4 DEF Dispatched
  <2>7. Verdict(opcode', Len(data')) = More(need' - Len(data'), context')
    BY <1>4, <2>5
  <2> HIDE DEF v
  <2>8. InRead'
    BY <1>0, <1>4, <1>6, <2>1, <2>3, <2>6, <2>7 DEF InRead
  <2>9. AtDecode' /\ AtEntry' /\ AtDispatch' /\ Answered'
    BY <1>0, <2>1 DEF AtEntry, AtDispatch, AtDecode, Answered
  <2> QED BY <2>4, <2>8, <2>9 DEF IInv
<1> QED BY <1>0, <1>5, <1>6 DEF TypeOK

\* Read: more bytes of an instruction continue the verdict on fewer.
LEMMA ReadKeeps == ASSUME IInv, Read PROVE IInv'
<1>0. /\ TypeOK /\ InRead /\ pc = "read" /\ pc' = "check" /\ source = "reader" /\ answer = NoAnswer
      /\ Len(data) \in Nat /\ need \in Nat /\ Len(data) < need /\ need <= MaxLen
  BY LenProperties, MaxLenAssumption DEF IInv, TypeOK, InRead, Answered, Read
<1>1. /\ data' \in Seq(Byte) /\ n' \in Nat /\ n' <= need - Len(data)
      /\ Len(data') = Len(data) + n'
      /\ Len(data) >= 2 => OpcodeOf(data') = OpcodeOf(data)
  BY <1>0, ReadData
<1>2. UNCHANGED <<source, address, image, changes, opcode, need, context, answer, cause>>
  BY DEF Read, outside
<1>3. TypeOK'
  <2>1. n' \in 0..MaxLen /\ Len(data') <= MaxLen
    BY <1>0, <1>1, MaxLenAssumption
  <2>2. err' \in BOOLEAN
    BY DEF Read
  <2> QED BY <1>0, <1>1, <1>2, <2>1, <2>2 DEF TypeOK
<1>4. ASSUME opcode # NoOpcode
      PROVE  /\ Dispatched'
             /\ Len(data') < need => Verdict(opcode, Len(data')) = More(need - Len(data'), context)
             /\ Len(data') = need => Exact'
  <2> DEFINE v == Verdict(opcode, Len(data))
             w == Verdict(opcode, Len(data'))
  <2>1. Dispatched /\ v = More(need - Len(data), context)
    BY <1>0, <1>4 DEF InRead
  <2>2. Dispatched'
    BY <1>0, <1>1, <1>2, <2>1 DEF Dispatched
  <2>3. Continues(v, Len(data), w, Len(data'))
    <3>1. Len(data) \in 2..MaxLen /\ Len(data') \in Len(data)..MaxLen
      BY <1>0, <1>1, <2>1, MaxLenAssumption DEF Dispatched
    <3>2. opcode \in Known \cap Opcodes
      BY <1>0, <1>4, <2>1 DEF TypeOK, Dispatched
    <3> QED BY <3>1, <3>2, ContractOf
  <2>4. v.kind = "more" /\ v.missing = need - Len(data) /\ v.context = context
    BY <2>1, Fields
  <2>5. ASSUME Len(data') < need
        PROVE  w = More(need - Len(data'), context)
    <3>1. Len(data') < Len(data) + v.missing
      BY <1>0, <1>1, <2>4, <2>5
    <3>2. w = More(v.missing - (Len(data') - Len(data)), v.context)
      BY <2>3, <2>4, <3>1 DEF Continues
    <3>3. v.missing - (Len(data') - Len(data)) = need - Len(data')
      BY <1>0, <1>1, <2>4
    <3> QED BY <2>4, <3>2, <3>3
  <2>6. ASSUME Len(data') = need
        PROVE  Exact'
    <3>1. Len(data') = Len(data) + v.missing
      BY <1>0, <1>1, <2>4, <2>6
    <3>2. w.kind = "ok" => w.size = Len(data')
      BY <2>3, <2>4, <3>1 DEF Continues
    <3> QED BY <1>2, <3>2 DEF Exact
  <2> QED BY <2>2, <2>5, <2>6
<1>5. InRead'
  <2>1. Len(data') <= need
    BY <1>0, <1>1
  <2>2. opcode = NoOpcode => need = 2 /\ context = "opcode"
    BY <1>0 DEF InRead
  <2> QED BY <1>0, <1>2, <1>4, <2>1, <2>2 DEF InRead
<1>6. AtEntry' /\ AtDispatch' /\ AtDecode' /\ Answered'
  BY <1>0, <1>2 DEF AtEntry, AtDispatch, AtDecode, Answered
<1> QED BY <1>3, <1>5, <1>6 DEF IInv

LEMMA EnoughKeeps == ASSUME IInv, Enough PROVE IInv'
<1>0. /\ TypeOK /\ InRead /\ pc = "check" /\ answer = NoAnswer
      /\ Len(data) \in Nat /\ need \in Nat /\ Len(data) = need
  BY LenProperties, MaxLenAssumption DEF IInv, TypeOK, InRead, Answered, Enough
<1>1. UNCHANGED <<source, address, image, changes, data, opcode, need, context, n, err, answer, cause>>
  BY DEF Enough, outside
<1>2. TypeOK'
  BY <1>0, <1>1 DEF TypeOK, Enough
<1>3. CASE opcode = NoOpcode
  <2>1. pc' = "dispatch" /\ Len(data) = 2
    BY <1>0, <1>3 DEF Enough, InRead
  <2> QED BY <1>0, <1>1, <1>2, <1>3, <2>1 DEF IInv, AtEntry, AtDispatch, AtDecode, InRead, Answered
<1>4. CASE opcode # NoOpcode
  <2>1. pc' = "decode" /\ Dispatched /\ Exact
    BY <1>0, <1>4 DEF Enough, InRead
  <2>2. Dispatched' /\ Exact'
    BY <1>1, <2>1 DEF Dispatched, Exact
  <2> QED BY <1>0, <1>1, <1>2, <2>1, <2>2 DEF IInv, AtEntry, AtDispatch, AtDecode, InRead, Answered
<1> QED BY <1>3, <1>4

\* What Decode answers on the bytes collected while readUntil is short of its
\* target.
LEMMA ShortOutcome ==
  ASSUME TypeOK, InRead, pc \in {"read", "check"}, Len(data) < need
  PROVE  Outcome(data) = Partial(Len(data), need - Len(data), context)
<1>0. Len(data) \in Nat
  BY LenProperties DEF TypeOK
<1>1. CASE opcode = NoOpcode
  BY <1>0, <1>1, OutcomeCases DEF InRead
<1>2. CASE opcode # NoOpcode
  <2> DEFINE v == More(need - Len(data), context)
  <2>1. Dispatched /\ Verdict(opcode, Len(data)) = v
    BY <1>2 DEF InRead
  <2>2. Outcome(data) = Answer(v, data)
    BY <1>0, <2>1, OutcomeCases DEF Dispatched
  <2>3. v.kind = "more" /\ v.missing = need - Len(data) /\ v.context = context
    BY Fields
  <2> HIDE DEF v
  <2>4. Answer(v, data) = Partial(Len(data), v.missing, v.context)
    BY <2>3, Zenon DEF Answer
  <2> QED BY <2>2, <2>3, <2>4
<1> QED BY <1>1, <1>2

LEMMA GiveUpKeeps == ASSUME IInv, GiveUp PROVE IInv'
<1>0. /\ TypeOK /\ InRead /\ pc = "check" /\ answer = NoAnswer
      /\ Len(data) \in Nat /\ need \in Nat /\ Len(data) < need /\ (err \/ n = 0)
      /\ err \in BOOLEAN
  BY LenProperties, MaxLenAssumption DEF IInv, TypeOK, InRead, Answered, GiveUp
<1>1. UNCHANGED <<source, address, image, changes, data, opcode, need, context, n, err>>
  BY DEF GiveUp, outside
<1>2. /\ pc' = "done" /\ answer' = Partial(Len(data), need - Len(data), context)
      /\ cause' = IF err THEN "reader" ELSE "eof"
  BY DEF GiveUp, Return
<1>3. TypeOK'
  BY <1>0, <1>1, <1>2 DEF TypeOK
<1>4. answer' = Outcome(data)
  BY <1>0, <1>2, ShortOutcome
<1>5. answer'.kind = "partial" /\ answer'.have = Len(data) /\ answer'.missing = need - Len(data)
  BY <1>2, AnswerFields
<1>6. answer'.have + answer'.missing = need
  BY <1>0, <1>5
<1>7. (cause' = "reader" <=> err) /\ (cause' = "eof" <=> n = 0 /\ ~err)
  BY <1>0, <1>2
<1>8. Answered'
  BY <1>1, <1>2, <1>4, <1>5, <1>6, <1>7 DEF Answered
<1> QED BY <1>2, <1>3, <1>8 DEF IInv, AtEntry, AtDispatch, AtDecode, InRead

LEMMA ReadAgainKeeps == ASSUME IInv, ReadAgain PROVE IInv'
<1>1. UNCHANGED <<source, address, image, changes, data, opcode, need, context, n, err, answer, cause>>
      /\ pc = "check" /\ pc' = "read" /\ Len(data) < need
  BY DEF ReadAgain, outside
<1>2. TypeOK'
  BY <1>1 DEF IInv, TypeOK
<1>3. InRead'
  BY <1>1 DEF IInv, InRead, Dispatched, Exact
<1> QED BY <1>1, <1>2, <1>3 DEF IInv, AtEntry, AtDispatch, AtDecode, Answered

\* The memory is not looked at between two reads.
LEMMA MemoryChangesKeeps == ASSUME IInv, MemoryChanges PROVE IInv'
<1>1. UNCHANGED <<pc, source, address, data, opcode, need, context, n, err, answer, cause>>
  BY DEF MemoryChanges
<1>2. TypeOK'
  BY <1>1, MaxChangesAssumption DEF IInv, TypeOK, MemoryChanges
<1> QED BY <1>1, <1>2
        DEF IInv, AtEntry, AtDispatch, AtDecode, InRead, Answered, Dispatched, Exact

LEMMA IInvNext == IInv /\ [Next]_vars => IInv'
<1> SUFFICES ASSUME IInv, [Next]_vars
             PROVE  IInv'
  OBVIOUS
<1>1. CASE FetchOpcode
  BY <1>1, FetchOpcodeKeeps
<1>2. CASE HaveOpcode
  BY <1>2, HaveOpcodeKeeps
<1>3. CASE Dispatch
  BY <1>3, DispatchKeeps
<1>4. CASE RunDecoder
  BY <1>4, RunDecoderKeeps
<1>5. CASE Read
  BY <1>5, ReadKeeps
<1>6. CASE Enough
  BY <1>6, EnoughKeeps
<1>7. CASE GiveUp
  BY <1>7, GiveUpKeeps
<1>8. CASE ReadAgain
  BY <1>8, ReadAgainKeeps
<1>9. CASE MemoryChanges
  BY <1>9, MemoryChangesKeeps
<1>10. CASE UNCHANGED vars
  BY <1>10 DEF vars, IInv, TypeOK, AtEntry, AtDispatch, AtDecode, InRead, Answered,
               Dispatched, Exact
<1> QED BY <1>1, <1>2, <1>3, <1>4, <1>5, <1>6, <1>7, <1>8, <1>9, <1>10 DEF Next, Step

THEOREM Invariance == Spec => []IInv
BY IInvInit, IInvNext, PTL DEF Spec

-----------------------------------------------------------------------------
\* No variable of decodeInstruction or readUntil leaves its range; readUntil is
\* never given a target beyond the longest slice.
THEOREM TypeCorrect == Spec => []TypeOK
<1>1. IInv => TypeOK
  BY DEF IInv
<1> QED BY <1>1, Invariance, PTL

\* Streaming or not, the answer is the one about the bytes delivered, with
\* the missing count recomputed by partialError.
THEOREM AnswerIsOutcome == Spec => []AnswersWhatWasDelivered
<1>1. IInv => AnswersWhatWasDelivered
  BY DEF IInv, Answered, AnswersWhatWasDelivered
<1> QED BY <1>1, Invariance, PTL

\* A streaming decode never takes a byte behind the instruction.
THEOREM NeverReadsAhead == Spec => []NoByteTooMany
<1>1. IInv => NoByteTooMany
  BY DEF IInv, Answered, NoByteTooMany
<1> QED BY <1>1, Invariance, PTL

\* A partial error of a streaming decode carries the error of the last read.
THEOREM CauseIsRight == Spec => []CauseIsTheLastRead
<1>1. IInv => CauseIsTheLastRead
  BY DEF IInv, Answered, CauseIsTheLastRead
<1> QED BY <1>1, Invariance, PTL

-----------------------------------------------------------------------------
\* What streaming finds is what Decode finds in any slice that begins so.
THEOREM StreamingAgreesWithSlices == Spec => []SliceAgrees
<1>1. IInv => SliceAgrees
  <2> SUFFICES ASSUME IInv, pc = "done", answer.kind # "partial", NEW s \in Slices,
                      Len(s) >= Len(data), SubSeq(s, 1, Len(data)) = data
               PROVE  Outcome(s) = answer
    BY DEF SliceAgrees
  <2>1. data \in Seq(Byte) /\ answer = Outcome(data)
    BY DEF IInv, TypeOK, Answered
  <2>2. s \in Seq(Byte) /\ Len(s) <= MaxLen
    BY SlicesAssumption
  <2> QED BY <2>1, <2>2, FinalOutcome
<1> QED BY <1>1, Invariance, PTL

-----------------------------------------------------------------------------
\* The bytes a read brings are in their places: it begins below the top of the
\* address space, wherever the bytes before it were.
LEMMA ReadPlaces ==
  ASSUME IInv, Read
  PROVE  /\ ReadAddress = (address + Len(data)) % AddressSpace
         /\ \A i \in (Len(data) + 1)..Len(data') : \E at \in Places(i) : data'[i] = image[at]
<1> DEFINE top == AddressSpace
<1>0. /\ TypeOK /\ InRead /\ Len(data) \in Nat /\ address \in Nat /\ top \in Nat \ {0}
  BY LenProperties, AddressSpaceAssumption DEF IInv, TypeOK
<1>1. ReadAddress = (address + Len(data)) % AddressSpace
  BY DEF ReadAddress
<1>2. /\ n' \in Nat /\ Len(data') = Len(data) + n'
      /\ \A j \in 1..n' : /\ ReadAddress + (j - 1) \in DOMAIN image
                          /\ data'[Len(data) + j] = image[ReadAddress + (j - 1)]
  BY <1>0, ReadData
<1>3. ASSUME NEW i \in (Len(data) + 1)..Len(data')
      PROVE  \E at \in Places(i) : data'[i] = image[at]
  <2> DEFINE j == i - Len(data)
             base == address + Len(data)
             at == ReadAddress + (j - 1)
  <2>1. j \in 1..n' /\ i = Len(data) + j /\ j - 1 \in Nat /\ base \in Nat
    BY <1>0, <1>2
  <2>2. at \in DOMAIN image /\ data'[i] = image[at]
    BY <1>2, <2>1
  <2>3. ReadAddress \in Nat /\ ReadAddress <= base
    <3> HIDE DEF base
    <3>1. base % top \in Nat /\ base % top <= base
      BY <1>0, <2>1, RemainderIsLess
    <3> QED BY <1>1, <3>1 DEF base
  <2>4. base + (j - 1) = address + (i - 1)
    BY <1>0, <2>1
  <2>5. at <= address + (i - 1)
    <3> HIDE DEF j, base
    <3> QED BY <2>1, <2>3, <2>4
  <2>6. at % top = (address + (i - 1)) % top
    <3> HIDE DEF j
    <3>1. ((base % top) + (j - 1)) % top = (base + (j - 1)) % top
      <4> HIDE DEF base, top
      <4> QED BY <1>0, <2>1, Wraps
    <3> QED BY <1>1, <2>4, <3>1
  <2> HIDE DEF at, j, base
  <2>7. at \in Places(i)
    BY <2>2, <2>5, <2>6 DEF Places
  <2> QED BY <2>2, <2>7
<1> QED BY <1>1, <1>3

\* The address of the next read is behind the bytes read so far, also when the
\* instruction lies across the top of the address space.
THEOREM NoByteLost == Spec => []BytesAreMemory
<1>1. Init => BytesAreMemory
  <2> SUFFICES ASSUME Init, source = "reader"
               PROVE  Len(data) = 0 /\ pc # "check"
    BY DEF BytesAreMemory
  <2>1. Len(data) = 0
    BY IInvInit DEF IInv, AtEntry, Init
  <2> QED BY <2>1 DEF Init
<1>2. IInv /\ BytesAreMemory /\ [Next]_vars => BytesAreMemory'
  <2> SUFFICES ASSUME IInv, BytesAreMemory, [Next]_vars,
                      source' = "reader", changes' = 0
               PROVE  /\ \A i \in 1..Len(data') : \E at \in Places(i)' : data'[i] = image'[at]
                      /\ pc' = "check" /\ n' > 0 =>
                           LET first == (address' + (Len(data') - n')) % AddressSpace
                           IN  /\ first \in DOMAIN image'
                               /\ data'[Len(data') - n' + 1] = image'[first]
    BY DEF BytesAreMemory
  <2>0. TypeOK /\ InRead /\ Len(data) \in Nat /\ address \in Nat
    BY LenProperties, AddressSpaceAssumption DEF IInv, TypeOK
  <2>1. CASE Read
    <3>1. UNCHANGED <<source, address, image, changes>>
      BY <2>1 DEF Read, outside
    <3>2. /\ n' \in Nat /\ Len(data') = Len(data) + n'
          /\ \A j \in 1..Len(data) : data'[j] = data[j]
          /\ \A j \in 1..n' : /\ ReadAddress + (j - 1) \in DOMAIN image
                              /\ data'[Len(data) + j] = image[ReadAddress + (j - 1)]
      BY <2>0, <2>1, ReadData
    <3>3. ASSUME NEW i \in 1..Len(data')
          PROVE  \E at \in Places(i)' : data'[i] = image'[at]
      <4>1. Places(i)' = Places(i)
        BY <3>1 DEF Places
      <4>2. \E at \in Places(i) : data'[i] = image[at]
        <5>1. CASE i \in 1..Len(data)
          <6>1. \E at \in Places(i) : data[i] = image[at]
            BY <3>1, <5>1 DEF BytesAreMemory
          <6> QED BY <3>2, <5>1, <6>1
        <5>2. CASE i \in (Len(data) + 1)..Len(data')
          BY <2>1, <5>2, ReadPlaces
        <5> QED BY <2>0, <3>2, <5>1, <5>2
      <4> QED BY <3>1, <4>1, <4>2
    <3>4. ASSUME n' > 0
          PROVE  LET first == (address' + (Len(data') - n')) % AddressSpace
                 IN  /\ first \in DOMAIN image'
                     /\ data'[Len(data') - n' + 1] = image'[first]
      <4>1. Len(data') - n' = Len(data) /\ 1 \in 1..n'
        BY <2>0, <3>2, <3>4
      <4>2. (address' + (Len(data') - n')) % AddressSpace = ReadAddress
        BY <3>1, <4>1 DEF ReadAddress
      <4>3. ReadAddress + (1 - 1) = ReadAddress
        BY <2>0, AddressSpaceAssumption DEF ReadAddress
      <4>4. ReadAddress \in DOMAIN image /\ data'[Len(data) + 1] = image[ReadAddress]
        BY <3>2, <4>1, <4>3
      <4> QED BY <3>1, <4>1, <4>2, <4>4
    <3> QED BY <3>3, <3>4
  <2>2. CASE MemoryChanges
    BY <2>0, <2>2 DEF MemoryChanges, TypeOK
  <2>3. CASE UNCHANGED <<source, address, image, changes, data>> /\ (pc' = "check" => UNCHANGED <<pc, n>>)
    BY <2>3 DEF BytesAreMemory, Places
  <2> QED BY <2>1, <2>2, <2>3
          DEF Next, Step, vars, outside, FetchOpcode, HaveOpcode, Dispatch, RunDecoder, Enough,
              GiveUp, ReadAgain, Return, ReadUntil
<1> QED BY <1>1, <1>2, Invariance, PTL DEF Spec

-----------------------------------------------------------------------------
\* The slice holds at each index what the reader shows at the index's place, or, for the
\* bytes beyond the top of the address space, at both its places.
CopiedFromMemory(s) ==
  \A i \in 1..Len(s) : \A at \in Places(i) : s[i] = image[at]

\* Decoding from a memory that nobody writes to meanwhile finds the instruction - or
\* the decoder's error - that Decode finds in a slice copied from that memory, if the
\* slice is long enough.
THEOREM StreamsWhatSlicesHold ==
  Spec => [](pc = "done" /\ source = "reader" /\ changes = 0 /\ answer.kind # "partial" =>
             \A s \in Seq(Byte) :
               Len(data) <= Len(s) /\ Len(s) <= MaxLen /\ CopiedFromMemory(s) =>
                 Outcome(s) = answer)
<1>1. IInv /\ BytesAreMemory =>
        (pc = "done" /\ source = "reader" /\ changes = 0 /\ answer.kind # "partial" =>
         \A s \in Seq(Byte) :
           Len(data) <= Len(s) /\ Len(s) <= MaxLen /\ CopiedFromMemory(s) =>
             Outcome(s) = answer)
  <2> SUFFICES ASSUME IInv, BytesAreMemory, pc = "done", source = "reader", changes = 0,
                      answer.kind # "partial",
                      NEW s \in Seq(Byte), Len(data) <= Len(s), Len(s) <= MaxLen,
                      CopiedFromMemory(s)
               PROVE  Outcome(s) = answer
    OBVIOUS
  <2>1. data \in Seq(Byte) /\ answer = Outcome(data)
    BY DEF IInv, TypeOK, Answered
  <2>2. Len(data) \in Nat /\ Len(s) \in Nat
    BY <2>1, LenProperties
  <2>3. \A i \in 1..Len(data) : s[i] = data[i]
    <3>1. \A i \in 1..Len(data) : \E at \in Places(i) : data[i] = image[at]
      BY DEF BytesAreMemory
    <3> QED BY <2>2, <3>1 DEF CopiedFromMemory
  <2>4. SubSeq(s, 1, Len(data)) = data
    <3>1. \A i \in 1..Len(data) : s[i] \in Byte
      BY <2>1, <2>3, ElementOfSeq
    <3>2. /\ SubSeq(s, 1, Len(data)) \in Seq(Byte)
          /\ Len(SubSeq(s, 1, Len(data))) = Len(data)
          /\ \A i \in 1..Len(data) : SubSeq(s, 1, Len(data))[i] = s[i]
      BY <2>2, <3>1, SubSeqProperties
    <3> QED BY <2>1, <2>3, <3>2, SeqEqual
  <2> QED BY <2>1, <2>4, FinalOutcome
<1> QED BY <1>1, Invariance, NoByteLost, PTL

\* A slice of memory in which every byte has one place only - it lies below the top of
\* the address space - is such a copy.
LEMMA BelowTheTop ==
  ASSUME TypeOK, NEW s \in Seq(Byte), address + Len(s) <= AddressSpace,
         \A i \in 1..Len(s) : s[i] = image[address + (i - 1)]
  PROVE  CopiedFromMemory(s)
<1> SUFFICES ASSUME NEW i \in 1..Len(s), NEW at \in Places(i)
             PROVE  at = address + (i - 1)
  BY DEF CopiedFromMemory
<1> DEFINE here == address + (i - 1)
<1>1. Len(s) \in Nat /\ address \in Nat /\ AddressSpace \in Nat \ {0}
  BY LenProperties, AddressSpaceAssumption DEF TypeOK
<1>2. here \in Nat /\ here < AddressSpace
  BY <1>1
<1>3. at \in Nat /\ at <= here /\ at % AddressSpace = here % AddressSpace
  BY ImagesAssumption DEF Places, TypeOK
<1> HIDE DEF here
<1>4. at % AddressSpace = at /\ here % AddressSpace = here
  <2>1. at < AddressSpace
    BY <1>1, <1>2, <1>3
  <2>2. \A place \in Nat : place < AddressSpace => place % AddressSpace = place
    BY ONLY <1>1
  <2> QED BY <1>2, <1>3, <2>1, <2>2
<1> QED BY <1>3, <1>4 DEF here

-----------------------------------------------------------------------------
\* A read that delivered nothing has not reached readUntil's target.
NothingCame == pc = "check" /\ n = 0 => Len(data) < need

\* What a call can still spend: six for every byte it may yet be given, and less
\* than six for the way to the next read.
Rank ==
  CASE pc = "done" -> 0
    [] pc = "check" /\ n = 0 -> 1
    [] pc = "read" -> 2
    [] pc = "decode" -> 3
    [] pc = "dispatch" -> 4
    [] OTHER -> 5

Fuel == 6 * (MaxLen - Len(data)) + Rank

LEMMA RankIs ==
  ASSUME TypeOK
  PROVE  /\ Rank \in 0..5
         /\ pc = "done" => Rank = 0
         /\ pc = "check" /\ n = 0 => Rank = 1
         /\ pc = "read" => Rank = 2
         /\ pc = "decode" => Rank = 3
         /\ pc = "dispatch" => Rank = 4
         /\ pc = "entry" \/ (pc = "check" /\ n # 0) => Rank = 5
BY DEF TypeOK, Rank

LEMMA NothingCameNext == IInv /\ NothingCame /\ [Next]_vars => NothingCame'
<1> SUFFICES ASSUME IInv, NothingCame, [Next]_vars, pc' = "check", n' = 0
             PROVE  Len(data') < need'
  BY DEF NothingCame
<1>1. CASE Read
  <2>1. TypeOK /\ InRead /\ pc = "read" /\ need' = need /\ Len(data) < need /\ Len(data) \in Nat
    BY <1>1, LenProperties DEF IInv, TypeOK, InRead, Read
  <2>2. Len(data') = Len(data) + n'
    BY <1>1, <2>1, ReadData
  <2> QED BY <2>1, <2>2
<1>2. CASE UNCHANGED <<pc, data, need, n>>
  BY <1>2 DEF NothingCame
<1> QED BY <1>1, <1>2
        DEF Next, Step, vars, FetchOpcode, HaveOpcode, Dispatch, RunDecoder, Enough,
            GiveUp, ReadAgain, MemoryChanges, Return, ReadUntil

LEMMA StepSpends == ASSUME IInv, IInv', NothingCame, Step PROVE Fuel' < Fuel
<1>0. /\ TypeOK /\ TypeOK' /\ InRead
      /\ Len(data) \in Nat /\ Len(data) <= MaxLen /\ Len(data') \in Nat /\ Len(data') <= MaxLen
      /\ MaxLen \in Nat /\ need \in Nat /\ n \in Nat /\ n' \in Nat
  BY LenProperties, MaxLenAssumption DEF IInv, TypeOK
<1>1. /\ Rank \in 0..5
      /\ pc = "check" /\ n = 0 => Rank = 1
      /\ pc = "read" => Rank = 2
      /\ pc = "decode" => Rank = 3
      /\ pc = "dispatch" => Rank = 4
      /\ pc = "entry" \/ (pc = "check" /\ n # 0) => Rank = 5
  BY <1>0, RankIs
<1>2. /\ Rank' \in 0..5
      /\ pc' = "done" => Rank' = 0
      /\ pc' = "check" /\ n' = 0 => Rank' = 1
      /\ pc' = "read" => Rank' = 2
      /\ pc' = "decode" => Rank' = 3
      /\ pc' = "dispatch" => Rank' = 4
  BY <1>0 DEF TypeOK, Rank
<1>3. CASE Read
  <2>1. Len(data') = Len(data) + n' /\ pc = "read" /\ pc' = "check"
    BY <1>0, <1>3, ReadData DEF Read
  <2>2. n' = 0 => Rank' < Rank
    BY <1>1, <1>2, <2>1
  <2>3. Rank' \in 0..5 /\ Rank = 2
    BY <1>1, <1>2, <2>1
  <2>4. \A got \in Nat, rank \in 0..5 : got > 0 =>
          6 * (MaxLen - (Len(data) + got)) + rank < 6 * (MaxLen - Len(data)) + 2
    BY ONLY <1>0
  <2>5. CASE n' = 0
    BY ONLY <1>0, <1>1, <2>1, <2>2, <2>3, <2>5 DEF Fuel
  <2>6. CASE n' > 0
    BY ONLY <1>0, <2>1, <2>3, <2>4, <2>6 DEF Fuel
  <2> QED BY <1>0, <2>5, <2>6
<1>4. CASE data' = data /\ Rank' < Rank
  BY <1>0, <1>1, <1>2, <1>4 DEF Fuel
<1>5. CASE FetchOpcode \/ HaveOpcode \/ Dispatch \/ RunDecoder
  <2>1. /\ data' = data
        /\ pc \in {"entry", "dispatch", "decode"}
        /\ pc = "entry" => pc' \in {"done", "read", "dispatch"}
        /\ pc = "dispatch" => pc' \in {"decode", "done"}
        /\ pc = "decode" => pc' \in {"done", "read"}
    BY <1>5 DEF FetchOpcode, HaveOpcode, Dispatch, RunDecoder, Return, ReadUntil
  <2> QED BY <1>1, <1>2, <1>4, <2>1
<1>6. CASE Enough \/ GiveUp \/ ReadAgain
  <2>1. /\ data' = data /\ pc = "check"
        /\ pc' \in {"dispatch", "decode", "done", "read"}
        /\ n = 0 => pc' = "done"
    BY <1>0, <1>6 DEF Enough, GiveUp, ReadAgain, Return, NothingCame
  <2> QED BY <1>1, <1>2, <1>4, <2>1
<1> QED BY <1>3, <1>5, <1>6 DEF Step

\* A call is over after a number of its own steps that depends only on the longest
\* instruction, however often the memory changes in between: neither the retry loop
\* of decodeInstruction nor readUntil's loop goes round without a byte gained, and a
\* read that delivers nothing is the last.
THEOREM CallsAreFinite ==
  Spec => [](Fuel \in Nat) /\ [][MemoryChanges \/ Fuel' < Fuel]_vars
<1>1. Init => NothingCame
  BY DEF Init, NothingCame
<1>2. IInv => Fuel \in Nat
  <2> SUFFICES ASSUME IInv
               PROVE  Fuel \in Nat
    OBVIOUS
  <2>1. TypeOK /\ Len(data) \in Nat /\ Len(data) <= MaxLen /\ MaxLen \in Nat
    BY LenProperties, MaxLenAssumption DEF IInv, TypeOK
  <2>2. Rank \in 0..5
    BY <2>1, RankIs
  <2> QED BY <2>1, <2>2 DEF Fuel
<1>3. IInv /\ IInv' /\ NothingCame /\ [Next]_vars => [MemoryChanges \/ Fuel' < Fuel]_vars
  BY StepSpends DEF Next
<1>4. IInv /\ NothingCame /\ [Next]_vars => NothingCame'
  BY NothingCameNext
<1> QED BY <1>1, <1>2, <1>3, <1>4, Invariance, PTL DEF Spec

-----------------------------------------------------------------------------
\* The abstract call speaks of the same answers: DecodeSpec is instantiated
\* with this module's constants.
LEMMA SameNoAnswer == Promise!NoAnswer = NoAnswer
BY DEF Promise!NoAnswer, NoAnswer

LEMMA SameOutcome == ASSUME NEW bytes PROVE Promise!Outcome(bytes) = Outcome(bytes)
<1>1. Promise!OpcodeOf(bytes) = OpcodeOf(bytes)
  BY DEF Promise!OpcodeOf, OpcodeOf
<1>2. \A have, missing, what :
        Promise!Partial(have, missing, what) = Partial(have, missing, what)
  BY DEF Promise!Partial, Partial
<1>3. \A size, kept, fallback :
        Promise!Instruction(size, kept, fallback) = Instruction(size, kept, fallback)
  BY DEF Promise!Instruction, Instruction
<1>4. \A v : Promise!Answer(v, bytes) = Answer(v, bytes)
  BY Zenon DEF Promise!Answer, Answer, Promise!Instruction, Instruction,
     Promise!Partial, Partial, Promise!Rejected, Rejected
<1> QED BY Zenon, <1>1, <1>2, <1>3, <1>4 DEF Promise!Outcome, Outcome

\* A read that delivers something is a Deliver of the abstract call.
LEMMA ReadDelivers ==
  ASSUME IInv, Read, n' > 0
  PROVE  Promise!Deliver
<1>1. /\ TypeOK /\ InRead /\ pc = "read" /\ answer = NoAnswer /\ answer' = answer
      /\ Len(data) \in Nat /\ need \in Nat /\ Len(data) < need /\ data \in Seq(Byte)
  BY LenProperties, MaxLenAssumption DEF IInv, TypeOK, InRead, Answered, Read
<1>2. /\ data' \in Seq(Byte) /\ n' \in Nat /\ n' <= need - Len(data)
      /\ Len(data') = Len(data) + n'
      /\ \A i \in 1..Len(data) : data'[i] = data[i]
  BY <1>1, ReadData
<1>3. Outcome(data) = Partial(Len(data), need - Len(data), context)
  BY <1>1, ShortOutcome
<1>4. Outcome(data).kind = "partial" /\ Outcome(data).missing = need - Len(data)
  BY <1>3, AnswerFields
<1>5. SubSeq(data', 1, Len(data)) = data
  <2>1. \A i \in 1..Len(data) : data'[i] \in Byte
    BY <1>1, <1>2, ElementOfSeq
  <2>2. /\ SubSeq(data', 1, Len(data)) \in Seq(Byte)
        /\ Len(SubSeq(data', 1, Len(data))) = Len(data)
        /\ \A i \in 1..Len(data) : SubSeq(data', 1, Len(data))[i] = data'[i]
    BY <1>1, <2>1, SubSeqProperties
  <2> QED BY <1>1, <1>2, <2>2, SeqEqual
<1>6. Len(data') - Len(data) \in 1..Outcome(data).missing
  BY <1>1, <1>2, <1>4
<1> QED BY <1>1, <1>2, <1>4, <1>5, <1>6, SameNoAnswer, SameOutcome DEF Promise!Deliver

\* decodeInstruction keeps the promise of its API: every step of the loop is a
\* delivery the abstract call would take, its reply, or nothing.
THEOREM LoopImplementsPromise == Spec => ImplementsPromise
<1>1. Init => Promise!Init
  BY SameNoAnswer DEF Init, Promise!Init
<1>2. IInv /\ IInv' /\ [Next]_vars => [Promise!Next]_(Promise!vars)
  <2> SUFFICES ASSUME IInv, IInv', [Next]_vars
               PROVE  Promise!Next \/ UNCHANGED <<data, answer>>
    BY DEF Promise!vars
  <2>1. CASE Read
    <3>1. CASE n' > 0
      BY <2>1, <3>1, ReadDelivers DEF Promise!Next
    <3>2. CASE ~(n' > 0)
      <4>1. TypeOK /\ InRead
        BY DEF IInv
      <4>2. data' \in Seq(Byte) /\ data \in Seq(Byte) /\ n' = 0 /\ Len(data') = Len(data) + n'
            /\ \A i \in 1..Len(data) : data'[i] = data[i]
        BY <2>1, <3>2, <4>1, ReadData DEF TypeOK
      <4>3. Len(data') = Len(data)
        BY <4>2, LenProperties
      <4>4. data' = data
        BY <4>2, <4>3, SeqEqual
      <4> QED BY <2>1, <4>4 DEF Read
    <3> QED BY <3>1, <3>2
  <2>2. CASE pc # "done" /\ pc' = "done" /\ data' = data
    <3>1. answer = NoAnswer /\ answer' = Outcome(data)
      BY <2>2 DEF IInv, Answered
    <3> QED BY <2>2, <3>1, SameNoAnswer, SameOutcome DEF Promise!Next, Promise!Reply
  <2>3. CASE UNCHANGED <<data, answer>>
    BY <2>3
  <2> QED BY <2>1, <2>2, <2>3
          DEF Next, Step, vars, outside, FetchOpcode, HaveOpcode, Dispatch, RunDecoder, Enough,
              GiveUp, ReadAgain, MemoryChanges, Return, ReadUntil
<1> QED BY <1>1, <1>2, Invariance, PTL DEF Spec, ImplementsPromise, Promise!Spec

=============================================================================
