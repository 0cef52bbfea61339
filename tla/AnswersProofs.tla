--------------------------- MODULE AnswersProofs ----------------------------
(***************************************************************************)
(* What the proofs about decodeInstruction and about its callers share:    *)
(* which answers there are, that a final one does not depend on the bytes  *)
(* behind the instruction, and how addresses wrap.                         *)
(***************************************************************************)
EXTENDS Answers, SequenceTheorems, TLAPS

\* The three constructors of a verdict are told apart by their kind.
LEMMA Fields ==
  /\ \A s : Ok(s).kind = "ok" /\ Ok(s).size = s
  /\ \A k, w : /\ More(k, w).kind = "more"
               /\ More(k, w).missing = k
               /\ More(k, w).context = w
  /\ \A r : Error(r).kind = "error" /\ Error(r).context = r
BY DEF Ok, More, Error

\* What Bounded says of a verdict of each kind.
LEMMA BoundedCases ==
  ASSUME NEW v, NEW len \in Nat, NEW limit \in Nat, Bounded(v, len, limit)
  PROVE  /\ v.kind \in {"ok", "more", "error"}
         /\ v.kind = "ok"    => v.size \in 2..len /\ v.size <= limit /\ v = Ok(v.size)
         /\ v.kind = "more"  => /\ v.missing \in 1..(limit - len)
                                /\ v = More(v.missing, v.context)
         /\ v.kind = "error" => v = Error(v.context)
BY Fields DEF Bounded

\* The answers are told apart by their kind.
LEMMA AnswerFields ==
  /\ \A size, bytes, fallback :
       /\ Instruction(size, bytes, fallback).kind = "ok"
       /\ Instruction(size, bytes, fallback).size = size
       /\ Instruction(size, bytes, fallback).bytes = bytes
  /\ \A have, missing, what :
       /\ Partial(have, missing, what).kind = "partial"
       /\ Partial(have, missing, what).have = have
       /\ Partial(have, missing, what).missing = missing
  /\ \A reason : Rejected(reason).kind = "error"
  /\ NoAnswer.kind = "none"
BY DEF Instruction, Partial, Rejected, NoAnswer

\* The three ways of decodeInstruction.
LEMMA OutcomeCases ==
  ASSUME NEW bytes, Len(bytes) \in Nat
  PROVE  /\ Len(bytes) < 2 =>
              Outcome(bytes) = Partial(Len(bytes), 2 - Len(bytes), "opcode")
         /\ Len(bytes) >= 2 /\ OpcodeOf(bytes) \notin Known =>
              Outcome(bytes) = Instruction(2, SubSeq(bytes, 1, 2), TRUE)
         /\ Len(bytes) >= 2 /\ OpcodeOf(bytes) \in Known =>
              Outcome(bytes) = Answer(Verdict(OpcodeOf(bytes), Len(bytes)), bytes)
<1>1. CASE Len(bytes) < 2
  <2>1. ~(Len(bytes) >= 2)
    BY <1>1
  <2> QED BY <1>1, <2>1, Zenon DEF Outcome
<1>2. CASE Len(bytes) >= 2
  <2>1. ~(Len(bytes) < 2)
    BY <1>2
  <2> QED BY <1>2, <2>1, Zenon DEF Outcome
<1> QED BY <1>1, <1>2

\* The opcode word of some bytes.
LEMMA OpcodeIsWord ==
  ASSUME NEW bytes \in Seq(Byte), Len(bytes) >= 2
  PROVE  OpcodeOf(bytes) \in Opcodes /\ OpcodeOf(bytes) \in Nat
<1>1. bytes[1] \in Byte /\ bytes[2] \in Byte
  BY ElementOfSeq, LenProperties
<1>2. bytes[1] \in Nat /\ bytes[2] \in Nat
  BY <1>1, ByteAssumption
<1> QED BY <1>1, <1>2 DEF OpcodeOf, Opcodes

\* The contract, for the bytes of a call.
LEMMA ContractOf ==
  ASSUME NEW op \in Known \cap Opcodes, NEW len \in 2..MaxLen, NEW m \in len..MaxLen
  PROVE  /\ Bounded(Verdict(op, len), len, MaxLen)
         /\ Continues(Verdict(op, len), len, Verdict(op, m), m)
BY DecoderContract

-----------------------------------------------------------------------------
\* A final answer about some bytes is the answer about any longer slice.
LEMMA FinalOutcome ==
  ASSUME NEW d \in Seq(Byte), NEW s \in Seq(Byte),
         Len(s) >= Len(d), Len(s) <= MaxLen, SubSeq(s, 1, Len(d)) = d,
         Outcome(d).kind # "partial"
  PROVE  Outcome(s) = Outcome(d)
<1>1. Len(d) \in Nat /\ Len(s) \in Nat
  BY LenProperties
<1>2. Len(d) >= 2
  <2> SUFFICES ASSUME Len(d) < 2
               PROVE  FALSE
    BY <1>1
  <2>1. Outcome(d) = Partial(Len(d), 2 - Len(d), "opcode")
    BY <1>1, OutcomeCases
  <2> QED BY <2>1, AnswerFields
<1>3. \A i \in 1..Len(d) : s[i] = d[i]
  <2>1. \A i \in 1..Len(d) : s[i] \in Byte
    BY <1>1, ElementOfSeq
  <2>2. \A i \in 1..(Len(d) - 1 + 1) : SubSeq(s, 1, Len(d))[i] = s[1 + i - 1]
    BY <1>1, <2>1, SubSeqProperties
  <2> QED BY <1>1, <2>2
<1>4. OpcodeOf(s) = OpcodeOf(d)
  BY <1>1, <1>2, <1>3 DEF OpcodeOf
<1>5. ASSUME NEW k \in 0..Len(d)
      PROVE  SubSeq(s, 1, k) = SubSeq(d, 1, k)
  <2>1. \A i \in 1..k : s[i] \in Byte /\ d[i] \in Byte
    BY <1>1, ElementOfSeq
  <2>2. /\ SubSeq(s, 1, k) \in Seq(Byte) /\ SubSeq(d, 1, k) \in Seq(Byte)
        /\ Len(SubSeq(s, 1, k)) = k /\ Len(SubSeq(d, 1, k)) = k
        /\ \A i \in 1..k : SubSeq(s, 1, k)[i] = s[i] /\ SubSeq(d, 1, k)[i] = d[i]
    BY <1>1, <2>1, SubSeqProperties
  <2>3. \A i \in 1..k : s[i] = d[i]
    BY <1>1, <1>3
  <2> QED BY <2>2, <2>3, SeqEqual
<1>6. CASE OpcodeOf(d) \notin Known
  <2>1. Outcome(d) = Instruction(2, SubSeq(d, 1, 2), TRUE)
    BY <1>1, <1>2, <1>6, OutcomeCases
  <2>2. Outcome(s) = Instruction(2, SubSeq(s, 1, 2), TRUE)
    <3>1. Len(s) >= 2 /\ OpcodeOf(s) \notin Known
      BY <1>1, <1>2, <1>4, <1>6
    <3> QED BY <1>1, <3>1, OutcomeCases
  <2>3. SubSeq(s, 1, 2) = SubSeq(d, 1, 2)
    BY <1>1, <1>2, <1>5
  <2> QED BY <2>1, <2>2, <2>3
<1>7. CASE OpcodeOf(d) \in Known
  <2> DEFINE v == Verdict(OpcodeOf(d), Len(d))
             w == Verdict(OpcodeOf(d), Len(s))
  <2>1. Outcome(d) = Answer(v, d) /\ Outcome(s) = Answer(w, s)
    <3>1. Outcome(d) = Answer(v, d)
      BY <1>1, <1>2, <1>7, OutcomeCases
    <3>2. Len(s) >= 2 /\ OpcodeOf(s) \in Known
      BY <1>1, <1>2, <1>4, <1>7
    <3>3. Outcome(s) = Answer(Verdict(OpcodeOf(s), Len(s)), s)
      BY <1>1, <3>2, OutcomeCases
    <3> QED BY <1>4, <3>1, <3>3
  <2>2. Bounded(v, Len(d), MaxLen) /\ Continues(v, Len(d), w, Len(s))
    <3>1. Len(d) \in 2..MaxLen /\ Len(s) \in Len(d)..MaxLen /\ OpcodeOf(d) \in Opcodes
      BY <1>1, <1>2, OpcodeIsWord, MaxLenAssumption
    <3> QED BY <1>7, <3>1, ContractOf
  <2>3. v.kind # "more"
    <3> SUFFICES ASSUME v.kind = "more"
                 PROVE  FALSE
      OBVIOUS
    <3>1. Outcome(d) = Partial(Len(d), v.missing, v.context)
      BY <2>1, Zenon DEF Answer
    <3> QED BY <3>1, AnswerFields
  <2>4. w = v
    BY <2>2, <2>3 DEF Continues
  <2> HIDE DEF v, w
  <2>5. CASE v.kind = "ok"
    <3>1. v.size \in 0..Len(d)
      BY <1>1, <2>2, <2>5, BoundedCases, MaxLenAssumption
    <3>2. SubSeq(s, 1, v.size) = SubSeq(d, 1, v.size)
      BY <1>5, <3>1
    <3> QED BY <2>1, <2>4, <2>5, <3>2, Zenon DEF Answer
  <2>6. CASE v.kind = "error"
    BY <2>1, <2>4, <2>6, Zenon DEF Answer
  <2> QED BY <1>1, <2>2, <2>3, <2>5, <2>6, BoundedCases, MaxLenAssumption
<1> QED BY <1>6, <1>7

\* An instruction lies within the bytes it was decoded from.
LEMMA InstructionFits ==
  ASSUME NEW bytes \in Seq(Byte), Len(bytes) <= MaxLen, Outcome(bytes).kind = "ok"
  PROVE  /\ Outcome(bytes).size \in 2..Len(bytes)
         /\ Outcome(bytes).bytes \in Seq(Byte)
         /\ Outcome(bytes).fallback \in BOOLEAN
         /\ Len(Outcome(bytes).bytes) = Outcome(bytes).size
         /\ Outcome(bytes).bytes = SubSeq(bytes, 1, Outcome(bytes).size)
<1>1. Len(bytes) \in Nat /\ MaxLen \in Nat
  BY LenProperties, MaxLenAssumption
<1>2. Len(bytes) >= 2
  <2>1. Len(bytes) < 2 => Outcome(bytes) = Partial(Len(bytes), 2 - Len(bytes), "opcode")
    BY <1>1, OutcomeCases
  <2> QED BY <1>1, <2>1, AnswerFields
<1>3. ASSUME NEW k \in 2..Len(bytes)
      PROVE  SubSeq(bytes, 1, k) \in Seq(Byte) /\ Len(SubSeq(bytes, 1, k)) = k
  <2>1. \A i \in 1..k : bytes[i] \in Byte
    BY <1>1, ElementOfSeq
  <2> QED BY <1>1, <2>1, SubSeqProperties
<1>4. CASE OpcodeOf(bytes) \notin Known
  <2> DEFINE found == Instruction(2, SubSeq(bytes, 1, 2), TRUE)
  <2>1. Outcome(bytes) = found
    BY <1>1, <1>2, <1>4, OutcomeCases
  <2>2. found.size = 2 /\ found.bytes = SubSeq(bytes, 1, 2) /\ found.fallback \in BOOLEAN
    <3>1. found.size = 2
      BY DEF Instruction
    <3>2. found.bytes = SubSeq(bytes, 1, 2)
      BY DEF Instruction
    <3>3. found.fallback = TRUE
      BY DEF Instruction
    <3> QED BY <3>1, <3>2, <3>3, Zenon
  <2> HIDE DEF found
  <2>3. 2 \in 2..Len(bytes)
    BY <1>1, <1>2
  <2> QED BY <1>3, <2>1, <2>2, <2>3
<1>5. CASE OpcodeOf(bytes) \in Known
  <2> DEFINE v == Verdict(OpcodeOf(bytes), Len(bytes))
  <2>1. Outcome(bytes) = Answer(v, bytes)
    BY <1>1, <1>2, <1>5, OutcomeCases
  <2>2. Bounded(v, Len(bytes), MaxLen)
    <3>1. OpcodeOf(bytes) \in Opcodes
      BY <1>2, OpcodeIsWord
    <3>2. Len(bytes) \in 2..MaxLen /\ Len(bytes) \in Len(bytes)..MaxLen
      BY <1>1, <1>2
    <3> QED BY <1>5, <3>1, <3>2, ContractOf
  <2> HIDE DEF v
  <2>3. v.kind \in {"ok", "more", "error"} /\ (v.kind = "ok" => v.size \in 2..Len(bytes))
    BY <1>1, <2>2, BoundedCases
  <2>4. v.kind = "ok"
    <3>1. v.kind = "more" => Outcome(bytes) = Partial(Len(bytes), v.missing, v.context)
      BY <2>1, Zenon DEF Answer
    <3>2. v.kind = "error" => Outcome(bytes) = Rejected(v.context)
      BY <2>1, Zenon DEF Answer
    <3> QED BY <2>3, <3>1, <3>2, AnswerFields
  <2> DEFINE found == Instruction(v.size, SubSeq(bytes, 1, v.size), FALSE)
  <2>5. Outcome(bytes) = found
    BY <2>1, <2>4, Zenon DEF Answer
  <2>6. /\ found.size = v.size /\ found.bytes = SubSeq(bytes, 1, v.size)
        /\ found.fallback \in BOOLEAN
    <3>1. found.size = v.size
      BY DEF Instruction
    <3>2. found.bytes = SubSeq(bytes, 1, v.size)
      BY DEF Instruction
    <3>3. found.fallback = FALSE
      BY DEF Instruction
    <3> QED BY <3>1, <3>2, <3>3, Zenon
  <2> HIDE DEF found
  <2> QED BY <1>3, <2>3, <2>4, <2>5, <2>6
<1> QED BY <1>4, <1>5

\* What is not an instruction is a partial error about all of the bytes, or
\* another error.
LEMMA Otherwise ==
  ASSUME NEW bytes \in Seq(Byte), Len(bytes) <= MaxLen, Outcome(bytes).kind # "ok"
  PROVE  /\ Outcome(bytes).kind \in {"partial", "error"}
         /\ Outcome(bytes).kind = "partial" => Outcome(bytes).have = Len(bytes)
<1>1. Len(bytes) \in Nat /\ MaxLen \in Nat
  BY LenProperties, MaxLenAssumption
<1>2. CASE Len(bytes) < 2
  <2>1. Outcome(bytes) = Partial(Len(bytes), 2 - Len(bytes), "opcode")
    BY <1>1, <1>2, OutcomeCases
  <2> QED BY <2>1, AnswerFields
<1>3. CASE Len(bytes) >= 2 /\ OpcodeOf(bytes) \notin Known
  <2> DEFINE found == Instruction(2, SubSeq(bytes, 1, 2), TRUE)
  <2>1. Outcome(bytes) = found
    BY <1>1, <1>3, OutcomeCases
  <2>2. found.kind = "ok"
    BY DEF Instruction
  <2> HIDE DEF found
  <2> QED BY <2>1, <2>2
<1>4. CASE Len(bytes) >= 2 /\ OpcodeOf(bytes) \in Known
  <2> DEFINE v == Verdict(OpcodeOf(bytes), Len(bytes))
  <2>1. Outcome(bytes) = Answer(v, bytes)
    BY <1>1, <1>4, OutcomeCases
  <2>2. Bounded(v, Len(bytes), MaxLen)
    <3>1. OpcodeOf(bytes) \in Opcodes
      BY <1>4, OpcodeIsWord
    <3>2. Len(bytes) \in 2..MaxLen /\ Len(bytes) \in Len(bytes)..MaxLen
      BY <1>1, <1>4
    <3> QED BY <1>4, <3>1, <3>2, ContractOf
  <2> HIDE DEF v
  <2>3. v.kind \in {"ok", "more", "error"}
    BY <1>1, <2>2, BoundedCases
  <2>4. v.kind = "ok" => Outcome(bytes).kind = "ok"
    <3> DEFINE found == Instruction(v.size, SubSeq(bytes, 1, v.size), FALSE)
    <3>1. v.kind = "ok" => Outcome(bytes) = found
      BY <2>1, Zenon DEF Answer
    <3>2. found.kind = "ok"
      BY DEF Instruction
    <3> HIDE DEF found
    <3> QED BY <3>1, <3>2
  <2>5. v.kind = "more" => Outcome(bytes) = Partial(Len(bytes), v.missing, v.context)
    BY <2>1, Zenon DEF Answer
  <2>6. v.kind = "error" => Outcome(bytes) = Rejected(v.context)
    BY <2>1, Zenon DEF Answer
  <2> QED BY <2>3, <2>4, <2>5, <2>6, AnswerFields
<1> QED BY <1>1, <1>2, <1>3, <1>4

-----------------------------------------------------------------------------
\* Division leaves one remainder.
LEMMA Remainder ==
  ASSUME NEW m \in Nat \ {0}, NEW q \in Nat, NEW r \in Nat, r < m
  PROVE  (m * q + r) % m = r
<1> DEFINE n == m * q + r
           d == n \div m
<1>1. n \in Nat /\ d \in Nat /\ n % m \in 0..(m - 1) /\ n = m * d + (n % m)
  OBVIOUS
<1>2. d = q
  <2>1. ~(d > q)
    <3> SUFFICES ASSUME d > q
                 PROVE  FALSE
      OBVIOUS
    <3>1. m * d >= m * (q + 1)
      BY <1>1
    <3> QED BY <1>1, <3>1
  <2>2. ~(d < q)
    <3> SUFFICES ASSUME d < q
                 PROVE  FALSE
      OBVIOUS
    <3>1. m * q >= m * (d + 1)
      BY <1>1
    <3> QED BY <1>1, <3>1
  <2> QED BY <1>1, <2>1, <2>2
<1> QED BY <1>1, <1>2

\* Cutting a number does not make it greater.
LEMMA RemainderIsLess ==
  ASSUME NEW m \in Nat \ {0}, NEW a \in Nat
  PROVE  a % m \in Nat /\ a % m <= a
<1> DEFINE q == a \div m
           r == a % m
<1>1. q \in Nat /\ r \in Nat /\ a = m * q + r
  OBVIOUS
<1>2. m * q >= 0
  BY <1>1
<1> HIDE DEF q, r
<1>3. r <= a
  BY <1>1, <1>2
<1> QED BY <1>1, <1>3 DEF r

\* uint32(a) + b and uint32(a + b) are the same uint32.
LEMMA Wraps ==
  ASSUME NEW m \in Nat \ {0}, NEW a \in Nat, NEW b \in Nat
  PROVE  ((a % m) + b) % m = (a + b) % m
<1> DEFINE q == a \div m
           c == (a % m) + b
           k == c \div m
           r == c % m
<1>1. q \in Nat /\ a % m \in Nat /\ a = m * q + (a % m)
  OBVIOUS
<1>2. c \in Nat /\ k \in Nat /\ r \in 0..(m - 1) /\ c = m * k + r
  BY <1>1
<1>3. a + b = m * q + c
  BY <1>1
<1>4. a + b = m * (q + k) + r
  BY <1>1, <1>2, <1>3
<1>5. q + k \in Nat /\ r \in Nat /\ r < m
  BY <1>1, <1>2
<1> HIDE DEF q, k, r
<1>6. (a + b) % m = r
  BY <1>4, <1>5, Remainder
<1> QED BY <1>6 DEF r

=============================================================================
