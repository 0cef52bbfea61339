------------------------------ MODULE Answers -------------------------------
(***************************************************************************)
(* What decodeInstruction (disasm.go) answers about a given sequence of    *)
(* bytes when no reader can supply more: the meaning of Decode.  The       *)
(* opcode table and the decoders are parameters, with the contract the     *)
(* loop relies on; DecodersProofs shows that the decoders satisfy it.      *)
(***************************************************************************)
EXTENDS Integers, Sequences, Verdicts

CONSTANTS
  Byte,          \* the bytes of the programs looked at
  MaxLen,        \* no slice is longer than this
  Slices,        \* the byte slices callers pass
  Known,         \* the opcodes FindDecoder has a decoder for
  Verdict(_, _)  \* Verdict(op, len): op's decoder on len bytes

ASSUME ByteAssumption == \A b \in Byte : b \in Nat /\ b <= 255

ASSUME MaxLenAssumption == MaxLen \in Nat /\ MaxLen >= 2

ASSUME SlicesAssumption ==
  \A s \in Slices : /\ s \in Seq(Byte)
                    /\ Len(s) <= MaxLen

Opcodes == {256 * hi + lo : hi \in Byte, lo \in Byte}

ASSUME DecoderContract ==
  \A op \in Known \cap Opcodes : \A len \in 2..MaxLen :
    /\ Bounded(Verdict(op, len), len, MaxLen)
    /\ \A m \in len..MaxLen : Continues(Verdict(op, len), len, Verdict(op, m), m)

-----------------------------------------------------------------------------
\* binary.BigEndian.Uint16(data[:2])
OpcodeOf(bytes) == 256 * bytes[1] + bytes[2]

\* *Instruction: its exact bytes, and whether it is the DC.W fallback.
Instruction(size, bytes, fallback) ==
  [kind |-> "ok", size |-> size, bytes |-> bytes, fallback |-> fallback]

\* *PartialDecodeError, without its cause.
Partial(have, missing, context) ==
  [kind |-> "partial", have |-> have, missing |-> missing, context |-> context]

\* Any other error, passed on from the decoder.
Rejected(reason) == [kind |-> "error", context |-> reason]

\* Nothing returned yet.
NoAnswer == [kind |-> "none"]

\* Mutation: Bytes keeps the opcode word decodeInstruction put there.
AnswerKeepsFirstWord(v, bytes) ==
  CASE v.kind = "ok"    -> Instruction(v.size, SubSeq(bytes, 1, 2), FALSE)
    [] v.kind = "more"  -> Partial(Len(bytes), v.missing, v.context)
    [] v.kind = "error" -> Rejected(v.context)

\* What a decoder's verdict v on `bytes` becomes when no reader can help.
Answer(v, bytes) ==
  CASE v.kind = "ok"    -> Instruction(v.size, SubSeq(bytes, 1, v.size), FALSE)
    [] v.kind = "more"  -> Partial(Len(bytes), v.missing, v.context)
    [] v.kind = "error" -> Rejected(v.context)

Outcome(bytes) ==
  CASE Len(bytes) < 2 -> Partial(Len(bytes), 2 - Len(bytes), "opcode")
    [] Len(bytes) >= 2 /\ OpcodeOf(bytes) \notin Known ->
         Instruction(2, SubSeq(bytes, 1, 2), TRUE)
    [] Len(bytes) >= 2 /\ OpcodeOf(bytes) \in Known ->
         Answer(Verdict(OpcodeOf(bytes), Len(bytes)), bytes)

=============================================================================
