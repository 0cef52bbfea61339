---------------------------- MODULE GrowingSlice ----------------------------
(***************************************************************************)
(* A caller that holds the first bytes of an instruction and calls Decode  *)
(* (disasm.go) again each time some of the bytes reported missing have     *)
(* come in: the use PartialDecodeError is made for.  Over every opcode it  *)
(* shows what the callers of the decoders may rely on.                     *)
(***************************************************************************)
EXTENDS Decoders

CONSTANT Opcodes  \* the opcode words looked at

ASSUME OpcodesAssumption == \A word \in Opcodes : word \in Nat /\ word <= 65535

VARIABLES
  op,       \* the opcode word
  decoder,  \* what FindDecoder returned for it
  fed,      \* how many bytes of the instruction the caller has
  verdict   \* what Decode says about them

vars == <<op, decoder, fed, verdict>>

\* Decode of len >= 2 bytes: a data word when there is no decoder.
DecodeSlice(found, word, len) ==
  IF found = NoDecoder THEN Start ELSE Decode(found, word, len)

Init ==
  /\ op \in Opcodes
  /\ decoder = FindDecoder(op)
  /\ fed = 2
  /\ verdict = DecodeSlice(decoder, op, fed)

\* Some of the missing bytes arrive, and the caller tries again.  The loop is
\* the caller's own: the library has no code for it, only the answers.
Retry ==
  /\ verdict.kind = "more"
  /\ fed' \in (fed + 1)..(fed + verdict.missing)
  /\ verdict' = DecodeSlice(decoder, op, fed')
  /\ UNCHANGED <<op, decoder>>

Next == Retry

Spec == Init /\ [][Next]_vars

\* The caller gives the decoder what it asks for, as long as it asks.
FairSpec == Spec /\ WF_vars(Next)

-----------------------------------------------------------------------------
\* The longest 68000 instruction: an opcode word and four extension words.
LongestInstruction == 10

TypeOK ==
  /\ op \in Opcodes
  /\ decoder \in DecoderNames \cup {NoDecoder}
  /\ fed \in 2..LongestInstruction
  /\ verdict.kind \in {"ok", "more", "error"}

\* A caller that only ever adds what is reported missing ends with exactly
\* the instruction's bytes in hand (requireLength and setInstructionSize,
\* common.go): it is never made to fetch a byte behind it.
EndsWithTheInstruction == verdict.kind = "ok" => verdict.size = fed

\* No decoder asks for a byte that no 68000 instruction has.
NeverBeyondTheLongest ==
  verdict.kind = "more" => fed + verdict.missing <= LongestInstruction

\* Until all the missing bytes are there a retry changes the count and
\* nothing else: the same operand is short of exactly as many bytes fewer.
CountsDown ==
  [][fed' < fed + verdict.missing =>
       verdict' = More(verdict.missing - (fed' - fed), verdict.context)]_vars

\* A caller that keeps supplying what is missing gets an answer.
Settles == <>(verdict.kind # "more")

\* The order of the table never hides a special encoding behind a general
\* one: of the patterns that match an opcode, the one whose decoder is taken
\* fixes every bit that any of the others fixes (types.go, opcodeBuckets).
MostSpecificFirst ==
  LET bucket   == opcodeBuckets[op \div 4096]
      hits     == {i \in DOMAIN bucket : Matches(op, bucket[i])}
      fixed(i) == {b \in 0..15 : Bit(bucket[i].mask, b) = 1}
  IN  hits # {} => \E i \in hits : /\ decoder = bucket[i].decoder
                                 /\ \A j \in hits : fixed(j) \subseteq fixed(i)

\* .github/copilot-instructions.md: "Unknown opcodes fall back to `DC.W
\* $XXXX` (data word constant)".  No opcode makes Decode fail outright.
UnknownFallsBack == verdict.kind # "error"

\* README.md: "`Instruction.Size`: exact decoded byte length".  A long
\* immediate is four bytes long in every instruction that names one.
LongImmediateIsLong ==
  verdict.kind = "ok" /\ SizeBits(op) = 2
  /\ decoder \in {"ADDI", "SUBI", "ANDI", "ORI", "EORI", "CMPI"} =>
    verdict.size = 6 + ExtensionOf(SrcMode(op), SrcReg(op), 2).bytes

=============================================================================
