----------------------------- MODULE Rendering ------------------------------
(***************************************************************************)
(* The end of a successful decodeInstruction: the decoder has described    *)
(* the instruction, finalizeInstruction (disasm.go) copies that out of the *)
(* caller's slice and formatOperands calls the caller's Symbolizer back,   *)
(* operand by operand.  The caller may reuse its slice as soon as it is in *)
(* control: in a callback, or after the return.                            *)
(***************************************************************************)
EXTENDS Operands, Mnemonics, SequencesExt

CONSTANT Programs  \* instructions: their words, more than they need, and an address

\* The values of a 16-bit word.
Word == 0..(Values(2) - 1)

ASSUME ProgramsAssumption ==
  \A p \in Programs :
    /\ p.words \in Seq(Word) /\ p.words # << >>
    /\ p.address \in 0..(AddressSpace - 1)
    /\ LET decoder == FindDecoder(p.words[1])
       IN  decoder # NoDecoder => Decode(decoder, p.words[1], 2 * Len(p.words)).kind = "ok"

VARIABLES
  program,     \* the instruction decoded, of Programs
  buffer,      \* the caller's slice: the words of program until it is reused
  symbolizer,  \* whether DecodeOptions has a Symbolizer
  pc,          \* "decoder", "finalize", "format" or "returned"
  decoded,     \* decoders.Instruction
  inst,        \* Instruction, nil before finalizeInstruction
  rendered,    \* formatOperands' texts so far
  candidates,  \* the addresses formatOperand has still to ask about
  asked        \* history: the questions, with the operand and the answer

renderVars == <<program, buffer, symbolizer, pc, decoded, inst, rendered, candidates, asked>>

Nothing == [kind |-> "nil"]

\* The caller writes other words into its slice.
Reused == [k \in DOMAIN program.words |-> 65535 - program.words[k]]

\* A []byte is either a part of the caller's slice or memory of its own.
SharedBytes(size) == [shared |-> TRUE, size |-> size]

OwnBytes(words) == [shared |-> FALSE, words |-> words]

Shown(bytes) ==
  IF bytes.shared THEN SubSeq(buffer, 1, bytes.size \div 2) ELSE bytes.words

RenderInit ==
  /\ program \in Programs
  /\ buffer = program.words
  /\ symbolizer \in BOOLEAN
  /\ pc = "decoder"
  /\ decoded = Nothing
  /\ inst = Nothing
  /\ rendered = << >>
  /\ candidates = << >>
  /\ asked = << >>

\* populateMetadata: the immediates of the operands, two at most, in their order.
ImmediateOf(structured, k) ==
  IF k <= Len(structured) THEN structured[k].immediate ELSE << >>

ImmediateValues(structured) == ImmediateOf(structured, 1) \o ImmediateOf(structured, 2)

\* The decoder's Instruction; setInstruction's Bytes are a part of the slice,
\* its ExtensionWords and metadata are not.
Described(words, address) ==
  LET decoder == FindDecoder(words[1])
      said    == OperandsOf(decoder, words[1], words, address)
  IN  [mnemonic        |-> MnemonicOf(decoder, words[1]),
       bytes           |-> SharedBytes(said.size),
       extensionWords  |-> SubSeq(words, 2, said.size \div 2),
       texts           |-> said.texts,
       operands        |-> said.operands,
       immediateValues |-> ImmediateValues(said.operands)]

RunDecoder ==
  /\ pc = "decoder"
  /\ decoded' = Described(buffer, program.address)
  /\ pc' = "finalize"
  /\ UNCHANGED <<program, buffer, symbolizer, inst, rendered, candidates, asked>>

\* Mutation: the slice is passed on.
StillShared(bytes) == bytes

\* append([]byte(nil), decoderInst.Bytes...)
Copied(bytes) == OwnBytes(Shown(bytes))

\* Mutation: the branch target is not converted.
TargetDropped(structured) ==
  [kind |-> structured.kind, text |-> structured.text, branchTarget |-> << >>,
   resolved |-> structured.resolved, absolute |-> structured.absolute,
   immediate |-> structured.immediate]

\* convertOperand copies what the operand's pointers point to.
convertOperand(structured) ==
  [kind |-> structured.kind, text |-> structured.text,
   branchTarget |-> structured.branchTarget, resolved |-> structured.resolved,
   absolute |-> structured.absolute, immediate |-> structured.immediate]

\* The order in which formatOperand asks: the branch target, the resolved
\* address, the absolute address; those that are nil are skipped.
Candidates(structured, k) ==
  IF k <= Len(structured)
  THEN structured[k].branchTarget \o structured[k].resolved \o structured[k].absolute
  ELSE << >>

\* finalizeInstruction, up to formatOperands.
Finalize ==
  LET operands == [k \in DOMAIN decoded.operands |-> convertOperand(decoded.operands[k])]
      formats  == symbolizer /\ operands # << >>
  IN  /\ pc = "finalize"
      /\ inst' = [mnemonic        |-> decoded.mnemonic,
                  bytes           |-> Copied(decoded.bytes),
                  extensionWords  |-> decoded.extensionWords,
                  texts           |-> decoded.texts,
                  operands        |-> operands,
                  immediateValues |-> decoded.immediateValues]
      /\ pc' = IF formats THEN "format" ELSE "returned"
      /\ candidates' = IF formats THEN Candidates(operands, 1) ELSE << >>
      /\ UNCHANGED <<program, buffer, symbolizer, decoded, rendered, asked>>

\* Mutation: the index of the next operand is the one just done with.
RenderOffByOne(shown) ==
  /\ rendered' = Append(rendered, shown)
  /\ candidates' = Candidates(inst.operands, Len(rendered) + 1)

\* formatOperand is done with an operand.
Render(shown) ==
  /\ rendered' = Append(rendered, shown)
  /\ candidates' = Candidates(inst.operands, Len(rendered) + 2)

\* Mutation: the questions about an operand go on after an answer.
AsksOn ==
  /\ pc = "format"
  /\ candidates # << >>
  /\ buffer' \in {buffer, Reused}
  /\ \E ok \in BOOLEAN :
       /\ asked' = Append(asked, [operand |-> Len(rendered) + 1,
                                  address |-> Head(candidates), ok |-> ok])
       /\ rendered' = IF ok THEN Append(rendered, <<"symbol", Head(candidates)>>) ELSE rendered
       /\ candidates' = Tail(candidates)
  /\ UNCHANGED <<program, symbolizer, pc, decoded, inst>>

\* symbolizer.Symbolize(address) returns (symbol, ok).  Meanwhile the caller
\* is in control.
Ask ==
  /\ pc = "format"
  /\ candidates # << >>
  /\ buffer' \in {buffer, Reused}
  /\ \E ok \in BOOLEAN :
       /\ asked' = Append(asked, [operand |-> Len(rendered) + 1,
                                  address |-> Head(candidates), ok |-> ok])
       /\ IF ok THEN Render(<<"symbol", Head(candidates)>>)
                ELSE rendered' = rendered /\ candidates' = Tail(candidates)
  /\ UNCHANGED <<program, symbolizer, pc, decoded, inst>>

\* Nothing is known about the operand: its text stays.
ShowText ==
  /\ pc = "format"
  /\ candidates = << >>
  /\ Len(rendered) < Len(inst.operands)
  /\ Render(inst.operands[Len(rendered) + 1].text)
  /\ UNCHANGED <<program, buffer, symbolizer, pc, decoded, inst, asked>>

\* joinOperands.
Join ==
  /\ pc = "format"
  /\ Len(rendered) = Len(inst.operands)
  /\ inst' = [inst EXCEPT !.texts = rendered]
  /\ pc' = "returned"
  /\ UNCHANGED <<program, buffer, symbolizer, decoded, rendered, candidates, asked>>

ReuseBuffer ==
  /\ pc = "returned"
  /\ buffer # Reused
  /\ buffer' = Reused
  /\ UNCHANGED <<program, symbolizer, pc, decoded, inst, rendered, candidates, asked>>

RenderNext == RunDecoder \/ Finalize \/ Ask \/ ShowText \/ Join \/ ReuseBuffer

RenderSpec == RenderInit /\ [][RenderNext]_renderVars

-----------------------------------------------------------------------------
Address == 0..(AddressSpace - 1)

\* The values of the variables; no operand is formatted twice.
RenderTypeOK ==
  /\ buffer \in {program.words, Reused}
  /\ symbolizer \in BOOLEAN
  /\ pc \in {"decoder", "finalize", "format", "returned"}
  /\ pc = "decoder" <=> decoded = Nothing
  /\ pc \in {"format", "returned"} <=> inst # Nothing
  /\ candidates \in Seq(Address) /\ Len(candidates) <= 2
  /\ asked \in Seq([operand : {1, 2}, address : Address, ok : BOOLEAN])
  /\ IF inst = Nothing THEN rendered = << >>
     ELSE /\ rendered \in Seq(ToSet(decoded.texts) \cup ({"symbol"} \X Address))
          /\ Len(rendered) <= Len(inst.operands)

\* With a symbolizer that knows none of the addresses, the operands are
\* printed as they are without a symbolizer: the decoders' text and their
\* structured operands are the same list in the same order.
SilentSymbolizer ==
  (pc = "returned" /\ \A n \in DOMAIN asked : ~asked[n].ok) => inst.texts = decoded.texts

QuestionsAbout(k) == {n \in DOMAIN asked : asked[n].operand = k}

\* What formatOperand may show for operand k: the symbol of the last address
\* asked, or, after a refusal of each address it has, its text.
Settled(k, shown) ==
  \/ \E n \in QuestionsAbout(k) :
       /\ asked[n].ok
       /\ \A l \in QuestionsAbout(k) : l <= n
       /\ shown = <<"symbol", asked[n].address>>
  \/ /\ \A n \in QuestionsAbout(k) : ~asked[n].ok
     /\ {asked[n].address : n \in QuestionsAbout(k)} = ToSet(Candidates(decoded.operands, k))
     /\ shown = decoded.operands[k].text

\* An operand is printed as a symbol exactly if the last question about it was
\* answered, and as the symbol of the address asked; one that is printed as
\* text although it has addresses has been asked about with each of them.
SymbolsInPlace ==
  (pc = "returned" /\ symbolizer) =>
    \A k \in DOMAIN inst.operands : Settled(k, inst.texts[k])

\* What the caller does with its slice, in a callback or afterwards, does not
\* change the instruction: its bytes and extension words stay those decoded.
BytesOutliveBuffer ==
  inst # Nothing =>
    Shown(inst.bytes) = <<program.words[1]>> \o inst.extensionWords

-----------------------------------------------------------------------------
DecoderOf == [op \in Word |-> FindDecoder(op)]

\* The operands of an instruction use every word between the opcode and the
\* instruction's end once, and the end is where the decoder's length checks
\* have put it.
WordsUsedOnce ==
  decoded # Nothing =>
    LET decoder == DecoderOf[program.words[1]]
    IN  /\ UNION {decoded.operands[k].reads : k \in DOMAIN decoded.operands} =
             2..(decoded.bytes.size \div 2)
        /\ \A k, l \in DOMAIN decoded.operands :
             k # l => decoded.operands[k].reads \cap decoded.operands[l].reads = {}
        /\ decoder # NoDecoder =>
             decoded.bytes.size = Decode(decoder, program.words[1], 2 * Len(program.words)).size

\* An immediate is a value of its size, Signed is the same value as a signed
\* one, and ImmediateValues has those of the operands, in their order.
ImmediatesFit ==
  inst # Nothing =>
    /\ \A n \in DOMAIN inst.immediateValues :
         LET imm == inst.immediateValues[n]
         IN  /\ imm.value \in 0..(Values(imm.size) - 1)
             /\ imm.signed \in (-(Values(imm.size) \div 2))..((Values(imm.size) \div 2) - 1)
             /\ (imm.value - imm.signed) % Values(imm.size) = 0
    /\ inst.immediateValues = ImmediateValues(inst.operands)

\* The first of the words an operand was made of.
FirstOf(reads) == CHOOSE a \in reads : \A b \in reads : a <= b

\* The signed displacement of a branch: the opcode word's byte, or the words read.
DisplacementRead(reads, w) ==
  CASE reads = {}             -> AsSigned(Displacement(w[1]), 1)
    [] Cardinality(reads) = 1 -> AsSigned(w[FirstOf(reads)], 2)
    [] Cardinality(reads) = 2 -> AsSigned(Long(w[FirstOf(reads)], w[FirstOf(reads) + 1]), 4)

\* The address in the words of an absolute operand: a short one is sign-extended.
AddressRead(reads, w) ==
  CASE Cardinality(reads) = 1 -> Wrapped(AsSigned(w[FirstOf(reads)], 2))
    [] Cardinality(reads) = 2 -> Long(w[FirstOf(reads)], w[FirstOf(reads) + 1])

\* The address the processor would use for an operand of the instruction w at
\* `address`: a displacement counts from behind the opcode word.
Meant(structured, w, address) ==
  IF structured.kind = "branch_target"
  THEN Wrapped(address + 2 + DisplacementRead(structured.reads, w))
  ELSE AddressRead(structured.reads, w)

\* The symbolizer is asked for the address the processor would use, but for
\* the operands where the library's address is another one: branches with a
\* displacement word, whose target lies the size of those words too high, and
\* absolute short addresses of the upper half.
AsksForTheAddressMeant ==
  \A n \in DOMAIN asked :
    LET structured == decoded.operands[asked[n].operand]
        meant      == Meant(structured, program.words, program.address)
        isBranch   == structured.kind = "branch_target"
        words      == Cardinality(structured.reads)
    IN  /\ asked[n].address \in Address
        /\ (asked[n].address = meant) <=>
             ~ \/ isBranch /\ words > 0
               \/ ~isBranch /\ words = 1 /\ asked[n].address >= 32768
        /\ isBranch => asked[n].address = Wrapped(meant + 2 * words)

-----------------------------------------------------------------------------
(* The state between the steps, from which the invariants above follow.    *)

\* The decoder describes the caller's slice as it was given; nothing of the
\* Instruction is there before finalizeInstruction.
DescribedOnce ==
  /\ pc # "decoder" => decoded = Described(program.words, program.address)
  /\ pc \in {"decoder", "finalize"} =>
       buffer = program.words /\ candidates = << >> /\ asked = << >>

\* The Instruction has the decoder's metadata, bytes of its own, and other
\* texts only when formatOperands has returned.
OwnInstruction ==
  inst # Nothing =>
    inst = [mnemonic        |-> decoded.mnemonic,
            bytes           |-> OwnBytes(SubSeq(program.words, 1, decoded.bytes.size \div 2)),
            extensionWords  |-> decoded.extensionWords,
            texts           |-> IF pc = "returned" /\ symbolizer /\ inst.operands # << >>
                                THEN rendered ELSE decoded.texts,
            operands        |-> [k \in DOMAIN decoded.operands |->
                                  convertOperand(decoded.operands[k])],
            immediateValues |-> decoded.immediateValues]

\* formatOperands asks about the operands one after another, and only about
\* addresses they have.  Those before the current one are settled; every
\* address of the current one was refused or is still to be asked about.
AskedInOrder ==
  inst # Nothing =>
    LET current == Len(rendered) + 1
    IN  /\ \A n \in DOMAIN asked :
             /\ asked[n].operand \in DOMAIN decoded.operands
             /\ asked[n].operand <= current
             /\ asked[n].address \in ToSet(Candidates(decoded.operands, asked[n].operand))
        /\ \A k \in DOMAIN rendered : Settled(k, rendered[k])
        /\ \A n \in QuestionsAbout(current) : ~asked[n].ok
        /\ ToSet(candidates) \subseteq ToSet(Candidates(decoded.operands, current))
        /\ symbolizer =>
             ToSet(Candidates(decoded.operands, current)) \subseteq
               {asked[n].address : n \in QuestionsAbout(current)} \cup ToSet(candidates)
        /\ pc = "format" => symbolizer
        /\ ~symbolizer => asked = << >>
        /\ pc = "returned" /\ symbolizer => Len(rendered) = Len(decoded.operands)

RenderIInv == RenderTypeOK /\ DescribedOnce /\ OwnInstruction /\ AskedInOrder

-----------------------------------------------------------------------------
Flipped(op, i) == IF Bit(op, i) = 1 THEN op - 2^i ELSE op + 2^i

\* With `op` as its opcode word, the instruction would have the text it has.
ReadsTheSame(op) ==
  LET decoder == DecoderOf[op]
      words   == [program.words EXCEPT ![1] = op]
  IN  /\ decoder # NoDecoder => Decode(decoder, op, 2 * Len(words)).kind = "ok"
      /\ MnemonicOf(decoder, op) = decoded.mnemonic
      /\ OperandsOf(decoder, op, words, program.address).texts = decoded.texts

\* The bits of an opcode word the decoders do not tell apart: the type of a
\* shift in its real place (bits 4-3 of a register shift, the two lower bits of
\* the count field of a memory shift), and the direction of an operation
\* between a register and itself.
Overlooked(op, i) ==
  \/ DecoderOf[op] = "SHIFT" /\ i \in (IF DstReg(op) <= 3 THEN {3, 4} ELSE {9, 10})
  \/ /\ i = 8
     /\ \/ DecoderOf[op] \in {"ADD", "SUB"} /\ SizeBits(op) # 3
        \/ DecoderOf[op] \in {"AND", "OR"} /\ SizeBits(op) # 0
     /\ SrcMode(op) = 0 /\ SrcReg(op) = DstReg(op)

\* The text tells the opcode word from all those that differ from it in one
\* bit: the decoders ignore no bit of an instruction but those Overlooked names.
\* (A decoder does not know whether there is a symbolizer: once is enough.)
EveryBitShows ==
  pc = "finalize" /\ ~symbolizer =>
    \A i \in 0..15 :
      ReadsTheSame(Flipped(program.words[1], i)) <=> Overlooked(program.words[1], i)

=============================================================================
