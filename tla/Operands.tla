------------------------------ MODULE Operands ------------------------------
(***************************************************************************)
(* What the decoders say about an instruction's operands, twice: as text   *)
(* (Instruction.Operands) and as structured metadata.  An instruction is   *)
(* the sequence of its words, the opcode first.  A text is a tuple of what *)
(* is printed; a pointer is a sequence of at most one value.               *)
(***************************************************************************)
EXTENDS Decoders, Integers

CONSTANT AddressSpace  \* 2^32: the number of addresses and of 32-bit values

ASSUME AddressSpaceAssumption ==
  AddressSpace \in Nat /\ AddressSpace > 65536 /\ AddressSpace % 65536 = 0

-----------------------------------------------------------------------------
(* Values.                                                                 *)

\* The values of an operand of `size` bytes, and one of them taken as signed.
Values(size) == CASE size = 1 -> 256 [] size = 2 -> 65536 [] size = 4 -> AddressSpace

AsSigned(value, size) ==
  LET v == value % Values(size)
  IN  IF v < Values(size) \div 2 THEN v ELSE v - Values(size)

\* A uint32 sum.
Wrapped(x) == x % AddressSpace

\* The number of values of the upper word of an address: 65536 too.
Pages == AddressSpace \div 65536

\* binary.BigEndian.Uint32 of two words: (high * 65536 + low) % AddressSpace.
Long(high, low) == (high % Pages) * 65536 + low

\* formatImmediate: decimal below 100, otherwise 2 * size hexadecimal digits.
formatImmediate(value, size) ==
  IF value < 100 THEN <<"#", value, 0>> ELSE <<"#$", value % Values(size), 2 * size>>

formatImmediateForMOVEQ(value) ==
  CASE value < 0                -> <<"#-$", -value, 0>>
    [] value >= 0 /\ value < 100 -> <<"#", value, 0>>
    [] value >= 100              -> <<"#$", value, 0>>

formatBranchTarget(target) == <<"$", target, IF target <= 65535 THEN 4 ELSE 8>>

-----------------------------------------------------------------------------
(* Structured operands.  `reads` is history: the words an operand was made *)
(* of, by their index.                                                     *)

OperandOf(kind, text, reads) ==
  [kind |-> kind, text |-> text, reads |-> reads, branchTarget |-> << >>,
   resolved |-> << >>, absolute |-> << >>, immediate |-> << >>]

Immediate(value, size) == [value |-> value, signed |-> AsSigned(value, size), size |-> size]

registerOperand(kind, number) == OperandOf("register", <<kind, number>>, {})

immediateOperand(text, value, size, reads) ==
  [OperandOf("immediate", text, reads) EXCEPT !.immediate = <<Immediate(value, size)>>]

registerListOperand(mask, reads) == OperandOf("register_list", <<"list", mask>>, reads)

branchOperand(target, reads) ==
  [OperandOf("branch_target", formatBranchTarget(target), reads)
     EXCEPT !.branchTarget = <<target>>]

effectiveAddressOperand(text, reads) == OperandOf("effective_address", text, reads)

absoluteOperand(address, digits, reads) ==
  [effectiveAddressOperand(<<"$", address, digits>>, reads)
     EXCEPT !.resolved = <<address>>, !.absolute = <<address>>]

\* Mutation: a byte immediate keeps the high byte of its word.
EAImmediateUnmasked(value, operandSize, reads) ==
  [effectiveAddressOperand(formatImmediate(value, operandSize), reads)
     EXCEPT !.immediate = <<Immediate(value, operandSize)>>]

\* value &= 0xFF for a byte immediate.
EAImmediate(value, operandSize, reads) ==
  LET kept == IF operandSize = 1 THEN value % 256 ELSE value
  IN  [effectiveAddressOperand(formatImmediate(kept, operandSize), reads)
         EXCEPT !.immediate = <<Immediate(kept, operandSize)>>]

\* uint32(uint16(addr)): the word is not sign-extended.
ShortAddress(word) == word

\* decodeIndexWord: A or D register, its number, its size, the displacement.
decodeIndexWord(word) ==
  <<(word \div 32768) % 2, (word \div 4096) % 8, (word \div 2048) % 2, AsSigned(word, 1)>>

\* decodeAddressingMode on the words from index `at`.
decodeAddressingMode(words, at, mode, reg, operandSize) ==
  CASE mode = 0 -> effectiveAddressOperand(<<"D", reg>>, {})
    [] mode = 1 -> effectiveAddressOperand(<<"A", reg>>, {})
    [] mode = 2 -> effectiveAddressOperand(<<"(A)", reg>>, {})
    [] mode = 3 -> effectiveAddressOperand(<<"(A)+", reg>>, {})
    [] mode = 4 -> effectiveAddressOperand(<<"-(A)", reg>>, {})
    [] mode = 5 -> effectiveAddressOperand(<<"(d,A)", AsSigned(words[at], 2), reg>>, {at})
    [] mode = 6 -> effectiveAddressOperand(<<"(d,A,X)", decodeIndexWord(words[at]), reg>>, {at})
    [] mode = 7 /\ reg = 0 -> absoluteOperand(ShortAddress(words[at]), 4, {at})
    [] mode = 7 /\ reg = 1 ->
         absoluteOperand(Long(words[at], words[at + 1]), 8, {at, at + 1})
    [] mode = 7 /\ reg = 2 -> effectiveAddressOperand(<<"(d,PC)", AsSigned(words[at], 2)>>, {at})
    [] mode = 7 /\ reg = 3 -> effectiveAddressOperand(<<"(d,PC,X)", decodeIndexWord(words[at])>>, {at})
    [] mode = 7 /\ reg = 4 /\ operandSize = 4 ->
         EAImmediate(Long(words[at], words[at + 1]), 4, {at, at + 1})
    [] mode = 7 /\ reg = 4 /\ operandSize # 4 -> EAImmediate(words[at], operandSize, {at})

\* decodeEAWithSize: the operand, and the index behind its words.
decodeEA(words, at, mode, reg, operandSize) ==
  [operand |-> decodeAddressingMode(words, at, mode, reg, operandSize),
   next    |-> at + (ExtensionOf(mode, reg, operandSize).bytes \div 2)]

-----------------------------------------------------------------------------
(* The decoders.  setInstruction gets the text and the structured operands *)
(* as separate arguments; `next` is the index behind the last word used.   *)

setInstruction(texts, structured, next) ==
  [texts |-> texts, operands |-> structured, size |-> 2 * (next - 1)]

None == setInstruction(<< >>, << >>, 2)

One(operand, next) == setInstruction(<<operand.text>>, <<operand>>, next)

Two(first, second, next) ==
  setInstruction(<<first.text, second.text>>, <<first, second>>, next)

Source(op, words, at, operandSize) ==
  decodeEA(words, at, SrcMode(op), SrcReg(op), operandSize)

DataRegister(number) == registerOperand("D", number)

AddressRegister(number) == registerOperand("A", number)

\* An effective address, then a register.
ToRegister(ea, register) == Two(ea.operand, register, ea.next)

\* Mutation: the direction bit is read the other way round.
OperandsSwapped(direction, src, dstReg) ==
  IF direction = 1 THEN <<src, <<"D", dstReg>>>> ELSE <<<<"D", dstReg>>, src>>

buildDirectedOperands(direction, src, dstReg) ==
  IF direction = 0 THEN <<src, <<"D", dstReg>>>> ELSE <<<<"D", dstReg>>, src>>

\* decodeDirectedBinaryOp, also behind decodeLogical.
DirectedOperands(op, words) ==
  LET ea  == Source(op, words, 2, OperandSize(SizeBits(op)))
      reg == DataRegister(DstReg(op))
  IN  setInstruction(buildDirectedOperands(Direction(op), ea.operand.text, DstReg(op)),
                     IF Direction(op) = 0 THEN <<ea.operand, reg>> ELSE <<reg, ea.operand>>,
                     ea.next)

\* decodeAddressRegisterArithmetic and decodeCMPA.
AddressRegisterOperands(op, words) ==
  ToRegister(Source(op, words, 2, IF Opmode(op) = 7 THEN 4 ELSE 2), AddressRegister(DstReg(op)))

AddSubOperands(op, words) ==
  IF Opmode(op) \in {3, 7} THEN AddressRegisterOperands(op, words) ELSE DirectedOperands(op, words)

\* A pair of operands that takes no extension words: decodeCMPM, decodeBCD.
Pair(tag, op) ==
  Two(effectiveAddressOperand(<<tag, SrcReg(op)>>, {}),
      effectiveAddressOperand(<<tag, DstReg(op)>>, {}), 2)

CompareOperands(op, words) ==
  IF Direction(op) = 1 /\ SrcMode(op) = 1 THEN Pair("(A)+", op)
  ELSE CASE Opmode(op) \in {3, 7} -> AddressRegisterOperands(op, words)
         [] Opmode(op) \in 4..6   -> DirectedOperands(op, words)
         [] Opmode(op) \in 0..2   ->
              ToRegister(Source(op, words, 2, OperandSize(Opmode(op))), DataRegister(DstReg(op)))

\* decodeBCD.
DecimalOperands(op) ==
  IF SrcMode(op) % 2 = 0 THEN Two(DataRegister(SrcReg(op)), DataRegister(DstReg(op)), 2)
  ELSE Pair("-(A)", op)

\* readImmediate, then the destination; the value is not cut to a byte.
ImmediateOperands(op, words, longImmediate) ==
  LET bytes == ImmediateBytes(SizeBits(op), longImmediate)
      value == IF bytes = 4 THEN Long(words[2], words[3]) ELSE words[2]
      after == 2 + (bytes \div 2)
      ea    == Source(op, words, after, 2)
  IN  Two(immediateOperand(formatImmediate(value, bytes), value, bytes, 2..(after - 1)),
          ea.operand, ea.next)

\* decodeBitset: bitNum&0xFF.
BitOperands(op, words) ==
  LET static == Direction(op) = 0
      number == words[2] % 256
      ea     == Source(op, words, IF static THEN 3 ELSE 2, 2)
  IN  Two(IF static THEN immediateOperand(<<"#", number, 0>>, number, 1, {2})
                    ELSE DataRegister(DstReg(op)),
          ea.operand, ea.next)

\* Mutation: the destination is decoded where the source was.
TargetAtSource(source, op, words) == decodeEA(words, 2, Opmode(op), DstReg(op), 2)

\* The destination, behind the words of the source.
MoveTarget(source, op, words) == decodeEA(words, source.next, Opmode(op), DstReg(op), 2)

MoveOperands(op, words) ==
  LET size   == CASE MoveSize(op) = 1 -> 1 [] MoveSize(op) = 3 -> 2 [] MoveSize(op) = 2 -> 4
      source == Source(op, words, 2, size)
      target == MoveTarget(source, op, words)
  IN  IF Opmode(op) = 1 THEN ToRegister(source, AddressRegister(DstReg(op)))
      ELSE Two(source.operand, target.operand, target.next)

\* MOVEM: mode 0 with register 0 leaves the address empty.
MovemOperands(op, words) ==
  LET ea   == IF SrcMode(op) = 0 /\ SrcReg(op) = 0
              THEN [operand |-> OperandOf("", <<"">>, {}), next |-> 3]
              ELSE Source(op, words, 3, 2)
      list == registerListOperand(words[2], {2})
  IN  IF (op \div 1024) % 2 = 0 THEN Two(list, ea.operand, ea.next)
      ELSE Two(ea.operand, list, ea.next)

\* Mutation: a displacement byte is not sign-extended.
DeltaUnsigned(op, words) ==
  CASE Displacement(op) = 0          -> AsSigned(words[2], 2)
    [] Displacement(op) = 255        -> AsSigned(Long(words[2], words[3]), 4)
    [] Displacement(op) \in 1..254   -> Displacement(op)

BranchDelta(op, words) ==
  CASE Displacement(op) = 0          -> AsSigned(words[2], 2)
    [] Displacement(op) = 255        -> AsSigned(Long(words[2], words[3]), 4)
    [] Displacement(op) \in 1..254   -> AsSigned(Displacement(op), 1)

\* decodeBxx: the displacement counts from behind the words of the instruction.
BranchOperands(op, words, address) ==
  LET next   == CASE Displacement(op) = 0 -> 3 [] Displacement(op) = 255 -> 4 [] OTHER -> 2
      target == Wrapped(address + 2 * (next - 1) + BranchDelta(op, words))
  IN  One(branchOperand(target, 2..(next - 1)), next)

\* decodeShiftRotate: a count of 0 stands for 8.
ShiftOperands(op, words) ==
  LET count == IF DstReg(op) = 0 THEN 8 ELSE DstReg(op)
      ea    == Source(op, words, 2, 2)
  IN  CASE DstReg(op) <= 3 /\ Bit(op, 5) = 0 ->
             Two(immediateOperand(<<"#", count, 0>>, count, 1, {}), DataRegister(SrcReg(op)), 2)
        [] DstReg(op) <= 3 /\ Bit(op, 5) = 1 ->
             Two(DataRegister(DstReg(op)), DataRegister(SrcReg(op)), 2)
        [] DstReg(op) > 3 -> One(ea.operand, ea.next)

MoveqOperands(op) ==
  Two(immediateOperand(formatImmediateForMOVEQ(AsSigned(Displacement(op), 1)),
                       Displacement(op), 1, {}),
      DataRegister(DstReg(op)), 2)

\* decodeInstruction's fallback for opcodes without a decoder: DC.W.
DataWord(op) == One(immediateOperand(<<"$", op, 4>>, op, 2, {}), 2)

\* The operands of the instruction `words` at `address`.
OperandsOf(decoder, op, words, address) ==
  CASE decoder = NoDecoder                          -> DataWord(op)
    [] decoder \in {"NOP", "RTS", "TRAPV"}          -> None
    [] decoder = "TRAP"                             ->
         One(immediateOperand(<<"#", op % 16, 0>>, op % 16, 1, {}), 2)
    [] decoder = "STOP"                             ->
         One(immediateOperand(formatImmediate(words[2], 2), words[2], 2, {2}), 3)
    [] decoder = "SWAP"                             -> One(DataRegister(SrcReg(op)), 2)
    [] decoder = "MOVEQ"                            -> MoveqOperands(op)
    [] decoder \in {"ABCD", "SBCD"}                 -> DecimalOperands(op)
    [] decoder \in {"JSR", "JMP", "PEA", "CLR", "NEG", "NEGX", "NOT", "TST"} ->
         LET ea == Source(op, words, 2, 2) IN One(ea.operand, ea.next)
    [] decoder = "LEA"                              ->
         ToRegister(Source(op, words, 2, 2), AddressRegister(DstReg(op)))
    [] decoder \in {"MULU", "MULS", "DIVU", "DIVS"} ->
         ToRegister(Source(op, words, 2, 2), DataRegister(DstReg(op)))
    [] decoder = "Bxx"                              -> BranchOperands(op, words, address)
    [] decoder = "MOVE"                             -> MoveOperands(op, words)
    [] decoder = "MOVEM"                            -> MovemOperands(op, words)
    [] decoder \in {"BTST", "BCHG", "BCLR", "BSET"} -> BitOperands(op, words)
    [] decoder \in {"ADDI", "SUBI"}                 -> ImmediateOperands(op, words, TRUE)
    [] decoder \in {"ANDI", "ORI", "EORI", "CMPI"}  -> ImmediateOperands(op, words, FALSE)
    [] decoder \in {"ADD", "SUB"}                   -> AddSubOperands(op, words)
    [] decoder \in {"AND", "OR"}                    -> DirectedOperands(op, words)
    [] decoder = "CMP"                              -> CompareOperands(op, words)
    [] decoder = "SHIFT"                            -> ShiftOperands(op, words)

=============================================================================
