---------------------------- MODULE MCDecodeLoop ----------------------------
(***************************************************************************)
(* DecodeLoop over the decoders of internal/decoders.                      *)
(***************************************************************************)
EXTENDS Decoders, DecodeLoop

\* An instruction for each way a call can go: no operand word, one, four
\* extension words in two operands, an error behind an immediate, an error at
\* once, and no decoder at all.
MCPrograms ==
  { \h4E71,  \* NOP
    \h4E72,  \* STOP #imm
    \h23FC,  \* MOVE.L #imm32, (abs).L
    \h003D,  \* ORI.B #imm, <mode 7.5>: unknown addressing mode
    \h4AFD,  \* TST.? <mode 7.5>: unknown addressing mode
    \hA000 } \* line A: no decoder

MCByte == UNION {{o \div 256, o % 256} : o \in MCPrograms}

MCDecoder == [o \in {256 * hi + lo : hi \in MCByte, lo \in MCByte} |-> FindDecoder(o)]

MCKnown == {o \in DOMAIN MCDecoder : MCDecoder[o] # NoDecoder}

MCVerdict(op, len) == Decode(MCDecoder[op], op, len)

MCMaxLen == 12
MCAddressSpace == 8
MCMaxChanges == 1

\* The opcode word o, over and over.
Repeat(o, length) == [i \in 1..length |-> IF i % 2 = 1 THEN o \div 256 ELSE o % 256]

MCSlices == {Repeat(o, length) : o \in MCPrograms, length \in 0..MCMaxLen}

\* A memory full of one instruction: all of it and more than a uint32 can
\* address, with the same or with something else beyond the top, or cut off in the middle.
MCImages ==
  LET Full(o) == [a \in 0..(MCAddressSpace + 7) |-> IF a % 2 = 0 THEN o \div 256 ELSE o % 256]
  IN  {Full(o) : o \in MCPrograms}
      \cup {[a \in 0..4 |-> Full(o)[a]] : o \in {\h23FC, \h4E72}}
      \cup {[a \in 0..(MCAddressSpace + 7) |->
               IF a < MCAddressSpace THEN Full(\h23FC)[a] ELSE Full(\h4AFD)[a]]}

=============================================================================
