---------------------------- MODULE OpcodeTable -----------------------------
(***************************************************************************)
(* The two-level dispatch of internal/decoders/types.go: a bucket of       *)
(* patterns per high nibble, tried in order.                               *)
(***************************************************************************)
EXTENDS Naturals, Sequences, FiniteSets

\* FindDecoder returns nil.
NoDecoder == "nil"

\* (word >> i) & 1
Bit(word, i) == (word \div 2^i) % 2

Pattern(mask, value, decoder) ==
  [mask |-> mask, value |-> value, decoder |-> decoder]

opcodeBuckets == [nibble \in 0..15 |->
  CASE nibble = 0 ->
       << Pattern(\hFFC0, \h0500, "BTST"), Pattern(\hFFC0, \h0800, "BTST"),
          Pattern(\hFFC0, \h0540, "BCHG"), Pattern(\hFFC0, \h0840, "BCHG"),
          Pattern(\hFFC0, \h0580, "BCLR"), Pattern(\hFFC0, \h0880, "BCLR"),
          Pattern(\hFFC0, \h05C0, "BSET"), Pattern(\hFFC0, \h08C0, "BSET"),
          Pattern(\hFF00, \h0600, "ADDI"), Pattern(\hFF00, \h0400, "SUBI"),
          Pattern(\hFF00, \h0200, "ANDI"), Pattern(\hFF00, \h0000, "ORI"),
          Pattern(\hFF00, \h0A00, "EORI"), Pattern(\hFF00, \h0C00, "CMPI") >>
    [] nibble = 1 -> << Pattern(\hF000, \h1000, "MOVE") >>
    [] nibble = 2 -> << Pattern(\hF000, \h2000, "MOVE") >>
    [] nibble = 3 -> << Pattern(\hF000, \h3000, "MOVE") >>
    [] nibble = 4 ->
       << Pattern(\hFFFF, \h4E71, "NOP"), Pattern(\hFFFF, \h4E75, "RTS"),
          Pattern(\hFFFF, \h4E72, "STOP"), Pattern(\hFFFF, \h4E76, "TRAPV"),
          Pattern(\hFFF0, \h4E40, "TRAP"),
          Pattern(\hFB80, \h4880, "MOVEM"), Pattern(\hFB80, \h4C80, "MOVEM"),
          Pattern(\hFF00, \h4200, "CLR"), Pattern(\hFF00, \h4400, "NEG"),
          Pattern(\hFF00, \h4000, "NEGX"), Pattern(\hFF00, \h4600, "NOT"),
          Pattern(\hFF00, \h4A00, "TST"),
          Pattern(\hFFC0, \h4E80, "JSR"), Pattern(\hFFC0, \h4EC0, "JMP"),
          Pattern(\hF1C0, \h41C0, "LEA"),
          Pattern(\hFFF8, \h4840, "SWAP"), Pattern(\hFFC0, \h4840, "PEA") >>
    [] nibble = 6 -> << Pattern(\hF000, \h6000, "Bxx") >>
    [] nibble = 7 -> << Pattern(\hF100, \h7000, "MOVEQ") >>
    [] nibble = 8 ->
       << Pattern(\hF1F0, \h8100, "SBCD"), Pattern(\hF1C0, \h80C0, "DIVU"),
          Pattern(\hF1C0, \h81C0, "DIVS"), Pattern(\hF000, \h8000, "OR") >>
    [] nibble = 9 -> << Pattern(\hF000, \h9000, "SUB") >>
    [] nibble = 11 -> << Pattern(\hF000, \hB000, "CMP") >>
    [] nibble = 12 ->
       << Pattern(\hF1F0, \hC100, "ABCD"), Pattern(\hF1C0, \hC0C0, "MULU"),
          Pattern(\hF1C0, \hC1C0, "MULS"), Pattern(\hF000, \hC000, "AND") >>
    [] nibble = 13 -> << Pattern(\hF000, \hD000, "ADD") >>
    [] nibble = 14 -> << Pattern(\hF000, \hE000, "SHIFT") >>
    [] OTHER -> << >>]

\* (opcode & mask) == value, bit by bit.
Matches(op, p) ==
  \A i \in 0..15 : Bit(op, i) * Bit(p.mask, i) = Bit(p.value, i)

\* Mutation: the last pattern that matches wins.
FindLastDecoder(op) ==
  LET bucket == opcodeBuckets[(op \div 4096) % 16]
      hits   == {i \in DOMAIN bucket : Matches(op, bucket[i])}
  IN  IF hits = {} THEN NoDecoder
      ELSE bucket[CHOOSE i \in hits : \A j \in hits : j <= i].decoder

\* opcodeBuckets[opcode>>12]: the decoder of the first pattern of the bucket that
\* matches.
FindDecoder(op) ==
  LET bucket == opcodeBuckets[(op \div 4096) % 16]
      hits   == {i \in DOMAIN bucket : Matches(op, bucket[i])}
  IN  IF hits = {} THEN NoDecoder
      ELSE bucket[CHOOSE i \in hits : \A j \in hits : i <= j].decoder

=============================================================================
