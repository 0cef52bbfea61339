---------------------------- MODULE MCRangeWalk -----------------------------
(***************************************************************************)
(* RangeWalk over the decoders of internal/decoders.                       *)
(***************************************************************************)
EXTENDS Decoders, RangeWalk

\* Instructions of one, two, three and five words, a data word, an opcode a
\* decoder rejects at once and one it rejects behind its immediate.
MCPrograms ==
  { <<\h4E, \h71>>,                          \* NOP
    <<\h4E, \h72, \h00, \h3D>>,              \* STOP #$003D
    <<\h20, \h7C, \h00, \h00, \h4E, \h71>>,  \* MOVEA.L #$00004E71, A0
    <<\h23, \hFC, \h00, \h3D, \h4E, \h72, \h00, \h00, \h4E, \h71>>,
                                             \* MOVE.L #$003D4E72, $00004E71
    <<\hA0, \h00>>,                          \* line A: no decoder
    <<\h4A, \hFD>>,                          \* TST.? <mode 7.5>
    <<\h00, \h3D, \h4E, \h71>> }             \* ORI.B #$71, <mode 7.5>

MCByte == {\h00, \h20, \h23, \h3D, \h4A, \h4E, \h71, \h72, \h7C, \hA0, \hFC, \hFD}

MCDecoder == [o \in {256 * hi + lo : hi \in MCByte, lo \in MCByte} |-> FindDecoder(o)]

MCKnown == {o \in DOMAIN MCDecoder : MCDecoder[o] # NoDecoder}

MCVerdict(op, len) == Decode(MCDecoder[op], op, len)

MCMaxLen == 22
MCAddressSpace == 8

\* Two or three instructions in a row, cut off anywhere in the last word.
MCSlices ==
  LET Two   == {a \o b : a \in MCPrograms, b \in MCPrograms}
      Three == {w \o <<\h4E, \h71>> : w \in Two}
  IN  UNION {{SubSeq(w, 1, length) : length \in (Len(w) - 3)..Len(w)} : w \in Two \cup Three}
      \cup {<< >>, <<\h4E>>}

=============================================================================
