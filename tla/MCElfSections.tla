--------------------------- MODULE MCElfSections ----------------------------
(***************************************************************************)
(* ElfSections over the decoders of internal/decoders: files of up to      *)
(* three sections that share names, contents, flags and addresses.         *)
(***************************************************************************)
EXTENDS Decoders, ElfSections

MCByte == {\h00, \h3D, \h4A, \h4E, \h71, \h72, \hFD}

MCDecoder == [o \in {256 * hi + lo : hi \in MCByte, lo \in MCByte} |-> FindDecoder(o)]

MCKnown == {o \in DOMAIN MCDecoder : MCDecoder[o] # NoDecoder}

MCVerdict(op, len) == Decode(MCDecoder[op], op, len)

MCMaxLen == 6
MCAddressSpace == 8

\* NOP STOP, NOP, nothing, NOP and a STOP without its operand, a word that is
\* not decoded.
MCSlices ==
  { <<\h4E, \h71, \h4E, \h72, \h00, \h3D>>, <<\h4E, \h71>>, << >>,
    <<\h4E, \h71, \h4E, \h72>>, <<\h4A, \hFD>> }

MCNames == {".text", ".init"}

S(name, exec, addr, contents) ==
  [name |-> name, alloc |-> TRUE, exec |-> exec, addr |-> addr, contents |-> contents]

\* A section at 13 lies beyond the address space of 8.
MCSections ==
  { S(".text", TRUE, 6, <<\h4E, \h71, \h4E, \h72, \h00, \h3D>>),
    S(".text", TRUE, 13, <<\h4E, \h71>>),
    S(".text", TRUE, 4, << >>),
    S(".init", TRUE, 13, <<\h4E, \h71, \h4E, \h72, \h00, \h3D>>),
    S(".init", TRUE, 2, <<\h4E, \h71, \h4E, \h72>>),
    S(".init", TRUE, 0, <<\h4A, \hFD>>),
    S(".text", FALSE, 0, <<\h4A, \hFD>>),
    [S(".init", FALSE, 1, <<\h4E, \h71>>) EXCEPT !.alloc = FALSE] }

MCFiles ==
  {[machine |-> "EM_68K", sections |-> s] :
     s \in {<< >>} \cup {<<a>> : a \in MCSections}
           \cup {<<a, b>> : a, b \in MCSections}
           \cup {<<a, b, c>> : a, b, c \in MCSections}}
  \cup {[machine |-> "EM_386", sections |-> << >>]}

=============================================================================
