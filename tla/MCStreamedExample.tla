------------------------- MODULE MCStreamedExample --------------------------
(***************************************************************************)
(* The streaming example of README.md (lines 129 to 138): the six bytes of *)
(* a JSR in a bytes.Reader, and DecodeReaderAt(reader, 0x1000).            *)
(***************************************************************************)
EXTENDS Decoders, DecodeLoop

MCExample == <<\h4E, \hB9, \h00, \h00, \h12, \h34>>

MCByte == {MCExample[i] : i \in 1..6}

MCDecoder == [o \in {256 * hi + lo : hi \in MCByte, lo \in MCByte} |-> FindDecoder(o)]

MCKnown == {o \in DOMAIN MCDecoder : MCDecoder[o] # NoDecoder}

MCVerdict(op, len) == Decode(MCDecoder[op], op, len)

MCMaxLen == 10
MCSlices == {}
MCAddressSpace == 65536
MCMaxChanges == 0

\* readerAtAdapter asks the reader for the address itself: byte i of the
\* reader is what the processor would see at address i.
MCImages == {[a \in 0..5 |-> MCExample[a + 1]]}

\* bytes.Reader.ReadAt: all there is from the offset on, up to the chunk's
\* length, and io.EOF when that is less than the chunk.
BytesReaderReadAt ==
  /\ err' = (n' < need - Len(data))
  /\ err' => ReadAddress + n' \notin DOMAIN image

ExampleSpec ==
  /\ address = \h1000 /\ source = "reader" /\ Init
  /\ [][Next /\ (pc = "read" => BytesReaderReadAt)]_vars

\* README.md: "fmt.Println(inst.Assembly()) // JSR $00001234".  The example
\* gets an instruction, and not an error.
StreamedExampleDecodes == pc = "done" => answer.kind = "ok"

=============================================================================
