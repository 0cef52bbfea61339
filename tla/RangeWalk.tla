----------------------------- MODULE RangeWalk ------------------------------
(***************************************************************************)
(* DisassembleRange (disasm.go): Decode applied to a slice from its first  *)
(* byte to its last, each time behind the previous instruction, until the  *)
(* slice ends or an instruction does not decode.  One Decode is one step:  *)
(* DecodeLoop shows that a call on a slice answers Outcome.                *)
(***************************************************************************)
EXTENDS Answers, FiniteSets

CONSTANT AddressSpace  \* 2^32 in the code: addresses are uint32

ASSUME AddressSpaceAssumption == AddressSpace \in Nat \ {0}

VARIABLES
  data,          \* the slice
  startAddress,
  offset,        \* the first byte not yet decoded
  instructions,  \* what has been found so far
  err,           \* the error returned with them, or NoError
  returned

vars == <<data, startAddress, offset, instructions, err, returned>>

NoError == [kind |-> "nil"]

Init ==
  /\ data \in Slices
  /\ startAddress \in 0..(AddressSpace - 1)
  /\ offset = 0
  /\ instructions = << >>
  /\ err = NoError
  /\ returned = FALSE

\* data[offset:]
Rest(bytes, from) == SubSeq(bytes, from + 1, Len(bytes))

\* Mutation: every instruction is decoded at the start address.
AddressOfStart(from) == startAddress

\* startAddress+uint32(offset)
AddressAt(from) == (startAddress + from) % AddressSpace

\* An Instruction with the address DisassembleRange decodes it at.
Located(at, found) == [address |-> at, size |-> found.size,
                       bytes |-> found.bytes, fallback |-> found.fallback]

\* Mutation: the walk moves on by the opcode word alone.
DecodeNextByWord ==
  /\ ~returned
  /\ offset < Len(data)
  /\ Outcome(Rest(data, offset)).kind = "ok"
  /\ LET found == Outcome(Rest(data, offset))
     IN  /\ instructions' = Append(instructions, Located(AddressAt(offset), found))
         /\ offset' = offset + 2
  /\ UNCHANGED <<data, startAddress, err, returned>>

\* One round of the loop.
DecodeNext ==
  /\ ~returned
  /\ offset < Len(data)
  /\ Outcome(Rest(data, offset)).kind = "ok"
  /\ LET found == Outcome(Rest(data, offset))
     IN  /\ instructions' = Append(instructions, Located(AddressAt(offset), found))
         /\ offset' = offset + found.size
  /\ UNCHANGED <<data, startAddress, err, returned>>

\* Mutation: the loop ends at an error, and nobody is told.
StopSilently ==
  /\ ~returned
  /\ offset < Len(data)
  /\ Outcome(Rest(data, offset)).kind # "ok"
  /\ returned' = TRUE
  /\ UNCHANGED <<data, startAddress, offset, instructions, err>>

\* Mutation: return nil, err.
StopEmptyHanded ==
  /\ ~returned
  /\ offset < Len(data)
  /\ Outcome(Rest(data, offset)).kind # "ok"
  /\ err' = Outcome(Rest(data, offset))
  /\ instructions' = << >>
  /\ returned' = TRUE
  /\ UNCHANGED <<data, startAddress, offset>>

\* Mutation: the loop goes on after an error, from the same offset.
CarryOn ==
  /\ ~returned
  /\ offset < Len(data)
  /\ Outcome(Rest(data, offset)).kind # "ok"
  /\ err' = Outcome(Rest(data, offset))
  /\ UNCHANGED <<data, startAddress, offset, instructions, returned>>

\* return instructions, err: what was found before the error is kept.
StopAtError ==
  /\ ~returned
  /\ offset < Len(data)
  /\ Outcome(Rest(data, offset)).kind # "ok"
  /\ err' = Outcome(Rest(data, offset))
  /\ returned' = TRUE
  /\ UNCHANGED <<data, startAddress, offset, instructions>>

ReachEnd ==
  /\ ~returned
  /\ ~(offset < Len(data))
  /\ returned' = TRUE
  /\ UNCHANGED <<data, startAddress, offset, instructions, err>>

Next == DecodeNext \/ StopAtError \/ ReachEnd

Spec == Init /\ [][Next]_vars

\* The loop runs without waiting for anybody.
FairSpec == Spec /\ WF_vars(Next)

-----------------------------------------------------------------------------
\* The offset behind the i-th instruction, by its address: addresses wrap.
After(i) == (instructions[i].address + instructions[i].size) % AddressSpace

\* The values of DisassembleRange's variables; offset never passes the end,
\* so data[offset:] is always a legal slice.
TypeOK ==
  /\ data \in Slices
  /\ startAddress \in 0..(AddressSpace - 1)
  /\ offset \in 0..Len(data)
  /\ returned \in BOOLEAN
  /\ \A i \in 1..Len(instructions) :
       /\ instructions[i].address \in 0..(AddressSpace - 1)
       /\ instructions[i].size \in 2..MaxLen
       /\ Len(instructions[i].bytes) = instructions[i].size

\* The offset behind the first i instructions of a listing, and their bytes.
Ends(found) ==
  LET End[i \in 0..Len(found)] == IF i = 0 THEN 0 ELSE End[i - 1] + found[i].size
  IN  End

BytesOf(found) ==
  LET Bytes[i \in 0..Len(found)] == IF i = 0 THEN << >> ELSE Bytes[i - 1] \o found[i].bytes
  IN  Bytes

\* Decode has something to say of the bytes from `from`.
Decodes(bytes, from) == from < Len(bytes) /\ Outcome(Rest(bytes, from)).kind = "ok"

\* Each instruction of a listing is what Decode says of the bytes behind the one before.
Walked(found, bytes, base) ==
  \A i \in 1..Len(found) :
    LET from == Ends(found)[i - 1]
    IN  /\ Decodes(bytes, from)
        /\ found[i] = Located((base + from) % AddressSpace, Outcome(Rest(bytes, from)))

\* What DisassembleRange finds in `bytes` at `base`: it stops when it must.
Listing(found, bytes, base) ==
  Walked(found, bytes, base) /\ ~Decodes(bytes, Ends(found)[Len(found)])

\* The instructions lie one behind the other, from the start address to the
\* loop's offset, also across the top of the address space.
Adjacent ==
  instructions # << >> =>
    /\ instructions[1].address = startAddress
    /\ \A i \in 1..(Len(instructions) - 1) : instructions[i + 1].address = After(i)
    /\ After(Len(instructions)) = AddressAt(offset)

\* Together their bytes are the slice up to the loop's offset.
Tiled == BytesOf(instructions)[Len(instructions)] = SubSeq(data, 1, offset)

\* Without an error all of the slice is instructions.  With one, what is
\* left over is not an instruction, and a truncated one is short of bytes the
\* slice does not have.
StopsForAReason ==
  returned =>
    IF err = NoError THEN offset = Len(data)
    ELSE /\ offset < Len(data)
         /\ err.kind # "ok"
         /\ err.kind = "partial" => err.have = Len(data) - offset

\* What DisassembleRange finds in a slice cut short is the beginning of what
\* it finds in the whole one: an instruction that fits is found, and found
\* the same, whatever follows it.
CutShort ==
  returned =>
    \A cut \in 0..Len(data) :
      LET fitting == {i \in 1..Len(instructions) : Ends(instructions)[i] <= cut}
      IN  Listing(SubSeq(instructions, 1, Cardinality(fitting)), SubSeq(data, 1, cut),
                  startAddress)

\* DisassembleRange returns: every instruction is at least an opcode word.
WalkReturns == <>returned

-----------------------------------------------------------------------------
(* The inductive invariant behind RangeWalkProofs.                         *)

\* What the loop appends.
Entry == [address : 0..(AddressSpace - 1), size : 2..MaxLen,
          bytes : Seq(Byte), fallback : BOOLEAN]

\* Between two rounds DisassembleRange holds no error, and instructions that
\* lead from the start address to the offset; when it has returned, no more.
WalkIInv ==
  /\ TypeOK
  /\ instructions \in Seq(Entry)
  /\ Adjacent
  /\ instructions = << >> => offset = 0
  /\ offset = Ends(instructions)[Len(instructions)]
  /\ Walked(instructions, data, startAddress)
  /\ returned => ~Decodes(data, offset)
  /\ ~returned => err = NoError
  /\ StopsForAReason

=============================================================================
