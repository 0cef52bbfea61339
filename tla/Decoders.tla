------------------------------ MODULE Decoders ------------------------------
(***************************************************************************)
(* The decoder functions of internal/decoders: for each, the extension     *)
(* words it demands, in the order it demands them, and its error returns.  *)
(* Nothing a decoder does before its last operand depends on more than the *)
(* opcode word and the number of bytes it was given, so a verdict is a     *)
(* function of (decoder, opcode, len).                                     *)
(***************************************************************************)
EXTENDS OpcodeTable, Addressing

\* Fields the decoders extract from the opcode word: bits 2-0, 5-3, 7-6, 8-6,
\* 8, 11-9, 13-12 and 7-0.
SrcReg(op)       == op % 8
SrcMode(op)      == (op \div 8) % 8
SizeBits(op)     == (op \div 64) % 4
Opmode(op)       == (op \div 64) % 8
Direction(op)    == (op \div 256) % 2
DstReg(op)       == (op \div 512) % 8
MoveSize(op)     == (op \div 4096) % 4
Displacement(op) == op % 256

\* operandSize and decodeMOVE's size switch, for the encodings they accept.
OperandSize(size) ==
  CASE size = 0 -> 1
    [] size = 1 -> 2
    [] OTHER    -> 4

\* immediateSpec: only ADDI and SUBI ask for a long immediate.
ImmediateBytes(size, longImmediate) ==
  IF size = 2 /\ longImmediate THEN 4 ELSE 2

SourceEA(cursor, op, len, operandSize) ==
  EA(cursor, len, SrcMode(op), SrcReg(op), operandSize)

\* decodeDirectedBinaryOp, also behind decodeLogical.
DirectedBinaryOp(op, len) ==
  IF SizeBits(op) = 3 THEN Error("unknown size")
  ELSE SourceEA(Start, op, len, OperandSize(SizeBits(op)))

\* decodeAddressRegisterArithmetic and decodeCMPA.
AddressRegisterOp(op, len) ==
  SourceEA(Start, op, len, IF Opmode(op) = 7 THEN 4 ELSE 2)

\* decodeADD and decodeSUB.
AddSub(op, len) ==
  IF Opmode(op) \in {3, 7} THEN AddressRegisterOp(op, len) ELSE DirectedBinaryOp(op, len)

\* decodeCMP: CMPM is recognised first, by bit 8 and mode 1 alone.
Compare(op, len) ==
  IF Direction(op) = 1 /\ SrcMode(op) = 1 THEN Start
  ELSE CASE Opmode(op) \in {3, 7} -> AddressRegisterOp(op, len)
         [] Opmode(op) \in 4..6   -> DirectedBinaryOp(op, len)
         [] Opmode(op) \in 0..2   -> SourceEA(Start, op, len, OperandSize(Opmode(op)))

\* decodeImmediateBinaryOp: immediate, then address.
ImmediateOp(op, len, longImmediate) ==
  IF SizeBits(op) = 3 THEN Error("unknown size")
  ELSE SourceEA(Fetch(Start, len, ImmediateBytes(SizeBits(op), longImmediate), "immediate"),
                op, len, 2)

\* decodeLogicalI and decodeCMPI: the same, with a word whatever the size.
LogicalI(op, len) == ImmediateOp(op, len, FALSE)

\* decodeBitset: the bit number is a register, or an extension word.
BitOp(op, len) ==
  SourceEA(IF Direction(op) = 1 THEN Start ELSE Fetch(Start, len, 2, "immediate bit number"),
           op, len, 2)

\* decodeMOVE: source, then the MOVEA form or the destination address.
Move(op, len) ==
  LET sizeField   == MoveSize(op)
      dstMode     == Opmode(op)
      operandSize == CASE sizeField = 1 -> 1
                       [] sizeField = 3 -> 2
                       [] OTHER         -> 4
      source      == SourceEA(Start, op, len, operandSize)
  IN  CASE sizeField = 0                          -> Error("unknown MOVE size")
        [] sizeField = 1 /\ dstMode = 1           -> Abort(source, "MOVEA byte")
        [] sizeField \notin {0, 1} /\ dstMode = 1 -> source
        [] sizeField # 0 /\ dstMode # 1           -> EA(source, len, dstMode, DstReg(op), 2)

\* decodeMOVEM: the register list, and an address unless mode and register are 0.
Movem(op, len) ==
  LET list == Fetch(Start, len, 2, "MOVEM register list")
  IN  IF SrcMode(op) = 0 /\ SrcReg(op) = 0 THEN list ELSE SourceEA(list, op, len, 2)

\* Mutation: the word form checks the length of the long one.
BranchChecksLongForm(op, len) ==
  CASE Displacement(op) = 0 /\ len >= 6 -> Ok(4)
    [] Displacement(op) = 0 /\ len < 6  -> More(6 - len, "W displacement")
    [] Displacement(op) = 255           -> Fetch(Start, len, 4, "L displacement")
    [] Displacement(op) \notin {0, 255} -> Start

\* decodeBxx: the 8-bit displacement selects the form.
Branch(op, len) ==
  CASE Displacement(op) = 0   -> Fetch(Start, len, 2, "W displacement")
    [] Displacement(op) = 255 -> Fetch(Start, len, 4, "L displacement")
    [] OTHER                  -> Start

\* decodeShiftRotate: the count field, read as a type, selects the memory form.
Shift(op, len) ==
  IF DstReg(op) <= 3 THEN Start ELSE SourceEA(Start, op, len, 2)

Inherent == {"NOP", "RTS", "TRAP", "TRAPV", "SWAP", "MOVEQ", "ABCD", "SBCD"}
OneAddress == {"JSR", "JMP", "LEA", "PEA", "CLR", "NEG", "NEGX", "NOT", "TST",
               "MULU", "MULS", "DIVU", "DIVS"}

\* Every function the opcode table refers to.
DecoderNames ==
  Inherent \cup OneAddress \cup
  {"STOP", "Bxx", "MOVE", "MOVEM", "BTST", "BCHG", "BCLR", "BSET", "ADDI", "SUBI",
   "ANDI", "ORI", "EORI", "CMPI", "ADD", "SUB", "AND", "OR", "CMP", "SHIFT"}

\* decoder(data, opcode, inst) for Len(data) = len.
Decode(decoder, op, len) ==
  CASE decoder \in Inherent                         -> Start
    [] decoder \in OneAddress                       -> SourceEA(Start, op, len, 2)
    [] decoder = "STOP"                             -> Fetch(Start, len, 2, "STOP immediate")
    [] decoder = "Bxx"                              -> Branch(op, len)
    [] decoder = "MOVE"                             -> Move(op, len)
    [] decoder = "MOVEM"                            -> Movem(op, len)
    [] decoder \in {"BTST", "BCHG", "BCLR", "BSET"} -> BitOp(op, len)
    [] decoder \in {"ADDI", "SUBI"}                 -> ImmediateOp(op, len, TRUE)
    [] decoder \in {"ANDI", "ORI", "EORI", "CMPI"}  -> LogicalI(op, len)
    [] decoder \in {"ADD", "SUB"}                   -> AddSub(op, len)
    [] decoder \in {"AND", "OR"}                    -> DirectedBinaryOp(op, len)
    [] decoder = "CMP"                              -> Compare(op, len)
    [] decoder = "SHIFT"                            -> Shift(op, len)

=============================================================================
