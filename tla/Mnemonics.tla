----------------------------- MODULE Mnemonics ------------------------------
(***************************************************************************)
(* The names the decoders give to instructions.  A mnemonic is printed as  *)
(* base.suffix; the base is a tuple of the parts it is put together from.  *)
(***************************************************************************)
EXTENDS Decoders

Mnemonic(base, suffix) == [base |-> base, suffix |-> suffix]

\* A name without a size.
Plain(name) == Mnemonic(<<name>>, "")

\* getSizeString.
SizeString(size) == <<"B", "W", "L", "?">>[size + 1]

Sized(name, op) == Mnemonic(<<name>>, SizeString(SizeBits(op)))

\* decodeADD and decodeSUB.
ArithmeticName(name, op) ==
  CASE Opmode(op) = 3         -> Mnemonic(<<name, "A">>, "W")
    [] Opmode(op) = 7         -> Mnemonic(<<name, "A">>, "L")
    [] Opmode(op) \notin {3, 7} -> Sized(name, op)

\* decodeCMP: CMPM first, whatever the size.
CompareName(op) ==
  IF Direction(op) = 1 /\ SrcMode(op) = 1 THEN Sized("CMPM", op)
  ELSE CASE Opmode(op) \in 4..6   -> Sized("EOR", op)
         [] Opmode(op) \notin 4..6 -> ArithmeticName("CMP", op)

\* decodeMOVE.
MoveName(op) ==
  Mnemonic(IF Opmode(op) = 1 THEN <<"MOVE", "A">> ELSE <<"MOVE">>,
           CASE MoveSize(op) = 1 -> "B" [] MoveSize(op) = 3 -> "W" [] MoveSize(op) = 2 -> "L")

\* Mutation: opcode & 0x0020 tells the size.
MovemNameBit5(op) == Mnemonic(<<"MOVEM">>, IF Bit(op, 5) = 1 THEN "L" ELSE "W")

\* decodeMOVEM.
MovemName(op) == Mnemonic(<<"MOVEM">>, IF Bit(op, 6) = 1 THEN "L" ELSE "W")

branchCondNames ==
  <<"BRA", "BSR", "BHI", "BLS", "BHS", "BLO", "BNE", "BEQ",
    "BVC", "BVS", "BPL", "BMI", "BGE", "BLT", "BGT", "BLE">>

BranchName(op) ==
  Mnemonic(<<branchCondNames[((op \div 256) % 16) + 1]>>,
           CASE Displacement(op) = 0 -> "W" [] Displacement(op) = 255 -> "L" [] OTHER -> "S")

\* decodeShiftRotate: the type is read from the count, or from the size.
ShiftName(op) ==
  LET inRegister == DstReg(op) <= 3
      type       == IF inRegister THEN DstReg(op) ELSE SizeBits(op)
  IN  Mnemonic(<< <<"AS", "LS", "ROX", "RO">>[type + 1], IF Direction(op) = 0 THEN "R" ELSE "L" >>,
               IF inRegister THEN SizeString(SizeBits(op)) ELSE "W")

\* The mnemonic `decoder` gives to the opcode; DC.W without a decoder.
MnemonicOf(decoder, op) ==
  CASE decoder = NoDecoder                          -> Mnemonic(<<"DC">>, "W")
    [] decoder \in Inherent \cup {"STOP", "JSR", "JMP", "LEA", "PEA", "MULU", "MULS",
                                  "DIVU", "DIVS", "BTST", "BCHG", "BCLR", "BSET"} ->
         Plain(decoder)
    [] decoder \in {"CLR", "NEG", "NEGX", "NOT", "TST", "AND", "OR", "ADDI", "SUBI",
                    "ANDI", "ORI", "EORI", "CMPI"}  -> Sized(decoder, op)
    [] decoder \in {"ADD", "SUB"}                   -> ArithmeticName(decoder, op)
    [] decoder = "CMP"                              -> CompareName(op)
    [] decoder = "MOVE"                             -> MoveName(op)
    [] decoder = "MOVEM"                            -> MovemName(op)
    [] decoder = "Bxx"                              -> BranchName(op)
    [] decoder = "SHIFT"                            -> ShiftName(op)

=============================================================================
