--------------------------- MODULE DecodersProofs ---------------------------
(***************************************************************************)
(* Every decoder of internal/decoders honours the contract of Verdicts,    *)
(* the one the loop of disasm.go relies on (DecoderContract in Answers),   *)
(* and the opcode table names no other decoder and hides no special        *)
(* encoding behind a general one.  The contract is compositional: a        *)
(* decoder is a chain of Fetch steps behind Start; Twins says that two     *)
(* cursors, reached by the same chain on len and on m >= len bytes, are    *)
(* bounded and continue one another, and each kind of step preserves it.   *)
(***************************************************************************)
EXTENDS Decoders, WellFoundedInduction, TLAPS

\* c on len bytes and d on m bytes honour the contract with one another.
Twins(c, len, d, m, limit) ==
  /\ Bounded(c, len, limit)
  /\ Bounded(d, m, limit)
  /\ Continues(c, len, d, m)

-----------------------------------------------------------------------------
\* The three constructors of a verdict are told apart by their kind.
LEMMA Fields ==
  /\ \A s : Ok(s).kind = "ok" /\ Ok(s).size = s
  /\ \A k, w : /\ More(k, w).kind = "more"
               /\ More(k, w).missing = k
               /\ More(k, w).context = w
  /\ \A r : Error(r).kind = "error" /\ Error(r).context = r
BY DEF Ok, More, Error

\* What Bounded says of a verdict of each kind.
LEMMA BoundedCases ==
  ASSUME NEW v, NEW len \in Nat, NEW limit \in Nat, Bounded(v, len, limit)
  PROVE  /\ v.kind \in {"ok", "more", "error"}
         /\ v.kind = "ok"    => v.size \in 2..len /\ v.size <= limit /\ v = Ok(v.size)
         /\ v.kind = "more"  => /\ v.missing \in 1..(limit - len)
                                /\ v = More(v.missing, v.context)
         /\ v.kind = "error" => v = Error(v.context)
BY Fields DEF Bounded

-----------------------------------------------------------------------------
\* The offset behind the opcode word is where every decoder starts.
LEMMA StartTwins ==
  ASSUME NEW len \in Nat, NEW m \in Nat, len >= 2, m >= len
  PROVE  Twins(Start, len, Start, m, 2)
BY Fields DEF Twins, Bounded, Continues, Start

\* An error that depends on the opcode alone is the same for both.
LEMMA ErrorTwins ==
  ASSUME NEW len \in Nat, NEW m \in Nat, len >= 2, m >= len, NEW reason, NEW limit \in Nat
  PROVE  Twins(Error(reason), len, Error(reason), m, limit)
BY Fields DEF Twins, Bounded, Continues

\* A larger limit is no harder.
LEMMA LimitTwins ==
  ASSUME NEW len \in Nat, NEW m \in Nat, NEW c, NEW d,
         NEW limit \in Nat, NEW larger \in Nat, limit <= larger,
         Twins(c, len, d, m, limit)
  PROVE  Twins(c, len, d, m, larger)
<1>1. ASSUME NEW v, NEW k \in Nat, Bounded(v, k, limit)
      PROVE  Bounded(v, k, larger)
  BY <1>1 DEF Bounded
<1> QED BY <1>1 DEF Twins

\* Fetch keeps a bounded verdict bounded, the limit grown by its operand.
LEMMA FetchBounded ==
  ASSUME NEW v, NEW len \in Nat, len >= 2, NEW limit \in Nat, NEW bytes \in Nat, NEW what,
         Bounded(v, len, limit)
  PROVE  Bounded(Fetch(v, len, bytes, what), len, limit + bytes)
<1>1. CASE v.kind = "ok"
  <2>1. v.size \in 2..len /\ v.size <= limit
    BY <1>1, BoundedCases
  <2>2. CASE len >= v.size + bytes
    <3>1. v.size + bytes \in 2..len /\ v.size + bytes <= limit + bytes
      BY <2>1, <2>2
    <3>2. Fetch(v, len, bytes, what) = Ok(v.size + bytes)
      BY <1>1, <2>1, <2>2 DEF Fetch
    <3> QED BY <3>1, <3>2 DEF Bounded
  <2>3. CASE ~(len >= v.size + bytes)
    <3>1. (v.size + bytes) - len \in 1..((limit + bytes) - len)
      BY <2>1, <2>3
    <3>2. Fetch(v, len, bytes, what) = More((v.size + bytes) - len, what)
      BY <1>1, <2>1, <2>3 DEF Fetch
    <3> QED BY <3>1, <3>2, Fields DEF Bounded
  <2> QED BY <2>2, <2>3
<1>2. CASE v.kind # "ok"
  <2>1. Fetch(v, len, bytes, what) = v
    BY <1>2 DEF Fetch
  <2> QED BY <1>2, <2>1, Fields DEF Bounded
<1> QED BY <1>1, <1>2

\* requireLength (common.go): one more operand of the chain.
LEMMA FetchTwins ==
  ASSUME NEW len \in Nat, NEW m \in Nat, len >= 2, m >= len, NEW c, NEW d,
         NEW limit \in Nat, NEW bytes \in Nat, NEW what,
         Twins(c, len, d, m, limit)
  PROVE  Twins(Fetch(c, len, bytes, what), len, Fetch(d, m, bytes, what), m, limit + bytes)
<1> DEFINE c2 == Fetch(c, len, bytes, what)
           d2 == Fetch(d, m, bytes, what)
<1>0. /\ Bounded(c, len, limit) /\ Bounded(d, m, limit) /\ Continues(c, len, d, m)
      /\ m >= 2
  BY DEF Twins
<1>1. Bounded(c2, len, limit + bytes) /\ Bounded(d2, m, limit + bytes)
  BY <1>0, FetchBounded
<1>2. Continues(c2, len, d2, m)
  <2>1. CASE c.kind = "ok"
    <3>1. d = c /\ c.size \in 2..len
      BY <1>0, <2>1, BoundedCases DEF Continues
    <3>2. CASE len >= c.size + bytes
      <4>1. c2 = Ok(c.size + bytes) /\ d2 = Ok(c.size + bytes)
        BY <2>1, <3>1, <3>2 DEF Fetch
      <4> QED BY <4>1, Fields DEF Continues
    <3>3. CASE ~(len >= c.size + bytes)
      <4>1. c2 = More((c.size + bytes) - len, what)
        BY <2>1, <3>1, <3>3 DEF Fetch
      <4>2. c2.kind = "more" /\ c2.missing = (c.size + bytes) - len /\ c2.context = what
        BY <4>1, Fields
      <4>3. CASE m < c.size + bytes
        <5>1. d2 = More((c.size + bytes) - m, what)
          BY <2>1, <3>1, <4>3 DEF Fetch
        <5>2. (c.size + bytes) - m = c2.missing - (m - len)
          BY <3>1, <4>2
        <5>3. m < len + c2.missing
          BY <3>1, <4>2, <4>3
        <5> QED BY <5>1, <5>2, <5>3, <4>2, Fields DEF Continues
      <4>4. CASE m >= c.size + bytes
        <5>1. d2 = Ok(c.size + bytes)
          BY <2>1, <3>1, <4>4 DEF Fetch
        <5>2. ~(m < len + c2.missing) /\ (m = len + c2.missing => c.size + bytes = m)
          BY <3>1, <4>2, <4>4
        <5> QED BY <5>1, <5>2, <4>2, Fields DEF Continues
      <4> QED BY <3>1, <4>3, <4>4
    <3> QED BY <3>2, <3>3
  <2>2. CASE c.kind = "error"
    <3>1. d = c
      BY <1>0, <2>2 DEF Continues
    <3>2. c2 = c /\ d2 = c
      BY <2>2, <3>1 DEF Fetch
    <3> QED BY <2>2, <3>2 DEF Continues
  <2>3. CASE c.kind = "more"
    <3>1. c2 = c /\ c.missing \in Nat
      BY <1>0, <2>3, BoundedCases DEF Fetch
    <3>2. CASE m < len + c.missing
      <4>1. d = More(c.missing - (m - len), c.context)
        BY <1>0, <2>3, <3>2 DEF Continues
      <4>2. d2 = d
        BY <4>1, Fields DEF Fetch
      <4> QED BY <2>3, <3>1, <3>2, <4>1, <4>2 DEF Continues
    <3>3. CASE m = len + c.missing
      <4>1. d.kind = "ok" => d.size = m
        BY <1>0, <2>3, <3>3 DEF Continues
      <4>2. d2.kind = "ok" => d2.size = m
        <5>1. CASE d.kind = "ok"
          <6>1. CASE bytes = 0
            BY <4>1, <5>1, <6>1, Fields DEF Fetch
          <6>2. CASE bytes > 0
            BY <4>1, <5>1, <6>2, Fields DEF Fetch
          <6> QED BY <6>1, <6>2
        <5>2. CASE d.kind # "ok"
          BY <5>2 DEF Fetch
        <5> QED BY <5>1, <5>2
      <4>3. ~(m < len + c.missing)
        BY <3>1, <3>3
      <4> QED BY <2>3, <3>1, <4>2, <4>3 DEF Continues
    <3>4. CASE m > len + c.missing
      <4>1. ~(m < len + c.missing) /\ m # len + c.missing
        BY <3>1, <3>4
      <4> QED BY <2>3, <3>1, <4>1 DEF Continues
    <3> QED BY <3>1, <3>2, <3>3, <3>4
  <2> QED BY <1>0, <2>1, <2>2, <2>3, BoundedCases
<1> QED BY <1>1, <1>2 DEF Twins

\* An error return behind a chain.
LEMMA AbortTwins ==
  ASSUME NEW len \in Nat, NEW m \in Nat, len >= 2, m >= len, NEW c, NEW d,
         NEW limit \in Nat, NEW reason,
         Twins(c, len, d, m, limit)
  PROVE  Twins(Abort(c, reason), len, Abort(d, reason), m, limit)
<1>1. ASSUME NEW v, NEW k \in Nat, Bounded(v, k, limit)
      PROVE  Bounded(Abort(v, reason), k, limit)
  BY <1>1, Fields DEF Bounded, Abort
<1>2. Continues(Abort(c, reason), len, Abort(d, reason), m)
  BY Fields, BoundedCases DEF Twins, Continues, Abort
<1> QED BY <1>1, <1>2 DEF Twins

-----------------------------------------------------------------------------

\* The fields of an opcode word are in their ranges.
LEMMA FieldRanges ==
  ASSUME NEW op \in Nat
  PROVE  /\ SrcReg(op) \in 0..7 /\ SrcMode(op) \in 0..7 /\ DstReg(op) \in 0..7
         /\ Opmode(op) \in 0..7 /\ SizeBits(op) \in 0..3 /\ MoveSize(op) \in 0..3
BY DEF SrcReg, SrcMode, DstReg, Opmode, SizeBits, MoveSize

\* decodeAddressingMode takes at most two extension words.
LEMMA ExtensionBytes ==
  ASSUME NEW mode \in 0..7, NEW reg \in 0..7, NEW operandSize, ValidMode(mode, reg)
  PROVE  ExtensionOf(mode, reg, operandSize).bytes \in {0, 2, 4}
BY DEF ValidMode, ExtensionOf, Extension

\* decodeEAWithSize (common.go): an effective address is one Fetch or an error.
LEMMA EATwins ==
  ASSUME NEW len \in Nat, NEW m \in Nat, len >= 2, m >= len, NEW c, NEW d,
         NEW limit \in Nat, NEW mode \in 0..7, NEW reg \in 0..7, NEW operandSize,
         Twins(c, len, d, m, limit)
  PROVE  Twins(EA(c, len, mode, reg, operandSize), len,
               EA(d, m, mode, reg, operandSize), m, limit + 4)
<1> DEFINE ext == ExtensionOf(mode, reg, operandSize)
<1>1. CASE ValidMode(mode, reg)
  <2>1. ext.bytes \in Nat /\ ext.bytes <= 4
    BY <1>1, ExtensionBytes
  <2>2. Twins(Fetch(c, len, ext.bytes, ext.context), len,
              Fetch(d, m, ext.bytes, ext.context), m, limit + ext.bytes)
    BY <2>1, FetchTwins
  <2>3. Twins(Fetch(c, len, ext.bytes, ext.context), len,
              Fetch(d, m, ext.bytes, ext.context), m, limit + 4)
    BY <2>1, <2>2, LimitTwins
  <2> QED BY <1>1, <2>3 DEF EA
<1>2. CASE ~ValidMode(mode, reg)
  <2> DEFINE c2 == Abort(c, "unknown addressing mode")
             d2 == Abort(d, "unknown addressing mode")
  <2>1. Twins(c2, len, d2, m, limit)
    BY AbortTwins
  <2> HIDE DEF c2, d2
  <2>2. Twins(c2, len, d2, m, limit + 4)
    BY <2>1, LimitTwins
  <2> QED BY <1>2, <2>2 DEF EA, c2, d2
<1> QED BY <1>1, <1>2

\* The address in the low six bits of the opcode word.
LEMMA SourceTwins ==
  ASSUME NEW op \in Nat, NEW len \in Nat, NEW m \in Nat, len >= 2, m >= len,
         NEW c, NEW d, NEW limit \in Nat, NEW operandSize,
         Twins(c, len, d, m, limit)
  PROVE  Twins(SourceEA(c, op, len, operandSize), len,
               SourceEA(d, op, m, operandSize), m, limit + 4)
BY EATwins, FieldRanges DEF SourceEA

-----------------------------------------------------------------------------
\* decodeSingleOp, decodeLEA, decodeJSR, ...: one address behind the opcode word.
LEMMA OneAddressTwins ==
  ASSUME NEW op \in Nat, NEW len \in Nat, NEW m \in Nat, len >= 2, m >= len,
         NEW operandSize
  PROVE  Twins(SourceEA(Start, op, len, operandSize), len,
               SourceEA(Start, op, m, operandSize), m, 6)
<1>1. Twins(Start, len, Start, m, 2)
  BY StartTwins
<1> QED BY <1>1, SourceTwins

\* decodeDirectedBinaryOp (common.go).
LEMMA DirectedBinaryOpTwins ==
  ASSUME NEW op \in Nat, NEW len \in Nat, NEW m \in Nat, len >= 2, m >= len
  PROVE  Twins(DirectedBinaryOp(op, len), len, DirectedBinaryOp(op, m), m, 6)
<1>1. CASE SizeBits(op) = 3
  BY <1>1, ErrorTwins DEF DirectedBinaryOp
<1>2. CASE SizeBits(op) # 3
  BY <1>2, OneAddressTwins DEF DirectedBinaryOp
<1> QED BY <1>1, <1>2

\* decodeADD, decodeSUB (arithmetic.go).
LEMMA AddSubTwins ==
  ASSUME NEW op \in Nat, NEW len \in Nat, NEW m \in Nat, len >= 2, m >= len
  PROVE  Twins(AddSub(op, len), len, AddSub(op, m), m, 6)
<1>1. CASE Opmode(op) \in {3, 7}
  BY <1>1, OneAddressTwins DEF AddSub, AddressRegisterOp
<1>2. CASE Opmode(op) \notin {3, 7}
  BY <1>2, DirectedBinaryOpTwins DEF AddSub
<1> QED BY <1>1, <1>2

\* decodeCMP (compare.go), whose four forms cover every opmode.
LEMMA CompareTwins ==
  ASSUME NEW op \in Nat, NEW len \in Nat, NEW m \in Nat, len >= 2, m >= len
  PROVE  Twins(Compare(op, len), len, Compare(op, m), m, 6)
<1>1. CASE Direction(op) = 1 /\ SrcMode(op) = 1
  <2>1. Twins(Start, len, Start, m, 6)
    BY StartTwins, LimitTwins
  <2> QED BY <1>1, <2>1 DEF Compare
<1>2. CASE ~(Direction(op) = 1 /\ SrcMode(op) = 1)
  <2>1. Opmode(op) \in 0..7
    BY FieldRanges
  <2>2. CASE Opmode(op) \in {3, 7}
    <3>1. Compare(op, len) = AddressRegisterOp(op, len) /\ Compare(op, m) = AddressRegisterOp(op, m)
      BY <1>2, <2>2 DEF Compare
    <3> QED BY <3>1, OneAddressTwins DEF AddressRegisterOp
  <2>3. CASE Opmode(op) \in 4..6
    <3>1. Compare(op, len) = DirectedBinaryOp(op, len) /\ Compare(op, m) = DirectedBinaryOp(op, m)
      BY <1>2, <2>3 DEF Compare
    <3> QED BY <3>1, DirectedBinaryOpTwins
  <2>4. CASE Opmode(op) \in 0..2
    <3> DEFINE size == OperandSize(Opmode(op))
    <3>1. /\ Compare(op, len) = SourceEA(Start, op, len, size)
          /\ Compare(op, m) = SourceEA(Start, op, m, size)
      BY <1>2, <2>4 DEF Compare
    <3> QED BY <3>1, OneAddressTwins
  <2> QED BY <2>1, <2>2, <2>3, <2>4
<1> QED BY <1>1, <1>2

\* One extension word or two, behind the opcode word.
LEMMA StartFetchTwins ==
  ASSUME NEW len \in Nat, NEW m \in Nat, len >= 2, m >= len, NEW bytes \in {2, 4}, NEW what
  PROVE  Twins(Fetch(Start, len, bytes, what), len, Fetch(Start, m, bytes, what), m, 2 + bytes)
<1>1. Twins(Start, len, Start, m, 2)
  BY StartTwins
<1> QED BY <1>1, FetchTwins

\* decodeImmediateBinaryOp, decodeLogicalI, decodeCMPI: the longest has a long
\* immediate and a long address.
LEMMA ImmediateOpTwins ==
  ASSUME NEW op \in Nat, NEW len \in Nat, NEW m \in Nat, len >= 2, m >= len,
         NEW longImmediate \in BOOLEAN
  PROVE  Twins(ImmediateOp(op, len, longImmediate), len, ImmediateOp(op, m, longImmediate), m, 10)
<1> DEFINE bytes == ImmediateBytes(SizeBits(op), longImmediate)
           c     == Fetch(Start, len, bytes, "immediate")
           d     == Fetch(Start, m, bytes, "immediate")
<1>1. CASE SizeBits(op) = 3
  BY <1>1, ErrorTwins DEF ImmediateOp
<1>2. CASE SizeBits(op) # 3
  <2>1. bytes \in {2, 4}
    BY DEF ImmediateBytes
  <2>2. Twins(c, len, d, m, 2 + bytes)
    BY <2>1, StartFetchTwins
  <2>3. 2 + bytes \in Nat /\ 2 + bytes <= 6
    BY <2>1
  <2>4. ImmediateOp(op, len, longImmediate) = SourceEA(c, op, len, 2)
        /\ ImmediateOp(op, m, longImmediate) = SourceEA(d, op, m, 2)
    BY <1>2 DEF ImmediateOp
  <2> HIDE DEF bytes, c, d
  <2>5. Twins(c, len, d, m, 6)
    BY <2>2, <2>3, LimitTwins
  <2>6. Twins(SourceEA(c, op, len, 2), len, SourceEA(d, op, m, 2), m, 10)
    BY <2>5, SourceTwins
  <2> QED BY <2>4, <2>6
<1> QED BY <1>1, <1>2

\* decodeBitset (bit.go): in both forms the address comes last.
LEMMA BitOpTwins ==
  ASSUME NEW op \in Nat, NEW len \in Nat, NEW m \in Nat, len >= 2, m >= len
  PROVE  Twins(BitOp(op, len), len, BitOp(op, m), m, 10)
<1> DEFINE c == Fetch(Start, len, 2, "immediate bit number")
           d == Fetch(Start, m, 2, "immediate bit number")
<1>1. CASE Direction(op) = 1
  <2>1. Twins(SourceEA(Start, op, len, 2), len, SourceEA(Start, op, m, 2), m, 10)
    BY OneAddressTwins, LimitTwins
  <2> QED BY <1>1, <2>1 DEF BitOp
<1>2. CASE Direction(op) # 1
  <2>1. Twins(c, len, d, m, 2 + 2)
    BY StartFetchTwins
  <2>2. BitOp(op, len) = SourceEA(c, op, len, 2) /\ BitOp(op, m) = SourceEA(d, op, m, 2)
    BY <1>2 DEF BitOp
  <2> HIDE DEF c, d
  <2>3. Twins(c, len, d, m, 6)
    BY <2>1, LimitTwins
  <2>4. Twins(SourceEA(c, op, len, 2), len, SourceEA(d, op, m, 2), m, 10)
    BY <2>3, SourceTwins
  <2> QED BY <2>2, <2>4
<1> QED BY <1>1, <1>2

\* decodeMOVE (move.go): the only decoder with two addresses.
LEMMA MoveTwins ==
  ASSUME NEW op \in Nat, NEW len \in Nat, NEW m \in Nat, len >= 2, m >= len
  PROVE  Twins(Move(op, len), len, Move(op, m), m, 10)
<1> DEFINE operandSize == CASE MoveSize(op) = 1 -> 1
                            [] MoveSize(op) = 3 -> 2
                            [] OTHER            -> 4
           c == SourceEA(Start, op, len, operandSize)
           d == SourceEA(Start, op, m, operandSize)
<1>0. Twins(c, len, d, m, 6)
  BY OneAddressTwins
<1>1. CASE MoveSize(op) = 0
  <2>1. Move(op, len) = Error("unknown MOVE size") /\ Move(op, m) = Error("unknown MOVE size")
    BY <1>1 DEF Move
  <2> HIDE DEF c, d
  <2> QED BY <2>1, ErrorTwins
<1>2. CASE MoveSize(op) = 1 /\ Opmode(op) = 1
  <2>1. Move(op, len) = Abort(c, "MOVEA byte") /\ Move(op, m) = Abort(d, "MOVEA byte")
    BY <1>2 DEF Move
  <2> HIDE DEF c, d
  <2>2. Twins(Abort(c, "MOVEA byte"), len, Abort(d, "MOVEA byte"), m, 6)
    BY <1>0, AbortTwins
  <2> HIDE DEF Abort
  <2>3. Twins(Move(op, len), len, Move(op, m), m, 6)
    BY <2>1, <2>2
  <2> QED BY <2>3, LimitTwins
<1>3. CASE MoveSize(op) \notin {0, 1} /\ Opmode(op) = 1
  <2>1. Move(op, len) = c /\ Move(op, m) = d
    BY <1>3 DEF Move
  <2> HIDE DEF c, d
  <2>2. Twins(Move(op, len), len, Move(op, m), m, 6)
    BY <1>0, <2>1
  <2> QED BY <2>2, LimitTwins
<1>4. CASE MoveSize(op) # 0 /\ Opmode(op) # 1
  <2>1. /\ Move(op, len) = EA(c, len, Opmode(op), DstReg(op), 2)
        /\ Move(op, m) = EA(d, m, Opmode(op), DstReg(op), 2)
    BY <1>4 DEF Move
  <2>2. Opmode(op) \in 0..7 /\ DstReg(op) \in 0..7
    BY FieldRanges
  <2> HIDE DEF c, d
  <2>3. Twins(EA(c, len, Opmode(op), DstReg(op), 2), len,
              EA(d, m, Opmode(op), DstReg(op), 2), m, 10)
    BY <1>0, <2>2, EATwins
  <2> QED BY <2>1, <2>3
<1> QED BY <1>1, <1>2, <1>3, <1>4

\* decodeMOVEM (move.go): a list, and an address unless it names D0.
LEMMA MovemTwins ==
  ASSUME NEW op \in Nat, NEW len \in Nat, NEW m \in Nat, len >= 2, m >= len
  PROVE  Twins(Movem(op, len), len, Movem(op, m), m, 10)
<1> DEFINE c == Fetch(Start, len, 2, "MOVEM register list")
           d == Fetch(Start, m, 2, "MOVEM register list")
<1>0. Twins(c, len, d, m, 2 + 2)
  BY StartFetchTwins
<1>1. CASE SrcMode(op) = 0 /\ SrcReg(op) = 0
  <2>1. Movem(op, len) = c /\ Movem(op, m) = d
    BY <1>1 DEF Movem
  <2> HIDE DEF c, d
  <2> QED BY <1>0, <2>1, LimitTwins
<1>2. CASE ~(SrcMode(op) = 0 /\ SrcReg(op) = 0)
  <2>1. Movem(op, len) = SourceEA(c, op, len, 2) /\ Movem(op, m) = SourceEA(d, op, m, 2)
    BY <1>2 DEF Movem
  <2> HIDE DEF c, d
  <2>2. Twins(c, len, d, m, 6)
    BY <1>0, LimitTwins
  <2>3. Twins(SourceEA(c, op, len, 2), len, SourceEA(d, op, m, 2), m, 10)
    BY <2>2, SourceTwins
  <2> QED BY <2>1, <2>3
<1> QED BY <1>1, <1>2

\* decodeBxx (branch.go): no extension word, one or two.
LEMMA BranchTwins ==
  ASSUME NEW op \in Nat, NEW len \in Nat, NEW m \in Nat, len >= 2, m >= len
  PROVE  Twins(Branch(op, len), len, Branch(op, m), m, 6)
<1>1. CASE Displacement(op) = 0
  <2> DEFINE c == Fetch(Start, len, 2, "W displacement")
             d == Fetch(Start, m, 2, "W displacement")
  <2>1. Twins(c, len, d, m, 2 + 2)
    BY StartFetchTwins
  <2>2. Branch(op, len) = c /\ Branch(op, m) = d
    BY <1>1 DEF Branch
  <2> HIDE DEF c, d
  <2> QED BY <2>1, <2>2, LimitTwins
<1>2. CASE Displacement(op) = 255
  <2> DEFINE c == Fetch(Start, len, 4, "L displacement")
             d == Fetch(Start, m, 4, "L displacement")
  <2>1. Twins(c, len, d, m, 2 + 4)
    BY StartFetchTwins
  <2>2. Branch(op, len) = c /\ Branch(op, m) = d
    BY <1>2 DEF Branch
  <2> HIDE DEF c, d
  <2> QED BY <2>1, <2>2, LimitTwins
<1>3. CASE Displacement(op) \notin {0, 255}
  <2>1. Branch(op, len) = Start /\ Branch(op, m) = Start
    BY <1>3 DEF Branch
  <2>2. Twins(Start, len, Start, m, 6)
    BY StartTwins, LimitTwins
  <2> QED BY <2>1, <2>2
<1> QED BY <1>1, <1>2, <1>3

\* decodeShiftRotate (shift.go): a register shift or one address.
LEMMA ShiftTwins ==
  ASSUME NEW op \in Nat, NEW len \in Nat, NEW m \in Nat, len >= 2, m >= len
  PROVE  Twins(Shift(op, len), len, Shift(op, m), m, 6)
<1>1. CASE DstReg(op) <= 3
  <2>1. Twins(Start, len, Start, m, 6)
    BY StartTwins, LimitTwins
  <2> QED BY <1>1, <2>1 DEF Shift
<1>2. CASE ~(DstReg(op) <= 3)
  BY <1>2, OneAddressTwins DEF Shift
<1> QED BY <1>1, <1>2

-----------------------------------------------------------------------------
\* decoder(data, opcode, inst), for every decoder the table can name.
THEOREM DecodersHonourContract ==
  ASSUME NEW decoder \in DecoderNames, NEW op \in Nat,
         NEW len \in Nat, NEW m \in Nat, len >= 2, m >= len
  PROVE  /\ Bounded(Decode(decoder, op, len), len, 10)
         /\ Continues(Decode(decoder, op, len), len, Decode(decoder, op, m), m)
<1>1. Twins(Decode(decoder, op, len), len, Decode(decoder, op, m), m, 10)
  <2>1. CASE decoder \in Inherent
    <3>1. Decode(decoder, op, len) = Start /\ Decode(decoder, op, m) = Start
      BY <2>1 DEF Decode, Inherent, OneAddress
    <3>2. Twins(Start, len, Start, m, 10)
      BY StartTwins, LimitTwins
    <3> QED BY <3>1, <3>2
  <2>2. CASE decoder \in OneAddress
    <3>1. /\ Decode(decoder, op, len) = SourceEA(Start, op, len, 2)
          /\ Decode(decoder, op, m) = SourceEA(Start, op, m, 2)
      BY <2>2 DEF Decode, Inherent, OneAddress
    <3> QED BY <3>1, OneAddressTwins, LimitTwins
  <2>3. CASE decoder = "STOP"
    <3> DEFINE c == Fetch(Start, len, 2, "STOP immediate")
               d == Fetch(Start, m, 2, "STOP immediate")
    <3>1. Decode(decoder, op, len) = c /\ Decode(decoder, op, m) = d
      BY <2>3 DEF Decode, Inherent, OneAddress
    <3>2. Twins(c, len, d, m, 2 + 2)
      BY StartFetchTwins
    <3> HIDE DEF c, d
    <3> QED BY <3>1, <3>2, LimitTwins
  <2>4. CASE decoder = "Bxx"
    <3>1. Decode(decoder, op, len) = Branch(op, len) /\ Decode(decoder, op, m) = Branch(op, m)
      BY <2>4 DEF Decode, Inherent, OneAddress
    <3> QED BY <3>1, BranchTwins, LimitTwins
  <2>5. CASE decoder = "MOVE"
    BY <2>5, MoveTwins DEF Decode, Inherent, OneAddress
  <2>6. CASE decoder = "MOVEM"
    BY <2>6, MovemTwins DEF Decode, Inherent, OneAddress
  <2>7. CASE decoder \in {"BTST", "BCHG", "BCLR", "BSET"}
    BY <2>7, BitOpTwins DEF Decode, Inherent, OneAddress
  <2>8. CASE decoder \in {"ADDI", "SUBI"}
    BY <2>8, ImmediateOpTwins DEF Decode, Inherent, OneAddress
  <2>9. CASE decoder \in {"ANDI", "ORI", "EORI", "CMPI"}
    BY <2>9, ImmediateOpTwins DEF LogicalI, Decode, Inherent, OneAddress
  <2>10. CASE decoder \in {"ADD", "SUB"}
    <3>1. Decode(decoder, op, len) = AddSub(op, len) /\ Decode(decoder, op, m) = AddSub(op, m)
      BY <2>10 DEF Decode, Inherent, OneAddress
    <3> QED BY <3>1, AddSubTwins, LimitTwins
  <2>11. CASE decoder \in {"AND", "OR"}
    <3>1. /\ Decode(decoder, op, len) = DirectedBinaryOp(op, len)
          /\ Decode(decoder, op, m) = DirectedBinaryOp(op, m)
      BY <2>11 DEF Decode, Inherent, OneAddress
    <3> QED BY <3>1, DirectedBinaryOpTwins, LimitTwins
  <2>12. CASE decoder = "CMP"
    <3>1. Decode(decoder, op, len) = Compare(op, len) /\ Decode(decoder, op, m) = Compare(op, m)
      BY <2>12 DEF Decode, Inherent, OneAddress
    <3> QED BY <3>1, CompareTwins, LimitTwins
  <2>13. CASE decoder = "SHIFT"
    <3>1. Decode(decoder, op, len) = Shift(op, len) /\ Decode(decoder, op, m) = Shift(op, m)
      BY <2>13 DEF Decode, Inherent, OneAddress
    <3> QED BY <3>1, ShiftTwins, LimitTwins
  <2> QED BY <2>1, <2>2, <2>3, <2>4, <2>5, <2>6, <2>7, <2>8, <2>9, <2>10, <2>11, <2>12, <2>13
          DEF DecoderNames
<1> QED BY <1>1 DEF Twins

-----------------------------------------------------------------------------
\* A nonempty set of naturals has a least element.
LEMMA Least ==
  ASSUME NEW S \in SUBSET Nat, S # {}
  PROVE  \E i \in S : \A j \in S : i <= j
<1> DEFINE R == OpToRel(<, Nat)
<1>1. R = {ss \in Nat \X Nat : ss[1] < ss[2]}
  BY Zenon DEF OpToRel
<1>2. IsWellFoundedOn(R, Nat)
  BY NatLessThanWellFounded
<1> HIDE DEF R
<1>3. PICK i \in S : \A j \in S : ~(<<j, i>> \in R)
  BY <1>2, WFMin
<1>4. ASSUME NEW j \in S
      PROVE  i <= j
  <2>1. i \in Nat /\ j \in Nat
    OBVIOUS
  <2>2. ~(j < i)
    BY <1>1, <1>3, <2>1
  <2> QED BY <2>1, <2>2
<1> QED BY <1>4

\* The bucket of a high nibble holds patterns of existing decoders only.
Named(nibble) ==
  /\ DOMAIN opcodeBuckets[nibble] \subseteq Nat
  /\ \A i \in DOMAIN opcodeBuckets[nibble] :
       opcodeBuckets[nibble][i].decoder \in DecoderNames

LEMMA PatternDecoder == \A mask, value, decoder : Pattern(mask, value, decoder).decoder = decoder
BY DEF Pattern

\* opcodeBuckets (types.go), one nibble after the other.
LEMMA BucketsNamed == \A nibble \in 0..15 : Named(nibble)
<1> USE PatternDecoder DEF Named, opcodeBuckets, DecoderNames, Inherent, OneAddress
<1>1. Named(0)
  OBVIOUS
<1>2. Named(1)
  OBVIOUS
<1>3. Named(2)
  OBVIOUS
<1>4. Named(3)
  OBVIOUS
<1>5. Named(4)
  OBVIOUS
<1>6. Named(5)
  OBVIOUS
<1>7. Named(6)
  OBVIOUS
<1>8. Named(7)
  OBVIOUS
<1>9. Named(8)
  OBVIOUS
<1>10. Named(9)
  OBVIOUS
<1>11. Named(10)
  OBVIOUS
<1>12. Named(11)
  OBVIOUS
<1>13. Named(12)
  OBVIOUS
<1>14. Named(13)
  OBVIOUS
<1>15. Named(14)
  OBVIOUS
<1>16. Named(15)
  OBVIOUS
<1> HIDE DEF Named, opcodeBuckets
<1> QED
  <2> SUFFICES ASSUME NEW nibble \in 0..15
               PROVE  Named(nibble)
    OBVIOUS
  <2>1. nibble \in {0, 1, 2, 3, 4, 5, 6, 7, 8, 9, 10, 11, 12, 13, 14, 15}
    OBVIOUS
  <2> QED BY ONLY <2>1, <1>1, <1>2, <1>3, <1>4, <1>5, <1>6, <1>7, <1>8, <1>9, <1>10, <1>11, <1>12, <1>13, <1>14, <1>15, <1>16

\* FindDecoder (types.go) leads to one of the decoder functions, or nowhere.
THEOREM FindDecoderFindsADecoder ==
  ASSUME NEW op \in Nat
  PROVE  FindDecoder(op) \in DecoderNames \cup {NoDecoder}
<1> DEFINE nibble == (op \div 4096) % 16
           bucket == opcodeBuckets[nibble]
           hits   == {i \in DOMAIN bucket : Matches(op, bucket[i])}
<1>1. nibble \in 0..15
  OBVIOUS
<1>2. Named(nibble)
  BY <1>1, BucketsNamed
<1>3. CASE hits = {}
  BY <1>3 DEF FindDecoder
<1>4. CASE hits # {}
  <2> DEFINE first == CHOOSE i \in hits : \A j \in hits : i <= j
  <2>1. FindDecoder(op) = bucket[first].decoder
    BY <1>4 DEF FindDecoder
  <2>2. hits \in SUBSET Nat
    BY <1>2 DEF Named
  <2> HIDE DEF hits
  <2>3. \E i \in hits : \A j \in hits : i <= j
    BY <1>4, <2>2, Least
  <2>4. first \in hits
    BY <2>3
  <2> HIDE DEF first
  <2>5. first \in DOMAIN bucket
    BY <2>4 DEF hits
  <2>6. bucket[first].decoder \in DecoderNames
    BY <1>2, <2>5 DEF Named
  <2> QED BY <2>1, <2>6
<1> QED BY <1>3, <1>4

-----------------------------------------------------------------------------
\* The bits of a word, the powers of two written out.
LEMMA BitsWritten ==
  \A w \in Nat :
    /\ Bit(w, 0) = w % 2              /\ Bit(w, 1) = (w \div 2) % 2
    /\ Bit(w, 2) = (w \div 4) % 2     /\ Bit(w, 3) = (w \div 8) % 2
    /\ Bit(w, 4) = (w \div 16) % 2    /\ Bit(w, 5) = (w \div 32) % 2
    /\ Bit(w, 6) = (w \div 64) % 2    /\ Bit(w, 7) = (w \div 128) % 2
    /\ Bit(w, 8) = (w \div 256) % 2   /\ Bit(w, 9) = (w \div 512) % 2
    /\ Bit(w, 10) = (w \div 1024) % 2 /\ Bit(w, 11) = (w \div 2048) % 2
    /\ Bit(w, 12) = (w \div 4096) % 2 /\ Bit(w, 13) = (w \div 8192) % 2
    /\ Bit(w, 14) = (w \div 16384) % 2 /\ Bit(w, 15) = (w \div 32768) % 2
BY DEF Bit

LEMMA Sixteen ==
  ASSUME NEW b \in 0..15
  PROVE  b \in {0, 1, 2, 3, 4, 5, 6, 7, 8, 9, 10, 11, 12, 13, 14, 15}
OBVIOUS

\* The bits that each mask of the table fixes.
LEMMA MaskBits ==
  \A b \in 0..15 :
    /\ Bit(\hFFFF, b) = 1 <=> b \in 0..15
    /\ Bit(\hFFF8, b) = 1 <=> b \in 3..15
    /\ Bit(\hFFF0, b) = 1 <=> b \in 4..15
    /\ Bit(\hFFC0, b) = 1 <=> b \in 6..15
    /\ Bit(\hFF00, b) = 1 <=> b \in 8..15
    /\ Bit(\hFB80, b) = 1 <=> b \in (7..9) \cup (11..15)
    /\ Bit(\hF1F0, b) = 1 <=> b \in (4..8) \cup (12..15)
    /\ Bit(\hF1C0, b) = 1 <=> b \in (6..8) \cup (12..15)
    /\ Bit(\hF100, b) = 1 <=> b \in {8} \cup (12..15)
    /\ Bit(\hF000, b) = 1 <=> b \in 12..15
<1>1. \A b \in 0..15 : Bit(\hFFFF, b) = 1 <=> b \in 0..15
  <2>1. \A b \in {0, 1, 2, 3, 4, 5, 6, 7, 8, 9, 10, 11, 12, 13, 14, 15} : Bit(\hFFFF, b) = 1
    BY BitsWritten
  <2> QED BY ONLY <2>1, Sixteen
<1>2. \A b \in 0..15 : Bit(\hFFF8, b) = 1 <=> b \in 3..15
  <2>1. \A b \in {3, 4, 5, 6, 7, 8, 9, 10, 11, 12, 13, 14, 15} : Bit(\hFFF8, b) = 1
    BY BitsWritten
  <2>2. \A b \in {0, 1, 2} : Bit(\hFFF8, b) = 0
    BY BitsWritten
  <2> QED BY ONLY <2>1, <2>2, Sixteen
<1>3. \A b \in 0..15 : Bit(\hFFF0, b) = 1 <=> b \in 4..15
  <2>1. \A b \in {4, 5, 6, 7, 8, 9, 10, 11, 12, 13, 14, 15} : Bit(\hFFF0, b) = 1
    BY BitsWritten
  <2>2. \A b \in {0, 1, 2, 3} : Bit(\hFFF0, b) = 0
    BY BitsWritten
  <2> QED BY ONLY <2>1, <2>2, Sixteen
<1>4. \A b \in 0..15 : Bit(\hFFC0, b) = 1 <=> b \in 6..15
  <2>1. \A b \in {6, 7, 8, 9, 10, 11, 12, 13, 14, 15} : Bit(\hFFC0, b) = 1
    BY BitsWritten
  <2>2. \A b \in {0, 1, 2, 3, 4, 5} : Bit(\hFFC0, b) = 0
    BY BitsWritten
  <2> QED BY ONLY <2>1, <2>2, Sixteen
<1>5. \A b \in 0..15 : Bit(\hFF00, b) = 1 <=> b \in 8..15
  <2>1. \A b \in {8, 9, 10, 11, 12, 13, 14, 15} : Bit(\hFF00, b) = 1
    BY BitsWritten
  <2>2. \A b \in {0, 1, 2, 3, 4, 5, 6, 7} : Bit(\hFF00, b) = 0
    BY BitsWritten
  <2> QED BY ONLY <2>1, <2>2, Sixteen
<1>6. \A b \in 0..15 : Bit(\hFB80, b) = 1 <=> b \in (7..9) \cup (11..15)
  <2>1. \A b \in {7, 8, 9, 11, 12, 13, 14, 15} : Bit(\hFB80, b) = 1
    BY BitsWritten
  <2>2. \A b \in {0, 1, 2, 3, 4, 5, 6, 10} : Bit(\hFB80, b) = 0
    BY BitsWritten
  <2> QED BY ONLY <2>1, <2>2, Sixteen
<1>7. \A b \in 0..15 : Bit(\hF1F0, b) = 1 <=> b \in (4..8) \cup (12..15)
  <2>1. \A b \in {4, 5, 6, 7, 8, 12, 13, 14, 15} : Bit(\hF1F0, b) = 1
    BY BitsWritten
  <2>2. \A b \in {0, 1, 2, 3, 9, 10, 11} : Bit(\hF1F0, b) = 0
    BY BitsWritten
  <2> QED BY ONLY <2>1, <2>2, Sixteen
<1>8. \A b \in 0..15 : Bit(\hF1C0, b) = 1 <=> b \in (6..8) \cup (12..15)
  <2>1. \A b \in {6, 7, 8, 12, 13, 14, 15} : Bit(\hF1C0, b) = 1
    BY BitsWritten
  <2>2. \A b \in {0, 1, 2, 3, 4, 5, 9, 10, 11} : Bit(\hF1C0, b) = 0
    BY BitsWritten
  <2> QED BY ONLY <2>1, <2>2, Sixteen
<1>9. \A b \in 0..15 : Bit(\hF100, b) = 1 <=> b \in {8} \cup (12..15)
  <2>1. \A b \in {8, 12, 13, 14, 15} : Bit(\hF100, b) = 1
    BY BitsWritten
  <2>2. \A b \in {0, 1, 2, 3, 4, 5, 6, 7, 9, 10, 11} : Bit(\hF100, b) = 0
    BY BitsWritten
  <2> QED BY ONLY <2>1, <2>2, Sixteen
<1>10. \A b \in 0..15 : Bit(\hF000, b) = 1 <=> b \in 12..15
  <2>1. \A b \in {12, 13, 14, 15} : Bit(\hF000, b) = 1
    BY BitsWritten
  <2>2. \A b \in {0, 1, 2, 3, 4, 5, 6, 7, 8, 9, 10, 11} : Bit(\hF000, b) = 0
    BY BitsWritten
  <2> QED BY ONLY <2>1, <2>2, Sixteen
<1> QED BY <1>1, <1>2, <1>3, <1>4, <1>5, <1>6, <1>7, <1>8, <1>9, <1>10

\* The bits that a pattern fixes.
FixedBits(p) == {b \in 0..15 : Bit(p.mask, b) = 1}

\* A bit that both fix, differently: no opcode matches the one and the other.
Apart(p, q) ==
  \E b \in 0..15 : /\ Bit(p.mask, b) = 1
                   /\ Bit(q.mask, b) = 1
                   /\ Bit(p.value, b) # Bit(q.value, b)

\* p may stand before q.
MayPrecede(p, q) == FixedBits(q) \subseteq FixedBits(p) \/ Apart(p, q)

\* Apart is what its name says.
LEMMA ApartNeverBoth ==
  ASSUME NEW op, NEW p, NEW q, Apart(p, q), Matches(op, p)
  PROVE  ~Matches(op, q)
<1>1. PICK b \in 0..15 : /\ Bit(p.mask, b) = 1
                         /\ Bit(q.mask, b) = 1
                         /\ Bit(p.value, b) # Bit(q.value, b)
  BY DEF Apart
<1>2. Bit(op, b) * 1 = Bit(p.value, b)
  BY <1>1 DEF Matches
<1>3. ASSUME Matches(op, q)
      PROVE  Bit(op, b) * 1 = Bit(q.value, b)
  BY <1>1, <1>3 DEF Matches
<1> QED BY <1>1, <1>2, <1>3

\* The bits of the values that tell the patterns of the nibble 4 apart.
LEMMA ValueBits ==
  /\ Bit(\h4E40, 7) = 0 /\ Bit(\h4E40, 8) = 0 /\ Bit(\h4E40, 9) = 1 /\ Bit(\h4E40, 11) = 1
  /\ Bit(\h4880, 7) = 1 /\ Bit(\h4880, 8) = 0 /\ Bit(\h4880, 9) = 0 /\ Bit(\h4880, 11) = 1
  /\ Bit(\h4C80, 7) = 1 /\ Bit(\h4C80, 8) = 0 /\ Bit(\h4C80, 9) = 0 /\ Bit(\h4C80, 11) = 1
  /\ Bit(\h4200, 7) = 0 /\ Bit(\h4200, 8) = 0 /\ Bit(\h4200, 9) = 1 /\ Bit(\h4200, 11) = 0
  /\ Bit(\h4400, 7) = 0 /\ Bit(\h4400, 8) = 0 /\ Bit(\h4400, 9) = 0 /\ Bit(\h4400, 11) = 0
  /\ Bit(\h4000, 7) = 0 /\ Bit(\h4000, 8) = 0 /\ Bit(\h4000, 9) = 0 /\ Bit(\h4000, 11) = 0
  /\ Bit(\h4600, 7) = 0 /\ Bit(\h4600, 8) = 0 /\ Bit(\h4600, 9) = 1 /\ Bit(\h4600, 11) = 0
  /\ Bit(\h4A00, 7) = 0 /\ Bit(\h4A00, 8) = 0 /\ Bit(\h4A00, 9) = 1 /\ Bit(\h4A00, 11) = 1
  /\ Bit(\h4E80, 7) = 1 /\ Bit(\h4E80, 8) = 0 /\ Bit(\h4E80, 9) = 1 /\ Bit(\h4E80, 11) = 1
  /\ Bit(\h4EC0, 7) = 1 /\ Bit(\h4EC0, 8) = 0 /\ Bit(\h4EC0, 9) = 1 /\ Bit(\h4EC0, 11) = 1
  /\ Bit(\h41C0, 7) = 1 /\ Bit(\h41C0, 8) = 1 /\ Bit(\h41C0, 9) = 0 /\ Bit(\h41C0, 11) = 0
  /\ Bit(\h4840, 7) = 0 /\ Bit(\h4840, 8) = 0 /\ Bit(\h4840, 9) = 0 /\ Bit(\h4840, 11) = 1
  /\ Bit(\h4A00, 10) = 0
  /\ Bit(\h4E80, 10) = 1
  /\ Bit(\h4EC0, 10) = 1
BY BitsWritten

\* One bit is enough.
LEMMA ApartAt ==
  ASSUME NEW p, NEW q, NEW b \in 0..15,
         Bit(p.mask, b) = 1, Bit(q.mask, b) = 1, Bit(p.value, b) # Bit(q.value, b)
  PROVE  MayPrecede(p, q) /\ MayPrecede(q, p)
BY DEF MayPrecede, Apart

\* A mask that fixes every bit of another.
LEMMA MasksNest ==
  ASSUME NEW p, NEW q,
         \/ p.mask = q.mask
         \/ p.mask = \hFFFF /\ q.mask \in {\hFFF0, \hFFF8, \hFB80, \hFF00, \hFFC0, \hF1C0}
         \/ p.mask = \hFFF0 /\ q.mask \in {\hFB80, \hFF00, \hFFC0, \hF1C0}
         \/ p.mask = \hFFC0 /\ q.mask \in {\hFF00, \hF1C0}
         \/ p.mask = \hFFF8 /\ q.mask = \hFFC0
         \/ p.mask = \hF1F0 /\ q.mask \in {\hF1C0, \hF000}
         \/ p.mask = \hF1C0 /\ q.mask = \hF000
  PROVE  MayPrecede(p, q)
BY MaskBits DEF FixedBits, MayPrecede

\* Every pattern of the bucket may stand where it stands.
Ordered(nibble) ==
  \A i, j \in DOMAIN opcodeBuckets[nibble] :
    i < j => MayPrecede(opcodeBuckets[nibble][i], opcodeBuckets[nibble][j])

\* The patterns of the nibble 4, told apart by one bit where no mask has the other.
LEMMA OrderedFour == Ordered(4)
<1> DEFINE b == opcodeBuckets[4]
<1>1. DOMAIN b = 1..17
  BY DEF opcodeBuckets
<1>2. /\ b[1].mask = \hFFFF /\ b[1].value = \h4E71
      /\ b[2].mask = \hFFFF /\ b[2].value = \h4E75
      /\ b[3].mask = \hFFFF /\ b[3].value = \h4E72
      /\ b[4].mask = \hFFFF /\ b[4].value = \h4E76
      /\ b[5].mask = \hFFF0 /\ b[5].value = \h4E40
      /\ b[6].mask = \hFB80 /\ b[6].value = \h4880
      /\ b[7].mask = \hFB80 /\ b[7].value = \h4C80
      /\ b[8].mask = \hFF00 /\ b[8].value = \h4200
      /\ b[9].mask = \hFF00 /\ b[9].value = \h4400
      /\ b[10].mask = \hFF00 /\ b[10].value = \h4000
      /\ b[11].mask = \hFF00 /\ b[11].value = \h4600
      /\ b[12].mask = \hFF00 /\ b[12].value = \h4A00
      /\ b[13].mask = \hFFC0 /\ b[13].value = \h4E80
      /\ b[14].mask = \hFFC0 /\ b[14].value = \h4EC0
      /\ b[15].mask = \hF1C0 /\ b[15].value = \h41C0
      /\ b[16].mask = \hFFF8 /\ b[16].value = \h4840
      /\ b[17].mask = \hFFC0 /\ b[17].value = \h4840
  BY DEF opcodeBuckets, Pattern
<1> HIDE DEF b
<1>3. \A i \in {1, 2, 3, 4} : \A j \in {1, 2, 3, 4, 5, 6, 7, 8, 9, 10, 11, 12, 13, 14, 15, 16, 17} : MayPrecede(b[i], b[j])
  BY <1>2, MasksNest
<1>4. \A i \in {5} : \A j \in {6, 7, 8, 9, 10, 11, 12, 13, 14, 15, 17} : MayPrecede(b[i], b[j])
  BY <1>2, MasksNest
<1>5. \A i \in {6, 7} : \A j \in {6, 7} : MayPrecede(b[i], b[j])
  BY <1>2, MasksNest
<1>6. \A i \in {8, 9, 10, 11, 12} : \A j \in {8, 9, 10, 11, 12} : MayPrecede(b[i], b[j])
  BY <1>2, MasksNest
<1>7. \A i \in {13, 14} : \A j \in {13, 14, 15, 17} : MayPrecede(b[i], b[j])
  BY <1>2, MasksNest
<1>8. \A i \in {16} : \A j \in {17} : MayPrecede(b[i], b[j])
  BY <1>2, MasksNest
<1>9. \A i \in {6, 7} : \A j \in {16, 17} :
           MayPrecede(b[i], b[j]) /\ MayPrecede(b[j], b[i])
  BY <1>2, MaskBits, ValueBits, ApartAt
<1>10. \A i \in {15} : \A j \in {6, 7, 8, 9, 10, 11, 12, 16, 17} :
           MayPrecede(b[i], b[j]) /\ MayPrecede(b[j], b[i])
  BY <1>2, MaskBits, ValueBits, ApartAt
<1>11. \A i \in {5, 8, 11, 12, 13, 14} : \A j \in {6, 7, 9, 10, 16, 17} :
           MayPrecede(b[i], b[j]) /\ MayPrecede(b[j], b[i])
  BY <1>2, MaskBits, ValueBits, ApartAt
<1>12. \A i \in {12} : \A j \in {13, 14} :
           MayPrecede(b[i], b[j]) /\ MayPrecede(b[j], b[i])
  BY <1>2, MaskBits, ValueBits, ApartAt
<1>13. \A i \in {6, 7, 12, 13, 14, 16, 17} : \A j \in {8, 9, 10, 11} :
           MayPrecede(b[i], b[j]) /\ MayPrecede(b[j], b[i])
  BY <1>2, MaskBits, ValueBits, ApartAt
<1>14. ASSUME NEW i \in 1..17, NEW j \in 1..17, i < j
       PROVE  MayPrecede(b[i], b[j])
  <2>0. /\ i \in {1, 2, 3, 4, 5, 6, 7, 8, 9, 10, 11, 12, 13, 14, 15, 16}
        /\ j \in {1, 2, 3, 4, 5, 6, 7, 8, 9, 10, 11, 12, 13, 14, 15, 16, 17}
    BY <1>14
  <2>1. CASE i \in {1, 2, 3, 4}
    BY ONLY <2>0, <2>1, <1>3
  <2>2. CASE i = 5
    BY <2>0, <2>2, <1>4, <1>11, <1>14
  <2>3. CASE i \in {6, 7}
    <3>1. CASE j \in {6, 7}
      BY ONLY <2>3, <3>1, <1>5
    <3>2. CASE j \in {16, 17}
      BY ONLY <2>3, <3>2, <1>9
    <3>3. CASE j = 15
      BY ONLY <2>3, <3>3, <1>10
    <3>4. CASE j \in {8, 11, 12, 13, 14}
      BY ONLY <2>3, <3>4, <1>11
    <3>5. CASE j \in {9, 10}
      BY ONLY <2>3, <3>5, <1>13
    <3> QED BY <2>0, <2>3, <3>1, <3>2, <3>3, <3>4, <3>5, <1>14
  <2>4. CASE i \in {8, 9, 10, 11, 12}
    <3>1. CASE j \in {8, 9, 10, 11, 12}
      BY ONLY <2>4, <3>1, <1>6
    <3>2. CASE j = 15
      BY ONLY <2>4, <3>2, <1>10
    <3>3. CASE j \in {13, 14, 16, 17} /\ i # 12
      BY ONLY <2>4, <3>3, <1>13
    <3>4. CASE j \in {13, 14, 16, 17} /\ i = 12
      BY ONLY <3>4, <1>11, <1>12
    <3> QED BY <2>0, <2>4, <3>1, <3>2, <3>3, <3>4, <1>14
  <2>5. CASE i \in {13, 14}
    BY <2>0, <2>5, <1>7, <1>11, <1>14
  <2>6. CASE i \in {15, 16}
    BY <2>0, <2>6, <1>8, <1>10, <1>14
  <2> QED BY ONLY <2>0, <2>1, <2>2, <2>3, <2>4, <2>5, <2>6
<1> QED BY <1>1, <1>14 DEF Ordered, b

\* A bucket of the nibbles 8 and 12: BCD, the two word operations, the rest.
LEMMA FourNested ==
  ASSUME NEW nibble, DOMAIN opcodeBuckets[nibble] = 1..4,
         opcodeBuckets[nibble][1].mask = \hF1F0, opcodeBuckets[nibble][2].mask = \hF1C0,
         opcodeBuckets[nibble][3].mask = \hF1C0, opcodeBuckets[nibble][4].mask = \hF000
  PROVE  Ordered(nibble)
<1> SUFFICES ASSUME NEW i \in 1..4, NEW j \in 1..4, i < j
             PROVE  MayPrecede(opcodeBuckets[nibble][i], opcodeBuckets[nibble][j])
  BY DEF Ordered
<1>1. CASE i = 1 \/ j = 4
  <2>1. i \in {1, 2, 3} /\ j \in {2, 3, 4}
    OBVIOUS
  <2> QED BY <1>1, <2>1, MasksNest
<1>2. CASE i = 2 /\ j = 3
  BY <1>2, MasksNest
<1> QED BY <1>1, <1>2

\* The masks of the nibble 0: nine bits and more, or eight.
LEMMA OrderedZero == Ordered(0)
<1> DEFINE b == opcodeBuckets[0]
<1>1. DOMAIN b = 1..14
  BY DEF opcodeBuckets
<1>2. /\ \A i \in {1, 2, 3, 4, 5, 6, 7, 8} : b[i].mask = \hFFC0
      /\ \A i \in {9, 10, 11, 12, 13, 14} : b[i].mask = \hFF00
  BY DEF opcodeBuckets, Pattern
<1> HIDE DEF b
<1>3. ASSUME NEW i \in 1..14, NEW j \in 1..14, i < j
      PROVE  MayPrecede(b[i], b[j])
  <2>1. CASE i \in 1..8
    <3>1. b[i].mask = \hFFC0
      BY <1>2, <2>1
    <3>2. CASE j \in 1..8
      <4>1. b[j].mask = \hFFC0
        BY <1>2, <3>2
      <4> QED BY <3>1, <4>1, MasksNest
    <3>3. CASE j \in 9..14
      <4>1. b[j].mask = \hFF00
        BY <1>2, <3>3
      <4> QED BY <3>1, <4>1, MasksNest
    <3> QED BY <3>2, <3>3
  <2>2. CASE i \in 9..14
    <3>1. j \in 9..14
      BY <1>3, <2>2
    <3>2. b[i].mask = \hFF00 /\ b[j].mask = \hFF00
      BY <1>2, <2>2, <3>1
    <3> QED BY <3>2, MasksNest
  <2> QED BY <2>1, <2>2
<1> QED BY <1>1, <1>3 DEF Ordered, b

\* opcodeBuckets (types.go), one nibble after the other.
LEMMA BucketsOrdered == \A nibble \in 0..15 : Ordered(nibble)
<1>1. Ordered(0)
  BY OrderedZero
<1>2. Ordered(1)
  BY DEF Ordered, opcodeBuckets
<1>3. Ordered(2)
  BY DEF Ordered, opcodeBuckets
<1>4. Ordered(3)
  BY DEF Ordered, opcodeBuckets
<1>5. Ordered(4)
  BY OrderedFour
<1>6. Ordered(5)
  BY DEF Ordered, opcodeBuckets
<1>7. Ordered(6)
  BY DEF Ordered, opcodeBuckets
<1>8. Ordered(7)
  BY DEF Ordered, opcodeBuckets
<1>9. Ordered(8)
  <2>1. /\ DOMAIN opcodeBuckets[8] = 1..4
        /\ opcodeBuckets[8][1].mask = \hF1F0 /\ opcodeBuckets[8][2].mask = \hF1C0
        /\ opcodeBuckets[8][3].mask = \hF1C0 /\ opcodeBuckets[8][4].mask = \hF000
    BY DEF opcodeBuckets, Pattern
  <2> QED BY <2>1, FourNested
<1>10. Ordered(9)
  BY DEF Ordered, opcodeBuckets
<1>11. Ordered(10)
  BY DEF Ordered, opcodeBuckets
<1>12. Ordered(11)
  BY DEF Ordered, opcodeBuckets
<1>13. Ordered(12)
  <2>1. /\ DOMAIN opcodeBuckets[12] = 1..4
        /\ opcodeBuckets[12][1].mask = \hF1F0 /\ opcodeBuckets[12][2].mask = \hF1C0
        /\ opcodeBuckets[12][3].mask = \hF1C0 /\ opcodeBuckets[12][4].mask = \hF000
    BY DEF opcodeBuckets, Pattern
  <2> QED BY <2>1, FourNested
<1>14. Ordered(13)
  BY DEF Ordered, opcodeBuckets
<1>15. Ordered(14)
  BY DEF Ordered, opcodeBuckets
<1>16. Ordered(15)
  BY DEF Ordered, opcodeBuckets
<1> QED
  <2> SUFFICES ASSUME NEW nibble \in 0..15
               PROVE  Ordered(nibble)
    OBVIOUS
  <2>1. nibble \in {0, 1, 2, 3, 4, 5, 6, 7, 8, 9, 10, 11, 12, 13, 14, 15}
    BY Sixteen
  <2> QED BY ONLY <2>1, <1>1, <1>2, <1>3, <1>4, <1>5, <1>6, <1>7, <1>8, <1>9, <1>10, <1>11, <1>12, <1>13, <1>14, <1>15, <1>16

\* The patterns of a bucket that an opcode matches.
Hits(op, nibble) ==
  {i \in DOMAIN opcodeBuckets[nibble] : Matches(op, opcodeBuckets[nibble][i])}

\* The decoder taken belongs to a pattern that fixes every bit that any other
\* pattern matching the same opcode fixes.
THEOREM FirstIsMostSpecific ==
  ASSUME NEW op \in Nat, NEW nibble, nibble = (op \div 4096) % 16, Hits(op, nibble) # {}
  PROVE  \E i \in Hits(op, nibble) :
           /\ FindDecoder(op) = opcodeBuckets[nibble][i].decoder
           /\ \A j \in Hits(op, nibble) : FixedBits(opcodeBuckets[nibble][j])
                                            \subseteq FixedBits(opcodeBuckets[nibble][i])
<1> DEFINE bucket == opcodeBuckets[nibble]
           hits   == Hits(op, nibble)
           first  == CHOOSE i \in hits : \A j \in hits : i <= j
<1>0. nibble \in 0..15
  OBVIOUS
<1>1. FindDecoder(op) = bucket[first].decoder
  BY DEF FindDecoder, Hits
<1>2. hits \in SUBSET Nat
  BY <1>0, BucketsNamed DEF Named, Hits
<1>3. Ordered(nibble)
  BY <1>0, BucketsOrdered
<1>4. \A i \in hits : i \in DOMAIN bucket /\ Matches(op, bucket[i])
  BY DEF Hits
<1>5. \E i \in hits : \A j \in hits : i <= j
  BY <1>2, Least
<1>6. first \in hits /\ \A j \in hits : first <= j
  BY <1>5
<1> HIDE DEF first
<1>7. ASSUME NEW j \in hits
      PROVE  FixedBits(bucket[j]) \subseteq FixedBits(bucket[first])
  <2>1. CASE j = first
    BY <2>1
  <2>2. CASE j # first
    <3>1. first < j
      BY <1>2, <1>6, <2>2
    <3>2. MayPrecede(bucket[first], bucket[j])
      BY <1>3, <1>4, <1>6, <3>1 DEF Ordered
    <3>3. ~Apart(bucket[first], bucket[j])
      BY <1>4, <1>6, ApartNeverBoth
    <3> QED BY <3>2, <3>3 DEF MayPrecede
  <2> QED BY <2>1, <2>2
<1> QED BY <1>1, <1>6, <1>7

-----------------------------------------------------------------------------
\* The assumption DecoderContract of Answers, discharged for the library: the
\* verdicts of the decoder FindDecoder names honour what decodeInstruction
\* relies on, whatever opcodes and slices (of ten bytes or more) are chosen.
THEOREM LibraryContract ==
  ASSUME NEW MaxLen \in Nat, MaxLen >= 10
  PROVE  \A op \in Nat : FindDecoder(op) # NoDecoder =>
           \A len \in 2..MaxLen :
             /\ Bounded(Decode(FindDecoder(op), op, len), len, MaxLen)
             /\ \A m \in len..MaxLen :
                  Continues(Decode(FindDecoder(op), op, len), len,
                            Decode(FindDecoder(op), op, m), m)
<1> SUFFICES ASSUME NEW op \in Nat, FindDecoder(op) # NoDecoder,
                    NEW len \in 2..MaxLen, NEW m \in len..MaxLen
             PROVE  /\ Bounded(Decode(FindDecoder(op), op, len), len, MaxLen)
                    /\ Continues(Decode(FindDecoder(op), op, len), len,
                                 Decode(FindDecoder(op), op, m), m)
  OBVIOUS
<1>1. FindDecoder(op) \in DecoderNames
  BY FindDecoderFindsADecoder
<1>2. len \in Nat /\ m \in Nat /\ len >= 2 /\ m >= len
  OBVIOUS
<1>3. /\ Bounded(Decode(FindDecoder(op), op, len), len, 10)
      /\ Bounded(Decode(FindDecoder(op), op, m), m, 10)
      /\ Continues(Decode(FindDecoder(op), op, len), len,
                   Decode(FindDecoder(op), op, m), m)
  <2>1. m >= 2
    BY <1>2
  <2> QED BY <1>1, <1>2, <2>1, DecodersHonourContract
<1>4. Twins(Decode(FindDecoder(op), op, len), len, Decode(FindDecoder(op), op, m), m, MaxLen)
  <2>1. Twins(Decode(FindDecoder(op), op, len), len, Decode(FindDecoder(op), op, m), m, 10)
    BY <1>3 DEF Twins
  <2> QED BY <1>2, <2>1, LimitTwins
<1> QED BY <1>4 DEF Twins

=============================================================================
