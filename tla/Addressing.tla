----------------------------- MODULE Addressing -----------------------------
(***************************************************************************)
(* decodeAddressingMode (internal/decoders/addressing.go): how many        *)
(* extension bytes each of the 68000's effective addresses takes, which    *)
(* context its NeedMoreError names, and which (mode, register) pairs it    *)
(* rejects.  The operand's text and metadata are left out.                 *)
(***************************************************************************)
EXTENDS Verdicts

\* A mode-7 register above 4 is "unknown addressing mode".
ValidMode(mode, reg) == mode < 7 \/ reg <= 4

Extension(bytes, what) == [bytes |-> bytes, context |-> what]

\* The extension words of a valid mode.  An immediate is a long one only
\* when the logical operand is four bytes wide; a byte immediate takes a word.
ExtensionOf(mode, reg, operandSize) ==
  CASE mode \in 0..4           -> Extension(0, "")
    [] mode = 5                -> Extension(2, "displacement")
    [] mode = 6                -> Extension(2, "index extension word")
    [] mode = 7 /\ reg = 0     -> Extension(2, "absolute short address")
    [] mode = 7 /\ reg = 1     -> Extension(4, "absolute long address")
    [] mode = 7 /\ reg = 2     -> Extension(2, "pc displacement")
    [] mode = 7 /\ reg = 3     -> Extension(2, "pc index extension word")
    [] mode = 7 /\ reg = 4 /\ operandSize = 4 -> Extension(4, "long immediate")
    [] mode = 7 /\ reg = 4 /\ operandSize # 4 -> Extension(2, "immediate")

\* Mutation: extension words taken for bytes that are still to be doubled.
EADoublesTwice(cursor, len, mode, reg, operandSize) ==
  IF ValidMode(mode, reg)
  THEN LET ext == ExtensionOf(mode, reg, operandSize)
       IN  Fetch(cursor, len, 2 * ext.bytes, ext.context)
  ELSE Abort(cursor, "unknown addressing mode")

\* decodeEAWithSize: decode the address at the cursor and move behind it.
EA(cursor, len, mode, reg, operandSize) ==
  IF ValidMode(mode, reg)
  THEN LET ext == ExtensionOf(mode, reg, operandSize)
       IN  Fetch(cursor, len, ext.bytes, ext.context)
  ELSE Abort(cursor, "unknown addressing mode")

=============================================================================
