---------------------------- MODULE MCRendering -----------------------------
(***************************************************************************)
(* Rendering for the opcodes whose register fields take one value of each  *)
(* kind, behind extension words with and without the sign bit, at the      *)
(* upper end of an address space of 2^20 bytes.                            *)
(***************************************************************************)
EXTENDS Rendering

MCAddressSpace == 1048576

\* Every form of an effective address, with register 0 or 5.
MCOpcodes ==
  {op \in 0..65535 :
     /\ IF SrcMode(op) = 7 THEN SrcReg(op) <= 4 ELSE SrcReg(op) \in {0, 5}
     /\ DstReg(op) \in 0..4}

\* The branches with every displacement byte, and one of each kind there is.
MCBranches == {24576 + 256 * c + d : c \in {0, 1}, d \in 0..255}

\* Words whose halves differ, so that no two operands have the same value.
MCExtensions ==
  { <<99, 32769, 18, 65504>>, <<32868, 7, 65408, 254>>, <<65279, 65535, 32767, 36864>> }

MCEncodings == {<<op>> \o e : op \in MCOpcodes \cup MCBranches, e \in MCExtensions}

Decodes(encoding) ==
  LET decoder == FindDecoder(encoding[1])
  IN  decoder # NoDecoder => Decode(decoder, encoding[1], 10).kind = "ok"

MCPrograms ==
  {[words |-> encoding, address |-> 1048572] : encoding \in {e \in MCEncodings : Decodes(e)}}

=============================================================================
