--------------------------- MODULE MCGrowingSlice ---------------------------
(***************************************************************************)
(* GrowingSlice over the whole opcode space.                               *)
(***************************************************************************)
EXTENDS GrowingSlice

MCOpcodes == 0..65535

=============================================================================
