--------------------------- MODULE MCRegisterList ---------------------------
(***************************************************************************)
(* RegisterList for all register masks.                                    *)
(***************************************************************************)
EXTENDS RegisterList

MCMasks == SUBSET (0..15)

=============================================================================
