-------------------------- MODULE MCRegisterLists ---------------------------
(***************************************************************************)
(* RegisterLists for the masks of D0, D1, D2 and A0, A1, A2.               *)
(***************************************************************************)
EXTENDS RegisterLists

MCMasks == SUBSET ({0, 1, 2} \cup {8, 9, 10})

=============================================================================
