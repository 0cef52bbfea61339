--------------------------- MODULE RegisterLists ----------------------------
(***************************************************************************)
(* Two MOVEM instructions of a listing: formatRegisterList is called for   *)
(* one, then for another.                                                  *)
(***************************************************************************)
EXTENDS RegisterList

VARIABLE former  \* masks and texts of the calls that have returned

ListsInit == RegInit /\ former = {}

Format == RegNext /\ UNCHANGED former

FormatAnother ==
  /\ Finished
  /\ former = {}
  /\ former' = {[mask |-> mask, text |-> ranges]}
  /\ mask' \in Masks
  /\ bit' = 0
  /\ registers' = << >>
  /\ i' = 1
  /\ j' = 1
  /\ ranges' = << >>

ListsNext == Format \/ FormatAnother

ListsSpec == ListsInit /\ [][ListsNext]_<<regVars, former>>

\* A list that is printed the same is the same list.  copilot-instructions.md
\* demands that "reconstructed assembly exactly matches source".
SameTextSameMask ==
  \A call \in former : Finished /\ call.text = ranges => call.mask = mask

=============================================================================
