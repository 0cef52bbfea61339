CONSTANT
  Masks <- MCMasks

SPECIFICATION RegSpec

INVARIANTS
  RegTypeOK
  TextIsMask
  RangesAreMaximal
  RegIInv

\* The call has returned.
CHECK_DEADLOCK FALSE
