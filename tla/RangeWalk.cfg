CONSTANTS
  Byte <- MCByte
  MaxLen <- MCMaxLen
  Slices <- MCSlices
  Known <- MCKnown
  Verdict <- MCVerdict
  AddressSpace <- MCAddressSpace

SPECIFICATION FairSpec

INVARIANTS
  TypeOK
  Adjacent
  Tiled
  StopsForAReason
  CutShort
  WalkIInv

PROPERTIES
  WalkReturns

\* DisassembleRange takes no step after it has returned.
CHECK_DEADLOCK FALSE
