CONSTANTS
  Byte <- MCByte
  MaxLen <- MCMaxLen
  Slices <- MCSlices
  Known <- MCKnown
  Verdict <- MCVerdict
  AddressSpace <- MCAddressSpace
  Names <- MCNames
  Files <- MCFiles

SPECIFICATION ElfFairSpec

INVARIANTS
  ElfTypeOK
  MapIsWhole
  CallsAgree
  ElfIInv

PROPERTIES
  CallsReturn
