CONSTANTS
  Byte <- MCByte
  MaxLen <- MCMaxLen
  Slices <- MCSlices
  Known <- MCKnown
  Verdict <- MCVerdict
  AddressSpace <- MCAddressSpace
  Names <- MCNames
  Files <- MCFiles

SPECIFICATION ElfSpec

INVARIANT EveryExecutableSection
