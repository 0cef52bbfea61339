CONSTANTS
  Byte <- MCByte
  MaxLen <- MCMaxLen
  Slices <- MCSlices
  Known <- MCKnown
  Verdict <- MCVerdict
  AddressSpace <- MCAddressSpace
  Images <- MCImages
  MaxChanges <- MCMaxChanges

SPECIFICATION ExampleSpec

INVARIANT StreamedExampleDecodes

\* A call that has returned takes no further step.
CHECK_DEADLOCK FALSE
