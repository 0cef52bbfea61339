CONSTANTS
  Byte <- MCByte
  MaxLen <- MCMaxLen
  Slices <- MCSlices
  Known <- MCKnown
  Verdict <- MCVerdict
  AddressSpace <- MCAddressSpace
  Images <- MCImages
  MaxChanges <- MCMaxChanges

SPECIFICATION FairSpec

INVARIANTS
  TypeOK
  AnswersWhatWasDelivered
  NoByteTooMany
  BytesAreMemory
  SliceAgrees
  CauseIsTheLastRead
  IInv

PROPERTIES
  ImplementsPromise
  Returns

\* A call that has returned takes no further step.
CHECK_DEADLOCK FALSE
