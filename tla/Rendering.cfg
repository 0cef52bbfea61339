CONSTANTS
  AddressSpace <- MCAddressSpace
  Programs <- MCPrograms

SPECIFICATION RenderSpec

INVARIANTS
  RenderTypeOK
  SilentSymbolizer
  SymbolsInPlace
  BytesOutliveBuffer
  WordsUsedOnce
  ImmediatesFit
  AsksForTheAddressMeant
  EveryBitShows
  RenderIInv

\* The call has returned and the caller has reused its slice.
CHECK_DEADLOCK FALSE
