CONSTANT
  Masks <- MCMasks

SPECIFICATION ListsSpec

INVARIANT SameTextSameMask

\* The second call has returned.
CHECK_DEADLOCK FALSE
