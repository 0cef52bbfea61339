CONSTANT Opcodes <- MCOpcodes

SPECIFICATION Spec

INVARIANT LongImmediateIsLong

\* A caller with an answer stops.
CHECK_DEADLOCK FALSE
