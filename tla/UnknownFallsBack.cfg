CONSTANT Opcodes <- MCOpcodes

SPECIFICATION Spec

INVARIANT UnknownFallsBack

\* A caller with an answer stops.
CHECK_DEADLOCK FALSE
