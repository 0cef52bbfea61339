CONSTANT Opcodes <- MCOpcodes

SPECIFICATION FairSpec

INVARIANTS
  TypeOK
  EndsWithTheInstruction
  NeverBeyondTheLongest
  MostSpecificFirst

PROPERTIES
  CountsDown
  Settles

\* A caller with an answer stops.
CHECK_DEADLOCK FALSE
