CONSTANTS
  Clocks <- MCClocks
  Bitrates <- MCBitrates
SPECIFICATION Spec
CHECK_DEADLOCK FALSE
INVARIANTS
  TypeOK
  FieldsFit
  ExactWhenPossible
