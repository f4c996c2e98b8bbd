\* Buffers from empty to a little more than a transaction.
SPECIFICATION Spec
CONSTANT MaxSize = 310
INVARIANTS
  ParsingFailsOnlyOnLength
  SerializingRestoresBytes
CHECK_DEADLOCK FALSE
