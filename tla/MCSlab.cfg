SPECIFICATION SlabSpec
CONSTANTS
  Capacity = 3
  MaxGeneration = 2
  Values = {v1, v2}
  Vacant = Vacant
  NIL = NIL
INVARIANTS FreeListSound CapacityAccounted
PROPERTIES ImplementsRegistry
\* Every slot may be retired, and then nothing is left to do.
CHECK_DEADLOCK FALSE
