\* Depth two, two reorgs, one restart.
CONSTANTS
  p1 = p1
  Payloads = {p1}
  Confirmations = 2
  MaxHead = 4
  MaxEntries = 3
  MaxReorgs = 2
  MaxRestarts = 1
SPECIFICATION IndexerSpec
INVARIANTS
  HandedIsLogPrefix
PROPERTY
  ConfirmedIsHanded
CHECK_DEADLOCK FALSE
