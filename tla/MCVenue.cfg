SPECIFICATION VenueSpec
CONSTANTS
  Clients = {c1, c2}
  CommandChannel = 2
  EventRing = 1
  CommandLog = 1
  EventBuffer = 1
  MaxSends = 2
  MaxTime = 1
INVARIANTS ReplayRebuildsEngine GapsExposeLoss
PROPERTIES RoundEnds AcceptedIsApplied
\* A round that is over stays over.
CHECK_DEADLOCK FALSE
