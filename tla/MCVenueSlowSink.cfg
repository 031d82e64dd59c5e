SPECIFICATION VenueSpec
CONSTANTS
  Clients = {c1, c2}
  CommandChannel = 1
  EventRing = 1
  CommandLog = 1
  EventBuffer = 2
  MaxSends = 2
  MaxTime = 1
PROPERTIES NeverRefusedWhilePublishing
\* A round that is over stays over.
CHECK_DEADLOCK FALSE
