CONSTANTS
  c1 = c1
  c2 = c2
  x1 = x1
  x2 = x2
  authority = authority
  anyone = anyone
  None = None
  Contracts = {c1}
  Escrows = {x1, x2}
  ContractOf <- OnOneContract
  EventDate <- Dates
  StallGrace = 0
  ChallengeWindow = 1
  Accounts = {authority, anyone}
  Authority = authority
  Rulings = {"Yes", "Void"}
  MaxTime = 1
  MaxEntries = 1
  MaxForgets = 0
SPECIFICATION Spec
PROPERTY
  RulingNeedsAContest
CHECK_DEADLOCK FALSE
