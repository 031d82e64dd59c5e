\* A reorg within the confirmation depth discards the announcement of a settlement.
CONSTANTS
  Accounts = {a1, a2}
  Requesters = {a1}
  Makers = {a2}
  Contracts = {c1}
  RequestSlots = {r1}
  QuoteSlots = {q1}
  MaxLegs = 1
  MaxQuotesPerLeg = 1
  MaxReservations = 2
  MaxEscrows = 2
  EventCapacity = 2
  UNIT = 2
  MaxQuoteTtl = 2
  MaxRequestTtl = 1
  MinHorizon = 2
  MaxSettlingTime = 0
  Confirmations = 1
  BlockTime = 0
  MaxIndexerLag = 0
  MaxInclusionTime = 0
  Vacant = Vacant
  Prices = {1}
  Sizes = {1}
  EventDates = {20}
  Deposits = {1}
  Withdrawals = {}
  MaxSkew = 0
  MaxTime = 1
  MaxArrivals = 1
  MaxDeposited = 2
  MaxQueue = 1
  MaxSubmissions = 2
  MaxLosses = 0
  MaxRepeats = 1
  MaxHead = 6
  MaxReorgs = 1
  MaxRestarts = 0
SPECIFICATION FairSpec
PROPERTIES
  UnknownIsADelay
