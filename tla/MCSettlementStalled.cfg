\* No lag anywhere, and a settlement that takes longer than MaxSettlingTime.
CONSTANTS
  Accounts = {a1, a2}
  Requesters = {a1}
  Makers = {a2}
  Contracts = {c1}
  RequestSlots = {r1}
  QuoteSlots = {q1}
  MaxLegs = 1
  MaxQuotesPerLeg = 1
  MaxReservations = 2
  MaxEscrows = 2
  EventCapacity = 2
  UNIT = 2
  MaxQuoteTtl = 4
  MaxRequestTtl = 3
  MinHorizon = 5
  MaxSettlingTime = 1
  Confirmations = 0
  BlockTime = 0
  MaxIndexerLag = 0
  MaxInclusionTime = 0
  Vacant = Vacant
  Prices = {1}
  Sizes = {1}
  EventDates = {20}
  Deposits = {1}
  Withdrawals = {1}
  MaxSkew = 0
  MaxTime = 5
  MaxArrivals = 1
  MaxDeposited = 2
  MaxQueue = 1
  MaxSubmissions = 3
  MaxLosses = 1
  MaxRepeats = 2
  MaxHead = 6
  MaxReorgs = 0
  MaxRestarts = 0
SPECIFICATION Spec
INVARIANTS
  InsufficientFundsUnreachable
