\* One basket of one or two legs on a chain with confirmations, a reorg, a restart, a
\* submission that is lost or sent twice, and clocks that disagree.
CONSTANTS
  Accounts = {a1, a2}
  Requesters = {a1}
  Makers = {a2}
  Contracts = {c1}
  RequestSlots = {r1}
  QuoteSlots = {q1, q2}
  MaxLegs = 2
  MaxQuotesPerLeg = 1
  MaxReservations = 3
  MaxEscrows = 2
  EventCapacity = 3
  UNIT = 2
  MaxQuoteTtl = 1
  MaxRequestTtl = 1
  MinHorizon = 2
  MaxSettlingTime = 0
  Confirmations = 1
  BlockTime = 0
  MaxIndexerLag = 0
  MaxInclusionTime = 0
  Vacant = Vacant
  Prices = {1}
  Sizes = {1}
  EventDates = {20}
  Deposits = {2}
  Withdrawals = {}
  MaxSkew = 1
  MaxTime = 1
  MaxArrivals = 2
  MaxDeposited = 4
  MaxQueue = 1
  MaxSubmissions = 3
  MaxLosses = 1
  MaxRepeats = 2
  MaxHead = 5
  MaxReorgs = 1
  MaxRestarts = 1
SPECIFICATION FairSpec
PROPERTIES
  ImplementsAgreement
  SettlingEnds
