\* A basket of two legs that one maker may win with money for only one of them, and
\* withdrawals asked for meanwhile.
CONSTANTS
  Accounts = {a1, a2}
  Requesters = {a1}
  Makers = {a2}
  Contracts = {c1}
  RequestSlots = {r1}
  QuoteSlots = {q1, q2}
  MaxLegs = 2
  MaxQuotesPerLeg = 1
  MaxReservations = 3
  MaxEscrows = 2
  EventCapacity = 3
  UNIT = 3
  MaxQuoteTtl = 1
  MaxRequestTtl = 1
  MinHorizon = 2
  MaxSettlingTime = 0
  Confirmations = 0
  BlockTime = 0
  MaxIndexerLag = 0
  MaxInclusionTime = 0
  Vacant = Vacant
  Prices = {1}
  Sizes = {1}
  EventDates = {20}
  Deposits = {2}
  Withdrawals = {2}
  MaxSkew = 0
  MaxTime = 2
  MaxArrivals = 2
  MaxDeposited = 6
  MaxQueue = 1
  MaxSubmissions = 1
  MaxLosses = 0
  MaxRepeats = 1
  MaxHead = 6
  MaxReorgs = 0
  MaxRestarts = 0
SPECIFICATION Spec
INVARIANTS
  FundsHeldUnlessOverdue
PROPERTIES
  ImplementsAgreement
SYMMETRY Symmetry
