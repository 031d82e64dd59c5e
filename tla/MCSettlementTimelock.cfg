\* The shortest withdrawal delay the configuration accepts, a lagging indexer, and
\* settlements that may take as long as they like.
CONSTANTS
  Accounts = {a1, a2}
  Requesters = {a1}
  Makers = {a2}
  Contracts = {c1}
  RequestSlots = {r1}
  QuoteSlots = {q1}
  MaxLegs = 1
  MaxQuotesPerLeg = 1
  MaxReservations = 2
  MaxEscrows = 2
  EventCapacity = 2
  UNIT = 2
  MaxQuoteTtl = 1
  MaxRequestTtl = 3
  MinHorizon = 5
  MaxSettlingTime = 1
  Confirmations = 0
  BlockTime = 0
  MaxIndexerLag = 1
  MaxInclusionTime = 0
  Vacant = Vacant
  Prices = {1}
  Sizes = {1}
  EventDates = {20}
  Deposits = {1}
  Withdrawals = {1}
  MaxSkew = 0
  MaxTime = 6
  MaxArrivals = 1
  MaxDeposited = 2
  MaxQueue = 1
  MaxSubmissions = 1
  MaxLosses = 0
  MaxRepeats = 1
  MaxHead = 6
  MaxReorgs = 0
  MaxRestarts = 0
SPECIFICATION Spec
INVARIANTS
  FundsHeldUnlessOverdue
  PromisesAreHeld
  MirrorIsExact
  MakersCannotQuoteAndRun
