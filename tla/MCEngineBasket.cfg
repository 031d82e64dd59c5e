\* One basket of one or two legs, two makers who may also be the requester.
CONSTANTS
  Accounts = {a1, a2}
  Requesters = {a1}
  Makers = {a1, a2}
  Contracts = {c1}
  RequestSlots = {r1}
  QuoteSlots = {q1, q2}
  MaxReservations = 3
  MaxLegs = 2
  MaxQuotesPerLeg = 2
  EventCapacity = 5
  UNIT = 2
  MaxQuoteTtl = 2
  MaxRequestTtl = 2
  MinHorizon = 1
  MaxSettlingTime = 1
  Vacant = Vacant
  Prices = {1, 2}
  Sizes = {1}
  Balances = {3}
  EventDates = {3, 4}
  MaxTime = 2
  MaxArrivals = 3
SPECIFICATION Spec
SYMMETRY Symmetry
INVARIANTS
  TypeOK
  LiveOffersAreBacked
  SettlingFullyFunded
  OneStandingQuotePerMaker
  FeedNeverPessimistic
PROPERTIES
  CommittedUntilAnswered
  NoSilentRelease
