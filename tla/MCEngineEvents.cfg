\* Three makers on one leg, and a buffer smaller than the leg can fill.
CONSTANTS
  Accounts = {a1, a2, a3, a4}
  Requesters = {a1}
  Makers = {a2, a3, a4}
  Contracts = {c1}
  RequestSlots = {r1}
  QuoteSlots = {q1, q2, q3}
  MaxReservations = 4
  MaxLegs = 1
  MaxQuotesPerLeg = 3
  EventCapacity = 2
  UNIT = 2
  MaxQuoteTtl = 2
  MaxRequestTtl = 2
  MinHorizon = 1
  MaxSettlingTime = 1
  Vacant = Vacant
  Prices = {1}
  Sizes = {1}
  Balances = {1}
  EventDates = {3}
  MaxTime = 2
  MaxArrivals = 3
SPECIFICATION Spec
SYMMETRY Symmetry
INVARIANTS
  EventsFit
