\* Capital for every quote, so no replacement is refused for want of it.
CONSTANTS
  Accounts = {a1, a2}
  Requesters = {a1}
  Makers = {a2}
  Contracts = {c1}
  RequestSlots = {r1}
  QuoteSlots = {q1, q2}
  MaxReservations = 3
  MaxLegs = 1
  MaxQuotesPerLeg = 2
  EventCapacity = 3
  UNIT = 2
  MaxQuoteTtl = 2
  MaxRequestTtl = 2
  MinHorizon = 1
  MaxSettlingTime = 1
  Vacant = Vacant
  Prices = {1, 2}
  Sizes = {1}
  Balances = {4}
  EventDates = {3}
  MaxTime = 2
  MaxArrivals = 3
SPECIFICATION Spec
SYMMETRY Symmetry
PROPERTIES
  IrrevocableUntilExpiry
