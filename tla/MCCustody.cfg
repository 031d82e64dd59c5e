\* Two accounts, two bundles, each of which may be submitted again.
CONSTANTS
  a1 = a1
  a2 = a2
  c1 = c1
  n1 = n1
  n2 = n2
  Accounts = {a1, a2}
  Nonces = {n1, n2}
  Contracts = {c1}
  Bundles <- Submittable
  MaxLegs = 2
  MaxEscrows = 2
  WithdrawalDelay = 1
  Amounts = {2, 3}
  MaxTime = 1
  MaxDeposited = 5
  MaxQueue = 2
  MaxSubmissions = 3
SPECIFICATION Spec
INVARIANTS
  Conservation
  EscrowsFormedOncePerSettledNonce
  AvailabilityIsAnnounced
  AnswersAnnouncedOnceAfterDebits
PROPERTIES
  PositionsMoveOnlyByOutcome
CHECK_DEADLOCK FALSE
