SPECIFICATION LedgerSpec
CONSTANTS
  Accounts = {a1, a2}
  RequestSlots = {r1}
  QuoteSlots = {q1, q2, q3}
  ResSlots = {s1, s2, s3, s4}
  Amounts = {1, 2}
  Times = {1, 2}
  Balances = {0, 4}
  Vacant = Vacant
  NIL = NIL
SYMMETRY Interchangeable
INVARIANTS ExpiryChainsSound CommittedListsSound
PROPERTIES ImplementsClaimBook
