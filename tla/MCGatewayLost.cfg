SPECIFICATION GatewaySpec
CONSTANTS
  ContractRefs = {c1, c2, c3}
  AccountKeys = {k1, k2}
  MaxContracts = 2
  MaxAccounts = 1
  MaxLegs = 2
  Unassigned = Unassigned
  MaxCalls = 3
INVARIANTS KnownToTheCore
CHECK_DEADLOCK FALSE
