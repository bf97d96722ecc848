SPECIFICATION Spec
CONSTANTS
  U64_MAX = 3
  admin = admin
  collector = collector
  NoPool = NoPool
  User = User
  Keys <- MCKeys
  Mints <- MCMints
  CreateRequests <- MCCreate
  RateRequests <- MCRates
  OwnerRequests <- MCOwners
  MaxPools = 2
  MaxInstructions = 3
INVARIANTS
  OnePoolPerPair
PROPERTIES
  OthersUntouched
  OwnConfigCharges
  OwnersCollect
CHECK_DEADLOCK FALSE
