SPECIFICATION OrderSpec
CONSTANTS
  U64_MAX = 6
  FEE_RATE_DENOMINATOR_VALUE = 4
  lock_lp_amount = 1
  MAX_FEE_BASIS_POINTS = 4
  admin = admin
  default_key = default_key
  NoConfig = NoConfig
  collector = collector
  Keys <- MCKeys
  CreateRequests <- FeesCreate
  UpdateRequests <- NoRequests
  MintKinds <- FeesMints
  Amounts <- AllUnits
  Limits <- AllLimits
  OpenTimes <- AtOnce
  FeeRequests <- OneOrAll
  Statuses <- NoStatuses
  Donations <- OneUnit
  MaxTime = 1
  MaxLoss = 0
  EPOCH_LENGTH = 2
  Q32 = 2
  OBSERVATION_NUM = 2
  OBSERVATION_UPDATE_DURATION_DEFAULT = 2
  CUMULATIVE_MODULUS = 64
INVARIANTS
  Solvent
  HoldersCanExit
  SwapsAlwaysSettle
  OrdersHonoured
PROPERTIES
  NoDilution
CHECK_DEADLOCK FALSE
