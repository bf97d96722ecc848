SPECIFICATION TraderSpec
CONSTANTS
  U64_MAX = 6
  FEE_RATE_DENOMINATOR_VALUE = 4
  lock_lp_amount = 1
  MAX_FEE_BASIS_POINTS = 4
  admin = admin
  default_key = default_key
  NoConfig = NoConfig
  collector = collector
  Keys <- MCKeys
  CreateRequests <- ReservesCreate
  UpdateRequests <- NoRequests
  MintKinds <- PlainMints
  Amounts <- AllUnits
  Limits <- NoLimits
  OpenTimes <- AtOnce
  FeeRequests <- OneOrAll
  Statuses <- NoStatuses
  Donations <- OneUnit
  MaxTime = 0
  MaxLoss = 6
  EPOCH_LENGTH = 1
  Q32 = 2
  OBSERVATION_NUM = 2
  OBSERVATION_UPDATE_DURATION_DEFAULT = 2
  CUMULATIVE_MODULUS = 64
INVARIANTS
  Solvent
  LpBacked
  ShareValue
  NoFreeLunch
PROPERTIES
  NoDilution
  ImplementsMarket
CHECK_DEADLOCK FALSE
