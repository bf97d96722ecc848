SPECIFICATION Spec
CONSTANTS
  U64_MAX = 6
  FEE_RATE_DENOMINATOR_VALUE = 4
  lock_lp_amount = 1
  MAX_FEE_BASIS_POINTS = 4
  admin = admin
  default_key = default_key
  NoConfig = NoConfig
  collector = collector
  Keys <- MCKeys
  CreateRequests <- GovernedCreate
  UpdateRequests <- GovernedUpdate
  MintKinds <- GovernedMints
  Amounts <- GovernedAmounts
  Limits <- NoLimits
  OpenTimes <- SoonOrAtOnce
  FeeRequests <- OneOrAll
  Statuses <- GovernedStatus
  Donations <- NoAmounts
  MaxTime = 1
  EPOCH_LENGTH = 1
  Q32 = 2
  OBSERVATION_NUM = 2
  OBSERVATION_UPDATE_DURATION_DEFAULT = 2
  CUMULATIVE_MODULUS = 64
INVARIANTS
  Solvent
  ShareValue
  HoldersCanExit
  SwapsAlwaysSettle
