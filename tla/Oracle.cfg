SPECIFICATION OracleSpec
CONSTANTS
  U64_MAX = 6
  FEE_RATE_DENOMINATOR_VALUE = 4
  lock_lp_amount = 1
  MAX_FEE_BASIS_POINTS = 4
  admin = admin
  default_key = default_key
  NoConfig = NoConfig
  Keys <- MCKeys
  CreateRequests <- MCCreate
  UpdateRequests <- MCUpdate
  MintKinds <- MCMints
  Amounts <- MCAmounts
  Limits <- MCLimits
  OpenTimes <- MCOpen
  FeeRequests <- MCAsked
  Statuses <- MCStatus
  Donations <- MCGifts
  MaxTime = 4
  EPOCH_LENGTH = 4
  Q32 = 3
  OBSERVATION_NUM = 2
  OBSERVATION_UPDATE_DURATION_DEFAULT = 2
  CUMULATIVE_MODULUS = 24
INVARIANTS
  TypeOK
  MeanWithinWindow
  WindowLongEnough
PROPERTIES
  NewestKept
