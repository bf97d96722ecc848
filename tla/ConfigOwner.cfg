SPECIFICATION ConfigSpec
CONSTANTS
  U64_MAX = 5
  FEE_RATE_DENOMINATOR_VALUE = 4
  admin = admin
  k1 = k1
  k2 = k2
  default_key = default_key
  NoConfig = NoConfig
  Keys <- MCKeys
  CreateRequests <- MCCreate
  UpdateRequests <- MCUpdate
INVARIANT ConfigOwnerMayUpdate
