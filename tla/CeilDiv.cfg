SPECIFICATION Spec
CONSTANTS
  U64_MAX = 8
  FEE_RATE_DENOMINATOR_VALUE = 7
  lock_lp_amount = 1
  None = None
  Reserves <- MCReserves
  RateChoices <- MCRates
  MAX_FEE_BASIS_POINTS = 8
  CallMints <- MCMints
INVARIANT SmallQuotientFails
CHECK_DEADLOCK FALSE
