SPECIFICATION Spec
CONSTANTS
  U64_MAX = 20
  FEE_RATE_DENOMINATOR_VALUE = 7
  lock_lp_amount = 1
  None = None
  Reserves <- MCReserves
  RateChoices <- MCRates
  MAX_FEE_BASIS_POINTS = 8
  CallMints <- MCMints
INVARIANTS
  ExactInIsLargest
  ExactOutIsSmallest
  SwapsAgree
  SplitInputBringsNoMore
  SplitOutputCostsNoLess
  FeesInsideTradeFee
  NoProfitFromShares
  WithdrawKeepsShare
  ArrivesExactly
  NeverMismatch
CHECK_DEADLOCK FALSE
