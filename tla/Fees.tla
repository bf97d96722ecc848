-------------------------------- MODULE Fees --------------------------------
(***************************************************************************)
(* curve/fees.rs: the fees of a swap.  The trade fee is charged on the      *)
(* input, rounded up; the protocol's and the fund's parts are taken out of  *)
(* it, each rounded down, and what is left of it stays with the LPs.        *)
(* All operands are u64 and rates are at most FEE_RATE_DENOMINATOR_VALUE,   *)
(* so no u128 intermediate overflows (see the README).                      *)
(***************************************************************************)
EXTENDS Widths

CONSTANT FEE_RATE_DENOMINATOR_VALUE

ASSUME FeeDenominatorAssumption ==
  /\ FEE_RATE_DENOMINATOR_VALUE \in Nat \ {0}
  /\ FEE_RATE_DENOMINATOR_VALUE <= U64_MAX

\* Mutant: the shares of the protocol and the fund rounded up like the trade fee.
floor_div_up(token_amount, fee_numerator, fee_denominator) ==
  (token_amount * fee_numerator + fee_denominator - 1) \div fee_denominator

floor_div(token_amount, fee_numerator, fee_denominator) ==
  (token_amount * fee_numerator) \div fee_denominator

ceil_div(token_amount, fee_numerator, fee_denominator) ==
  (token_amount * fee_numerator + fee_denominator - 1) \div fee_denominator

trading_fee(amount, trade_fee_rate) ==
  ceil_div(amount, trade_fee_rate, FEE_RATE_DENOMINATOR_VALUE)

protocol_fee(amount, protocol_fee_rate) ==
  floor_div(amount, protocol_fee_rate, FEE_RATE_DENOMINATOR_VALUE)

fund_fee(amount, fund_fee_rate) ==
  floor_div(amount, fund_fee_rate, FEE_RATE_DENOMINATOR_VALUE)

\* Mutant: forgets to round the gross amount up.
calculate_pre_fee_amount_floor(post_fee_amount, trade_fee_rate) ==
  (post_fee_amount * FEE_RATE_DENOMINATOR_VALUE)
    \div (FEE_RATE_DENOMINATOR_VALUE - trade_fee_rate)

\* The gross amount to charge so that post_fee_amount is left after the trade
\* fee.  Defined for trade_fee_rate < FEE_RATE_DENOMINATOR_VALUE.
calculate_pre_fee_amount(post_fee_amount, trade_fee_rate) ==
  IF trade_fee_rate = 0
    THEN post_fee_amount
    ELSE LET denominator == FEE_RATE_DENOMINATOR_VALUE - trade_fee_rate
         IN  (post_fee_amount * FEE_RATE_DENOMINATOR_VALUE + denominator - 1)
               \div denominator
=============================================================================
