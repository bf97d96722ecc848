-------------------------- MODULE CurveCalculator --------------------------
(***************************************************************************)
(* curve/calculator.rs, curve/constant_product.rs and utils/math.rs: the    *)
(* price of a swap and of a share.  x and y are the reserves of the source  *)
(* and of the destination token, net of the fees owed to the protocol and   *)
(* the fund.  The arguments are u64 values widened to u128, so a product of *)
(* two never overflows.  An unwrapped operation that can still fail is a    *)
(* "..._defined" condition: the instruction panics when it is false.        *)
(***************************************************************************)
EXTENDS Fees

CONSTANT lock_lp_amount      \* instructions/initialize.rs: LP tokens never minted

ASSUME LockAssumption == lock_lp_amount \in Nat \ {0}

validate_supply(token_0_amount, token_1_amount) ==
  token_0_amount # 0 /\ token_1_amount # 0

-----------------------------------------------------------------------------
\* Mutant: a plain truncating division.
checked_ceil_div_truncating(dividend, rhs) == <<dividend \div rhs, rhs>>

\* <<quotient, smallest divisor giving that quotient>>.  A dividend smaller
\* than the divisor is rounded to the nearest of 0 and 1, not up.
checked_ceil_div(dividend, rhs) ==
  LET quotient == dividend \div rhs
      up       == quotient + 1
  IN  CASE quotient = 0 /\ 2 * dividend >= rhs    -> <<1, 0>>
        [] quotient = 0 /\ 2 * dividend < rhs     -> <<0, 0>>
        [] quotient > 0 /\ dividend % rhs = 0     -> <<quotient, rhs>>
        [] OTHER -> <<up, (dividend + up - 1) \div up>>

-----------------------------------------------------------------------------
\* Mutant: rounds in the trader's favour.
swap_base_input_without_fees_up(source_amount, x, y) ==
  (source_amount * y + x + source_amount - 1) \div (x + source_amount)

\* The trader pays source_amount of x and takes what keeps x * y, rounded down.
swap_base_input_without_fees(source_amount, x, y) ==
  (source_amount * y) \div (x + source_amount)

\* The trader takes destination_amount of y; a swap for all of y divides by zero.
swap_base_output_without_fees_defined(destination_amount, y) ==
  destination_amount < y

swap_base_output_without_fees(destination_amount, x, y) ==
  checked_ceil_div(x * destination_amount, y - destination_amount)[1]

-----------------------------------------------------------------------------
\* SwapResult.  The trade fee is part of source_amount_swapped.
SwapResult(source_amount, destination_amount, x, y, rates) ==
  LET fee == trading_fee(source_amount, rates.trade_fee_rate) IN
  [ new_swap_source_amount      |-> x + source_amount,
    new_swap_destination_amount |-> y - destination_amount,
    source_amount_swapped       |-> source_amount,
    destination_amount_swapped  |-> destination_amount,
    trade_fee                   |-> fee,
    protocol_fee                |-> protocol_fee(fee, rates.protocol_fee_rate),
    fund_fee                    |-> fund_fee(fee, rates.fund_fee_rate) ]

swap_base_input(source_amount, x, y, rates) ==
  LET net == source_amount - trading_fee(source_amount, rates.trade_fee_rate)
  IN  SwapResult(source_amount, swap_base_input_without_fees(net, x, y), x, y, rates)

\* Mutant: charges the trade fee on the net amount instead of grossing it up.
swap_base_output_net(destination_amount, x, y, rates) ==
  LET swapped == swap_base_output_without_fees(destination_amount, x, y)
      source_amount == swapped + trading_fee(swapped, rates.trade_fee_rate)
  IN  SwapResult(source_amount, destination_amount, x, y, rates)

swap_base_output(destination_amount, x, y, rates) ==
  LET swapped == swap_base_output_without_fees(destination_amount, x, y)
      source_amount == calculate_pre_fee_amount(swapped, rates.trade_fee_rate)
  IN  SwapResult(source_amount, destination_amount, x, y, rates)

-----------------------------------------------------------------------------
\* Mutant: the rounding directions exchanged.
lp_tokens_to_trading_tokens_exchanged(lp_tokens, lp_supplied, amount, direction) ==
  IF direction = "Floor"
    THEN (lp_tokens * amount + lp_supplied - 1) \div lp_supplied
    ELSE (lp_tokens * amount) \div lp_supplied

\* What lp_tokens of the lp_supplied shares are worth of a token of which
\* the pool has amount; the code computes both tokens alike.  A worth below one
\* unit is 0 in both directions, and the callers reject it.
lp_tokens_to_trading_tokens(lp_tokens, lp_supplied, amount, round_direction) ==
  LET product == lp_tokens * amount
      floor   == product \div lp_supplied
  IN  IF /\ round_direction = "Ceiling"
         /\ floor > 0
         /\ product % lp_supplied > 0
        THEN floor + 1
        ELSE floor
=============================================================================
