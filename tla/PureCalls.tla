----------------------------- MODULE PureCalls -----------------------------
(***************************************************************************)
(* One call at a time of the pure operators, with every argument of a       *)
(* bounded domain, against what the result is for: the curve of             *)
(* CurveCalculator, and the transfer fee that utils/token.rs expects        *)
(* against the fee that the token program takes.                            *)
(***************************************************************************)
EXTENDS CurveCalculator, TokenUtil

CONSTANTS
  Reserves,        \* token amounts: reserves, amounts swapped, shares
  RateChoices,     \* the rates of a configuration
  CallMints,       \* mints that transfers are of
  None

ASSUME CallAssumption ==
  /\ Reserves \subseteq U64 \ {0}
  /\ RateChoices \subseteq [ trade_fee_rate : U64, protocol_fee_rate : U64,
                             fund_fee_rate : U64 ]
  /\ \A r \in RateChoices :
       /\ r.trade_fee_rate < FEE_RATE_DENOMINATOR_VALUE
       /\ r.protocol_fee_rate + r.fund_fee_rate <= FEE_RATE_DENOMINATOR_VALUE
  /\ CallMints \subseteq MintInfos

VARIABLES call, result

SwapCalls ==
  [ kind : {"base_input", "base_output"}, amount : Reserves,
    x : Reserves, y : Reserves, rates : RateChoices ]

\* amount of the supply shares of a pool that holds x of a token
ShareCalls ==
  { c \in [ kind : {"deposit", "withdraw"}, amount : Reserves, x : Reserves,
            supply : Reserves ] :
      c.kind = "withdraw" => c.amount <= c.supply }

\* amount is what should arrive
TransferCalls == [ kind : {"transfer"}, amount : Reserves, mint : CallMints ]

Init == call \in SwapCalls \cup ShareCalls \cup TransferCalls /\ result = None

SwapInput ==
  /\ call.kind = "base_input"
  /\ result' = swap_base_input(call.amount, call.x, call.y, call.rates)

SwapOutput ==
  /\ call.kind = "base_output"
  /\ swap_base_output_without_fees_defined(call.amount, call.y)
  /\ result' = swap_base_output(call.amount, call.x, call.y, call.rates)

DepositWorth ==
  /\ call.kind = "deposit"
  /\ result' = lp_tokens_to_trading_tokens(call.amount, call.supply, call.x, "Ceiling")

WithdrawWorth ==
  /\ call.kind = "withdraw"
  /\ result' = lp_tokens_to_trading_tokens(call.amount, call.supply, call.x, "Floor")

\* deposit.rs:126-143, swap_base_output.rs:23-27 and 113-127
Send ==
  /\ call.kind = "transfer"
  /\ transfer_inverse_fee_defined(call.mint, call.amount)
  /\ result' = call.amount + get_transfer_inverse_fee(call.mint, call.amount)
  /\ result' \in U64

Next ==
  /\ result = None
  /\ SwapInput \/ SwapOutput \/ DepositWorth \/ WithdrawWorth \/ Send
  /\ UNCHANGED call

Spec == Init /\ [][Next]_<<call, result>>

-----------------------------------------------------------------------------
Answered(kind) == call.kind = kind /\ result # None

net_amount(r) == r.source_amount_swapped - r.trade_fee

\* The product of the reserves after net enters and out leaves.
ProductAfter(net, out) == (call.x + net) * (call.y - out)

\* swap_base_input.rs:234 never fires, and the trader gets the largest output
\* that keeps the product: rounding costs less than one unit.
ExactInIsLargest ==
  Answered("base_input") =>
    LET out == result.destination_amount_swapped IN
    /\ ProductAfter(net_amount(result), out) >= call.x * call.y
    /\ ProductAfter(net_amount(result), out + 1) < call.x * call.y

\* The input that swap_base_output.rs charges keeps the product, and no smaller
\* one does, the truncated quotient of math.rs:23-30 and the gross-up of the fee
\* included; an answer of zero is refused by the caller (line 115).
ExactOutIsSmallest ==
  Answered("base_output") /\ result.source_amount_swapped > 0 =>
    LET source == result.source_amount_swapped
        less   == source - 1
    IN  /\ ProductAfter(net_amount(result), call.amount) >= call.x * call.y
        /\ ProductAfter(less - trading_fee(less, call.rates.trade_fee_rate), call.amount)
             < call.x * call.y

\* Paying into an exact-input swap what an exact-output swap would cost buys at
\* least that output: the two swaps quote one price.
SwapsAgree ==
  Answered("base_output") /\ result.source_amount_swapped > 0 =>
    swap_base_input(result.source_amount_swapped, call.x, call.y, call.rates)
      .destination_amount_swapped >= call.amount

\* The shares of the protocol and the fund are inside the trade fee, and the
\* trade fee is inside the input, however each of the three is rounded.
FeesInsideTradeFee ==
  Answered("base_input") \/ Answered("base_output") =>
    /\ result.protocol_fee + result.fund_fee <= result.trade_fee
    /\ result.trade_fee <= result.source_amount_swapped

\* The reserves that a swap leaves for the next one: pool.rs:113-122 keeps the fees
\* owed to the protocol and the fund out of them.
x_after(r) == r.new_swap_source_amount - r.protocol_fee - r.fund_fee

y_after(r) == r.new_swap_destination_amount

\* An input swapped in two pieces brings no more than swapped at once: neither the
\* trade fee of a small piece (fees.rs:27-33), nor the rounding of its output, nor the
\* part of the fee that the second piece meets in the reserves pays for splitting.
SplitInputBringsNoMore ==
  Answered("base_input") =>
    \A part \in 1 .. call.amount - 1 :
      LET first  == swap_base_input(part, call.x, call.y, call.rates)
          second == swap_base_input(call.amount - part, x_after(first), y_after(first),
                                    call.rates)
      IN  first.destination_amount_swapped + second.destination_amount_swapped
            <= result.destination_amount_swapped

\* An output taken in two pieces, neither refused for a price of zero, costs no less
\* than taken at once.
SplitOutputCostsNoLess ==
  Answered("base_output") =>
    \A part \in 1 .. call.amount - 1 :
      LET first  == swap_base_output(part, call.x, call.y, call.rates)
          second == swap_base_output(call.amount - part, x_after(first), y_after(first),
                                     call.rates)
      IN  /\ first.source_amount_swapped > 0
          /\ second.source_amount_swapped > 0
          => first.source_amount_swapped + second.source_amount_swapped
               >= result.source_amount_swapped

\* Shares bought and at once sold back bring no more than they cost.
NoProfitFromShares ==
  Answered("deposit") /\ result > 0 =>
    lp_tokens_to_trading_tokens(call.amount, call.supply + call.amount,
                                call.x + result, "Floor") <= result

\* Who stays keeps the worth of a share when another withdraws.
WithdrawKeepsShare ==
  Answered("withdraw") =>
    (call.x - result) * call.supply >= call.x * (call.supply - call.amount)

\* What arrives is exactly what was wanted, and no smaller transfer brings it:
\* the amounts of deposit.rs and swap_base_output.rs that the pool counts on are
\* the amounts its vaults are credited with.
ArrivesExactly ==
  Answered("transfer") =>
    /\ received(call.mint, result) = call.amount
    /\ \A less \in 0 .. result - 1 : received(call.mint, less) < call.amount

\* TransferFeeCalculateNotMatch (token.rs:151-153) is never returned: no rate and
\* no cap make a deposit or an exact-output swap impossible.
NeverMismatch ==
  call.kind = "transfer" =>
    LET mint == call.mint
        fee  == get_transfer_inverse_fee(mint, call.amount) IN
    /\ charges_transfer_fee(mint)
    /\ mint.basis_points # MAX_FEE_BASIS_POINTS
    /\ calculate_gross_amount(mint, call.amount) \in U64
    => call.amount + fee \in U64 /\ fee = calculate_fee(mint, call.amount + fee)

-----------------------------------------------------------------------------
\* math.rs:21 says "Avoid dividing a small number by a big one and returning 1,
\* and instead fail".
SmallQuotientFails ==
  call.kind # "transfer" /\ checked_ceil_div(call.amount, call.x)[1] = 1 => call.amount >= call.x
=============================================================================
