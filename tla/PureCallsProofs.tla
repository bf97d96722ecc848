--------------------------- MODULE PureCallsProofs ---------------------------
(***************************************************************************)
(* Theorems about PureCalls for every width, every denominator of the fees  *)
(* and every mint.  A call is answered once and the answer is kept, so each *)
(* theorem is a fact about the operators: each is a lemma here, whose       *)
(* arguments are the naturals that the call is made with.                   *)
(***************************************************************************)
EXTENDS PureCalls, CurveLemmas

Calls == SwapCalls \cup ShareCalls \cup TransferCalls

Answer(r) ==
  \/ call.kind = "base_input" /\ r = swap_base_input(call.amount, call.x, call.y, call.rates)
  \/ /\ call.kind = "base_output" /\ call.amount < call.y
     /\ r = swap_base_output(call.amount, call.x, call.y, call.rates)
  \/ /\ call.kind = "deposit"
     /\ r = lp_tokens_to_trading_tokens(call.amount, call.supply, call.x, "Ceiling")
  \/ /\ call.kind = "withdraw"
     /\ r = lp_tokens_to_trading_tokens(call.amount, call.supply, call.x, "Floor")
  \/ /\ call.kind = "transfer"
     /\ transfer_inverse_fee_defined(call.mint, call.amount)
     /\ r = call.amount + get_transfer_inverse_fee(call.mint, call.amount)

\* Every answer is that of its call.
CallInv == call \in Calls /\ (result = None \/ Answer(result))

-----------------------------------------------------------------------------
(* The shares *)

\* Shares are sold at once for no more than they were bought for.
LEMMA SharesBoughtAndSold ==
  ASSUME NEW shares \in Nat, NEW supply \in Nat \ {0}, NEW x \in Nat,
         NEW cost,
         cost = lp_tokens_to_trading_tokens(shares, supply, x, "Ceiling"), cost > 0
  PROVE  lp_tokens_to_trading_tokens(shares, supply + shares, x + cost, "Floor") <= cost
  <1> DEFINE worth == lp_tokens_to_trading_tokens(shares, supply + shares, x + cost, "Floor")
  <1>1. cost \in Nat /\ shares * x <= cost * supply
    BY CeilingWorth
  <1>2. supply + shares \in Nat \ {0} /\ x + cost \in Nat
    BY <1>1
  <1>3. worth \in Nat /\ worth * (supply + shares) <= shares * (x + cost)
    BY <1>2, FloorWorth
  <1> HIDE DEF worth
  <1>4. shares * (x + cost) <= cost * (supply + shares)
    <2>1. shares * (x + cost) = shares * x + shares * cost
          /\ cost * (supply + shares) = cost * supply + shares * cost
          /\ shares * x \in Int /\ shares * cost \in Int /\ cost * supply \in Int
      BY <1>1
    <2> QED
      BY <1>1, <2>1
  <1>5. worth * (supply + shares) <= cost * (supply + shares)
    <2>1. /\ worth * (supply + shares) \in Int /\ cost * (supply + shares) \in Int
          /\ shares * (x + cost) \in Int
      BY <1>1, <1>3
    <2> QED
      BY <1>3, <1>4, <2>1
  <1>6. worth <= cost
    BY <1>1, <1>2, <1>3, <1>5, CancelFactor
  <1> QED
    BY <1>6 DEF worth

-----------------------------------------------------------------------------
(* The transfers *)

\* The fee found for a wanted amount is the fee the token program takes on the two
\* together, and no smaller transfer brings as much: with any rate below 100%.
LEMMA GrossTransfer ==
  ASSUME NEW mint \in MintInfos, NEW wanted \in Nat,
         mint.basis_points # MAX_FEE_BASIS_POINTS
  PROVE  LET gross == calculate_gross_amount(mint, wanted) IN
         /\ gross \in Nat
         /\ wanted + calculate_inverse_fee(mint, wanted) = gross
         /\ \A less \in Nat : less < gross => less - calculate_fee(mint, less) < wanted
  <1> DEFINE M == MAX_FEE_BASIS_POINTS
             b == mint.basis_points
             c == mint.maximum_fee
             d == M - b
             g == (wanted * M + d - 1) \div d
             part(k) == (k * b + M - 1) \div M
             gross == calculate_gross_amount(mint, wanted)
  <1>1. M \in Nat \ {0} /\ b \in Nat /\ b < M /\ c \in Nat
    BY BasisPointsAssumption, WidthAssumption DEF MintInfos, U64
  <1>2. gross = smaller(g, wanted + c)
    BY DEF calculate_gross_amount
  <1>3. /\ \A k : calculate_fee(mint, k) = smaller(part(k), c)
        /\ calculate_inverse_fee(mint, wanted) = smaller(part(gross), c)
    BY DEF calculate_fee, calculate_inverse_fee
  <1> HIDE DEF M, b, c, gross
  <1>4. d \in Nat \ {0} /\ wanted * M \in Nat
    BY <1>1
  <1>5. g \in Nat /\ wanted * M <= g * d /\ g * d < wanted * M + d
    <2> HIDE DEF d
    <2> QED
      BY <1>4, CeilingBounds
  <1> HIDE DEF g
  <1>6. /\ wanted <= g
        /\ part(g) = g - wanted
        /\ \A less \in Nat : less < g => less - part(less) < wanted
    BY <1>1, <1>5, GrossUp
  <1>7. \A k \in Nat : k * b \in Nat
    BY <1>1
  <1>8. \A k \in Nat : part(k) \in Nat
    BY <1>1, <1>7, CeilingBounds
  <1>9. gross \in Nat /\ gross <= g /\ gross <= wanted + c
    BY <1>1, <1>2, <1>5 DEF smaller
  <1>10. wanted + smaller(part(gross), c) = gross
    <2>1. CASE g <= wanted + c
      <3>1. gross = g
        BY <1>2, <2>1 DEF smaller
      <3>2. part(gross) = g - wanted
        BY <1>6, <3>1
      <3> HIDE DEF part
      <3> QED
        BY <1>1, <1>5, <2>1, <3>1, <3>2 DEF smaller
    <2>2. CASE ~(g <= wanted + c)
      <3>1. gross = wanted + c
        BY <1>2, <2>2 DEF smaller
      <3>2. gross < g
        BY <1>1, <1>5, <2>2, <3>1
      <3>3. gross - part(gross) < wanted
        BY <1>6, <1>9, <3>2
      <3>4. part(gross) \in Nat
        BY <1>8, <1>9
      <3> HIDE DEF part
      <3>5. c <= part(gross)
        BY <1>1, <3>1, <3>3, <3>4
      <3> QED
        BY <1>1, <3>1, <3>4, <3>5 DEF smaller
    <2> QED
      BY <2>1, <2>2
  <1>11. ASSUME NEW less \in Nat, less < gross
         PROVE  less - smaller(part(less), c) < wanted
    <2>1. less < g /\ less < wanted + c
      BY <1>1, <1>5, <1>9, <1>11
    <2>2. less - part(less) < wanted /\ part(less) \in Nat
      BY <1>6, <1>8, <2>1
    <2> HIDE DEF part
    <2> QED
      BY <1>1, <2>1, <2>2 DEF smaller
  <1>12. /\ wanted + calculate_inverse_fee(mint, wanted) = gross
         /\ \A less \in Nat : less < gross => less - calculate_fee(mint, less) < wanted
    <2> HIDE DEF part
    <2> QED
      BY <1>3, <1>10, <1>11
  <1> QED
    BY <1>9, <1>12 DEF gross

\* The same of every mint the pool may hold.
LEMMA LeastTransfer ==
  ASSUME NEW mint \in MintInfos, NEW wanted \in Nat \ {0},
         NEW less \in Nat, less < wanted + get_transfer_inverse_fee(mint, wanted)
  PROVE  received(mint, less) < wanted
  <1>1. CASE ~charges_transfer_fee(mint)
    BY <1>1 DEF get_transfer_inverse_fee, received, get_transfer_fee
  <1>2. CASE charges_transfer_fee(mint) /\ mint.basis_points # MAX_FEE_BASIS_POINTS
    <2>1. get_transfer_inverse_fee(mint, wanted) = calculate_inverse_fee(mint, wanted)
      BY <1>2 DEF get_transfer_inverse_fee
    <2>2. less < calculate_gross_amount(mint, wanted)
      BY <1>2, <2>1, GrossTransfer
    <2>3. less - calculate_fee(mint, less) < wanted
      BY <1>2, <2>2, GrossTransfer
    <2> QED
      BY <1>2, <2>3 DEF received, get_transfer_fee
  <1>3. CASE charges_transfer_fee(mint) /\ mint.basis_points = MAX_FEE_BASIS_POINTS
    <2>1. mint.maximum_fee \in Nat
      BY WidthAssumption DEF MintInfos, U64
    <2>2. less < wanted + mint.maximum_fee
      BY <1>3 DEF get_transfer_inverse_fee
    <2>3. received(mint, less) = less - smaller(less, mint.maximum_fee)
      BY <1>3, CalculatedFee DEF received, get_transfer_fee
    <2> QED
      BY <2>1, <2>2, <2>3 DEF smaller
  <1> QED
    BY <1>1, <1>2, <1>3

-----------------------------------------------------------------------------
(* Swaps in pieces *)

\* The trade fee of two pieces is no less than that of the whole: it is rounded up.
LEMMA FeeOfPieces ==
  ASSUME NEW a \in Nat, NEW b \in Nat, NEW rate \in Nat,
         rate <= FEE_RATE_DENOMINATOR_VALUE
  PROVE  trading_fee(a + b, rate) <= trading_fee(a, rate) + trading_fee(b, rate)
  <1> DEFINE D == FEE_RATE_DENOMINATOR_VALUE
             fee(k) == (k * rate + D - 1) \div D
  <1>1. D \in Nat \ {0}
    BY FeeDenominatorAssumption
  <1>2. \A k : trading_fee(k, rate) = fee(k)
    BY DEF trading_fee, ceil_div
  <1> HIDE DEF D
  <1>3. \A k \in Nat : fee(k) \in Nat /\ k * rate <= fee(k) * D /\ fee(k) * D < k * rate + D
    <2> SUFFICES ASSUME NEW k \in Nat
                 PROVE  fee(k) \in Nat /\ k * rate <= fee(k) * D /\ fee(k) * D < k * rate + D
      OBVIOUS
    <2>1. k * rate \in Nat
      OBVIOUS
    <2> QED
      BY <1>1, <2>1, CeilingBounds
  <1> HIDE DEF fee
  <1>4. a + b \in Nat /\ (a + b) * rate = a * rate + b * rate
        /\ a * rate \in Nat /\ b * rate \in Nat
    OBVIOUS
  <1>5. fee(a + b) * D < (a + b) * rate + D
    BY <1>3, <1>4
  <1>6. a * rate <= fee(a) * D /\ b * rate <= fee(b) * D
    BY <1>3
  <1>7. fee(a + b) \in Nat /\ fee(a) \in Nat /\ fee(b) \in Nat
    BY <1>3, <1>4
  <1>8. (fee(a) + fee(b) + 1) * D = fee(a) * D + fee(b) * D + D
        /\ fee(a) * D \in Int /\ fee(b) * D \in Int /\ fee(a + b) * D \in Int
    BY <1>1, <1>7
  <1>9. fee(a + b) * D < (fee(a) + fee(b) + 1) * D
    BY <1>1, <1>4, <1>5, <1>6, <1>8
  <1>10. fee(a + b) < fee(a) + fee(b) + 1
    BY <1>1, <1>7, <1>9, CancelStrict
  <1> QED
    BY <1>2, <1>7, <1>10

\* Two swaps that each keep the product keep that of the first reserves, though the
\* second is at reserves that hold some of the first one's fee as well.
LEMMA PiecesKeepProduct ==
  ASSUME NEW x \in Nat, NEW y \in Nat, NEW net1 \in Nat, NEW net2 \in Nat,
         NEW out1 \in Nat, NEW out2 \in Nat, NEW x2 \in Nat, NEW y2 \in Nat,
         x + net1 <= x2, y2 = y - out1, out2 <= y2,
         (x + net1) * y2 >= x * y,
         (x2 + net2) * (y2 - out2) >= x2 * y2
  PROVE  (x + (net1 + net2)) * (y - (out1 + out2)) >= x * y
  <1> DEFINE a == x + net1
             t == x2 - a
             w == y2 - out2
  <1>1. a \in Nat /\ t \in Nat /\ w \in Nat /\ w <= y2 /\ x2 = a + t
    OBVIOUS
  <1>2. y - (out1 + out2) = w /\ x + (net1 + net2) = a + net2
    OBVIOUS
  <1>3. a * y2 >= x * y /\ ((a + t) + net2) * w >= (a + t) * y2
    BY <1>1
  <1> HIDE DEF a, t, w
  <1>4. t * w <= t * y2
    BY <1>1, ProductMonotone
  <1>5. /\ ((a + t) + net2) * w = (a + net2) * w + t * w
        /\ (a + t) * y2 = a * y2 + t * y2
    BY <1>1
  <1>6. /\ (a + net2) * w \in Int /\ t * w \in Int /\ a * y2 \in Int /\ t * y2 \in Int
        /\ x * y \in Int
    BY <1>1
  <1>7. (a + net2) * w >= x * y
    BY <1>3, <1>4, <1>5, <1>6
  <1> QED
    BY <1>2, <1>7

\* What is used below of the result r of swapping the input a: it leaves at least the
\* product, and one unit more of output would not.
InputKept(r, a, x, y, rate) ==
  LET net == a - trading_fee(a, rate)
      out == r.destination_amount_swapped
  IN  /\ net \in Nat /\ out \in Nat /\ x_after(r) \in Nat \ {0} /\ y_after(r) \in Nat
      /\ x + net <= x_after(r) /\ y_after(r) = y - out
      /\ (x + net) * y_after(r) >= x * y
      /\ (x + net) * (y - (out + 1)) < x * y

LEMMA InputAnswer ==
  ASSUME NEW a \in Nat, NEW x \in Nat \ {0}, NEW y \in Nat, NEW rates,
         rates.trade_fee_rate \in Nat, rates.protocol_fee_rate \in Nat,
         rates.fund_fee_rate \in Nat,
         rates.trade_fee_rate < FEE_RATE_DENOMINATOR_VALUE,
         rates.protocol_fee_rate + rates.fund_fee_rate <= FEE_RATE_DENOMINATOR_VALUE,
         NEW r, r = swap_base_input(a, x, y, rates)
  PROVE  InputKept(r, a, x, y, rates.trade_fee_rate)
  <1> DEFINE fee == trading_fee(a, rates.trade_fee_rate)
             net == a - fee
             out == swap_base_input_without_fees(net, x, y)
             p   == protocol_fee(fee, rates.protocol_fee_rate)
             f   == fund_fee(fee, rates.fund_fee_rate)
  <1>1. fee \in Nat /\ fee <= a
    <2>1. rates.trade_fee_rate <= FEE_RATE_DENOMINATOR_VALUE
      BY FeeDenominatorAssumption
    <2> QED
      BY <2>1, TradingFeeAtMost
  <1>2. p \in Nat /\ f \in Nat /\ p + f <= fee
    <2> HIDE DEF fee
    <2> QED
      BY <1>1, SharesAtMostTradeFee
  <1>3. /\ r.destination_amount_swapped = out
        /\ r.new_swap_source_amount = x + a
        /\ r.new_swap_destination_amount = y - out
        /\ r.protocol_fee = p /\ r.fund_fee = f
    BY DEF swap_base_input, SwapResult
  <1> HIDE DEF fee, p, f
  <1>4. net \in Nat /\ (x + a) - p - f \in Nat \ {0} /\ x + net <= (x + a) - p - f
    BY <1>1, <1>2
  <1> HIDE DEF net
  <1>5. /\ out \in Nat
        /\ (x + net) * (y - out) >= x * y
        /\ (x + net) * (y - (out + 1)) < x * y
    BY <1>4, LargestOutput
  <1> HIDE DEF out
  <1>6. y - out \in Nat
    <2> SUFFICES ASSUME y - out < 0 PROVE FALSE
      BY <1>5
    <2> DEFINE z == x + net
               m == out - y
    <2>1. z \in Nat \ {0} /\ m \in Nat \ {0} /\ y - out = 0 - m
      BY <1>4, <1>5
    <2>2. z * (y - out) >= x * y /\ x * y \in Nat
      BY <1>5
    <2> HIDE DEF z, m
    <2>3. z * (0 - m) < 0
      BY <2>1
    <2> QED
      BY <2>1, <2>2, <2>3
  <1> QED
    BY <1>3, <1>4, <1>5, <1>6 DEF net, fee, InputKept, x_after, y_after

\* An input in two pieces brings no more than the whole.
LEMMA InputPieces ==
  ASSUME NEW a \in Nat, NEW b \in Nat, NEW x \in Nat \ {0}, NEW y \in Nat, NEW rates,
         rates.trade_fee_rate \in Nat, rates.protocol_fee_rate \in Nat,
         rates.fund_fee_rate \in Nat,
         rates.trade_fee_rate < FEE_RATE_DENOMINATOR_VALUE,
         rates.protocol_fee_rate + rates.fund_fee_rate <= FEE_RATE_DENOMINATOR_VALUE,
         NEW first, first = swap_base_input(a, x, y, rates),
         NEW second,
         second = swap_base_input(b, x_after(first), y_after(first), rates),
         NEW whole, whole = swap_base_input(a + b, x, y, rates)
  PROVE  first.destination_amount_swapped + second.destination_amount_swapped
           <= whole.destination_amount_swapped
  <1> DEFINE rate == rates.trade_fee_rate
             fee(k) == trading_fee(k, rate)
             net1 == a - fee(a)
             net2 == b - fee(b)
             net  == (a + b) - fee(a + b)
             out1 == first.destination_amount_swapped
             out2 == second.destination_amount_swapped
             out  == whole.destination_amount_swapped
             x2   == x_after(first)
             y2   == y_after(first)
  <1>1. InputKept(first, a, x, y, rate)
    BY InputAnswer
  <1>2. /\ net1 \in Nat /\ out1 \in Nat /\ x2 \in Nat \ {0} /\ y2 \in Nat
        /\ x + net1 <= x2 /\ y2 = y - out1
        /\ (x + net1) * y2 >= x * y
    BY <1>1 DEF InputKept
  <1>3. InputKept(second, b, x2, y2, rate)
    BY <1>2, InputAnswer
  <1>4. InputKept(whole, a + b, x, y, rate)
    <2>1. a + b \in Nat
      OBVIOUS
    <2> QED
      BY <2>1, InputAnswer
  <1>5. net \in Nat /\ out \in Nat /\ (x + net) * (y - (out + 1)) < x * y
    BY <1>4 DEF InputKept
  <1>6. /\ net2 \in Nat /\ out2 \in Nat /\ y2 - out2 \in Nat
        /\ (x2 + net2) * (y2 - out2) >= x2 * y2
    <2> DEFINE y3 == y_after(second)
    <2>1. /\ net2 \in Nat /\ out2 \in Nat /\ y3 \in Nat /\ y3 = y2 - out2
          /\ (x2 + net2) * y3 >= x2 * y2
      BY <1>3 DEF InputKept
    <2> QED
      BY <2>1
  <1>7. net1 + net2 <= net
    <2>1. fee(a + b) <= fee(a) + fee(b)
          /\ fee(a) \in Nat /\ fee(b) \in Nat /\ fee(a + b) \in Nat
      <3>1. rate <= FEE_RATE_DENOMINATOR_VALUE /\ rate \in Nat /\ a + b \in Nat
        BY FeeDenominatorAssumption
      <3> HIDE DEF rate
      <3> QED
        BY <3>1, FeeOfPieces, TradingFeeAtMost
    <2> QED
      BY <2>1
  <1> HIDE DEF x2, y2, net1, net2, net, out1, out2, out, fee
  <1>8. (x + (net1 + net2)) * (y - (out1 + out2)) >= x * y
    <2>1. out2 <= y2 /\ x2 \in Nat /\ x \in Nat
      BY <1>2, <1>6
    <2> QED
      BY <1>2, <1>6, <2>1, PiecesKeepProduct
  <1>9. y - (out1 + out2) \in Nat
    BY <1>2, <1>6
  <1> DEFINE z == x + net
             w == y - (out1 + out2)
             v == y - (out + 1)
  <1>10. z \in Nat \ {0} /\ w \in Nat /\ v \in Int /\ x + (net1 + net2) <= z
         /\ x + (net1 + net2) \in Nat
    BY <1>2, <1>5, <1>6, <1>7, <1>9
  <1>11. (x + (net1 + net2)) * w <= z * w
    <2> HIDE DEF z, w
    <2> QED
      BY <1>10, ProductMonotone
  <1>12. (x + (net1 + net2)) * w >= x * y /\ z * v < x * y
    BY <1>5, <1>8
  <1> HIDE DEF z, w, v
  <1>13. v * z < w * z
    <2>1. z * w \in Int /\ (x + (net1 + net2)) * w \in Int /\ x * y \in Int /\ z * v \in Int
          /\ z * w = w * z /\ z * v = v * z
      BY <1>10
    <2> QED
      BY <1>11, <1>12, <2>1
  <1>14. v < w
    BY <1>10, <1>13, CancelStrict
  <1>15. out1 + out2 <= out
    BY <1>2, <1>5, <1>6, <1>14 DEF v, w
  <1> QED
    BY <1>15 DEF out1, out2, out

\* What is used below of the result r of taking the output out: the trade fee leaves the
\* least input that keeps the product, and less would leave less.
OutputKept(r, out, x, y, rate) ==
  LET source == r.source_amount_swapped
      net    == source - trading_fee(source, rate)
  IN  /\ source \in Nat /\ net \in Nat /\ net > 0
      /\ x_after(r) \in Nat \ {0} /\ x + net <= x_after(r) /\ y_after(r) = y - out
      /\ (x + net) * y_after(r) >= x * y
      /\ (x + (net - 1)) * (y - out) < x * y
      /\ \A less \in Nat : less < source => less - trading_fee(less, rate) < net

LEMMA OutputAnswer ==
  ASSUME NEW out \in Nat, NEW x \in Nat \ {0}, NEW y \in Nat, out < y, NEW rates,
         rates.trade_fee_rate \in Nat, rates.protocol_fee_rate \in Nat,
         rates.fund_fee_rate \in Nat,
         rates.trade_fee_rate < FEE_RATE_DENOMINATOR_VALUE,
         rates.protocol_fee_rate + rates.fund_fee_rate <= FEE_RATE_DENOMINATOR_VALUE,
         NEW r, r = swap_base_output(out, x, y, rates), r.source_amount_swapped > 0
  PROVE  OutputKept(r, out, x, y, rates.trade_fee_rate)
  <1> DEFINE rate   == rates.trade_fee_rate
             net    == swap_base_output_without_fees(out, x, y)
             source == calculate_pre_fee_amount(net, rate)
             fee    == trading_fee(source, rate)
             p      == protocol_fee(fee, rates.protocol_fee_rate)
             f      == fund_fee(fee, rates.fund_fee_rate)
  <1>1. /\ r.source_amount_swapped = source
        /\ r.new_swap_source_amount = x + source
        /\ r.new_swap_destination_amount = y - out
        /\ r.protocol_fee = p /\ r.fund_fee = f
    BY DEF swap_base_output, SwapResult
  <1>2. source > 0
    BY <1>1
  <1> HIDE DEF source, net
  <1>3. /\ net \in Nat /\ source \in Nat /\ source - fee = net
        /\ (x + net) * (y - out) >= x * y
        /\ net > 0 /\ (x + (net - 1)) * (y - out) < x * y
    BY <1>2, SmallestInput DEF source, net
  <1>4. \A less \in Nat : less < source => less - trading_fee(less, rate) < net
    BY <1>3, PreFeeAmount DEF source
  <1>5. fee \in Nat /\ fee <= source
    <2>1. rate <= FEE_RATE_DENOMINATOR_VALUE
      BY FeeDenominatorAssumption
    <2> QED
      BY <1>3, <2>1, TradingFeeAtMost
  <1>6. p \in Nat /\ f \in Nat /\ p + f <= fee
    <2> HIDE DEF fee
    <2> QED
      BY <1>5, SharesAtMostTradeFee
  <1> HIDE DEF fee, p, f
  <1>7. (x + source) - p - f \in Nat \ {0} /\ x + net <= (x + source) - p - f
    BY <1>3, <1>5, <1>6
  <1> QED
    BY <1>1, <1>3, <1>4, <1>7 DEF fee, OutputKept, x_after, y_after

\* An output in two pieces costs no less than the whole.
LEMMA OutputPieces ==
  ASSUME NEW a \in Nat, NEW b \in Nat, NEW x \in Nat \ {0}, NEW y \in Nat, a + b < y,
         NEW rates,
         rates.trade_fee_rate \in Nat, rates.protocol_fee_rate \in Nat,
         rates.fund_fee_rate \in Nat,
         rates.trade_fee_rate < FEE_RATE_DENOMINATOR_VALUE,
         rates.protocol_fee_rate + rates.fund_fee_rate <= FEE_RATE_DENOMINATOR_VALUE,
         NEW first, first = swap_base_output(a, x, y, rates),
         first.source_amount_swapped > 0,
         NEW second, second = swap_base_output(b, x_after(first), y_after(first), rates),
         second.source_amount_swapped > 0,
         NEW whole, whole = swap_base_output(a + b, x, y, rates)
  PROVE  first.source_amount_swapped + second.source_amount_swapped
           >= whole.source_amount_swapped
  <1> DEFINE rate    == rates.trade_fee_rate
             fee(k)  == trading_fee(k, rate)
             source1 == first.source_amount_swapped
             source2 == second.source_amount_swapped
             source  == whole.source_amount_swapped
             net1    == source1 - fee(source1)
             net2    == source2 - fee(source2)
             net     == source - fee(source)
             x2      == x_after(first)
             y2      == y_after(first)
             w       == y - (a + b)
  <1>1. a < y
    OBVIOUS
  <1>2. OutputKept(first, a, x, y, rate)
    BY <1>1, OutputAnswer
  <1>3. /\ source1 \in Nat /\ net1 \in Nat /\ x2 \in Nat \ {0} /\ y2 = y - a
        /\ x + net1 <= x2 /\ (x + net1) * y2 >= x * y
    BY <1>2 DEF OutputKept
  <1>4. y2 \in Nat /\ b < y2
    <2> HIDE DEF y2
    <2> QED
      BY <1>3
  <1>5. OutputKept(second, b, x2, y2, rate)
    BY <1>3, <1>4, OutputAnswer
  <1>6. source2 \in Nat /\ net2 \in Nat /\ (x2 + net2) * (y2 - b) >= x2 * y2
    <2> DEFINE y3 == y_after(second)
    <2>1. /\ source2 \in Nat /\ net2 \in Nat /\ y3 = y2 - b
          /\ (x2 + net2) * y3 >= x2 * y2
      BY <1>5 DEF OutputKept
    <2> QED
      BY <2>1
  <1> SUFFICES ASSUME whole.source_amount_swapped > 0
               PROVE  source1 + source2 >= source
    <2>1. a + b \in Nat /\ x \in Nat
      OBVIOUS
    <2>2. whole.source_amount_swapped \in Nat
      BY <2>1, SwapBaseOutputResult
    <2>3. whole.source_amount_swapped = 0 => source1 + source2 >= source
      BY <1>3, <1>6
    <2> QED
      BY <2>2, <2>3
  <1>7. OutputKept(whole, a + b, x, y, rate)
    <2>1. a + b \in Nat
      OBVIOUS
    <2> QED
      BY <2>1, OutputAnswer
  <1>8. /\ source \in Nat /\ net \in Nat /\ (x + (net - 1)) * w < x * y
        /\ \A less \in Nat : less < source => less - fee(less) < net
    BY <1>7 DEF OutputKept
  <1>9. /\ fee(source1 + source2) <= fee(source1) + fee(source2)
        /\ fee(source1) \in Nat /\ fee(source2) \in Nat /\ fee(source1 + source2) \in Nat
    <2>1. rate <= FEE_RATE_DENOMINATOR_VALUE /\ rate \in Nat /\ source1 + source2 \in Nat
      BY <1>3, <1>6, FeeDenominatorAssumption
    <2> HIDE DEF rate, source1, source2
    <2> QED
      BY <1>3, <1>6, <2>1, FeeOfPieces, TradingFeeAtMost
  <1>10. net1 + net2 <= (source1 + source2) - fee(source1 + source2)
    <2> HIDE DEF source1, source2, fee
    <2> QED
      BY <1>3, <1>6, <1>9
  <1> HIDE DEF x2, y2, net1, net2, net, source1, source2, source, fee
  <1>11. (x + (net1 + net2)) * w >= x * y
    <2>1. b <= y2 /\ x2 \in Nat /\ x \in Nat
      BY <1>3, <1>4
    <2> QED
      BY <1>3, <1>4, <1>6, <2>1, PiecesKeepProduct
  <1>12. w \in Nat \ {0}
    OBVIOUS
  <1> HIDE DEF w
  <1>13. net1 + net2 >= net
    <2>1. x + (net1 + net2) \in Int /\ x + (net - 1) \in Int /\ x * y \in Int
      BY <1>3, <1>6, <1>8
    <2>2. (x + (net - 1)) * w < (x + (net1 + net2)) * w
      <3>1. (x + (net - 1)) * w \in Int /\ (x + (net1 + net2)) * w \in Int
        BY <1>12, <2>1
      <3> QED
        BY <1>8, <1>11, <2>1, <3>1
    <2>3. x + (net - 1) < x + (net1 + net2)
      BY <1>12, <2>1, <2>2, CancelStrict
    <2> QED
      BY <1>3, <1>6, <1>8, <2>3
  <1>14. ~(source1 + source2 < source)
    <2> SUFFICES ASSUME source1 + source2 < source PROVE FALSE
      OBVIOUS
    <2>1. (source1 + source2) - fee(source1 + source2) < net
      BY <1>3, <1>6, <1>8
    <2> QED
      BY <1>3, <1>6, <1>8, <1>9, <1>10, <1>13, <2>1
  <1>15. source1 + source2 >= source
    BY <1>3, <1>6, <1>8, <1>14
  <1> QED
    BY <1>15

-----------------------------------------------------------------------------
(* The calls *)

\* What each kind of call is made with.
LEMMA CallFacts ==
  ASSUME CallInv
  PROVE  /\ call.kind \in {"base_input", "base_output"} =>
              /\ call \in SwapCalls
              /\ call.amount \in Nat \ {0} /\ call.x \in Nat \ {0} /\ call.y \in Nat \ {0}
              /\ call.rates.trade_fee_rate \in Nat
              /\ call.rates.protocol_fee_rate \in Nat
              /\ call.rates.fund_fee_rate \in Nat
              /\ call.rates.trade_fee_rate < FEE_RATE_DENOMINATOR_VALUE
              /\ call.rates.protocol_fee_rate + call.rates.fund_fee_rate
                   <= FEE_RATE_DENOMINATOR_VALUE
         /\ call.kind \in {"deposit", "withdraw"} =>
              /\ call.amount \in Nat \ {0} /\ call.x \in Nat \ {0}
              /\ call.supply \in Nat \ {0}
         /\ call.kind = "transfer" =>
              call.amount \in Nat \ {0} /\ call.mint \in MintInfos
  <1>1. \A n \in Reserves : n \in Nat \ {0}
    BY CallAssumption, WidthAssumption DEF U64
  <1>2. call \in SwapCalls \cup ShareCalls \cup TransferCalls
    BY DEF CallInv, Calls
  <1>3. CASE call \in SwapCalls
    <2>1. /\ call.kind \in {"base_input", "base_output"}
          /\ call.amount \in Reserves /\ call.x \in Reserves /\ call.y \in Reserves
          /\ call.rates \in RateChoices
      BY <1>3 DEF SwapCalls
    <2>2. \A r \in RateChoices :
            /\ r.trade_fee_rate \in Nat /\ r.protocol_fee_rate \in Nat
            /\ r.fund_fee_rate \in Nat
            /\ r.trade_fee_rate < FEE_RATE_DENOMINATOR_VALUE
            /\ r.protocol_fee_rate + r.fund_fee_rate <= FEE_RATE_DENOMINATOR_VALUE
      BY CallAssumption, WidthAssumption DEF U64
    <2> QED
      BY <1>1, <1>3, <2>1, <2>2
  <1>4. CASE call \in ShareCalls
    <2>1. /\ call.kind \in {"deposit", "withdraw"}
          /\ call.amount \in Reserves /\ call.x \in Reserves /\ call.supply \in Reserves
      BY <1>4 DEF ShareCalls
    <2> QED
      BY <1>1, <2>1
  <1>5. CASE call \in TransferCalls
    <2>1. call.kind = "transfer" /\ call.amount \in Reserves /\ call.mint \in CallMints
      BY <1>5 DEF TransferCalls
    <2> QED
      BY <1>1, <2>1, CallAssumption
  <1> QED
    BY <1>2, <1>3, <1>4, <1>5

\* An answered call has the answer of its kind.
LEMMA AnswerOf ==
  ASSUME CallInv, NEW kind, Answered(kind)
  PROVE  /\ kind = "base_input"
              => result = swap_base_input(call.amount, call.x, call.y, call.rates)
         /\ kind = "base_output"
              => /\ call.amount < call.y
                 /\ result = swap_base_output(call.amount, call.x, call.y, call.rates)
         /\ kind = "deposit"
              => result = lp_tokens_to_trading_tokens(call.amount, call.supply, call.x,
                                                      "Ceiling")
         /\ kind = "withdraw"
              => result = lp_tokens_to_trading_tokens(call.amount, call.supply, call.x,
                                                      "Floor")
         /\ kind = "transfer"
              => /\ transfer_inverse_fee_defined(call.mint, call.amount)
                 /\ result = call.amount + get_transfer_inverse_fee(call.mint, call.amount)
  BY DEF CallInv, Answer, Answered

LEMMA CallStep ==
  ASSUME CallInv, [Next]_<<call, result>>
  PROVE  CallInv'
  <1>1. CASE Next
    <2>1. call' = call /\ Answer(result')
      BY <1>1 DEF Next, SwapInput, SwapOutput, DepositWorth, WithdrawWorth, Send, Answer,
             swap_base_output_without_fees_defined
    <2> QED
      BY <2>1 DEF CallInv, Answer
  <1>2. CASE UNCHANGED <<call, result>>
    BY <1>2 DEF CallInv, Answer
  <1> QED
    BY <1>1, <1>2

-----------------------------------------------------------------------------
(* Theorems *)

\* Every call is of the domain and its result what the code answers to it.
THEOREM CallInvariance == Spec => []CallInv
  <1>1. Init => CallInv
    BY DEF Init, CallInv, Calls
  <1> QED
    BY <1>1, CallStep, PTL DEF Spec

\* The check of swap_base_input.rs:234 never fires, and an exact-input swap gives all
\* that it lets out: rounding costs the trader less than one unit.
THEOREM InputIsExact == Spec => []ExactInIsLargest
  <1>1. CallInv => ExactInIsLargest
    <2> SUFFICES ASSUME CallInv, Answered("base_input")
                 PROVE  LET out == result.destination_amount_swapped IN
                        /\ ProductAfter(net_amount(result), out) >= call.x * call.y
                        /\ ProductAfter(net_amount(result), out + 1) < call.x * call.y
      BY DEF ExactInIsLargest
    <2> DEFINE rate == call.rates.trade_fee_rate
               fee  == trading_fee(call.amount, rate)
               net  == call.amount - fee
               out  == swap_base_input_without_fees(net, call.x, call.y)
    <2>1. /\ call.amount \in Nat /\ call.x \in Nat \ {0} /\ call.y \in Nat
          /\ rate \in Nat /\ rate <= FEE_RATE_DENOMINATOR_VALUE
      BY CallFacts, FeeDenominatorAssumption DEF Answered
    <2>2. fee \in Nat /\ fee <= call.amount
      BY <2>1, TradingFeeAtMost
    <2>3. /\ result.destination_amount_swapped = out
          /\ net_amount(result) = net
      BY AnswerOf DEF swap_base_input, SwapResult, net_amount
    <2>4. net \in Nat
      BY <2>1, <2>2
    <2> HIDE DEF net
    <2> QED
      BY <2>1, <2>3, <2>4, LargestOutput DEF ProductAfter
  <1> QED
    BY <1>1, CallInvariance, PTL

\* What the theorems of the exact-output swap share.
LEMMA OutputFacts ==
  ASSUME CallInv, Answered("base_output"), result.source_amount_swapped > 0
  PROVE  LET source == result.source_amount_swapped
             rate   == call.rates.trade_fee_rate
             net    == source - trading_fee(source, rate)
             less   == source - 1
         IN  /\ net_amount(result) = net /\ net \in Nat
             /\ (call.x + net) * (call.y - call.amount) >= call.x * call.y
             /\ net * call.y >= call.amount * (call.x + net)
             /\ (call.x + (less - trading_fee(less, rate))) * (call.y - call.amount)
                  < call.x * call.y
  <1> DEFINE rate   == call.rates.trade_fee_rate
             net    == swap_base_output_without_fees(call.amount, call.x, call.y)
             source == calculate_pre_fee_amount(net, rate)
  <1>1. /\ call.amount \in Nat /\ call.x \in Nat \ {0} /\ call.y \in Nat
        /\ rate \in Nat /\ rate < FEE_RATE_DENOMINATOR_VALUE
    BY CallFacts DEF Answered
  <1>2. /\ call.amount < call.y
        /\ result.source_amount_swapped = source
        /\ net_amount(result) = source - trading_fee(source, rate)
    BY AnswerOf DEF swap_base_output, SwapResult, net_amount
  <1>3. source > 0
    BY <1>2
  <1> HIDE DEF source, net
  <1>4. /\ net \in Nat
        /\ source - trading_fee(source, rate) = net
        /\ (call.x + net) * (call.y - call.amount) >= call.x * call.y
        /\ net * call.y >= call.amount * (call.x + net)
        /\ (call.x + ((source - 1) - trading_fee(source - 1, rate)))
              * (call.y - call.amount) < call.x * call.y
    BY <1>1, <1>2, <1>3, SmallestInput DEF source, net
  <1> QED
    BY <1>2, <1>4

\* The input that swap_base_output.rs charges keeps the product and one unit less
\* would not: neither the quotient of math.rs:23-30, which rounds small ones to the
\* nearest, nor the gross-up of the trade fee favours anyone.
THEOREM OutputIsExact == Spec => []ExactOutIsSmallest
  <1>1. CallInv => ExactOutIsSmallest
    BY OutputFacts DEF ExactOutIsSmallest, ProductAfter
  <1> QED
    BY <1>1, CallInvariance, PTL

\* The two swaps quote one price.
THEOREM OnePrice == Spec => []SwapsAgree
  <1>1. CallInv => SwapsAgree
    <2> SUFFICES ASSUME CallInv, Answered("base_output"), result.source_amount_swapped > 0
                 PROVE  swap_base_input(result.source_amount_swapped, call.x, call.y,
                                        call.rates).destination_amount_swapped
                          >= call.amount
      BY DEF SwapsAgree
    <2> DEFINE source == result.source_amount_swapped
               net    == source - trading_fee(source, call.rates.trade_fee_rate)
               z      == call.x + net
               out    == swap_base_input_without_fees(net, call.x, call.y)
    <2>1. call.amount \in Nat /\ call.x \in Nat \ {0} /\ call.y \in Nat
      BY CallFacts DEF Answered
    <2>2. net \in Nat /\ net * call.y >= call.amount * z
      BY OutputFacts
    <2>3. swap_base_input(source, call.x, call.y, call.rates).destination_amount_swapped
            = out
      BY DEF swap_base_input, SwapResult
    <2>4. out = (net * call.y) \div z
      BY DEF swap_base_input_without_fees
    <2> HIDE DEF net, out
    <2>5. z \in Nat \ {0} /\ net * call.y \in Nat
      BY <2>1, <2>2
    <2> HIDE DEF z
    <2>6. out \in Nat /\ net * call.y < z * out + z
      BY <2>4, <2>5, QuotientBounds
    <2>7. call.amount * z < (out + 1) * z
      <3>1. (out + 1) * z = z * out + z /\ z * out \in Int /\ call.amount * z \in Int
        BY <2>1, <2>5, <2>6
      <3> QED
        BY <2>2, <2>5, <2>6, <3>1
    <2>8. call.amount < out + 1
      BY <2>1, <2>5, <2>6, <2>7, CancelStrict
    <2> QED
      BY <2>1, <2>3, <2>6, <2>8
  <1> QED
    BY <1>1, CallInvariance, PTL

\* An input swapped in two pieces brings no more than at once: the trade fee is rounded
\* up (fees.rs:27-33) and the output down, and what the first piece leaves of its fee in the
\* reserves only makes the second dearer.
THEOREM SplittingInputsNeverPays == Spec => []SplitInputBringsNoMore
  <1>1. CallInv => SplitInputBringsNoMore
    <2> SUFFICES ASSUME CallInv, Answered("base_input"), NEW part \in 1 .. call.amount - 1,
                        NEW first, first = swap_base_input(part, call.x, call.y, call.rates),
                        NEW second,
                        second = swap_base_input(call.amount - part, x_after(first),
                                                 y_after(first), call.rates)
                 PROVE  first.destination_amount_swapped + second.destination_amount_swapped
                          <= result.destination_amount_swapped
      BY DEF SplitInputBringsNoMore
    <2> DEFINE rest == call.amount - part
    <2>1. /\ call.amount \in Nat /\ call.x \in Nat \ {0} /\ call.y \in Nat
          /\ call.rates.trade_fee_rate \in Nat
          /\ call.rates.protocol_fee_rate \in Nat
          /\ call.rates.fund_fee_rate \in Nat
          /\ call.rates.trade_fee_rate < FEE_RATE_DENOMINATOR_VALUE
          /\ call.rates.protocol_fee_rate + call.rates.fund_fee_rate
               <= FEE_RATE_DENOMINATOR_VALUE
      BY CallFacts DEF Answered
    <2>2. part \in Nat /\ rest \in Nat /\ part + rest = call.amount
      BY <2>1
    <2>3. result = swap_base_input(part + rest, call.x, call.y, call.rates)
      BY <2>2, AnswerOf
    <2>4. second = swap_base_input(rest, x_after(first), y_after(first), call.rates)
      OBVIOUS
    <2> HIDE DEF rest
    <2> QED
      BY <2>1, <2>2, <2>3, <2>4, InputPieces
  <1> QED
    BY <1>1, CallInvariance, PTL

\* An output taken in two pieces costs no less than at once, where neither piece is
\* refused for a price of zero (swap_base_output.rs:115).
THEOREM SplittingOutputsNeverPays == Spec => []SplitOutputCostsNoLess
  <1>1. CallInv => SplitOutputCostsNoLess
    <2> SUFFICES ASSUME CallInv, Answered("base_output"), NEW part \in 1 .. call.amount - 1,
                        NEW first, first = swap_base_output(part, call.x, call.y, call.rates),
                        NEW second,
                        second = swap_base_output(call.amount - part, x_after(first),
                                                  y_after(first), call.rates),
                        first.source_amount_swapped > 0,
                        second.source_amount_swapped > 0
                 PROVE  first.source_amount_swapped + second.source_amount_swapped
                          >= result.source_amount_swapped
      BY DEF SplitOutputCostsNoLess
    <2> DEFINE rest == call.amount - part
    <2>1. /\ call.amount \in Nat /\ call.x \in Nat \ {0} /\ call.y \in Nat
          /\ call.rates.trade_fee_rate \in Nat
          /\ call.rates.protocol_fee_rate \in Nat
          /\ call.rates.fund_fee_rate \in Nat
          /\ call.rates.trade_fee_rate < FEE_RATE_DENOMINATOR_VALUE
          /\ call.rates.protocol_fee_rate + call.rates.fund_fee_rate
               <= FEE_RATE_DENOMINATOR_VALUE
      BY CallFacts DEF Answered
    <2>2. part \in Nat /\ rest \in Nat /\ part + rest = call.amount
      BY <2>1
    <2>3. /\ result = swap_base_output(part + rest, call.x, call.y, call.rates)
          /\ part + rest < call.y
      BY <2>2, AnswerOf
    <2>4. second = swap_base_output(rest, x_after(first), y_after(first), call.rates)
      OBVIOUS
    <2> HIDE DEF rest
    <2> QED
      BY <2>1, <2>2, <2>3, <2>4, OutputPieces
  <1> QED
    BY <1>1, CallInvariance, PTL

\* The shares of the protocol and the fund come out of the trade fee and the trade
\* fee out of the input (fees.rs:27-66).
THEOREM FeesInside == Spec => []FeesInsideTradeFee
  <1>1. CallInv => FeesInsideTradeFee
    <2> SUFFICES ASSUME CallInv, Answered("base_input") \/ Answered("base_output")
                 PROVE  /\ result.protocol_fee + result.fund_fee <= result.trade_fee
                        /\ result.trade_fee <= result.source_amount_swapped
      BY DEF FeesInsideTradeFee
    <2> DEFINE rates == call.rates
    <2>1. /\ call.amount \in Nat \ {0} /\ call.x \in Nat \ {0} /\ call.y \in Nat
          /\ rates.trade_fee_rate \in Nat /\ rates.protocol_fee_rate \in Nat
          /\ rates.fund_fee_rate \in Nat
          /\ rates.trade_fee_rate < FEE_RATE_DENOMINATOR_VALUE
          /\ rates.trade_fee_rate <= FEE_RATE_DENOMINATOR_VALUE
          /\ rates.protocol_fee_rate + rates.fund_fee_rate <= FEE_RATE_DENOMINATOR_VALUE
      BY CallFacts, FeeDenominatorAssumption DEF Answered
    <2>2. /\ result.protocol_fee + result.fund_fee <= result.trade_fee
          /\ result.source_amount_swapped \in Nat
      <3>1. CASE Answered("base_input")
        <4>1. result = swap_base_input(call.amount, call.x, call.y, call.rates)
          BY <3>1, AnswerOf
        <4>2. /\ call.amount \in Nat \ {0} /\ call.x \in Nat /\ call.y \in Nat
              /\ call.x > 0
              /\ rates.trade_fee_rate \in Nat /\ rates.protocol_fee_rate \in Nat
              /\ rates.fund_fee_rate \in Nat
              /\ rates.trade_fee_rate < FEE_RATE_DENOMINATOR_VALUE
              /\ rates.protocol_fee_rate + rates.fund_fee_rate
                   <= FEE_RATE_DENOMINATOR_VALUE
          BY <2>1
        <4> DEFINE r == swap_base_input(call.amount, call.x, call.y, rates)
        <4>3. r.source_amount_swapped = call.amount
          BY DEF swap_base_input, SwapResult
        <4>4. r.protocol_fee + r.fund_fee <= r.trade_fee
          BY <4>2, SwapBaseInputResult
        <4> QED
          BY <2>1, <4>1, <4>3, <4>4
      <3>2. CASE Answered("base_output")
        <4>1. /\ result = swap_base_output(call.amount, call.x, call.y, call.rates)
              /\ call.amount < call.y
          BY <3>2, AnswerOf
        <4>2. call.amount \in Nat /\ call.x \in Nat
          BY <2>1
        <4> QED
          BY <2>1, <4>1, <4>2, SwapBaseOutputResult
      <3> QED
        BY <3>1, <3>2
    <2>3. result.trade_fee = trading_fee(result.source_amount_swapped, rates.trade_fee_rate)
      BY AnswerOf DEF swap_base_input, swap_base_output, SwapResult
    <2> QED
      BY <2>1, <2>2, <2>3, TradingFeeAtMost
  <1> QED
    BY <1>1, CallInvariance, PTL

\* Shares bought by a deposit and sold by a withdrawal bring no more than they cost
\* (constant_product.rs:52-92).
THEOREM SharesBringNoProfit == Spec => []NoProfitFromShares
  <1>1. CallInv => NoProfitFromShares
    <2> SUFFICES ASSUME CallInv, Answered("deposit"), result > 0
                 PROVE  lp_tokens_to_trading_tokens(call.amount, call.supply + call.amount,
                                                    call.x + result, "Floor") <= result
      BY DEF NoProfitFromShares
    <2>1. /\ call.amount \in Nat /\ call.x \in Nat /\ call.supply \in Nat \ {0}
      BY CallFacts DEF Answered
    <2>2. result = lp_tokens_to_trading_tokens(call.amount, call.supply, call.x, "Ceiling")
      BY AnswerOf
    <2> QED
      BY <2>1, <2>2, SharesBoughtAndSold
  <1> QED
    BY <1>1, CallInvariance, PTL

\* Who stays keeps the worth of a share when another withdraws.
THEOREM StayersKeepTheirShare == Spec => []WithdrawKeepsShare
  <1>1. CallInv => WithdrawKeepsShare
    <2> SUFFICES ASSUME CallInv, Answered("withdraw")
                 PROVE  (call.x - result) * call.supply >= call.x * (call.supply - call.amount)
      BY DEF WithdrawKeepsShare
    <2>1. /\ call.amount \in Nat /\ call.x \in Nat /\ call.supply \in Nat \ {0}
      BY CallFacts DEF Answered
    <2>2. result \in Nat /\ result * call.supply <= call.amount * call.x
      BY <2>1, AnswerOf, FloorWorth
    <2>3. \A x, s, a \in Nat, r \in Nat : r * s <= a * x => (x - r) * s >= x * (s - a)
      <3> SUFFICES ASSUME NEW x \in Nat, NEW s \in Nat, NEW a \in Nat, NEW r \in Nat,
                          r * s <= a * x
                   PROVE  (x - r) * s >= x * (s - a)
        OBVIOUS
      <3>1. (x - r) * s = x * s - r * s /\ x * (s - a) = x * s - a * x
            /\ x * s \in Int /\ r * s \in Int /\ a * x \in Int
        OBVIOUS
      <3> QED
        BY <3>1
    <2> QED
      BY <2>1, <2>2, <2>3
  <1> QED
    BY <1>1, CallInvariance, PTL

\* What the pool counts on is what its vault is credited with, at the least cost to
\* the sender (deposit.rs:125-143, swap_base_output.rs:23-27 and 113-127).
THEOREM WhatIsSentArrives == Spec => []ArrivesExactly
  <1>1. CallInv => ArrivesExactly
    <2> SUFFICES ASSUME CallInv, Answered("transfer")
                 PROVE  /\ received(call.mint, result) = call.amount
                        /\ \A less \in 0 .. result - 1 :
                             received(call.mint, less) < call.amount
      BY DEF ArrivesExactly
    <2>1. call.amount \in Nat \ {0} /\ call.mint \in MintInfos
      BY CallFacts DEF Answered
    <2>2. /\ transfer_inverse_fee_defined(call.mint, call.amount)
          /\ result = call.amount + get_transfer_inverse_fee(call.mint, call.amount)
      BY AnswerOf
    <2>3. /\ get_transfer_inverse_fee(call.mint, call.amount) \in Nat
          /\ received(call.mint, result) = call.amount
      BY <2>1, <2>2, ReceivedExactly
    <2>4. ASSUME NEW less \in 0 .. result - 1
          PROVE  received(call.mint, less) < call.amount
      <3>1. less \in Nat /\ less < call.amount + get_transfer_inverse_fee(call.mint, call.amount)
        BY <2>1, <2>2, <2>3
      <3> QED
        BY <2>1, <3>1, LeastTransfer
    <2> QED
      BY <2>3, <2>4
  <1> QED
    BY <1>1, CallInvariance, PTL

\* TransferFeeCalculateNotMatch (token.rs:151-153) is never returned, whatever the
\* rate and the cap.
THEOREM FeesNeverMismatch == Spec => []NeverMismatch
  <1>1. CallInv => NeverMismatch
    <2> DEFINE mint == call.mint
               fee  == get_transfer_inverse_fee(mint, call.amount)
    <2> SUFFICES ASSUME CallInv, call.kind = "transfer", charges_transfer_fee(mint),
                        mint.basis_points # MAX_FEE_BASIS_POINTS,
                        calculate_gross_amount(mint, call.amount) \in U64
                 PROVE  call.amount + fee \in U64 /\ fee = calculate_fee(mint, call.amount + fee)
      BY DEF NeverMismatch
    <2>1. call.amount \in Nat /\ mint \in MintInfos
      BY CallFacts
    <2>2. fee = calculate_inverse_fee(mint, call.amount)
      BY DEF get_transfer_inverse_fee
    <2>3. call.amount + fee = calculate_gross_amount(mint, call.amount)
      BY <2>1, <2>2, GrossTransfer
    <2> QED
      BY <2>2, <2>3 DEF calculate_inverse_fee
  <1> QED
    BY <1>1, CallInvariance, PTL
=============================================================================
