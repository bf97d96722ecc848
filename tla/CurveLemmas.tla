----------------------------- MODULE CurveLemmas -----------------------------
(***************************************************************************)
(* What the operators of CurveCalculator and TokenUtil return, for every    *)
(* width, fee denominator and amount.                                       *)
(***************************************************************************)
EXTENDS CurveCalculator, TokenUtil, TLAPS

-----------------------------------------------------------------------------
(* Arithmetic *)

\* A truncated quotient is the largest number of divisors that fit.
LEMMA QuotientBounds ==
  ASSUME NEW a \in Nat, NEW b \in Nat \ {0}
  PROVE  /\ a \div b \in Nat
         /\ b * (a \div b) <= a
         /\ a < b * (a \div b) + b
  OBVIOUS

\* Products of naturals grow with their factors.
LEMMA ProductMonotone ==
  ASSUME NEW a \in Nat, NEW b \in Nat, NEW c \in Nat, NEW d \in Nat,
         a <= b, c <= d
  PROVE  a * c <= b * d
  OBVIOUS

\* A positive factor may be cancelled from an inequality.
LEMMA CancelFactor ==
  ASSUME NEW a \in Int, NEW b \in Int, NEW c \in Nat \ {0}, a * c <= b * c
  PROVE  a <= b
  OBVIOUS

\* A positive factor may be cancelled from a strict inequality.
LEMMA CancelStrict ==
  ASSUME NEW a \in Int, NEW b \in Int, NEW c \in Nat \ {0}, a * c < b * c
  PROVE  a < b
  OBVIOUS

\* Rounding up a part of a whole does not exceed the whole.
LEMMA CeilingAtMost ==
  ASSUME NEW a \in Nat, NEW n \in Nat, NEW b \in Nat \ {0}, a <= n * b
  PROVE  (a + b - 1) \div b <= n
  <1> DEFINE q == (a + b - 1) \div b
  <1>1. a + b - 1 \in Nat
    OBVIOUS
  <1>2. q \in Nat /\ b * q <= a + b - 1
    BY <1>1, QuotientBounds
  <1>3. q * b < (n + 1) * b
    <2>1. (n + 1) * b = n * b + b /\ n * b \in Int
      OBVIOUS
    <2>2. q * b \in Int /\ q * b = b * q
      BY <1>2
    <2> HIDE DEF q
    <2> QED
      BY <1>2, <2>1, <2>2
  <1>4. q < n + 1
    <2> HIDE DEF q
    <2> QED
      BY <1>2, <1>3, CancelStrict
  <1> QED
    BY <1>2, <1>4

\* A quotient rounded up is the smallest number of divisors that covers.
LEMMA CeilingBounds ==
  ASSUME NEW a \in Nat, NEW b \in Nat \ {0}
  PROVE  LET q == (a + b - 1) \div b IN
         q \in Nat /\ a <= q * b /\ q * b < a + b
  <1> DEFINE q == (a + b - 1) \div b
  <1>1. a + b - 1 \in Nat
    OBVIOUS
  <1>2. q \in Nat /\ b * q <= a + b - 1 /\ a + b - 1 < b * q + b
    BY <1>1, QuotientBounds
  <1> HIDE DEF q
  <1>3. b * q = q * b /\ q * b \in Int
    BY <1>2
  <1>4. q \in Nat /\ a <= q * b /\ q * b < a + b
    BY <1>2, <1>3
  <1> QED
    BY <1>4 DEF q

\* Charging b parts in M, rounded up, on the smallest g that can leave n leaves
\* exactly n, and on anything less leaves less.  This is how both the trade fee and
\* the transfer fee are grossed up.
LEMMA GrossUp ==
  ASSUME NEW n \in Nat, NEW M \in Nat \ {0}, NEW b \in Nat, b < M,
         NEW g \in Nat, n * M <= g * (M - b), g * (M - b) < n * M + (M - b)
  PROVE  /\ n <= g
         /\ (g * b + M - 1) \div M = g - n
         /\ \A less \in Nat : less < g => less - (less * b + M - 1) \div M < n
  <1> DEFINE d == M - b
             fee(k) == (k * b + M - 1) \div M
  <1>1. d \in Nat \ {0} /\ d <= M /\ b = M - d
    OBVIOUS
  <1>2. ASSUME NEW k \in Nat
        PROVE  /\ k * b \in Nat /\ k * b = k * M - k * d
               /\ k * M \in Nat /\ k * d \in Nat
               /\ fee(k) \in Nat /\ fee(k) * M \in Int
               /\ k * b <= fee(k) * M /\ fee(k) * M < k * b + M
    <2>1. k * b \in Nat /\ k * b = k * M - k * d /\ k * M \in Nat /\ k * d \in Nat
      OBVIOUS
    <2>2. fee(k) \in Nat /\ k * b <= fee(k) * M /\ fee(k) * M < k * b + M
      BY <2>1, CeilingBounds
    <2> HIDE DEF fee
    <2>3. fee(k) * M \in Int
      BY <2>2
    <2> QED
      BY <2>1, <2>2, <2>3
  <1>3. n * M \in Nat /\ n * M <= g * d /\ g * d < n * M + d
    OBVIOUS
  <1> HIDE DEF d, fee
  <1>4. n <= g
    <2>1. g * d <= g * M
      BY <1>1, ProductMonotone
    <2>2. g * d \in Nat /\ g * M \in Nat
      BY <1>2
    <2>3. n * M <= g * M
      BY <1>3, <2>1, <2>2
    <2> QED
      BY <2>3, CancelFactor
  <1>5. fee(g) <= g - n
    <2>1. (g - n + 1) * M = g * M - n * M + M
      OBVIOUS
    <2>2. fee(g) * M < (g - n + 1) * M
      BY <1>2, <1>3, <2>1
    <2>3. fee(g) < g - n + 1
      BY <1>2, <2>2, CancelStrict
    <2> QED
      BY <1>2, <2>3
  <1>6. fee(g) >= g - n
    <2>1. (g - n - 1) * M = g * M - n * M - M
      OBVIOUS
    <2>2. (g - n - 1) * M < fee(g) * M
      BY <1>1, <1>2, <1>3, <2>1
    <2>3. g - n - 1 < fee(g)
      BY <1>2, <2>2, CancelStrict
    <2> QED
      BY <1>2, <2>3
  <1>7. ASSUME NEW less \in Nat, less < g
        PROVE  less - fee(less) < n
    <2>1. less * d <= (g - 1) * d
      <3>1. g - 1 \in Nat /\ less <= g - 1
        BY <1>7
      <3> QED
        BY <1>1, <3>1, ProductMonotone
    <2>2. (g - 1) * d = g * d - d
      BY <1>1
    <2>3. less * d < n * M
      BY <1>1, <1>2, <1>3, <2>1, <2>2
    <2>4. (less - n) * M = less * M - n * M
      OBVIOUS
    <2>5. (less - n) * M < fee(less) * M
      BY <1>2, <1>3, <2>3, <2>4
    <2>6. less - n < fee(less)
      BY <1>2, <2>5, CancelStrict
    <2> QED
      BY <1>2, <2>6
  <1>8. fee(g) = g - n
    <2>1. fee(g) \in Nat
      BY <1>2
    <2> QED
      BY <1>5, <1>6, <2>1
  <1> QED
    BY <1>4, <1>7, <1>8 DEF fee

-----------------------------------------------------------------------------
(* Fees *)

\* The trade fee is never more than the amount it is charged on.
LEMMA TradingFeeAtMost ==
  ASSUME NEW amount \in Nat, NEW rate \in Nat, rate <= FEE_RATE_DENOMINATOR_VALUE
  PROVE  trading_fee(amount, rate) \in Nat /\ trading_fee(amount, rate) <= amount
  <1> DEFINE D == FEE_RATE_DENOMINATOR_VALUE
             a == amount * rate
  <1>1. D \in Nat \ {0} /\ a \in Nat
    BY FeeDenominatorAssumption
  <1>2. a <= amount * D
    BY <1>1, ProductMonotone
  <1>3. a + D - 1 \in Nat
    BY <1>1
  <1>4. (a + D - 1) \div D <= amount
    <2> HIDE DEF a, D
    <2> QED
      BY <1>1, <1>2, CeilingAtMost
  <1>5. (a + D - 1) \div D \in Nat
    <2> HIDE DEF a, D
    <2> QED
      BY <1>1, <1>3, QuotientBounds
  <1> QED
    BY <1>4, <1>5 DEF trading_fee, ceil_div

\* The protocol and the fund together take at most the trade fee, each rounded
\* down, if their rates add up to at most the denominator.
LEMMA SharesAtMostTradeFee ==
  ASSUME NEW fee \in Nat, NEW p \in Nat, NEW f \in Nat,
         p + f <= FEE_RATE_DENOMINATOR_VALUE
  PROVE  /\ protocol_fee(fee, p) \in Nat
         /\ fund_fee(fee, f) \in Nat
         /\ protocol_fee(fee, p) + fund_fee(fee, f) <= fee
  <1> DEFINE D == FEE_RATE_DENOMINATOR_VALUE
             q == (fee * p) \div D
             r == (fee * f) \div D
  <1>1. D \in Nat \ {0} /\ fee * p \in Nat /\ fee * f \in Nat
    BY FeeDenominatorAssumption
  <1>2. q \in Nat /\ D * q <= fee * p
    BY <1>1, QuotientBounds
  <1>3. r \in Nat /\ D * r <= fee * f
    BY <1>1, QuotientBounds
  <1>4. fee * (p + f) <= fee * D
    BY <1>1, ProductMonotone
  <1>5. fee * (p + f) = fee * p + fee * f
    OBVIOUS
  <1>6. (q + r) * D <= fee * D
    <2> HIDE DEF q, r, D
    <2>1. (q + r) * D = D * q + D * r
      BY <1>1, <1>2, <1>3
    <2> QED
      BY <1>1, <1>2, <1>3, <1>4, <1>5, <2>1
  <1>7. q + r <= fee
    <2> HIDE DEF q, r, D
    <2> QED
      BY <1>1, <1>2, <1>3, <1>6, CancelFactor
  <1> QED
    BY <1>2, <1>3, <1>7 DEF protocol_fee, fund_fee, floor_div

-----------------------------------------------------------------------------
(* Swaps *)

\* Division that rounds up returns a natural, whatever the size of the dividend.
LEMMA CeilDivType ==
  ASSUME NEW a \in Nat, NEW b \in Nat \ {0}
  PROVE  checked_ceil_div(a, b)[1] \in Nat
  <1>1. a \div b \in Nat
    BY QuotientBounds
  <1> QED
    BY <1>1 DEF checked_ceil_div

\* The amount before the trade fee is a natural.
LEMMA PreFeeType ==
  ASSUME NEW amount \in Nat, NEW rate \in Nat, rate < FEE_RATE_DENOMINATOR_VALUE
  PROVE  calculate_pre_fee_amount(amount, rate) \in Nat
  <1> DEFINE d == FEE_RATE_DENOMINATOR_VALUE - rate
             n == amount * FEE_RATE_DENOMINATOR_VALUE + d - 1
  <1>1. d \in Nat \ {0}
    BY FeeDenominatorAssumption
  <1>2. n \in Nat
    <2>1. amount * FEE_RATE_DENOMINATOR_VALUE \in Nat
      BY FeeDenominatorAssumption
    <2> QED
      BY <1>1, <2>1
  <1>3. n \div d \in Nat
    <2> HIDE DEF n, d
    <2> QED
      BY <1>1, <1>2, QuotientBounds
  <1> QED
    BY <1>3 DEF calculate_pre_fee_amount

\* A swap of an exact input: the answer echoes the input, its fees are inside
\* the trade fee, and every amount is a natural.
LEMMA SwapBaseInputResult ==
  ASSUME NEW source \in Nat \ {0}, NEW x \in Nat, NEW y \in Nat,
         NEW rates,
         rates.trade_fee_rate \in Nat,
         rates.protocol_fee_rate \in Nat,
         rates.fund_fee_rate \in Nat,
         rates.trade_fee_rate < FEE_RATE_DENOMINATOR_VALUE,
         rates.protocol_fee_rate + rates.fund_fee_rate <= FEE_RATE_DENOMINATOR_VALUE,
         x > 0
  PROVE  LET r == swap_base_input(source, x, y, rates) IN
         /\ r.source_amount_swapped = source
         /\ r.destination_amount_swapped \in Nat
         /\ r.trade_fee \in Nat /\ r.protocol_fee \in Nat /\ r.fund_fee \in Nat
         /\ r.protocol_fee + r.fund_fee <= r.trade_fee
         /\ r.new_swap_source_amount = x + source
         /\ r.new_swap_destination_amount = y - r.destination_amount_swapped
  <1> DEFINE fee == trading_fee(source, rates.trade_fee_rate)
             net == source - fee
             out == swap_base_input_without_fees(net, x, y)
  <1>1. fee \in Nat /\ fee <= source
    <2>1. rates.trade_fee_rate <= FEE_RATE_DENOMINATOR_VALUE
      BY FeeDenominatorAssumption
    <2> QED
      BY <2>1, TradingFeeAtMost
  <1>2. out \in Nat
    <2> HIDE DEF fee
    <2>1. net \in Nat /\ x + net \in Nat \ {0}
      BY <1>1
    <2> HIDE DEF net
    <2>2. net * y \in Nat
      BY <2>1
    <2> QED
      BY <2>1, <2>2, QuotientBounds DEF swap_base_input_without_fees
  <1>3. /\ protocol_fee(fee, rates.protocol_fee_rate) \in Nat
        /\ fund_fee(fee, rates.fund_fee_rate) \in Nat
        /\ protocol_fee(fee, rates.protocol_fee_rate)
             + fund_fee(fee, rates.fund_fee_rate) <= fee
    <2> HIDE DEF fee
    <2> QED
      BY <1>1, SharesAtMostTradeFee
  <1>4. swap_base_input(source, x, y, rates) = SwapResult(source, out, x, y, rates)
    BY DEF swap_base_input
  <1> HIDE DEF out
  <1> QED
    BY <1>1, <1>2, <1>3, <1>4 DEF SwapResult

\* A swap for an exact output: the same of the input that the curve asks for.
LEMMA SwapBaseOutputResult ==
  ASSUME NEW out \in Nat, NEW x \in Nat, NEW y \in Nat,
         NEW rates,
         rates.trade_fee_rate \in Nat,
         rates.protocol_fee_rate \in Nat,
         rates.fund_fee_rate \in Nat,
         rates.trade_fee_rate < FEE_RATE_DENOMINATOR_VALUE,
         rates.protocol_fee_rate + rates.fund_fee_rate <= FEE_RATE_DENOMINATOR_VALUE,
         out < y
  PROVE  LET r == swap_base_output(out, x, y, rates) IN
         /\ r.source_amount_swapped \in Nat
         /\ r.destination_amount_swapped = out
         /\ r.trade_fee \in Nat /\ r.protocol_fee \in Nat /\ r.fund_fee \in Nat
         /\ r.protocol_fee + r.fund_fee <= r.trade_fee
         /\ r.new_swap_source_amount = x + r.source_amount_swapped
         /\ r.new_swap_destination_amount = y - out
  <1> DEFINE swapped == swap_base_output_without_fees(out, x, y)
             source == calculate_pre_fee_amount(swapped, rates.trade_fee_rate)
             fee == trading_fee(source, rates.trade_fee_rate)
  <1>1. swapped \in Nat
    <2>1. x * out \in Nat /\ y - out \in Nat \ {0}
      OBVIOUS
    <2> QED
      BY <2>1, CeilDivType DEF swap_base_output_without_fees
  <1>2. source \in Nat
    <2> HIDE DEF swapped
    <2> QED
      BY <1>1, PreFeeType
  <1>3. fee \in Nat
    <2>1. rates.trade_fee_rate <= FEE_RATE_DENOMINATOR_VALUE
      BY FeeDenominatorAssumption
    <2> HIDE DEF source
    <2> QED
      BY <1>2, <2>1, TradingFeeAtMost
  <1>4. /\ protocol_fee(fee, rates.protocol_fee_rate) \in Nat
        /\ fund_fee(fee, rates.fund_fee_rate) \in Nat
        /\ protocol_fee(fee, rates.protocol_fee_rate)
             + fund_fee(fee, rates.fund_fee_rate) <= fee
    <2> HIDE DEF fee
    <2> QED
      BY <1>3, SharesAtMostTradeFee
  <1>5. swap_base_output(out, x, y, rates) = SwapResult(source, out, x, y, rates)
    BY DEF swap_base_output
  <1> HIDE DEF source
  <1> QED
    BY <1>2, <1>3, <1>4, <1>5 DEF SwapResult

\* The trader of an exact input gets all that keeps the product.
LEMMA LargestOutput ==
  ASSUME NEW net \in Nat, NEW x \in Nat \ {0}, NEW y \in Nat
  PROVE  LET out == swap_base_input_without_fees(net, x, y) IN
         /\ out \in Nat
         /\ (x + net) * (y - out) >= x * y
         /\ (x + net) * (y - (out + 1)) < x * y
  <1> DEFINE z == x + net
             out == swap_base_input_without_fees(net, x, y)
  <1>1. z \in Nat \ {0} /\ net * y \in Nat /\ z * y = x * y + net * y /\ x * y \in Nat
    OBVIOUS
  <1>2. out \in Nat /\ z * out <= net * y /\ net * y < z * out + z
    BY <1>1, QuotientBounds DEF swap_base_input_without_fees
  <1> HIDE DEF z, out
  <1>3. /\ z * (y - out) = z * y - z * out
        /\ z * (y - (out + 1)) = z * y - z * out - z
        /\ z * out \in Nat
    BY <1>1, <1>2
  <1>4. z * (y - out) >= x * y /\ z * (y - (out + 1)) < x * y
    BY <1>1, <1>2, <1>3
  <1> QED
    BY <1>2, <1>4 DEF z, out

\* An answer of checked_ceil_div that is not 0 is the quotient rounded up.
LEMMA CeilDivCovers ==
  ASSUME NEW a \in Nat, NEW b \in Nat \ {0}, checked_ceil_div(a, b)[1] > 0
  PROVE  LET q == checked_ceil_div(a, b)[1] IN
         q \in Nat /\ a <= q * b /\ (q - 1) * b < a
  <1> DEFINE n == a \div b
             q == checked_ceil_div(a, b)[1]
  <1>1. n \in Nat /\ b * n <= a /\ a < b * n + b
    BY QuotientBounds
  <1> SUFFICES q \in Nat /\ a <= q * b /\ (q - 1) * b < a
    OBVIOUS
  <1>2. a % b = a - b * n
    OBVIOUS
  <1>3. CASE n = 0
    <2>1. q = IF 2 * a >= b THEN 1 ELSE 0
      BY <1>3 DEF checked_ceil_div
    <2>2. q = 1 /\ 2 * a >= b
      BY <2>1
    <2> QED
      BY <1>1, <1>3, <2>2
  <1>4. CASE n > 0 /\ a % b = 0
    <2>1. q = n
      BY <1>4 DEF checked_ceil_div
    <2> HIDE DEF n, q
    <2>2. (q - 1) * b = b * n - b /\ q * b = b * n
      BY <1>1, <2>1
    <2> QED
      BY <1>1, <1>2, <1>4, <2>1, <2>2
  <1>5. CASE n > 0 /\ a % b # 0
    <2>1. q = n + 1
      BY <1>5 DEF checked_ceil_div
    <2> HIDE DEF n, q
    <2>2. (q - 1) * b = b * n /\ q * b = b * n + b
      BY <1>1, <2>1
    <2> QED
      BY <1>1, <1>2, <1>5, <2>1, <2>2
  <1> QED
    BY <1>1, <1>3, <1>4, <1>5

\* The gross input for net: nothing for nothing, and else the least of which the
\* trade fee leaves net.
LEMMA PreFeeAmount ==
  ASSUME NEW net \in Nat, NEW rate \in Nat, rate < FEE_RATE_DENOMINATOR_VALUE
  PROVE  LET g == calculate_pre_fee_amount(net, rate) IN
         /\ g \in Nat
         /\ g - trading_fee(g, rate) = net
         /\ \A less \in Nat : less < g => less - trading_fee(less, rate) < net
  <1> DEFINE D == FEE_RATE_DENOMINATOR_VALUE
             d == D - rate
             g == calculate_pre_fee_amount(net, rate)
             n == net * D
  <1>1. D \in Nat \ {0} /\ d \in Nat \ {0} /\ n \in Nat
    BY FeeDenominatorAssumption
  <1>2. g \in Nat /\ n <= g * d /\ g * d < n + d
    <2>1. CASE rate = 0
      BY <1>1, <2>1 DEF calculate_pre_fee_amount
    <2>2. CASE rate # 0
      <3>1. g = (n + d - 1) \div d
        BY <2>2 DEF calculate_pre_fee_amount
      <3> HIDE DEF n, d, g
      <3> QED
        BY <1>1, <3>1, CeilingBounds
    <2> QED
      BY <2>1, <2>2
  <1> HIDE DEF g, D
  <1>3. /\ net <= g
        /\ (g * rate + D - 1) \div D = g - net
        /\ \A less \in Nat : less < g => less - (less * rate + D - 1) \div D < net
    BY <1>1, <1>2, GrossUp DEF D
  <1>4. g - trading_fee(g, rate) = net
    BY <1>2, <1>3 DEF trading_fee, ceil_div, D
  <1>5. \A less \in Nat : less < g => less - trading_fee(less, rate) < net
    BY <1>3 DEF trading_fee, ceil_div, D
  <1> QED
    BY <1>2, <1>4, <1>5 DEF g

\* The input asked for an exact output keeps the product and no smaller one does.
LEMMA SmallestInput ==
  ASSUME NEW out \in Nat, NEW x \in Nat \ {0}, NEW y \in Nat, out < y,
         NEW rate \in Nat, rate < FEE_RATE_DENOMINATOR_VALUE,
         NEW net, net = swap_base_output_without_fees(out, x, y),
         NEW source, source = calculate_pre_fee_amount(net, rate),
         source > 0
  PROVE  /\ net \in Nat /\ source \in Nat
         /\ source - trading_fee(source, rate) = net
         /\ (x + net) * (y - out) >= x * y
         /\ net * y >= out * (x + net)
         /\ net > 0 /\ (x + (net - 1)) * (y - out) < x * y
         /\ LET less == source - 1
            IN  (x + (less - trading_fee(less, rate))) * (y - out) < x * y
  <1> DEFINE z == y - out
             paid == (source - 1) - trading_fee(source - 1, rate)
  <1>1. z \in Nat \ {0} /\ x * out \in Nat /\ x * z = x * y - x * out /\ x * y \in Nat
    OBVIOUS
  <1>2. net \in Nat
    BY <1>1, CeilDivType DEF swap_base_output_without_fees
  <1>3. /\ source \in Nat
        /\ source - trading_fee(source, rate) = net
        /\ \A less \in Nat : less < source => less - trading_fee(less, rate) < net
    BY <1>2, PreFeeAmount
  <1>4. trading_fee(source, rate) \in Nat /\ paid \in Int /\ paid < net
    <2>1. rate <= FEE_RATE_DENOMINATOR_VALUE /\ source - 1 \in Nat
      BY <1>3, FeeDenominatorAssumption
    <2>2. trading_fee(source, rate) \in Nat /\ trading_fee(source - 1, rate) \in Nat
      BY <1>3, <2>1, TradingFeeAtMost
    <2> QED
      BY <1>3, <2>1, <2>2
  <1>5. net > 0
    <2> SUFFICES ASSUME net = 0 PROVE FALSE
      BY <1>2
    <2>1. source - 1 \in Nat /\ source - 1 < source
      BY <1>3
    <2>2. calculate_pre_fee_amount(0, rate) = 0
      <3> DEFINE d == FEE_RATE_DENOMINATOR_VALUE - rate
      <3>1. d \in Nat \ {0} /\ 0 * FEE_RATE_DENOMINATOR_VALUE = 0
        BY FeeDenominatorAssumption
      <3>2. (0 + d - 1) \div d = 0
        <4> HIDE DEF d
        <4>1. (0 + d - 1) \div d \in Nat /\ ((0 + d - 1) \div d) * d < 0 + d
          BY <3>1, CeilingBounds
        <4>2. \A q \in Nat : q * d < 1 * d => q < 1
          BY <3>1, CancelStrict
        <4> QED
          BY <3>1, <4>1, <4>2
      <3> QED
        BY <3>1, <3>2 DEF calculate_pre_fee_amount
    <2> QED
      BY <2>2
  <1>6. x * out <= net * z /\ (net - 1) * z < x * out
    BY <1>1, <1>5, CeilDivCovers DEF swap_base_output_without_fees
  <1>7. (x + net) * z = x * z + net * z /\ net * z \in Int
        /\ (x + (net - 1)) * z = x * z + (net - 1) * z /\ (net - 1) * z \in Int
    <2> HIDE DEF z
    <2>1. z \in Int
      BY <1>1
    <2>2. \A p, q \in Int : (p + q) * z = p * z + q * z /\ q * z \in Int
      BY <2>1
    <2>3. (x + net) * z = x * z + net * z /\ net * z \in Int
      BY <1>2, <2>2
    <2>4. net - 1 \in Int
      BY <1>2
    <2>5. (x + (net - 1)) * z = x * z + (net - 1) * z /\ (net - 1) * z \in Int
      <3>1. \A q \in Int : (x + q) * z = x * z + q * z /\ q * z \in Int
        BY <2>1
      <3> QED
        BY <2>4, <3>1
    <2> QED
      BY <2>3, <2>5
  <1>8. (x + net) * z >= x * y
    BY <1>1, <1>6, <1>7
  <1>9. (x + (net - 1)) * z < x * y /\ (x + paid) * z < x * y
    <2>1. (x + (net - 1)) * z < x * y
      BY <1>1, <1>6, <1>7
    <2>2. (x + paid) * z <= (x + (net - 1)) * z
      <3> HIDE DEF z, paid
      <3>1. paid <= net - 1
        BY <1>2, <1>4
      <3>2. \A p, q \in Int : p <= q => p * z <= q * z
        BY <1>1
      <3> QED
        BY <1>2, <1>4, <3>1, <3>2
    <2>3. (x + paid) * z \in Int /\ (x + (net - 1)) * z \in Int
      <3> HIDE DEF z, paid
      <3> QED
        BY <1>1, <1>2, <1>4
    <2> QED
      BY <1>1, <2>1, <2>2, <2>3
  <1>10. net * y >= out * (x + net)
    <2>1. net * z = net * y - out * net /\ out * (x + net) = x * out + out * net
          /\ net * y \in Int /\ out * net \in Int
      BY <1>2
    <2> QED
      BY <1>1, <1>6, <2>1
  <1> QED
    BY <1>2, <1>3, <1>5, <1>8, <1>9, <1>10

-----------------------------------------------------------------------------
(* Shares *)

\* Shares bought cost at least their part of the reserve unless the price is 0,
\* which deposit refuses.
LEMMA CeilingWorth ==
  ASSUME NEW shares \in Nat, NEW supply \in Nat \ {0}, NEW amount \in Nat
  PROVE  LET worth == lp_tokens_to_trading_tokens(shares, supply, amount, "Ceiling")
         IN  /\ worth \in Nat
             /\ worth # 0 => shares * amount <= worth * supply
  <1> DEFINE product == shares * amount
             q == product \div supply
  <1>1. product \in Nat
    OBVIOUS
  <1>2. q \in Nat /\ product < supply * q + supply
    <2> HIDE DEF product
    <2> QED
      BY <1>1, QuotientBounds
  <1>3. product % supply \in Nat /\ product = supply * q + (product % supply)
    <2> HIDE DEF product
    <2> QED
      BY <1>1
  <1> DEFINE worth == lp_tokens_to_trading_tokens(shares, supply, amount, "Ceiling")
  <1>4. worth = IF q > 0 /\ product % supply > 0 THEN q + 1 ELSE q
    BY DEF lp_tokens_to_trading_tokens
  <1> HIDE DEF worth, q, product
  <1>5. worth \in Nat
    BY <1>2, <1>4
  <1>6. ASSUME worth # 0 PROVE product <= worth * supply
    <2>1. CASE q > 0 /\ product % supply > 0
      <3>1. worth * supply = supply * q + supply
        BY <1>2, <1>4, <2>1
      <3> QED
        BY <1>1, <1>2, <3>1
    <2>2. CASE ~(q > 0 /\ product % supply > 0)
      <3>1. worth = q /\ product % supply = 0
        BY <1>2, <1>3, <1>4, <1>6, <2>2
      <3>2. worth * supply = supply * q
        BY <1>2, <3>1
      <3> QED
        BY <1>1, <1>2, <1>3, <3>1, <3>2
    <2> QED
      BY <2>1, <2>2
  <1> QED
    BY <1>5, <1>6 DEF worth, product

\* Shares sold bring at most their part of the reserve.
LEMMA FloorWorth ==
  ASSUME NEW shares \in Nat, NEW supply \in Nat \ {0}, NEW amount \in Nat
  PROVE  LET worth == lp_tokens_to_trading_tokens(shares, supply, amount, "Floor")
         IN  worth \in Nat /\ worth * supply <= shares * amount
  <1> DEFINE product == shares * amount
             q == product \div supply
  <1>1. product \in Nat
    OBVIOUS
  <1>2. q \in Nat /\ supply * q <= product
    <2> HIDE DEF product
    <2> QED
      BY <1>1, QuotientBounds
  <1>3. lp_tokens_to_trading_tokens(shares, supply, amount, "Floor") = q
    BY DEF lp_tokens_to_trading_tokens
  <1> HIDE DEF q
  <1> QED
    BY <1>2, <1>3

-----------------------------------------------------------------------------
(* Transfers *)

\* The fee of the token program is never more than the transfer.
LEMMA CalculatedFee ==
  ASSUME NEW mint \in MintInfos, NEW amount \in Nat
  PROVE  /\ calculate_fee(mint, amount) \in Nat
         /\ calculate_fee(mint, amount) <= amount
         /\ mint.basis_points = MAX_FEE_BASIS_POINTS
              => calculate_fee(mint, amount) = smaller(amount, mint.maximum_fee)
  <1> DEFINE M == MAX_FEE_BASIS_POINTS
             b == mint.basis_points
             c == mint.maximum_fee
             n == amount * b
             q == (n + M - 1) \div M
  <1>1. M \in Nat \ {0} /\ b \in Nat /\ b <= M /\ c \in Nat
    BY BasisPointsAssumption, WidthAssumption DEF MintInfos, U64
  <1> HIDE DEF b, M, c
  <1>2. n \in Nat /\ n <= amount * M
    BY <1>1, ProductMonotone
  <1>3. b = M => n = amount * M
    OBVIOUS
  <1> HIDE DEF n
  <1>4. n + M - 1 \in Nat
    BY <1>1, <1>2
  <1>5. q \in Nat /\ n + M - 1 < M * q + M
    BY <1>1, <1>4, QuotientBounds
  <1>6. q <= amount
    BY <1>1, <1>2, CeilingAtMost
  <1>7. b = M => q = amount
    <2>1. SUFFICES ASSUME b = M PROVE amount <= q
      BY <1>5, <1>6
    <2>2. amount * M < (q + 1) * M
      <3> HIDE DEF q
      <3>1. (q + 1) * M = M * q + M
        BY <1>1, <1>5
      <3> QED
        BY <1>1, <1>3, <1>5, <2>1, <3>1
    <2>3. amount < q + 1
      <3> HIDE DEF q
      <3> QED
        BY <1>1, <1>5, <2>2, CancelStrict
    <2> QED
      BY <1>5, <2>3
  <1>8. calculate_fee(mint, amount) = smaller(q, c)
    BY DEF calculate_fee, q, n, M, b, c
  <1> HIDE DEF q
  <1>9. /\ smaller(q, c) \in Nat /\ smaller(q, c) <= amount
        /\ b = M => smaller(q, c) = smaller(amount, c)
    BY <1>1, <1>5, <1>6, <1>7 DEF smaller
  <1> QED
    BY <1>8, <1>9 DEF b, M, c

\* What arrives of a transfer is a natural.
LEMMA ReceivedType ==
  ASSUME NEW mint \in MintInfos, NEW amount \in Nat
  PROVE  received(mint, amount) \in Nat /\ received(mint, amount) <= amount
  <1>1. get_transfer_fee(mint, amount) \in Nat /\ get_transfer_fee(mint, amount) <= amount
    BY CalculatedFee DEF get_transfer_fee
  <1> QED
    BY <1>1 DEF received

\* Adding the inverse fee delivers exactly the amount wanted.
LEMMA ReceivedExactly ==
  ASSUME NEW mint \in MintInfos, NEW wanted \in Nat,
         transfer_inverse_fee_defined(mint, wanted)
  PROVE  /\ get_transfer_inverse_fee(mint, wanted) \in Nat
         /\ received(mint, wanted + get_transfer_inverse_fee(mint, wanted)) = wanted
  <1> DEFINE fee == get_transfer_inverse_fee(mint, wanted)
             c == mint.maximum_fee
             total == mint.basis_points = MAX_FEE_BASIS_POINTS
  <1>1. CASE ~charges_transfer_fee(mint)
    BY <1>1 DEF get_transfer_inverse_fee, received, get_transfer_fee
  <1>2. CASE charges_transfer_fee(mint) /\ ~total
    <2>1. /\ calculate_gross_amount(mint, wanted) \in Nat
          /\ fee = calculate_fee(mint, wanted + fee)
      BY <1>2, WidthAssumption DEF transfer_inverse_fee_defined, U64
    <2>2. fee = calculate_fee(mint, calculate_gross_amount(mint, wanted))
      BY <1>2 DEF get_transfer_inverse_fee, calculate_inverse_fee
    <2>3. fee \in Nat
      BY <2>1, <2>2, CalculatedFee
    <2>4. received(mint, wanted + fee) = (wanted + fee) - fee
      BY <1>2, <2>1 DEF received, get_transfer_fee
    <2> HIDE DEF fee
    <2>5. (wanted + fee) - fee = wanted
      BY <2>3
    <2> QED
      BY <2>3, <2>4, <2>5 DEF fee
  <1>3. CASE charges_transfer_fee(mint) /\ total
    <2>1. fee = c
      BY <1>3 DEF get_transfer_inverse_fee
    <2>2. c \in Nat
      BY WidthAssumption DEF MintInfos, U64
    <2>3. received(mint, wanted + c) = (wanted + c) - smaller(wanted + c, c)
      <3>1. wanted + c \in Nat
        BY <2>2
      <3>2. calculate_fee(mint, wanted + c) = smaller(wanted + c, c)
        BY <1>3, <3>1, CalculatedFee
      <3> QED
        BY <1>3, <3>2 DEF received, get_transfer_fee
    <2>4. (wanted + c) - smaller(wanted + c, c) = wanted
      BY <2>2 DEF smaller
    <2> QED
      BY <2>1, <2>2, <2>3, <2>4
  <1> QED
    BY <1>1, <1>2, <1>3
=============================================================================
