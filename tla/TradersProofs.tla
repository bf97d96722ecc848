---------------------------- MODULE TradersProofs ----------------------------
(***************************************************************************)
(* Theorems about Traders for every value of the constants.  What a step     *)
(* gives its user is bounded by what the share holders give up, so a user    *)
(* that trades alone can only have moved the reserves and the shares it      *)
(* began with, and the worth of a share never falls (CpPoolProofs).          *)
(***************************************************************************)
EXTENDS Traders, CpPoolProofs

\* What the user gained since it began came out of what the share holders had
\* then, and no share has lost worth since: x and y are the reserves and s the
\* shares at that moment.
Endowed ==
  \E x, y, s \in Nat \ {0} :
    /\ wallet[0] <= x - Reserve(0)
    /\ wallet[1] <= y - Reserve(1)
    /\ wallet[LpToken] <= lp_supply - s
    /\ x * y * (lp_supply * lp_supply) <= Reserve(0) * Reserve(1) * (s * s)

TraderInv ==
  /\ IInv
  /\ TraderTypeOK
  /\ ~begun => wallet = [a \in Assets |-> 0]
  /\ begun => pool_created /\ Endowed
  /\ OrdersHonoured

\* No gain exceeds what the share holders give up in the step.
Fair(gain) ==
  /\ gain \in [Assets -> Int]
  /\ \A t \in Tokens : gain[t] <= Reserve(t) - Reserve(t)'
  /\ gain[LpToken] <= lp_supply' - lp_supply

Honours(gain, promise) == \A a \in Assets : gain[a] >= promise[a]

-----------------------------------------------------------------------------
(* Arithmetic of shares *)

\* The order of the worth of shares is transitive: p per q, r per u, w per v.
LEMMA WorthTransitive ==
  ASSUME NEW p \in Nat, NEW q \in Nat \ {0}, NEW r \in Nat, NEW u \in Nat,
         NEW v \in Nat, NEW w \in Nat,
         p * q <= r * u, r * v <= w * q
  PROVE  p * v <= w * u
  <1>1. (p * q) * v <= (r * u) * v
    <2>1. p * q \in Nat /\ r * u \in Nat
      OBVIOUS
    <2> QED
      BY <2>1, ProductMonotone
  <1>2. (r * v) * u <= (w * q) * u
    <2>1. r * v \in Nat /\ w * q \in Nat
      OBVIOUS
    <2> QED
      BY <2>1, ProductMonotone
  <1>3. (p * v) * q = (p * q) * v /\ (r * u) * v = (r * v) * u
        /\ (w * q) * u = (w * u) * q
    OBVIOUS
  <1>4. (p * v) * q <= (w * u) * q
    <2>1. (p * q) * v \in Int /\ (r * v) * u \in Int /\ (w * q) * u \in Int
      OBVIOUS
    <2> QED
      BY <1>1, <1>2, <1>3, <2>1
  <1>5. p * v \in Int /\ w * u \in Int
    OBVIOUS
  <1> QED
    BY <1>4, <1>5, CancelFactor

\* Whoever lowers no worth cannot have left less of everything.
LEMMA NothingTaken ==
  ASSUME NEW X \in Nat \ {0}, NEW Y \in Nat \ {0}, NEW S \in Nat \ {0},
         NEW x \in Nat \ {0}, NEW y \in Nat \ {0}, NEW s \in Nat \ {0},
         x <= X, y <= Y, S <= s,
         X * Y * (s * s) <= x * y * (S * S)
  PROVE  x = X /\ y = Y /\ s = S
  <1> DEFINE P == X * Y
             p == x * y
             Q == S * S
             q == s * s
  <1>1. P \in Nat \ {0} /\ p \in Nat \ {0} /\ Q \in Nat \ {0} /\ q \in Nat \ {0}
    OBVIOUS
  <1>2. p <= P /\ Q <= q
    BY ProductMonotone
  <1>3. P * q <= p * Q
    OBVIOUS
  <1>4. x < X => p < P
    <2>1. x < X => x * y < X * y
      OBVIOUS
    <2>2. X * y <= X * Y
      BY ProductMonotone
    <2>3. X * y \in Nat
      OBVIOUS
    <2> QED
      BY <1>1, <2>1, <2>2, <2>3
  <1>5. y < Y => p < P
    <2>1. y < Y => X * y < X * Y
      OBVIOUS
    <2>2. x * y <= X * y
      BY ProductMonotone
    <2>3. X * y \in Nat
      OBVIOUS
    <2> QED
      BY <1>1, <2>1, <2>2, <2>3
  <1>6. S < s => Q < q
    <2>1. S < s => S * S < S * s
      OBVIOUS
    <2>2. S * s <= s * s
      BY ProductMonotone
    <2>3. S * s \in Nat
      OBVIOUS
    <2> QED
      BY <1>1, <2>1, <2>2, <2>3
  <1> HIDE DEF P, p, Q, q
  <1>7. ~(p < P)
    <2> SUFFICES ASSUME p < P PROVE FALSE
      OBVIOUS
    <2>1. p * Q < P * Q
      BY <1>1
    <2>2. P * Q <= P * q
      BY <1>1, <1>2, ProductMonotone
    <2>3. P * Q \in Nat /\ p * Q \in Nat /\ P * q \in Nat
      BY <1>1
    <2> QED
      BY <1>3, <2>1, <2>2, <2>3
  <1>8. ~(Q < q)
    <2> SUFFICES ASSUME Q < q PROVE FALSE
      OBVIOUS
    <2>1. P * Q < P * q
      BY <1>1
    <2>2. p * Q <= P * Q
      BY <1>1, <1>2, ProductMonotone
    <2>3. P * Q \in Nat /\ p * Q \in Nat /\ P * q \in Nat
      BY <1>1
    <2> QED
      BY <1>3, <2>1, <2>2, <2>3
  <1> QED
    BY <1>4, <1>5, <1>6, <1>7, <1>8

-----------------------------------------------------------------------------
(* What a step gives its user *)

\* The fee that a transfer needs on top of what should arrive is a natural.
LEMMA InverseFeeType ==
  ASSUME NEW mint \in MintInfos, NEW wanted \in Nat
  PROVE  get_transfer_inverse_fee(mint, wanted) \in Nat
  <1> DEFINE M == MAX_FEE_BASIS_POINTS
             d == M - mint.basis_points
             n == wanted * M + d - 1
  <1>1. /\ M \in Nat \ {0} /\ mint.basis_points \in Nat /\ mint.basis_points <= M
        /\ mint.maximum_fee \in Nat
    BY BasisPointsAssumption, WidthAssumption DEF MintInfos, U64
  <1>2. CASE mint.basis_points = M
    BY <1>1, <1>2 DEF get_transfer_inverse_fee
  <1>3. CASE mint.basis_points # M
    <2>1. d \in Nat \ {0}
      BY <1>1, <1>3
    <2>2. n \in Nat
      <3>1. wanted * M \in Nat
        BY <1>1
      <3> HIDE DEF d
      <3> QED
        BY <2>1, <3>1
    <2>3. n \div d \in Nat
      <3> HIDE DEF n, d
      <3> QED
        BY <2>1, <2>2, QuotientBounds
    <2>4. calculate_gross_amount(mint, wanted) = smaller(n \div d, wanted + mint.maximum_fee)
      BY DEF calculate_gross_amount
    <2> HIDE DEF n, d
    <2>5. calculate_gross_amount(mint, wanted) \in Nat
      BY <1>1, <2>3, <2>4 DEF smaller
    <2> QED
      BY <1>1, <1>3, <2>5, CalculatedFee DEF get_transfer_inverse_fee, calculate_inverse_fee
  <1> QED
    BY <1>2, <1>3

\* The tokens and the shares are different accounts of a user.
LEMMA AssetFacts ==
  /\ Tokens \subseteq Assets /\ LpToken \in Assets /\ LpToken \notin Tokens
  /\ Assets = {0, 1, LpToken} /\ Tokens = {0, 1}
  BY DEF Assets, Tokens, LpToken

\* What is sent for something to arrive is no less than that.
LEMMA SentAtLeast ==
  ASSUME IInv, NEW t \in Tokens, NEW arrived \in Nat
  PROVE  with_transfer_fee(t, arrived) \in Nat /\ with_transfer_fee(t, arrived) >= arrived
  <1>1. get_transfer_inverse_fee(mints[t], arrived) \in Nat
    BY InverseFeeType DEF IInv, TypeOK
  <1> QED
    BY <1>1 DEF with_transfer_fee

\* What arrives of a payment is no more than was paid.
LEMMA ArrivesAtMost ==
  ASSUME IInv, NEW t \in Tokens, NEW paid \in Nat
  PROVE  received(mints[t], paid) \in Nat /\ received(mints[t], paid) <= paid
  BY ReceivedType DEF IInv, TypeOK

LEMMA SwapChange ==
  ASSUME NEW input \in Tokens, NEW output \in Tokens, input # output,
         NEW sent \in Int, NEW brought \in Int,
         NEW change, change = swap_change(input, sent, brought)
  PROVE  /\ change \in [Assets -> Int]
         /\ change[input] = -sent /\ change[output] = brought /\ change[LpToken] = 0
  BY AssetFacts DEF swap_change

\* A deposit costs no more of each token than its user signed (deposit.rs:169-173).
LEMMA DepositGain ==
  ASSUME IInv, NEW lp_token_amount \in Nat, NEW maximum \in [Tokens -> U64],
         Deposit(lp_token_amount, maximum),
         NEW sent, sent = deposit_sent(lp_token_amount),
         NEW gain, gain = share_change(-sent[0], -sent[1], lp_token_amount),
         NEW promise, promise = share_change(-maximum[0], -maximum[1], lp_token_amount)
  PROVE  Fair(gain) /\ Honours(gain, promise)
  <1>1. /\ pool_created
        /\ lp_supply' = lp_supply + lp_token_amount
    BY DEF Deposit
  <1>2. ASSUME NEW t \in Tokens
        PROVE  /\ sent[t] \in Nat /\ maximum[t] \in Nat
               /\ -sent[t] <= Reserve(t) - Reserve(t)'
               /\ sent[t] <= maximum[t]
    <2> DEFINE arrived == deposited(lp_token_amount)[t]
    <2>1. Joined(t, arrived) /\ sent[t] <= maximum[t]
      BY DepositKept
    <2>2. sent[t] = with_transfer_fee(t, arrived)
      BY DEF deposit_sent
    <2> HIDE DEF arrived
    <2>3. /\ arrived \in Nat \ {0} /\ Reserve(t) \in Nat /\ maximum[t] \in Nat
          /\ Reserve(t)' = Reserve(t) + arrived
      BY <1>1, <2>1, PoolFacts, WidthAssumption DEF Joined, U64
    <2>4. sent[t] \in Nat /\ sent[t] >= arrived
      BY <2>2, <2>3, SentAtLeast
    <2> QED
      BY <2>1, <2>3, <2>4
  <1>3. /\ -sent[0] \in Int /\ -sent[1] \in Int
        /\ -maximum[0] \in Int /\ -maximum[1] \in Int
    BY <1>2, AssetFacts
  <1>4. /\ gain \in [Assets -> Int] /\ gain[LpToken] = lp_token_amount
        /\ gain[0] = -sent[0] /\ gain[1] = -sent[1]
    BY <1>3, AssetFacts DEF share_change
  <1>5. /\ promise[LpToken] = lp_token_amount
        /\ promise[0] = -maximum[0] /\ promise[1] = -maximum[1]
    BY <1>3, AssetFacts DEF share_change
  <1>6. Fair(gain)
    BY <1>1, <1>2, <1>4, PoolFacts, AssetFacts DEF Fair
  <1>7. Honours(gain, promise)
    BY <1>2, <1>4, <1>5, AssetFacts DEF Honours
  <1> QED
    BY <1>6, <1>7

\* A withdrawal brings no less of each token than its user signed
\* (withdraw.rs:179-183).
LEMMA WithdrawGain ==
  ASSUME IInv, NEW lp_token_amount \in Nat, NEW minimum \in [Tokens -> U64],
         Withdraw(lp_token_amount, minimum),
         NEW brought,
         brought = [t \in Tokens |-> received(mints[t], withdrawn(lp_token_amount)[t])],
         NEW gain, gain = share_change(brought[0], brought[1], -lp_token_amount),
         NEW promise, promise = share_change(minimum[0], minimum[1], -lp_token_amount)
  PROVE  Fair(gain) /\ Honours(gain, promise)
  <1>1. /\ pool_created
        /\ lp_supply' = lp_supply - lp_token_amount
    BY DEF Withdraw, withdrawal_passes
  <1>2. ASSUME NEW t \in Tokens
        PROVE  /\ brought[t] \in Nat /\ minimum[t] \in Nat
               /\ brought[t] <= Reserve(t) - Reserve(t)'
               /\ brought[t] >= minimum[t]
    <2> DEFINE paid == withdrawn(lp_token_amount)[t]
    <2>1. Left(t, paid) /\ received(mints[t], paid) >= minimum[t]
      BY WithdrawKept
    <2>2. brought[t] = received(mints[t], paid)
      OBVIOUS
    <2> HIDE DEF paid
    <2>3. /\ paid \in Nat \ {0} /\ Reserve(t) \in Nat /\ minimum[t] \in Nat
          /\ Reserve(t)' = Reserve(t) - paid
      BY <1>1, <2>1, PoolFacts, WidthAssumption DEF Left, U64
    <2>4. brought[t] \in Nat /\ brought[t] <= paid
      BY <2>2, <2>3, ArrivesAtMost
    <2> QED
      BY <2>1, <2>2, <2>3, <2>4
  <1>3. /\ brought[0] \in Int /\ brought[1] \in Int /\ -lp_token_amount \in Int
        /\ minimum[0] \in Int /\ minimum[1] \in Int
    BY <1>2, AssetFacts
  <1>4. /\ gain \in [Assets -> Int] /\ gain[LpToken] = -lp_token_amount
        /\ gain[0] = brought[0] /\ gain[1] = brought[1]
    BY <1>3, AssetFacts DEF share_change
  <1>5. /\ promise[LpToken] = -lp_token_amount
        /\ promise[0] = minimum[0] /\ promise[1] = minimum[1]
    BY <1>3, AssetFacts DEF share_change
  <1>6. Fair(gain)
    BY <1>1, <1>2, <1>4, PoolFacts, AssetFacts DEF Fair
  <1>7. Honours(gain, promise)
    BY <1>2, <1>3, <1>4, <1>5, AssetFacts DEF Honours
  <1> QED
    BY <1>6, <1>7

\* A swap that pays no more into the reserve of its input than is sent, and brings
\* no more than it takes out of the other.
LEMMA SwapFair ==
  ASSUME IInv, pool_created, lp_supply' = lp_supply,
         NEW input \in Tokens, NEW output \in Tokens, input # output,
         NEW arrived \in Nat, NEW paid, Traded(input, output, arrived, paid),
         Reserve(input)' \in Int,
         NEW sent \in Nat, arrived <= sent, NEW brought \in Nat, brought <= paid,
         NEW gain, gain = swap_change(input, sent, brought)
  PROVE  Fair(gain)
  <1>1. /\ gain \in [Assets -> Int]
        /\ gain[input] = -sent /\ gain[output] = brought /\ gain[LpToken] = 0
    BY SwapChange
  <1>2. /\ Reserve(input) \in Nat /\ Reserve(output) \in Nat /\ lp_supply \in Nat
        /\ paid \in Nat /\ Reserve(output)' = Reserve(output) - paid
        /\ Reserve(input)' <= Reserve(input) + arrived
    BY PoolFacts DEF Traded, Left
  <1>3. -sent <= Reserve(input) - Reserve(input)'
    BY <1>2
  <1>4. brought <= Reserve(output) - Reserve(output)'
    BY <1>2
  <1>5. \A t \in Tokens : t = input \/ t = output
    BY DEF Tokens
  <1> QED
    BY <1>1, <1>2, <1>3, <1>4, <1>5 DEF Fair

\* A swap that sends no more and brings no less than signed.
LEMMA SwapHonours ==
  ASSUME NEW input \in Tokens, NEW output \in Tokens, input # output,
         NEW sent \in Nat, NEW at_most \in Nat, sent <= at_most,
         NEW brought \in Nat, NEW at_least \in Nat, brought >= at_least,
         NEW gain, gain = swap_change(input, sent, brought),
         NEW promise, promise = swap_change(input, at_most, at_least)
  PROVE  Honours(gain, promise)
  <1>1. /\ gain[input] = -sent /\ gain[output] = brought /\ gain[LpToken] = 0
        /\ promise[input] = -at_most /\ promise[output] = at_least
        /\ promise[LpToken] = 0
    BY SwapChange
  <1>2. \A a \in Assets : a \in {input, output, LpToken}
    BY AssetFacts
  <1> QED
    BY <1>1, <1>2 DEF Honours

\* A swap by its input takes what its user sent and brings no less than signed,
\* after the fee of the output's mint (swap_base_input.rs:181-199).
LEMMA SwapBaseInputGain ==
  ASSUME IInv, NEW input \in Tokens, NEW output \in Tokens, NEW amount_in \in U64,
         NEW minimum_amount_out \in U64,
         SwapBaseInput(input, output, amount_in, minimum_amount_out),
         NEW paid, paid = input_result(input, output, amount_in).destination_amount_swapped,
         NEW gain, gain = swap_change(input, amount_in, received(mints[output], paid)),
         NEW promise, promise = swap_change(input, amount_in, minimum_amount_out)
  PROVE  Fair(gain) /\ Honours(gain, promise)
  <1> DEFINE arrived == received(mints[input], amount_in)
             brought == received(mints[output], paid)
  <1>1. pool_created /\ input # output /\ lp_supply' = lp_supply
    BY DEF SwapBaseInput, settle, input_swap_passes
  <1>2. Traded(input, output, arrived, paid) /\ brought >= minimum_amount_out
    BY SwapBaseInputKept
  <1>3. amount_in \in Nat /\ minimum_amount_out \in Nat
    BY WidthAssumption DEF U64
  <1>4. arrived \in Nat /\ arrived <= amount_in
    BY <1>3, ArrivesAtMost
  <1>5. paid \in Nat
    BY <1>2 DEF Traded, Left
  <1>6. brought \in Nat /\ brought <= paid
    BY <1>5, ArrivesAtMost
  <1>7. Reserve(input)' \in Int
    <2>1. TypeOK'
      BY SwapBaseInputKept
    <2> QED
      BY <2>1, WidthAssumption DEF TypeOK, Reserve, U64
  <1> HIDE DEF arrived
  <1>8. Fair(gain)
    BY <1>1, <1>2, <1>3, <1>4, <1>6, <1>7, SwapFair
  <1>9. Honours(gain, promise)
    BY <1>1, <1>2, <1>3, <1>6, SwapHonours
  <1> QED
    BY <1>8, <1>9

\* A swap by its output costs no more than signed, with the fee of the input's mint
\* on top, and brings what was asked (swap_base_output.rs:22-27 and 117-126).
LEMMA SwapBaseOutputGain ==
  ASSUME IInv, NEW input \in Tokens, NEW output \in Tokens,
         NEW max_amount_in \in U64, NEW amount_out_less_fee \in U64,
         SwapBaseOutput(input, output, max_amount_in, amount_out_less_fee),
         NEW source,
         source = output_result(input, output, amount_out_less_fee).source_amount_swapped,
         NEW paid, paid = with_transfer_fee(output, amount_out_less_fee),
         NEW gain,
         gain = swap_change(input, with_transfer_fee(input, source),
                            received(mints[output], paid)),
         NEW promise, promise = swap_change(input, max_amount_in, amount_out_less_fee)
  PROVE  Fair(gain) /\ Honours(gain, promise)
  <1> DEFINE sent    == with_transfer_fee(input, source)
             brought == received(mints[output], paid)
  <1>1. pool_created /\ input # output /\ lp_supply' = lp_supply
    BY DEF SwapBaseOutput, settle, output_swap_passes
  <1>2. /\ Traded(input, output, source, paid)
        /\ sent <= max_amount_in /\ brought = amount_out_less_fee
    BY SwapBaseOutputKept
  <1>3. max_amount_in \in Nat /\ amount_out_less_fee \in Nat
    BY WidthAssumption DEF U64
  <1>4. source \in Nat
    BY <1>2 DEF Traded
  <1>5. sent \in Nat /\ source <= sent
    BY <1>4, SentAtLeast
  <1>6. paid \in Nat
    BY <1>2 DEF Traded, Left
  <1>7. brought \in Nat /\ brought <= paid
    BY <1>6, ArrivesAtMost
  <1>8. Reserve(input)' \in Int
    <2>1. TypeOK'
      BY SwapBaseOutputKept
    <2> QED
      BY <2>1, WidthAssumption DEF TypeOK, Reserve, U64
  <1>9. Fair(gain)
    BY <1>1, <1>2, <1>4, <1>5, <1>7, <1>8, SwapFair
  <1>10. Honours(gain, promise)
    BY <1>1, <1>2, <1>3, <1>5, <1>7, SwapHonours
  <1> QED
    BY <1>9, <1>10

\* A gift to the pool, or a share burnt, comes back to nobody's account.
LEMMA DonateGain ==
  ASSUME IInv, NEW t \in Tokens, NEW amount \in U64, Donate(t, amount)
  PROVE  Fair(given(t, amount)) /\ Honours(given(t, amount), given(t, amount))
  <1>1. /\ pool_created /\ lp_supply' = lp_supply
        /\ amount \in Nat /\ mints[t] \in MintInfos
    BY WidthAssumption DEF Donate, pool_state, IInv, TypeOK, U64
  <1>2. received(mints[t], amount) \in Nat /\ received(mints[t], amount) <= amount
    BY <1>1, ReceivedType
  <1>3. given(t, amount) \in [Assets -> Int]
    BY <1>1 DEF given
  <1>4. given(t, amount)[LpToken] = 0 /\ lp_supply' - lp_supply = 0
    BY <1>1, AssetFacts, PoolFacts DEF given
  <1>5. ASSUME NEW u \in Tokens
        PROVE  given(t, amount)[u] <= Reserve(u) - Reserve(u)'
    <2>1. given(t, amount)[u] = IF u = t THEN -amount ELSE 0
      BY AssetFacts DEF given
    <2>2. /\ Reserve(u) \in Nat
          /\ Reserve(u)' = Reserve(u) + IF u = t THEN received(mints[t], amount) ELSE 0
      BY <1>1, PoolFacts, DonateKept
    <2> QED
      BY <1>1, <1>2, <2>1, <2>2
  <1>6. Honours(given(t, amount), given(t, amount))
    BY <1>3 DEF Honours
  <1> QED
    BY <1>3, <1>4, <1>5, <1>6 DEF Fair

LEMMA BurnLpGain ==
  ASSUME IInv, pool_created, NEW amount \in U64, BurnLp(amount)
  PROVE  /\ Fair(given(LpToken, amount))
         /\ Honours(given(LpToken, amount), given(LpToken, amount))
  <1>1. /\ amount \in Nat /\ lp_supply' = lp_supply /\ vault' = vault
        /\ protocol_fees' = protocol_fees /\ fund_fees' = fund_fees
    BY WidthAssumption DEF BurnLp, pool_state, U64
  <1>2. given(LpToken, amount) \in [Assets -> Int]
    BY <1>1 DEF given
  <1>3. given(LpToken, amount)[LpToken] <= lp_supply' - lp_supply
    BY <1>1, AssetFacts, PoolFacts DEF given
  <1>4. ASSUME NEW u \in Tokens
        PROVE  given(LpToken, amount)[u] <= Reserve(u) - Reserve(u)'
    <2>1. given(LpToken, amount)[u] = 0
      BY AssetFacts DEF given
    <2>2. Reserve(u) \in Nat /\ Reserve(u)' = Reserve(u)
      BY <1>1, PoolFacts DEF Reserve
    <2> QED
      BY <2>1, <2>2
  <1>5. Honours(given(LpToken, amount), given(LpToken, amount))
    BY <1>2 DEF Honours
  <1> QED
    BY <1>2, <1>3, <1>4, <1>5 DEF Fair

-----------------------------------------------------------------------------
(* What a step does to the books *)

\* Every account of the lone user stays within what the share holders gave up.
LEMMA EndowedKept ==
  ASSUME IInv, pool_created, IInv', pool_created', KeepsWorth,
         wallet \in [Assets -> Int], NEW gain, Fair(gain),
         wallet' = [a \in Assets |-> wallet[a] + gain[a]],
         Endowed
  PROVE  Endowed'
  <1>1. PICK x, y, s \in Nat \ {0} :
          /\ wallet[0] <= x - Reserve(0)
          /\ wallet[1] <= y - Reserve(1)
          /\ wallet[LpToken] <= lp_supply - s
          /\ x * y * (lp_supply * lp_supply) <= Reserve(0) * Reserve(1) * (s * s)
    BY DEF Endowed
  <1>2. /\ Reserve(0) \in Nat /\ Reserve(1) \in Nat /\ lp_supply \in Nat \ {0}
        /\ Reserve(0)' \in Nat /\ Reserve(1)' \in Nat /\ lp_supply' \in Nat
    <2>1. /\ \A t \in Tokens : Reserve(t) \in Nat
          /\ lp_supply \in Nat \ {0}
      BY PoolFacts
    <2>2. /\ \A t \in Tokens : Reserve(t)' \in Nat
          /\ lp_supply' \in Nat
      BY WidthAssumption DEF IInv, TypeOK, Solvent, Reserve, U64, Tokens
    <2> QED
      BY <2>1, <2>2, AssetFacts
  <1>3. /\ wallet[0] \in Int /\ wallet[1] \in Int /\ wallet[LpToken] \in Int
        /\ gain[0] \in Int /\ gain[1] \in Int /\ gain[LpToken] \in Int
        /\ wallet'[0] = wallet[0] + gain[0] /\ wallet'[1] = wallet[1] + gain[1]
        /\ wallet'[LpToken] = wallet[LpToken] + gain[LpToken]
    BY AssetFacts DEF Fair
  <1>4. /\ gain[0] <= Reserve(0) - Reserve(0)' /\ gain[1] <= Reserve(1) - Reserve(1)'
        /\ gain[LpToken] <= lp_supply' - lp_supply
    BY AssetFacts DEF Fair
  <1>5. /\ wallet'[0] <= x - Reserve(0)'
        /\ wallet'[1] <= y - Reserve(1)'
        /\ wallet'[LpToken] <= lp_supply' - s
    BY <1>1, <1>2, <1>3, <1>4
  <1>6. (x * y) * (lp_supply' * lp_supply') <= (Reserve(0)' * Reserve(1)') * (s * s)
    <2> DEFINE p == x * y
               q == lp_supply * lp_supply
               r == Reserve(0) * Reserve(1)
               u == s * s
               v == lp_supply' * lp_supply'
               w == Reserve(0)' * Reserve(1)'
    <2>1. /\ p \in Nat /\ q \in Nat \ {0} /\ r \in Nat /\ u \in Nat
          /\ v \in Nat /\ w \in Nat
      <3>1. p \in Nat /\ u \in Nat
        OBVIOUS
      <3>2. r \in Nat /\ v \in Nat /\ w \in Nat
        <4>1. \A m, n \in Nat : m * n \in Nat
          OBVIOUS
        <4> QED
          BY <1>2, <4>1
      <3>3. \A n \in Nat \ {0} : n * n \in Nat \ {0}
        OBVIOUS
      <3>4. q \in Nat \ {0}
        BY <1>2, <3>3
      <3> QED
        BY <3>1, <3>2, <3>4
    <2>2. p * q <= r * u /\ r * v <= w * q
      BY <1>1 DEF KeepsWorth
    <2> HIDE DEF p, q, r, u, v, w
    <2>3. p * v <= w * u
      BY <2>1, <2>2, WorthTransitive
    <2> QED
      BY <2>3 DEF p, v, w, u
  <1> QED
    BY <1>5, <1>6 DEF Endowed

\* A step of the pool that gives its user gain, promised at least promise.
LEMMA BookKept ==
  ASSUME TraderInv, Next, pool_created' = pool_created, NEW gain, NEW promise,
         pool_created => Fair(gain), Honours(gain, promise), Book(gain, promise)
  PROVE  TraderInv'
  <1>1. IInv' /\ (pool_created => KeepsWorth)
    BY StepKept DEF TraderInv
  <1>2. /\ wallet' = IF begun THEN [a \in Assets |-> wallet[a] + gain[a]] ELSE wallet
        /\ honoured' = (honoured /\ \A a \in Assets : gain[a] >= promise[a])
        /\ begun' = begun
    BY DEF Book
  <1>3. honoured' = TRUE
    BY <1>2 DEF TraderInv, OrdersHonoured, Honours, TraderTypeOK
  <1>4. CASE begun
    <2>1. pool_created /\ Endowed /\ Fair(gain) /\ wallet \in [Assets -> Int]
      BY <1>4 DEF TraderInv, TraderTypeOK
    <2>2. Endowed'
      BY <1>1, <1>2, <1>4, <2>1, EndowedKept DEF TraderInv
    <2>3. wallet' \in [Assets -> Int]
      BY <1>2, <1>4, <2>1 DEF Fair
    <2> QED
      BY <1>1, <1>2, <1>3, <1>4, <2>1, <2>2, <2>3
      DEF TraderInv, TraderTypeOK, OrdersHonoured
  <1>5. CASE ~begun
    BY <1>1, <1>2, <1>3, <1>5 DEF TraderInv, TraderTypeOK, OrdersHonoured
  <1> QED
    BY <1>4, <1>5

\* A step that leaves the books and what the share holders own alone.
LEMMA BooksUntouched ==
  ASSUME TraderInv, [Next]_vars, pool_created => pool_created' /\ ReservesStay,
         begun' = begun, wallet' = wallet, honoured' = honoured
  PROVE  TraderInv'
  <1>1. IInv'
    BY StepKept DEF TraderInv
  <1>2. begun => pool_created' /\ Endowed'
    <2> SUFFICES ASSUME begun PROVE pool_created' /\ Endowed'
      OBVIOUS
    <2>1. pool_created /\ pool_created' /\ ReservesStay
      BY DEF TraderInv
    <2>2. /\ Reserve(0)' = Reserve(0) /\ Reserve(1)' = Reserve(1)
          /\ lp_supply' = lp_supply
      BY <2>1 DEF ReservesStay, Tokens
    <2> QED
      BY <2>1, <2>2 DEF TraderInv, Endowed
  <1> QED
    BY <1>1, <1>2 DEF TraderInv, TraderTypeOK, OrdersHonoured

\* A step of anyone's trade.
LEMMA UserTradesKept ==
  ASSUME TraderInv, UserTrades
  PROVE  TraderInv'
  <1> USE DEF TraderInv
  <1>1. ASSUME NEW lp_token_amount \in Amounts, NEW limit \in [Tokens -> Limits],
               UserDeposit(lp_token_amount, limit)
        PROVE  TraderInv'
    <2>1. Deposit(lp_token_amount, limit) /\ Next /\ pool_created' = pool_created
      BY <1>1 DEF UserDeposit, Next, Trading, Deposit
    <2>2. lp_token_amount \in Nat /\ limit \in [Tokens -> U64]
      <3>1. lp_token_amount \in U64 /\ Limits \subseteq U64
        BY PoolAssumption
      <3>2. limit \in [Tokens -> U64]
        BY <3>1
      <3> QED
        BY <3>1, <3>2, WidthAssumption DEF U64
    <2> QED
      BY <1>1, <2>1, <2>2, DepositGain, BookKept DEF UserDeposit
  <1>2. ASSUME NEW lp_token_amount \in Amounts, NEW limit \in [Tokens -> Limits],
               UserWithdraw(lp_token_amount, limit)
        PROVE  TraderInv'
    <2>1. Withdraw(lp_token_amount, limit) /\ Next /\ pool_created' = pool_created
      BY <1>2 DEF UserWithdraw, Next, Trading, Withdraw, withdrawal_passes
    <2>2. lp_token_amount \in Nat /\ limit \in [Tokens -> U64]
      <3>1. lp_token_amount \in U64 /\ Limits \subseteq U64
        BY PoolAssumption
      <3>2. limit \in [Tokens -> U64]
        BY <3>1
      <3> QED
        BY <3>1, <3>2, WidthAssumption DEF U64
    <2> QED
      BY <1>2, <2>1, <2>2, WithdrawGain, BookKept DEF UserWithdraw
  <1>3. ASSUME NEW input \in Tokens, NEW output \in Tokens, NEW amount \in Amounts,
               NEW limit \in Limits, UserSwapBaseInput(input, output, amount, limit)
        PROVE  TraderInv'
    <2>1. /\ SwapBaseInput(input, output, amount, limit) /\ Next
          /\ pool_created' = pool_created
      BY <1>3 DEF UserSwapBaseInput, Next, Trading, SwapBaseInput, settle
    <2>2. amount \in U64 /\ limit \in U64
      BY PoolAssumption
    <2> QED
      BY <1>3, <2>1, <2>2, SwapBaseInputGain, BookKept DEF UserSwapBaseInput
  <1>4. ASSUME NEW input \in Tokens, NEW output \in Tokens, NEW amount \in Amounts,
               NEW limit \in Limits, UserSwapBaseOutput(input, output, limit, amount)
        PROVE  TraderInv'
    <2>1. /\ SwapBaseOutput(input, output, limit, amount) /\ Next
          /\ pool_created' = pool_created
      BY <1>4 DEF UserSwapBaseOutput, Next, Trading, SwapBaseOutput, settle
    <2>2. amount \in U64 /\ limit \in U64
      BY PoolAssumption
    <2> QED
      BY <1>4, <2>1, <2>2, SwapBaseOutputGain, BookKept DEF UserSwapBaseOutput
  <1>5. ASSUME NEW t \in Tokens, NEW amount \in Donations, Donate(t, amount),
               Book(given(t, amount), given(t, amount))
        PROVE  TraderInv'
    <2>1. Next /\ pool_created' = pool_created
      BY <1>5 DEF Next, Environment, Donate, pool_state
    <2>2. amount \in U64
      BY PoolAssumption
    <2> QED
      BY <1>5, <2>1, <2>2, DonateGain, BookKept
  <1>6. ASSUME NEW amount \in Donations, BurnLp(amount),
               Book(given(LpToken, amount), given(LpToken, amount))
        PROVE  TraderInv'
    <2>1. Next /\ pool_created' = pool_created
      BY <1>6 DEF Next, Environment, BurnLp, pool_state
    <2>2. amount \in U64
      BY PoolAssumption
    <2>3. Honours(given(LpToken, amount), given(LpToken, amount))
      BY <2>2, WidthAssumption DEF Honours, given, U64
    <2> QED
      BY <1>6, <2>1, <2>2, <2>3, BurnLpGain, BookKept
  <1> QED
    BY <1>1, <1>2, <1>3, <1>4, <1>5, <1>6 DEF UserTrades, UserGift

\* A step of the pool's creator, of the owners, the clock or a mint's authority.
LEMMA OthersKept ==
  ASSUME TraderInv, OthersGoOn
  PROVE  TraderInv'
  <1>1. begun' = begun /\ wallet' = wallet /\ honoured' = honoured
    BY DEF OthersGoOn
  <1>2. CASE \E init_amount \in [Tokens -> Amounts], requested_open_time \in OpenTimes :
               Initialize(init_amount, requested_open_time)
    BY <1>1, <1>2, BooksUntouched DEF Initialize, Next
  <1>3. CASE Administration
    BY <1>1, <1>3, AdministrationKept, BooksUntouched DEF Next, TraderInv
  <1>4. CASE Tick
    <2>1. Next /\ pool_created' = pool_created /\ ReservesStay
      BY <1>4 DEF Tick, Next, Environment, pool_state, ReservesStay, Reserve
    <2> QED
      BY <1>1, <2>1, BooksUntouched
  <1>5. CASE \E t \in Tokens, kind \in MintKinds : ChangeTransferFee(t, kind)
    <2>1. Next /\ pool_created' = pool_created /\ ReservesStay
      BY <1>5 DEF ChangeTransferFee, Next, Environment, pool_state, ReservesStay, Reserve
    <2> QED
      BY <1>1, <2>1, BooksUntouched
  <1> QED
    BY <1>2, <1>3, <1>4, <1>5 DEF OthersGoOn

\* One user begins to trade alone, with the pool as it is.
LEMMA BeginKept ==
  ASSUME TraderInv, Begin
  PROVE  TraderInv'
  <1>1. /\ pool_created /\ wallet = [a \in Assets |-> 0] /\ IInv
        /\ begun' = TRUE /\ wallet' = wallet /\ honoured' = honoured /\ vars' = vars
    BY DEF Begin, TraderInv
  <1>2. IInv'
    BY <1>1, StepKept
  <1>3. /\ pool_created' = pool_created /\ lp_supply' = lp_supply
        /\ Reserve(0)' = Reserve(0) /\ Reserve(1)' = Reserve(1)
    BY <1>1 DEF vars, pool_state, Reserve
  <1>4. /\ Reserve(0) \in Nat \ {0} /\ Reserve(1) \in Nat \ {0}
        /\ lp_supply \in Nat \ {0}
    BY <1>1, PoolFacts, AssetFacts
  <1>5. Endowed'
    <2>1. /\ wallet'[0] <= Reserve(0) - Reserve(0)'
          /\ wallet'[1] <= Reserve(1) - Reserve(1)'
          /\ wallet'[LpToken] <= lp_supply' - lp_supply
      BY <1>1, <1>3, <1>4, AssetFacts
    <2>2. Reserve(0) * Reserve(1) * (lp_supply' * lp_supply')
            <= Reserve(0)' * Reserve(1)' * (lp_supply * lp_supply)
      BY <1>3, <1>4
    <2> QED
      BY <1>4, <2>1, <2>2 DEF Endowed
  <1> QED
    BY <1>1, <1>2, <1>3, <1>5 DEF TraderInv, TraderTypeOK, OrdersHonoured

\* The inductive step.
LEMMA TraderStep ==
  ASSUME TraderInv, [TraderNext]_traderVars
  PROVE  TraderInv'
  <1>1. CASE UNCHANGED traderVars
    <2>1. /\ UNCHANGED vars /\ begun' = begun /\ wallet' = wallet
          /\ honoured' = honoured
      BY <1>1 DEF traderVars
    <2>2. pool_created => pool_created' /\ ReservesStay
      BY <2>1 DEF vars, pool_state, ReservesStay, Reserve
    <2> QED
      BY <2>1, <2>2, BooksUntouched
  <1> QED
    BY <1>1, UserTradesKept, OthersKept, BeginKept DEF TraderNext, OrderNext

LEMMA TraderInitInvariant ==
  ASSUME TraderInit
  PROVE  TraderInv
  <1>1. /\ IInv /\ begun = FALSE /\ honoured = TRUE
        /\ wallet = [a \in Assets |-> 0]
    BY InitInvariant DEF TraderInit
  <1>2. wallet \in [Assets -> Int]
    BY <1>1
  <1> QED
    BY <1>1, <1>2 DEF TraderInv, TraderTypeOK, OrdersHonoured

-----------------------------------------------------------------------------
(* Theorems *)

\* The pool keeps its invariant whoever keeps the books, and the books agree with it.
THEOREM TradersInvariance == TraderSpec => []TraderInv
  BY TraderInitInvariant, TraderStep, PTL DEF TraderSpec

\* The books stay what they are meant to be: a whole number for every account.
THEOREM TradersTypeCorrect == TraderSpec => []TraderTypeOK
  <1>1. TraderInv => TraderTypeOK
    BY DEF TraderInv
  <1> QED
    BY <1>1, TradersInvariance, PTL

\* Whoever trades alone against the pool ends with less of something or with what
\* it began: no cycle of swaps, deposits, withdrawals, gifts and burns, however
\* long and whatever is collected or reconfigured meanwhile, gains from the
\* roundings of the curve and of the fees (constant_product.rs:19-92, fees.rs).
THEOREM NobodyGainsFromRounding == TraderSpec => []NoFreeLunch
  <1>1. TraderInv => NoFreeLunch
    <2> SUFFICES ASSUME TraderInv, \A a \in Assets : wallet[a] >= 0
                 PROVE  \A a \in Assets : wallet[a] = 0
      BY DEF NoFreeLunch
    <2>1. CASE ~begun
      BY <2>1 DEF TraderInv
    <2>2. CASE begun
      <3>1. PICK x, y, s \in Nat \ {0} :
              /\ wallet[0] <= x - Reserve(0)
              /\ wallet[1] <= y - Reserve(1)
              /\ wallet[LpToken] <= lp_supply - s
              /\ x * y * (lp_supply * lp_supply) <= Reserve(0) * Reserve(1) * (s * s)
        BY <2>2 DEF TraderInv, Endowed
      <3>2. /\ Reserve(0) \in Nat \ {0} /\ Reserve(1) \in Nat \ {0}
            /\ lp_supply \in Nat \ {0}
        BY <2>2, PoolFacts, AssetFacts DEF TraderInv
      <3>3. /\ wallet[0] \in Nat /\ wallet[1] \in Nat /\ wallet[LpToken] \in Nat
        BY AssetFacts DEF TraderInv, TraderTypeOK
      <3>4. Reserve(0) <= x /\ Reserve(1) <= y /\ s <= lp_supply
        BY <3>1, <3>2, <3>3
      <3>5. Reserve(0) = x /\ Reserve(1) = y /\ lp_supply = s
        BY <3>1, <3>2, <3>4, NothingTaken
      <3>6. wallet[0] = 0 /\ wallet[1] = 0 /\ wallet[LpToken] = 0
        BY <3>1, <3>2, <3>3, <3>5
      <3> QED
        BY <3>6, AssetFacts
    <2> QED
      BY <2>1, <2>2
  <1> QED
    BY <1>1, TradersInvariance, PTL

\* Whatever ran between the moment a user signed and the moment its instruction
\* runs, each token it takes or brings is within what was signed, after all
\* transfer fees (deposit.rs:169-173, withdraw.rs:179-183,
\* swap_base_input.rs:181-199, swap_base_output.rs:22-27 and 117-126).
THEOREM EveryOrderHonoured == OrderSpec => []OrdersHonoured
  <1>1. TraderInv /\ [OrderNext]_traderVars => TraderInv'
    BY TraderStep DEF TraderNext
  <1>2. TraderInv => OrdersHonoured
    BY DEF TraderInv
  <1> QED
    BY <1>1, <1>2, TraderInitInvariant, PTL DEF OrderSpec

-----------------------------------------------------------------------------
(* The traders and the pool *)

\* A trade is one instruction of the pool; to begin trading alone is none.
LEMMA TraderStepsPool ==
  ASSUME [TraderNext]_traderVars
  PROVE  [Next]_vars
  <1>1. CASE UserTrades
    BY <1>1 DEF UserTrades, UserGift, UserDeposit, UserWithdraw, UserSwapBaseInput,
       UserSwapBaseOutput, Next, Trading, Environment
  <1>2. CASE OthersGoOn
    BY <1>2 DEF OthersGoOn, Next, Environment
  <1>3. CASE Begin
    BY <1>3 DEF Begin
  <1> QED
    BY <1>1, <1>2, <1>3 DEF TraderNext, OrderNext, traderVars

\* The users keep their books beside the pool and change nothing of it: what is
\* proved of every behaviour of the pool holds of those with traders.
THEOREM TradersUsePool == TraderSpec => Spec
  <1>1. TraderInit => Init
    BY DEF TraderInit
  <1>2. [TraderNext]_traderVars => [Next]_vars
    BY TraderStepsPool
  <1> QED
    BY <1>1, <1>2, PTL DEF TraderSpec, Spec

\* Orders that meet any pool are traders of whom none ever trades alone.
THEOREM OrdersAreTrades == OrderSpec => TraderSpec
  <1>1. [OrderNext]_traderVars => [TraderNext]_traderVars
    BY DEF TraderNext
  <1> QED
    BY <1>1, PTL DEF OrderSpec, TraderSpec
=============================================================================
