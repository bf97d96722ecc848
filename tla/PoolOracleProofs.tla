-------------------------- MODULE PoolOracleProofs --------------------------
(***************************************************************************)
(* Theorems about PoolOracle for a ring of any size above one, any interval  *)
(* between observations and any width of the integral.                       *)
(***************************************************************************)
EXTENDS PoolOracle, CpPoolProofs

Prices == [Tokens -> Nat]

\* The mean that a reader computes is a price that the pool had in the window: an
\* observation weighs the price it finds with all the time since the last one.
MeanWasHeld ==
  window # {} =>
    /\ elapsed \in Nat /\ elapsed >= OBSERVATION_UPDATE_DURATION_DEFAULT
    /\ \E p \in window : \A t \in Tokens : mean_price(t) = p[t]

OInv ==
  /\ IInv
  /\ held \subseteq Prices /\ window \subseteq Prices
  /\ observation_state.initialized => pool_created /\ price \in held
  /\ ~observation_state.initialized => window = {}
  /\ MeanWasHeld

-----------------------------------------------------------------------------
(* Arithmetic of the ring *)

LEMMA Remainders ==
  ASSUME NEW M \in Nat \ {0}, NEW r \in 0 .. M - 1
  PROVE  r % M = r /\ (r + M) % M = r
  OBVIOUS

\* Subtracting modulo the width gives back what was added, though it wrapped.
LEMMA CyclicDifference ==
  ASSUME NEW M \in Nat \ {0}, NEW c \in 0 .. M - 1, NEW d \in 0 .. M - 1
  PROVE  (((c + d) % M) + M - c) % M = d
  <1>1. CASE c + d < M
    <2>1. (c + d) % M = c + d
      BY <1>1, Remainders
    <2>2. (c + d) + M - c = d + M
      OBVIOUS
    <2> QED
      BY <2>1, <2>2, Remainders
  <1>2. CASE c + d >= M
    <2>1. c + d - M \in 0 .. M - 1 /\ c + d = (c + d - M) + M
      BY <1>2
    <2>2. (c + d) % M = c + d - M
      BY <2>1, Remainders
    <2>3. (c + d - M) + M - c = d
      OBVIOUS
    <2> QED
      BY <2>2, <2>3, Remainders
  <1> QED
    BY <1>1, <1>2

\* A whole number of intervals divides evenly.
LEMMA WholeQuotient ==
  ASSUME NEW p \in Nat, NEW d \in Nat \ {0}
  PROVE  (p * d) \div d = p
  <1> DEFINE q == (p * d) \div d
  <1>1. p * d \in Nat
    OBVIOUS
  <1>2. q \in Nat /\ d * q <= p * d /\ p * d < d * q + d
    BY <1>1, QuotientBounds
  <1> HIDE DEF q
  <1>3. d * q = q * d /\ (q + 1) * d = d * q + d /\ q * d \in Int
    BY <1>2
  <1>4. q <= p /\ p < q + 1
    <2>1. q * d <= p * d /\ p * d < (q + 1) * d
      BY <1>2, <1>3
    <2> QED
      BY <1>2, <2>1, CancelFactor, CancelStrict
  <1> QED
    BY <1>2, <1>4 DEF q

\* The observation before the newest is the one the ring was at.
LEMMA PlaceBefore ==
  ASSUME ObservationTypeOK
  PROVE  /\ next_observation_index \in 0 .. OBSERVATION_NUM - 1
         /\ next_observation_index # observation_state.observation_index
         /\ (next_observation_index + OBSERVATION_NUM - 1) % OBSERVATION_NUM
              = observation_state.observation_index
  <1> DEFINE i == observation_state.observation_index
             N == OBSERVATION_NUM
  <1>1. i \in 0 .. N - 1 /\ N \in Nat \ {0} /\ N > 1
    BY ObservationAssumption, RingAssumption DEF ObservationTypeOK
  <1>2. CASE i = N - 1
    <2>1. next_observation_index = 0
      BY <1>2 DEF next_observation_index
    <2>2. (0 + N - 1) % N = N - 1
      <3>1. N - 1 \in 0 .. N - 1 /\ 0 + N - 1 = N - 1
        BY <1>1
      <3> QED
        BY <1>1, <3>1, Remainders
    <2> QED
      BY <1>1, <1>2, <2>1, <2>2
  <1>3. CASE i # N - 1
    <2>1. next_observation_index = i + 1
      BY <1>3 DEF next_observation_index
    <2>2. (i + 1) + N - 1 = i + N
      BY <1>1
    <2>3. (i + N) % N = i
      BY <1>1, Remainders
    <2> QED
      BY <1>1, <1>3, <2>1, <2>2, <2>3
  <1> QED
    BY <1>2, <1>3

-----------------------------------------------------------------------------
(* What a step does to the oracle *)

\* The price of a pool that exists, and what a swap quotes.
LEMMA PriceFacts ==
  ASSUME IInv, pool_created
  PROVE  price \in Prices /\ quoted_price = price
  <1>1. \A t \in Tokens : /\ Reserve(t) \in Nat \ {0} /\ opposite(t) \in Tokens
                          /\ vault_amount_without_fee(t) = Reserve(t)
    BY PoolFacts DEF Tokens, opposite
  <1>2. \A t \in Tokens : (Reserve(opposite(t)) * Q32) \div Reserve(t) \in Nat
    <2> SUFFICES ASSUME NEW t \in Tokens
                 PROVE  (Reserve(opposite(t)) * Q32) \div Reserve(t) \in Nat
      OBVIOUS
    <2>1. Reserve(opposite(t)) \in Nat /\ Reserve(t) \in Nat \ {0} /\ Q32 \in Nat
      BY <1>1, PoolAssumption
    <2>2. Reserve(opposite(t)) * Q32 \in Nat
      BY <2>1
    <2> QED
      BY <2>1, <2>2, QuotientBounds
  <1>3. price \in Prices
    BY <1>2 DEF price, Prices
  <1>4. \A t \in Tokens : token_price_x32(t) = (Reserve(opposite(t)) * Q32) \div Reserve(t)
    BY <1>1 DEF token_price_x32
  <1> QED
    BY <1>3, <1>4 DEF quoted_price, price

LEMMA PriceType == IInv /\ pool_created => price \in Prices
  BY PriceFacts

LEMMA PriceTypeNext ==
  ASSUME IInv', pool_created'
  PROVE  price' \in Prices
  <1>1. (IInv /\ pool_created => price \in Prices)'
    BY PriceType, PTL
  <1> QED
    BY <1>1 DEF Prices

\* Only a swap touches the oracle.
LEMMA OracleMoves ==
  ASSUME Next
  PROVE  \/ observation_state' = observation_state
         \/ pool_created /\ pool_created' /\ update(now, quoted_price)
  <1>1. CASE \E init_amount \in [Tokens -> Amounts], requested_open_time \in OpenTimes :
               Initialize(init_amount, requested_open_time)
    BY <1>1 DEF Initialize
  <1>2. CASE Trading
    BY <1>2 DEF Trading, Deposit, Withdraw, SwapBaseInput, SwapBaseOutput, settle,
         input_swap_passes, output_swap_passes, block_timestamp
  <1>3. CASE Administration
    BY <1>3 DEF Administration, UpdateConfig, CollectProtocolFee, CollectFundFee,
         UpdatePoolStatus
  <1>4. CASE Environment
    BY <1>4 DEF Environment, Tick, Donate, BurnLp, ChangeTransferFee
  <1> QED
    BY <1>1, <1>2, <1>3, <1>4 DEF Next

\* A pool that exists goes on existing.
LEMMA PoolStays ==
  ASSUME IInv, Next, pool_created
  PROVE  pool_created'
  <1>1. CASE \E init_amount \in [Tokens -> Amounts], requested_open_time \in OpenTimes :
               Initialize(init_amount, requested_open_time)
    BY <1>1 DEF Initialize
  <1>2. CASE Trading
    BY <1>2, TradingKept
  <1>3. CASE Administration
    BY <1>3, AdministrationKept
  <1>4. CASE Environment
    BY <1>4, EnvironmentKept
  <1> QED
    BY <1>1, <1>2, <1>3, <1>4 DEF Next

\* A new observation: the newest is kept before it, at least an interval away, and
\* the mean between the two is the price that the swap found.
LEMMA NextUpdateMean ==
  ASSUME OInv, pool_created, next_update(now, quoted_price)
  PROVE  /\ observation_state'.initialized
         /\ observation_state' # observation_state
         /\ observation_state'.observations[observation_state.observation_index] = newest
         /\ elapsed' \in Nat /\ elapsed' >= OBSERVATION_UPDATE_DURATION_DEFAULT
         /\ \A t \in Tokens : mean_price(t)' = price[t]
  <1> DEFINE i == observation_state.observation_index
             j == next_observation_index
             last == last_observation
             dt == delta_time(now)
             delta == [t \in Tokens |-> price[t] * dt]
             M == CUMULATIVE_MODULUS
             made == [ block_timestamp |-> now,
                       cumulative |-> [t \in Tokens |-> (last.cumulative[t] + delta[t]) % M] ]
  <1>1. /\ ObservationTypeOK /\ price \in Prices /\ quoted_price = price
        /\ now \in Nat /\ M \in Nat \ {0} /\ OBSERVATION_UPDATE_DURATION_DEFAULT \in Nat \ {0}
    BY PriceFacts, ObservationAssumption, PoolAssumption DEF OInv, IInv, TypeOK
  <1>2. i \in 0 .. OBSERVATION_NUM - 1 /\ last \in Observations
    BY <1>1 DEF ObservationTypeOK, last_observation
  <1>3. /\ j \in 0 .. OBSERVATION_NUM - 1 /\ j # i
        /\ (j + OBSERVATION_NUM - 1) % OBSERVATION_NUM = i
    BY <1>1, PlaceBefore
  <1>4. last.block_timestamp \in Nat /\ \A t \in Tokens : last.cumulative[t] \in 0 .. M - 1
    BY <1>2, WidthAssumption DEF Observations, U64
  <1>5. /\ observation_state.initialized
        /\ dt >= OBSERVATION_UPDATE_DURATION_DEFAULT
        /\ \A t \in Tokens : delta[t] < M
        /\ observation_state' = [observation_state EXCEPT !.observations[j] = made,
                                                          !.observation_index = j]
    BY <1>1 DEF next_update, update_due
  <1>6. dt \in Nat \ {0} /\ dt = now - last.block_timestamp
    BY <1>1, <1>4, <1>5 DEF delta_time
  <1> HIDE DEF j, made, dt, last
  <1>7. /\ observation_state'.initialized /\ observation_state'.observation_index = j
        /\ observation_state'.observations[j] = made
        /\ observation_state'.observations[i] = observation_state.observations[i]
    BY <1>1, <1>2, <1>3, <1>5 DEF ObservationTypeOK
  <1>8. newest' = made /\ previous' = last /\ newest = last
    BY <1>3, <1>7 DEF newest, previous, last_observation, last
  <1>9. elapsed' = dt
    BY <1>6, <1>8 DEF elapsed, made
  <1>10. ASSUME NEW t \in Tokens
         PROVE  mean_price(t)' = price[t]
    <2>1. mean_price(t)' = ((made.cumulative[t] + M - last.cumulative[t]) % M) \div dt
      BY <1>8, <1>9 DEF mean_price
    <2>2. made.cumulative[t] = (last.cumulative[t] + delta[t]) % M
      BY DEF made
    <2>3. price[t] \in Nat /\ delta[t] = price[t] * dt /\ delta[t] \in 0 .. M - 1
      <3>1. price[t] \in Nat
        BY <1>1 DEF Prices
      <3>2. price[t] * dt \in Nat
        BY <1>6, <3>1
      <3> QED
        BY <1>1, <1>5, <3>1, <3>2
    <2>4. (made.cumulative[t] + M - last.cumulative[t]) % M = delta[t]
      <3> DEFINE c == last.cumulative[t]
                 d == delta[t]
      <3>1. c \in 0 .. M - 1 /\ d \in 0 .. M - 1 /\ M \in Nat \ {0}
        BY <1>1, <1>4, <2>3
      <3>2. made.cumulative[t] = (c + d) % M
        BY <2>2
      <3> HIDE DEF c, d, M
      <3>3. (((c + d) % M) + M - c) % M = d
        BY <3>1, CyclicDifference
      <3> QED
        BY <3>2, <3>3 DEF c, d
    <2> QED
      BY <1>6, <2>1, <2>3, <2>4, WholeQuotient
  <1>11. observation_state' # observation_state
    BY <1>3, <1>7
  <1> QED
    BY <1>5, <1>6, <1>7, <1>8, <1>9, <1>10, <1>11 DEF last, last_observation, newest

\* The inductive step.
LEMMA OracleStep ==
  ASSUME OInv, [Next /\ HistoryStep]_<<vars, history>>
  PROVE  OInv' /\ (observation_state.initialized =>
                     observation_state'.observations[observation_state.observation_index]
                       = newest)
  <1>1. CASE UNCHANGED <<vars, history>>
    <2>1. UNCHANGED vars /\ held' = held /\ window' = window
          /\ observation_state' = observation_state /\ pool_created' = pool_created
      BY <1>1 DEF vars, history, pool_state
    <2>2. IInv'
      BY <2>1, StepKept DEF OInv
    <2>3. price' = price
      BY <2>1 DEF vars, pool_state, price, Reserve
    <2>4. MeanWasHeld'
      BY <2>1 DEF OInv, MeanWasHeld, mean_price, elapsed, newest, previous,
           last_observation
    <2> QED
      BY <2>1, <2>2, <2>3, <2>4 DEF OInv, newest, last_observation
  <1>2. CASE Next /\ HistoryStep
    <2>1. IInv'
      BY <1>2, StepKept DEF OInv
    <2>2. ASSUME observation_state' = observation_state
          PROVE  OInv' /\ observation_state'.observations[observation_state.observation_index]
                            = newest
      <3>1. /\ window' = window
            /\ held' = IF ~observation_state.initialized THEN {} ELSE held \cup {price'}
        BY <1>2, <2>2 DEF HistoryStep, ObservationMade
      <3>2. MeanWasHeld'
        BY <2>2, <3>1 DEF OInv, MeanWasHeld, mean_price, elapsed, newest, previous,
             last_observation
      <3>3. ASSUME observation_state.initialized
            PROVE  pool_created' /\ price' \in Prices
        <4>1. pool_created'
          BY <1>2, <3>3, PoolStays DEF OInv
        <4> QED
          BY <2>1, <4>1, PriceTypeNext
      <3> QED
        BY <2>1, <2>2, <3>1, <3>2, <3>3 DEF OInv, newest, last_observation, Prices
    <2>3. ASSUME pool_created, pool_created', update(now, quoted_price),
                 observation_state' # observation_state
          PROVE  OInv' /\ (observation_state.initialized =>
                     observation_state'.observations[observation_state.observation_index]
                       = newest)
      <3>1. price' \in Prices
        BY <2>1, <2>3, PriceTypeNext
      <3>2. CASE first_update(now)
        <4>1. ~observation_state.initialized /\ observation_state'.initialized
          BY <3>2 DEF first_update, OInv, IInv, TypeOK, ObservationTypeOK
        <4>2. window' = window /\ window = {} /\ held' = {price'}
          BY <1>2, <4>1 DEF HistoryStep, ObservationMade, OInv
        <4> QED
          BY <2>1, <2>3, <3>1, <4>1, <4>2 DEF OInv, MeanWasHeld
      <3>3. CASE next_update(now, quoted_price)
        <4>1. /\ observation_state.initialized /\ observation_state'.initialized
              /\ elapsed' \in Nat /\ elapsed' >= OBSERVATION_UPDATE_DURATION_DEFAULT
              /\ \A t \in Tokens : mean_price(t)' = price[t]
              /\ observation_state'.observations[observation_state.observation_index]
                   = newest
          BY <2>3, <3>3, NextUpdateMean DEF next_update
        <4>2. window' = held /\ held' = {price'}
          BY <1>2, <2>3, <4>1 DEF HistoryStep, ObservationMade
        <4>3. price \in window' /\ window' \subseteq Prices
          BY <4>1, <4>2 DEF OInv
        <4>4. MeanWasHeld'
          BY <4>1, <4>3 DEF MeanWasHeld
        <4> QED
          BY <2>1, <2>3, <3>1, <4>1, <4>2, <4>3, <4>4 DEF OInv
      <3>4. CASE skipped_update(now)
        BY <2>3, <3>4 DEF skipped_update
      <3> QED
        BY <2>3, <3>2, <3>3, <3>4 DEF update
    <2> QED
      BY <1>2, <2>2, <2>3, OracleMoves
  <1> QED
    BY <1>1, <1>2

-----------------------------------------------------------------------------
(* Theorems *)

\* The ring agrees with the prices that the pool had.
THEOREM OracleInvariance == OracleSpec => []OInv
  <1>1. Init /\ HistoryInit => OInv
    <2> SUFFICES ASSUME Init, HistoryInit PROVE OInv
      OBVIOUS
    <2>1. IInv
      BY InitInvariant
    <2>2. held = {} /\ window = {} /\ ~observation_state.initialized
      BY DEF HistoryInit, Init, ObservationInit
    <2> QED
      BY <2>1, <2>2 DEF OInv, MeanWasHeld
  <1>2. OInv /\ [Next /\ HistoryStep]_<<vars, history>> => OInv'
    BY OracleStep
  <1> QED
    BY <1>1, <1>2, PTL DEF OracleSpec

\* The two newest observations are at least an interval apart, however the swaps
\* crowd (oracle.rs:46-49).
THEOREM RingIsNotCrowded == OracleSpec => []WindowLongEnough
  <1>1. OInv => WindowLongEnough
    BY DEF OInv, MeanWasHeld, WindowLongEnough
  <1> QED
    BY <1>1, OracleInvariance, PTL

\* What a reader of the ring computes lies between the lowest and the highest price
\* of the window, although the integral wraps (oracle.rs:44-66).
THEOREM MeanIsInWindow == OracleSpec => []MeanWithinWindow
  <1>1. OInv => MeanWithinWindow
    <2> SUFFICES ASSUME OInv, window # {}, NEW t \in Tokens
                 PROVE  /\ \E p \in window : p[t] <= mean_price(t)
                        /\ \E p \in window : p[t] >= mean_price(t)
      BY DEF MeanWithinWindow
    <2>1. PICK p \in window : \A u \in Tokens : mean_price(u) = p[u]
      BY DEF OInv, MeanWasHeld
    <2>2. p[t] \in Nat /\ mean_price(t) = p[t]
      BY <2>1 DEF OInv, Prices
    <2> QED
      BY <2>2
  <1> QED
    BY <1>1, OracleInvariance, PTL

\* A new observation never overwrites the newest one (oracle.rs:52-57).
THEOREM NewestIsKept == OracleSpec => NewestKept
  <1>1. OInv /\ [Next /\ HistoryStep]_<<vars, history>> =>
          [observation_state.initialized =>
             observation_state'.observations[observation_state.observation_index]
               = newest]_<<vars, history>>
    BY OracleStep
  <1> QED
    BY <1>1, OracleInvariance, PTL DEF OracleSpec, NewestKept

\* The history beside the pool changes nothing of it: what is proved of every
\* behaviour of the pool holds of those whose prices are recorded.
THEOREM OracleUsesPool == OracleSpec => Spec
  <1>1. [Next /\ HistoryStep]_<<vars, history>> => [Next]_vars
    OBVIOUS
  <1> QED
    BY <1>1, PTL DEF OracleSpec, Spec
=============================================================================
