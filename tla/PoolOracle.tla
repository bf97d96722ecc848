----------------------------- MODULE PoolOracle -----------------------------
(***************************************************************************)
(* The oracle of a pool against the prices the pool really had.  Two        *)
(* history variables record them; they are not part of the program:         *)
(* held is the set of prices since the newest observation and window those  *)
(* between the newest observation and the one before it.                    *)
(***************************************************************************)
EXTENDS CpPool

\* The ring has a place for the newest observation and one for the one before it:
\* two are all it has in the program (oracle.rs:9).
ASSUME RingAssumption == OBSERVATION_NUM > 1

VARIABLES held, window

history == <<held, window>>

\* The price of each token in units of the other, as a pair.
price == [t \in Tokens |-> (Reserve(opposite(t)) * Q32) \div Reserve(t)]

HistoryInit == held = {} /\ window = {}

\* A new observation closes the window; any step may move the price.
ObservationMade ==
  observation_state' # observation_state /\ observation_state.initialized

HistoryStep ==
  /\ window' = IF ObservationMade THEN held ELSE window
  /\ held' = IF ~observation_state'.initialized THEN {}
             ELSE IF ObservationMade \/ ~observation_state.initialized THEN {price'}
             ELSE held \cup {price'}

OracleSpec == Init /\ HistoryInit /\ [][Next /\ HistoryStep]_<<vars, history>>

-----------------------------------------------------------------------------
newest   == last_observation
previous == observation_state.observations[
              (observation_state.observation_index + OBSERVATION_NUM - 1)
                 % OBSERVATION_NUM]

\* What a reader of the ring computes: the mean price between the two newest
\* observations, the integral subtracted modulo its width.
elapsed == newest.block_timestamp - previous.block_timestamp
mean_price(t) ==
  ((newest.cumulative[t] + CUMULATIVE_MODULUS - previous.cumulative[t])
     % CUMULATIVE_MODULUS) \div elapsed

\* The mean of each price that the ring holds lies between the lowest and the
\* highest price the pool had in that window, whatever was swapped, deposited or
\* donated meanwhile and although the integral wraps (swap_base_input.rs:262-266
\* records the price before the swap, oracle.rs:44-66).
MeanWithinWindow ==
  window # {} =>
    \A t \in Tokens :
      /\ \E p \in window : p[t] <= mean_price(t)
      /\ \E p \in window : p[t] >= mean_price(t)

\* The two newest observations are at least the update interval apart, so no one
\* can fill the ring within one interval (oracle.rs:46-49).
WindowLongEnough ==
  window # {} => elapsed >= OBSERVATION_UPDATE_DURATION_DEFAULT

\* Making an observation never overwrites the newest one: the ring always holds
\* the end of the last window (oracle.rs:52-57).
NewestKept ==
  [][observation_state.initialized =>
       observation_state'.observations[observation_state.observation_index]
         = newest]_<<vars, history>>
=============================================================================
