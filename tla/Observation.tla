---------------------------- MODULE Observation ----------------------------
(***************************************************************************)
(* states/oracle.rs: the price oracle of a pool, a ring of OBSERVATION_NUM  *)
(* observations of the time integral of both prices.  The integral is a     *)
(* u128 that wraps; the readers subtract two observations modulo 2^128.     *)
(* The width of the integral is the constant CUMULATIVE_MODULUS (2^128 in   *)
(* the program) so that TLC can use one that does wrap.                     *)
(***************************************************************************)
EXTENDS Widths

CONSTANTS
  OBSERVATION_NUM,
  OBSERVATION_UPDATE_DURATION_DEFAULT,
  CUMULATIVE_MODULUS

ASSUME ObservationAssumption ==
  /\ OBSERVATION_NUM \in Nat \ {0}
  /\ OBSERVATION_UPDATE_DURATION_DEFAULT \in Nat \ {0}
  /\ CUMULATIVE_MODULUS \in Nat \ {0}

VARIABLE observation_state

Observations ==
  [ block_timestamp : U64, cumulative : [Tokens -> 0 .. CUMULATIVE_MODULUS - 1] ]

ObservationTypeOK ==
  observation_state \in
    [ initialized       : BOOLEAN,
      observation_index : 0 .. OBSERVATION_NUM - 1,
      observations      : [0 .. OBSERVATION_NUM - 1 -> Observations] ]

ZeroObservation == [ block_timestamp |-> 0, cumulative |-> [t \in Tokens |-> 0] ]

ObservationInit ==
  observation_state =
    [ initialized       |-> FALSE,
      observation_index |-> 0,
      observations      |-> [i \in 0 .. OBSERVATION_NUM - 1 |-> ZeroObservation] ]

-----------------------------------------------------------------------------
last_observation ==
  observation_state.observations[observation_state.observation_index]

\* Mutant: the ring never turns, the newest observation is overwritten.
next_observation_index_stuck == observation_state.observation_index

\* Mutant: the ring never turns back to its first slot.
next_observation_index_running == observation_state.observation_index + 1

next_observation_index ==
  IF observation_state.observation_index = OBSERVATION_NUM - 1
    THEN 0
    ELSE observation_state.observation_index + 1

\* The clock may not have moved on, and saturates if it went back.
delta_time(block_timestamp) ==
  IF block_timestamp > last_observation.block_timestamp
    THEN block_timestamp - last_observation.block_timestamp
    ELSE 0

\* Mutant: takes an observation whenever the clock has moved.
update_due_always(block_timestamp) == delta_time(block_timestamp) > 0

update_due(block_timestamp) ==
  delta_time(block_timestamp) >= OBSERVATION_UPDATE_DURATION_DEFAULT

first_update(block_timestamp) ==
  /\ ~observation_state.initialized
  /\ observation_state' =
       [observation_state EXCEPT
          !.initialized = TRUE,
          !.observations[observation_state.observation_index] =
             [ZeroObservation EXCEPT !.block_timestamp = block_timestamp]]

skipped_update(block_timestamp) ==
  /\ observation_state.initialized
  /\ ~update_due(block_timestamp)
  /\ UNCHANGED observation_state

\* The products are checked: a price too high for the time passed panics.
next_update(block_timestamp, price_x32) ==
  LET delta == [t \in Tokens |-> price_x32[t] * delta_time(block_timestamp)] IN
  /\ observation_state.initialized
  /\ update_due(block_timestamp)
  /\ \A t \in Tokens : delta[t] < CUMULATIVE_MODULUS
  /\ observation_state' =
       [observation_state EXCEPT
          !.observations[next_observation_index] =
             [ block_timestamp |-> block_timestamp,
               cumulative |-> [t \in Tokens |->
                 (last_observation.cumulative[t] + delta[t])
                    % CUMULATIVE_MODULUS] ],
          !.observation_index = next_observation_index]

update(block_timestamp, price_x32) ==
  \/ first_update(block_timestamp)
  \/ skipped_update(block_timestamp)
  \/ next_update(block_timestamp, price_x32)
=============================================================================
