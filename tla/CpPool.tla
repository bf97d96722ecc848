------------------------------- MODULE CpPool -------------------------------
(***************************************************************************)
(* One pool of the program, with the configuration it points to, its price  *)
(* oracle, its two vaults and its LP mint: every instruction of lib.rs, and *)
(* what others may do to the accounts the pool reads.                       *)
(*                                                                          *)
(* An instruction runs alone on the accounts it locks and either commits or *)
(* leaves no trace, so each is one action whose guard is everything that    *)
(* must hold for it to commit: the error returns, the unwraps and the       *)
(* transfers.  Users hold whatever the action needs; a user who does not is *)
(* an instruction that fails.                                               *)
(***************************************************************************)
EXTENDS CurveCalculator, TokenUtil, AmmConfig, Observation

CONSTANTS
  MintKinds,       \* the mints a pool is offered
  Amounts,         \* token and LP amounts the instructions are called with
  Limits,          \* slippage limits they are called with
  OpenTimes,       \* values of the open_time parameter of initialize
  FeeRequests,     \* amounts the fee collectors ask for
  Statuses,        \* sets of operations the admin disables
  Donations,       \* amounts sent to a vault by a plain token transfer
  MaxTime,         \* the clock stops here
  EPOCH_LENGTH,    \* clock units in a Solana epoch
  Q32              \* fixed point of the oracle's prices, 2^32 in the program

PoolOperations == {"Deposit", "Withdraw", "Swap"}

ASSUME PoolAssumption ==
  /\ MintKinds \subseteq MintInfos
  /\ Amounts \subseteq U64 /\ Limits \subseteq U64 /\ OpenTimes \subseteq U64
  /\ FeeRequests \subseteq U64 /\ Donations \subseteq U64
  /\ Statuses \subseteq SUBSET PoolOperations
  /\ MaxTime \in 0 .. U64_MAX - 1
  /\ EPOCH_LENGTH \in Nat \ {0}
  /\ Q32 \in Nat \ {0}

VARIABLES
  now,              \* Clock: unix_timestamp
  mints,            \* the mint account of each token
  vault,            \* balance of each vault
  lp_mint_supply,   \* supply of the LP mint
  create_pool_fee_balance,
  pool_created,     \* pool_state exists; the rest are its fields
  status,           \* the operations whose bit is set, i.e. disabled
  lp_supply,
  protocol_fees,    \* protocol_fees_token_0 and _1
  fund_fees,        \* fund_fees_token_0 and _1
  open_time,
  recent_epoch

environment == <<now, mints>>
pool_state  == <<pool_created, status, lp_supply, protocol_fees, fund_fees,
                 open_time, recent_epoch>>
vars == <<amm_config, observation_state, vault, lp_mint_supply,
          create_pool_fee_balance, environment, pool_state>>

TypeOK ==
  /\ ConfigTypeOK
  /\ ObservationTypeOK
  /\ now \in 0 .. MaxTime
  /\ mints \in [Tokens -> MintInfos]
  /\ vault \in [Tokens -> U64]
  /\ lp_mint_supply \in U64
  /\ create_pool_fee_balance \in U64
  /\ pool_created \in BOOLEAN
  /\ status \subseteq PoolOperations
  /\ lp_supply \in U64
  /\ protocol_fees \in [Tokens -> U64]
  /\ fund_fees \in [Tokens -> U64]
  /\ open_time \in U64
  /\ recent_epoch \in Nat

Zero == [t \in Tokens |-> 0]

Init ==
  /\ ConfigInit
  /\ ObservationInit
  /\ now = 0
  /\ mints \in [Tokens -> MintKinds]
  /\ vault = Zero
  /\ lp_mint_supply = 0
  /\ create_pool_fee_balance = 0
  /\ pool_created = FALSE
  /\ status = {}
  /\ lp_supply = 0
  /\ protocol_fees = Zero
  /\ fund_fees = Zero
  /\ open_time = 0
  /\ recent_epoch = 0

-----------------------------------------------------------------------------
(* states/pool.rs *)

\* What the LPs own, for the properties, which must not follow the code.
Reserve(t) == vault[t] - protocol_fees[t] - fund_fees[t]

block_timestamp == now
epoch == now \div EPOCH_LENGTH

opposite(t) == 1 - t

\* Mutant: any disabled operation disables all of them.
get_status_by_byte(operation) == status = {}

get_status_by_bit(operation) == operation \notin status

\* Mutant: forgets that the fund's fees lie in the vault as well.
vault_amount_without_protocol_fee(t) == vault[t] - protocol_fees[t]

vault_amount_without_fee(t) == vault[t] - (protocol_fees[t] + fund_fees[t])

\* The subtractions are unwrapped.
vault_amount_defined == \A t \in Tokens : vault_amount_without_fee(t) >= 0

\* A plain division: an empty side panics.
token_price_x32_defined == \A t \in Tokens : vault_amount_without_fee(t) > 0

token_price_x32(t) ==
  (vault_amount_without_fee(opposite(t)) * Q32) \div vault_amount_without_fee(t)

-----------------------------------------------------------------------------
(* instructions/initialize.rs *)

\* Mutant: rounds the square root up.
is_integer_sqrt_up(root, n) == n <= root * root /\ (root - 1) * (root - 1) < n

\* U128::integer_sqrt
is_integer_sqrt(root, n) == root * root <= n /\ n < (root + 1) * (root + 1)

\* Mutant: mints the locked LP tokens as well.
user_lp_amount_unlocked(liquidity) == liquidity

user_lp_amount(liquidity) == liquidity - lock_lp_amount

opening_time(requested_open_time) ==
  IF requested_open_time # 0 /\ requested_open_time <= block_timestamp
    THEN block_timestamp + 1
    ELSE requested_open_time

Initialize(init_amount, requested_open_time) ==
  LET balance == [t \in Tokens |-> received(mints[t], init_amount[t])] IN
  /\ ~pool_created
  /\ \A t \in Tokens : is_supported_mint(mints[t])
  /\ amm_config # NoConfig /\ ~amm_config.disable_create_pool
  /\ validate_supply(balance[0], balance[1])
  /\ \E liquidity \in U64 :
       /\ is_integer_sqrt(liquidity, balance[0] * balance[1])
       /\ liquidity >= lock_lp_amount
       /\ lp_supply' = liquidity
       /\ lp_mint_supply' = user_lp_amount(liquidity)
  /\ open_time' = opening_time(requested_open_time)
  /\ vault' = balance
  /\ create_pool_fee_balance + amm_config.create_pool_fee \in U64
  /\ create_pool_fee_balance' = create_pool_fee_balance + amm_config.create_pool_fee
  /\ pool_created' = TRUE
  /\ protocol_fees' = Zero
  /\ fund_fees' = Zero
  /\ recent_epoch' = epoch
  /\ UNCHANGED <<amm_config, observation_state, status, environment>>

-----------------------------------------------------------------------------
(* instructions/deposit.rs *)

\* What to send so that amount arrives.
with_transfer_fee(t, amount) == amount + get_transfer_inverse_fee(mints[t], amount)

\* What a deposit brings into each vault, and what its owner sends for it.
deposited(lp_token_amount) ==
  [t \in Tokens |->
     lp_tokens_to_trading_tokens(lp_token_amount, lp_supply, vault_amount_without_fee(t),
                                 "Ceiling")]

deposit_sent(lp_token_amount) ==
  [t \in Tokens |-> with_transfer_fee(t, deposited(lp_token_amount)[t])]

Deposit(lp_token_amount, maximum) ==
  LET worth == deposited(lp_token_amount)
      sent  == deposit_sent(lp_token_amount)
  IN
  /\ pool_created
  /\ lp_token_amount > 0
  /\ get_status_by_bit("Deposit")
  /\ vault_amount_defined
  /\ lp_supply > 0
  /\ \A t \in Tokens :
       /\ worth[t] # 0
       /\ worth[t] \in U64
       /\ transfer_inverse_fee_defined(mints[t], worth[t])
       /\ sent[t] \in U64
       /\ sent[t] <= maximum[t]
       /\ vault[t] + received(mints[t], sent[t]) \in U64
  /\ lp_supply + lp_token_amount \in U64
  /\ lp_mint_supply + lp_token_amount \in U64
  /\ vault' = [t \in Tokens |-> vault[t] + received(mints[t], sent[t])]
  /\ lp_supply' = lp_supply + lp_token_amount
  /\ lp_mint_supply' = lp_mint_supply + lp_token_amount
  /\ recent_epoch' = epoch
  /\ UNCHANGED <<amm_config, observation_state, create_pool_fee_balance, pool_created,
                 status, protocol_fees, fund_fees, open_time, environment>>

-----------------------------------------------------------------------------
(* instructions/withdraw.rs *)

\* What a withdrawal takes out of each vault.
withdrawn(lp_token_amount) ==
  [t \in Tokens |->
     smaller(vault_amount_without_fee(t),
       lp_tokens_to_trading_tokens(lp_token_amount, lp_supply,
         vault_amount_without_fee(t), "Floor"))]

\* All that can refuse a withdrawal.  The owner's LP tokens are part of the LP
\* mint's supply, so the burn bounds lp_token_amount by it.
withdrawal_passes(lp_token_amount, minimum) ==
  LET paid == withdrawn(lp_token_amount) IN
  /\ pool_created
  /\ lp_token_amount > 0
  /\ get_status_by_bit("Withdraw")
  /\ vault_amount_defined
  /\ lp_supply > 0
  /\ \A t \in Tokens :
       /\ paid[t] # 0
       /\ received(mints[t], paid[t]) >= minimum[t]
       /\ paid[t] <= vault[t]
  /\ lp_token_amount <= lp_mint_supply
  /\ lp_token_amount <= lp_supply

Withdraw(lp_token_amount, minimum) ==
  /\ withdrawal_passes(lp_token_amount, minimum)
  /\ vault' = [t \in Tokens |-> vault[t] - withdrawn(lp_token_amount)[t]]
  /\ lp_supply' = lp_supply - lp_token_amount
  /\ lp_mint_supply' = lp_mint_supply - lp_token_amount
  /\ recent_epoch' = epoch
  /\ UNCHANGED <<amm_config, observation_state, create_pool_fee_balance, pool_created,
                 status, protocol_fees, fund_fees, open_time, environment>>

-----------------------------------------------------------------------------
(* instructions/swap_base_input.rs and swap_base_output.rs *)

swaps_open == get_status_by_bit("Swap") /\ block_timestamp >= open_time

\* Mutant: records the price after the swap.
quoted_price_after ==
  [t \in Tokens |-> (Reserve(opposite(t))' * Q32) \div Reserve(t)']

\* The price before the swap, taken before the vaults change.
quoted_price == [t \in Tokens |-> token_price_x32(t)]

\* What the curve answers to an exact-input swap of what arrives of amount_in.
input_result(input, output, amount_in) ==
  swap_base_input(received(mints[input], amount_in), vault_amount_without_fee(input),
                  vault_amount_without_fee(output), amm_config)

\* What the curve answers to an exact-output swap that brings the user amount.
output_result(input, output, amount) ==
  swap_base_output(with_transfer_fee(output, amount), vault_amount_without_fee(input),
                   vault_amount_without_fee(output), amm_config)

\* What both swaps check once the curve has priced them: result is its answer and
\* credited what the input transfer brings into the vault.
settlement_passes(input, output, result, credited) ==
  LET constant_before == vault_amount_without_fee(input)
                           * vault_amount_without_fee(output)
      constant_after  == (result.new_swap_source_amount - result.trade_fee)
                           * result.new_swap_destination_amount
  IN
  /\ result.source_amount_swapped \in U64
  /\ result.trade_fee <= result.new_swap_source_amount
  /\ result.new_swap_destination_amount >= 0
  /\ constant_after >= constant_before
  /\ protocol_fees[input] + result.protocol_fee \in U64
  /\ fund_fees[input] + result.fund_fee \in U64
  /\ vault[input] + credited \in U64
  /\ result.destination_amount_swapped <= vault[output]

settle(input, output, result, credited) ==
  /\ settlement_passes(input, output, result, credited)
  /\ protocol_fees' = [protocol_fees EXCEPT ![input] = @ + result.protocol_fee]
  /\ fund_fees' = [fund_fees EXCEPT ![input] = @ + result.fund_fee]
  /\ vault' = [vault EXCEPT ![input] = @ + credited,
                            ![output] = @ - result.destination_amount_swapped]
  /\ update(block_timestamp, quoted_price)
  /\ recent_epoch' = epoch
  /\ UNCHANGED <<amm_config, lp_mint_supply, create_pool_fee_balance, pool_created,
                 status, lp_supply, open_time, environment>>

\* What refuses an exact-input swap before it is settled.
input_swap_passes(input, output, amount_in, minimum_amount_out) ==
  LET amount_received ==
        received(mints[output],
                 input_result(input, output, amount_in).destination_amount_swapped)
  IN
  /\ pool_created
  /\ swaps_open
  /\ received(mints[input], amount_in) > 0
  /\ input # output
  /\ vault_amount_defined
  /\ token_price_x32_defined
  /\ amount_received > 0
  /\ amount_received >= minimum_amount_out

SwapBaseInput(input, output, amount_in, minimum_amount_out) ==
  /\ input_swap_passes(input, output, amount_in, minimum_amount_out)
  /\ settle(input, output, input_result(input, output, amount_in),
            received(mints[input], amount_in))

\* What refuses an exact-output swap before it is settled.
output_swap_passes(input, output, max_amount_in, amount_out_less_fee) ==
  LET actual_amount_out == with_transfer_fee(output, amount_out_less_fee)
      source ==
        output_result(input, output, amount_out_less_fee).source_amount_swapped
  IN
  /\ pool_created
  /\ amount_out_less_fee > 0
  /\ swaps_open
  /\ transfer_inverse_fee_defined(mints[output], amount_out_less_fee)
  /\ actual_amount_out \in U64
  /\ input # output
  /\ vault_amount_defined
  /\ token_price_x32_defined
  /\ swap_base_output_without_fees_defined(actual_amount_out,
                                           vault_amount_without_fee(output))
  /\ source > 0
  /\ transfer_inverse_fee_defined(mints[input], source)
  /\ with_transfer_fee(input, source) \in U64
  /\ max_amount_in >= with_transfer_fee(input, source)

SwapBaseOutput(input, output, max_amount_in, amount_out_less_fee) ==
  LET result == output_result(input, output, amount_out_less_fee)
      input_transfer_amount == with_transfer_fee(input, result.source_amount_swapped)
  IN
  /\ output_swap_passes(input, output, max_amount_in, amount_out_less_fee)
  /\ settle(input, output, result, received(mints[input], input_transfer_amount))

-----------------------------------------------------------------------------
(* instructions/admin *)

CollectProtocolFee(owner, requested) ==
  LET amount == [t \in Tokens |-> smaller(requested[t], protocol_fees[t])] IN
  /\ pool_created
  /\ owner \in {amm_config.protocol_owner, admin}
  /\ \A t \in Tokens : amount[t] <= vault[t]
  /\ protocol_fees' = [t \in Tokens |-> protocol_fees[t] - amount[t]]
  /\ vault' = [t \in Tokens |-> vault[t] - amount[t]]
  /\ recent_epoch' = epoch
  /\ UNCHANGED <<amm_config, observation_state, lp_mint_supply, create_pool_fee_balance,
                 pool_created, status, lp_supply, fund_fees, open_time, environment>>

CollectFundFee(owner, requested) ==
  LET amount == [t \in Tokens |-> smaller(requested[t], fund_fees[t])] IN
  /\ pool_created
  /\ owner \in {amm_config.fund_owner, admin}
  /\ \A t \in Tokens : amount[t] <= vault[t]
  /\ fund_fees' = [t \in Tokens |-> fund_fees[t] - amount[t]]
  /\ vault' = [t \in Tokens |-> vault[t] - amount[t]]
  /\ recent_epoch' = epoch
  /\ UNCHANGED <<amm_config, observation_state, lp_mint_supply, create_pool_fee_balance,
                 pool_created, status, lp_supply, protocol_fees, open_time, environment>>

UpdatePoolStatus(authority, disabled) ==
  /\ pool_created
  /\ authority = admin
  /\ status' = disabled
  /\ recent_epoch' = epoch
  /\ UNCHANGED <<amm_config, observation_state, vault, lp_mint_supply,
                 create_pool_fee_balance, pool_created, lp_supply, protocol_fees,
                 fund_fees, open_time, environment>>

\* create_amm_config and update_amm_config, at any time.
UpdateConfig ==
  /\ ConfigNext
  /\ UNCHANGED <<observation_state, vault, lp_mint_supply, create_pool_fee_balance,
                 environment, pool_state>>

-----------------------------------------------------------------------------
(* What others do to the accounts the pool reads. *)

Tick ==
  /\ now < MaxTime
  /\ now' = now + 1
  /\ UNCHANGED <<amm_config, observation_state, vault, lp_mint_supply,
                 create_pool_fee_balance, mints, pool_state>>

\* Anyone may transfer tokens to a vault without calling the program.
Donate(t, amount) ==
  /\ pool_created
  /\ amount > 0
  /\ vault[t] + received(mints[t], amount) \in U64
  /\ vault' = [vault EXCEPT ![t] = @ + received(mints[t], amount)]
  /\ UNCHANGED <<amm_config, observation_state, lp_mint_supply, create_pool_fee_balance,
                 environment, pool_state>>

\* A holder may burn LP tokens without calling the program; lp_supply stays.
BurnLp(amount) ==
  /\ amount \in 1 .. lp_mint_supply
  /\ lp_mint_supply' = lp_mint_supply - amount
  /\ UNCHANGED <<amm_config, observation_state, vault, create_pool_fee_balance,
                 environment, pool_state>>

\* The authority of a mint changes its transfer fee.
ChangeTransferFee(t, kind) ==
  /\ charges_transfer_fee(mints[t])
  /\ kind # mints[t]
  /\ kind = [mints[t] EXCEPT !.basis_points = kind.basis_points,
                             !.maximum_fee = kind.maximum_fee]
  /\ mints' = [mints EXCEPT ![t] = kind]
  /\ UNCHANGED <<amm_config, observation_state, vault, lp_mint_supply,
                 create_pool_fee_balance, now, pool_state>>

Environment ==
  \/ Tick
  \/ \E t \in Tokens, amount \in Donations : Donate(t, amount)
  \/ \E amount \in Donations : BurnLp(amount)
  \/ \E t \in Tokens, kind \in MintKinds : ChangeTransferFee(t, kind)

Trading ==
  \/ \E lp_token_amount \in Amounts, limit \in [Tokens -> Limits] :
       \/ Deposit(lp_token_amount, limit)
       \/ Withdraw(lp_token_amount, limit)
  \/ \E input, output \in Tokens, amount \in Amounts, limit \in Limits :
       \/ SwapBaseInput(input, output, amount, limit)
       \/ SwapBaseOutput(input, output, limit, amount)

Administration ==
  \/ UpdateConfig
  \/ \E owner \in Keys, requested \in [Tokens -> FeeRequests] :
       \/ CollectProtocolFee(owner, requested)
       \/ CollectFundFee(owner, requested)
  \/ \E authority \in Keys, disabled \in Statuses :
       UpdatePoolStatus(authority, disabled)

Next ==
  \/ \E init_amount \in [Tokens -> Amounts], requested_open_time \in OpenTimes :
       Initialize(init_amount, requested_open_time)
  \/ Trading
  \/ Administration
  \/ Environment

Spec == Init /\ [][Next]_vars

-----------------------------------------------------------------------------
(* Properties *)

\* In every order of trades, deposits, withdrawals, collections and config
\* changes the vaults hold all the fees owed and something over: the unwraps of
\* pool.rs:113-121 and the divisions of pool.rs:127-128 never panic, so a pool
\* can never get stuck.
Solvent == pool_created => \A t \in Tokens : Reserve(t) > 0

\* The shares the pool counts are never fewer than those that exist plus the
\* locked ones (initialize.rs:300-304): a holder can never withdraw the last share.
LpBacked == pool_created => lp_mint_supply + lock_lp_amount <= lp_supply

\* Every share is worth at least the unit of liquidity it was created for
\* (initialize.rs:295-299): the shares never outgrow the root of the reserves.
ShareValue == pool_created => lp_supply * lp_supply <= Reserve(0) * Reserve(1)

\* No instruction of anyone lowers what a share is worth, the product of the
\* reserves per share squared: the rounding of the curve, of deposits and of
\* withdrawals, the fees and the transfer fees all favour who stays in the pool.
NoDilution ==
  [][pool_created =>
       Reserve(0) * Reserve(1) * (lp_supply' * lp_supply')
         <= Reserve(0)' * Reserve(1)' * (lp_supply * lp_supply)]_vars

\* While withdrawals are not disabled, the holders can take all their shares are
\* worth at once if that is at least a unit of each token: neither owed fees nor
\* burnt or donated tokens nor a transfer fee can block withdraw.rs:107-232.
HoldersCanExit ==
  /\ pool_created
  /\ "Withdraw" \notin status
  /\ \A t \in Tokens : lp_mint_supply * Reserve(t) >= lp_supply
  => ENABLED Withdraw(lp_mint_supply, Zero)

\* Once a swap has a price that its signer accepts and the vault has room for what
\* it brings, nothing inside the pool refuses it: the product check of
\* swap_base_input.rs:234 never fires, the counters of owed fees never leave
\* their width and the other vault always covers the output.
SwapsAlwaysSettle ==
  \A input \in Tokens, amount \in Amounts :
    LET output == opposite(input)
        bought == output_result(input, output, amount)
    IN
    /\ /\ input_swap_passes(input, output, amount, 0)
       /\ vault[input] + received(mints[input], amount) \in U64
       => settlement_passes(input, output, input_result(input, output, amount),
                            received(mints[input], amount))
    /\ /\ output_swap_passes(input, output, U64_MAX, amount)
       /\ vault[input] + bought.source_amount_swapped \in U64
       => settlement_passes(input, output, bought,
            received(mints[input], with_transfer_fee(input, bought.source_amount_swapped)))

reserve == [t \in Tokens |-> Reserve(t)]

\* initialize and the swaps keep to the market the share holders are promised;
\* fee collection, the configuration, the status and the oracle are not seen.
Market == INSTANCE ShareMarket
            WITH open    <- pool_created,
                 reserve <- reserve,
                 shares  <- lp_supply
ImplementsMarket == Market!Spec

\* functional_test.rs:134 says of a pool created with open_time 0
\* "open_time = block_timestamp + 1": it would not open in the second it is
\* created.
OpensAfterCreation ==
  [][~pool_created /\ pool_created' => open_time' > block_timestamp]_vars
=============================================================================
