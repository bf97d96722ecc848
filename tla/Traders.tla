------------------------------ MODULE Traders ------------------------------
(***************************************************************************)
(* The users of the pool of CpPool: what an instruction does to the token    *)
(* accounts of its signer, against the limits signed.  A user sees the pool  *)
(* at some moment, signs, and its instruction runs after any others.  From   *)
(* some moment on one user may be the only one that trades; wallet is what   *)
(* it gained since.  begun, wallet and honoured are history variables.       *)
(***************************************************************************)
EXTENDS CpPool

CONSTANT MaxLoss      \* the lone user stops before it loses more of anything

ASSUME LossAssumption == MaxLoss \in Nat

VARIABLES
  begun,      \* one user trades and nobody else does
  wallet,     \* its gain in each of its accounts since it began
  honoured    \* no instruction did worse than its signer signed

LpToken == 2
Assets  == Tokens \cup {LpToken}

traderVars == <<vars, begun, wallet, honoured>>

TraderTypeOK ==
  /\ begun \in BOOLEAN
  /\ wallet \in [Assets -> Int]
  /\ honoured \in BOOLEAN

TraderInit ==
  /\ Init
  /\ begun = FALSE
  /\ wallet = [a \in Assets |-> 0]
  /\ honoured = TRUE

-----------------------------------------------------------------------------
\* promise is the least gain in each account that the user signed for.
Book(gain, promise) ==
  /\ wallet' = IF begun THEN [a \in Assets |-> wallet[a] + gain[a]] ELSE wallet
  /\ \A a \in Assets : wallet'[a] >= -MaxLoss
  /\ honoured' = (honoured /\ \A a \in Assets : gain[a] >= promise[a])
  /\ UNCHANGED begun

\* What a deposit or withdrawal does to its owner's three accounts.
share_change(token_0, token_1, lp) ==
  [a \in Assets |-> CASE a = 0 -> token_0 [] a = 1 -> token_1 [] OTHER -> lp]

UserDeposit(lp_token_amount, maximum) ==
  LET sent == deposit_sent(lp_token_amount) IN
  /\ Deposit(lp_token_amount, maximum)
  /\ Book(share_change(-sent[0], -sent[1], lp_token_amount),
          share_change(-maximum[0], -maximum[1], lp_token_amount))

\* What a withdrawal takes out of the vaults arrives less the transfer fee.
UserWithdraw(lp_token_amount, minimum) ==
  LET brought == [t \in Tokens |-> received(mints[t], withdrawn(lp_token_amount)[t])] IN
  /\ Withdraw(lp_token_amount, minimum)
  /\ Book(share_change(brought[0], brought[1], -lp_token_amount),
          share_change(minimum[0], minimum[1], -lp_token_amount))

\* What a swap does to its payer's three accounts.
swap_change(input, sent, brought) ==
  [a \in Assets |-> CASE a = input -> -sent [] a = LpToken -> 0 [] OTHER -> brought]

UserSwapBaseInput(input, output, amount_in, minimum_amount_out) ==
  LET paid == input_result(input, output, amount_in).destination_amount_swapped IN
  /\ SwapBaseInput(input, output, amount_in, minimum_amount_out)
  /\ Book(swap_change(input, amount_in, received(mints[output], paid)),
          swap_change(input, amount_in, minimum_amount_out))

\* No guard of the handler compares what arrives with amount_out_less_fee.
UserSwapBaseOutput(input, output, max_amount_in, amount_out_less_fee) ==
  LET source == output_result(input, output, amount_out_less_fee).source_amount_swapped
      paid   == with_transfer_fee(output, amount_out_less_fee)
  IN
  /\ SwapBaseOutput(input, output, max_amount_in, amount_out_less_fee)
  /\ Book(swap_change(input, with_transfer_fee(input, source), received(mints[output], paid)),
          swap_change(input, max_amount_in, amount_out_less_fee))

given(asset, amount) == [a \in Assets |-> IF a = asset THEN -amount ELSE 0]

UserGift ==
  \/ \E t \in Tokens, amount \in Donations :
       /\ Donate(t, amount)
       /\ Book(given(t, amount), given(t, amount))
  \/ \E amount \in Donations :
       /\ BurnLp(amount)
       /\ Book(given(LpToken, amount), given(LpToken, amount))

UserTrades ==
  \/ \E lp_token_amount \in Amounts, limit \in [Tokens -> Limits] :
       \/ UserDeposit(lp_token_amount, limit)
       \/ UserWithdraw(lp_token_amount, limit)
  \/ \E input, output \in Tokens, amount \in Amounts, limit \in Limits :
       \/ UserSwapBaseInput(input, output, amount, limit)
       \/ UserSwapBaseOutput(input, output, limit, amount)
  \/ UserGift

\* The pool's creator, the admin, the fee owners, the clock and the mints'
\* authorities.
OthersGoOn ==
  /\ \/ \E init_amount \in [Tokens -> Amounts], requested_open_time \in OpenTimes :
          Initialize(init_amount, requested_open_time)
     \/ Administration
     \/ Tick
     \/ \E t \in Tokens, kind \in MintKinds : ChangeTransferFee(t, kind)
  /\ UNCHANGED <<begun, wallet, honoured>>

Begin ==
  /\ pool_created /\ ~begun
  /\ begun' = TRUE
  /\ UNCHANGED <<vars, wallet, honoured>>

\* Anyone trades at any time.
OrderNext == UserTrades \/ OthersGoOn

OrderSpec == TraderInit /\ [][OrderNext]_traderVars

TraderNext == OrderNext \/ Begin

TraderSpec == TraderInit /\ [][TraderNext]_traderVars

-----------------------------------------------------------------------------
\* Nobody can trade against the pool alone and end with no less of anything and
\* more of something, by any sequence of swaps, deposits, withdrawals, gifts and
\* burns, whatever is collected or reconfigured meanwhile: no cycle of
\* instructions gains from their roundings (constant_product.rs:19-92, fees.rs).
NoFreeLunch ==
  (\A a \in Assets : wallet[a] >= 0) => (\A a \in Assets : wallet[a] = 0)

\* However the pool changed since the user saw it, an instruction that runs takes
\* no more and brings no less of each token than the user signed for, after all
\* transfer fees (deposit.rs:169-173, withdraw.rs:179-183, swap_base_input.rs:181-199,
\* swap_base_output.rs:22-27 and 117-126; helpers.rs:735-799 asserts it once each).
OrdersHonoured == honoured
=============================================================================
