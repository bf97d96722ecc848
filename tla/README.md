# cp-swap in TLA+

A verification project for the constant-product AMM under
`src/programs/cp-swap` (the Anchor program `raydium-cp-swap` with Light Protocol
accounts). It holds TLA+ modules translated from the Rust source, TLC
configurations that check them on small instances, and theorems that TLAPS
proves for every value of the constants. Paths below are relative to
`src/programs/cp-swap/`.

## The system

One program, and the client library its tests carry. A pool trades two tokens against each other.
Its accounts are `AmmConfig` (fee rates and owners), `PoolState`,
`ObservationState` (price oracle), two token vaults, an LP mint and the account
that receives creation fees. Solana runs an instruction alone on the accounts it
locks and rolls an instruction back when it fails. So the interleavings that
matter are those of whole instructions of many users, the admin and the fee
owners, and of what other programs do to the same accounts in between.

| Component | State | Operations | What makes it correct |
|---|---|---|---|
| Fees, `src/curve/fees.rs` | none | trading, protocol, fund fee; gross-up of an exact output | the shares fit inside the trade fee; the two swap directions agree |
| Curve, `src/curve/{calculator,constant_product}.rs`, `src/utils/math.rs` | none | exact-input and exact-output swap, worth of shares, ceiling division | the product never falls, and rounding costs the trader less than a unit |
| Transfers, `src/utils/token.rs` | none | transfer fee, inverse fee, supported mints, transfers | what a transfer brings is what the pool counted on |
| Configuration, `src/states/config.rs`, `src/instructions/admin/{create,update}_config.rs` | rates, owners, switch, creation fee | create, seven updates | no order of updates shares out more than the trade fee |
| Pool, `src/states/pool.rs`, `src/instructions/*.rs`, `src/instructions/admin/collect_*`, `update_pool_status.rs` | `lp_supply`, fees owed, status, opening time; the vaults and the LP mint outside it | initialize, deposit, withdraw, two swaps, two collections, status | solvent, shares backed and never diluted, holders can leave |
| Oracle, `src/states/oracle.rs` | ring of price integrals | `update`, inside both swaps | a mean read from the ring is a mean of prices the pool had |
| Events and errors, `src/states/events.rs`, `src/error.rs` | none | logs | nothing reads them: not modelled |
| Accounts of instructions (`#[derive(Accounts)]` in `src/instructions/`) | the addresses in `PoolState`, the program's derived addresses | constraints of every handler | an instruction on one pool reaches no other |
| Compressed accounts (`#[light_program]` in `src/lib.rs`, `light_account` in `initialize.rs`) | leaves of a state tree, known addresses | created by `initialize`; compressed and loaded by the Light protocol | a cold account keeps what was written and is never created again |
| Client library, `tests/program.rs` | a cache of where each account lies | fetch, update, list what to load | what it loads suffices, and a stale cache never sticks |
| Test harness, `tests/{helpers,program_test,functional_test}.rs` | none | builds instructions, drives a validator | read for what it says of the program: not modelled |

How they interact. Every swap reads the configuration, splits its fee
into counters of `PoolState` and leaves the tokens in the vault. So a vault's
balance is the LPs' reserve plus the fees owed to two owners, and the reserve is
always *computed* by subtraction (`pool.rs:106-121`). The balance is also open to
plain transfers from anyone, `lp_supply` is a copy of the LP mint's supply that a
direct burn does not update, and a Token-2022 mint may take a fee out of every
transfer. Swaps write the oracle with the price that held before them.

Pools share a configuration, which they only read, and one authority, the
derived address that signs for every vault. So the token program stops no
transfer between pools, only the account constraints do. When nobody pays
the rent of an account, the Light protocol compresses it: the account leaves the chain
(it is *cold*) and a leaf with its content is kept, from which any client can load it
back (*hot*). An instruction fails on one cold account. A client therefore
caches where each account lay, loads the cold ones and then executes, while
other clients do the same with the same accounts.

Hard to test, in short (the full list, line by line, is under `hazards` in
`PROJECT.json`): rounding in many places that must all favour those who stay;
counters, balances and a supply copy that must agree after any sequence of
instructions; configuration updates between trades; transfer fees that
change; a wrapping price integral in a two-slot ring; orders that run long after
they were signed; callers who choose the accounts; accounts that leave the chain
while a client is at work.

## The modules

| Module | Models |
|---|---|
| `Widths` | u64 as `0 .. U64_MAX`, the two tokens |
| `Fees` | `fees.rs` |
| `CurveCalculator` | `calculator.rs`, `constant_product.rs`, `math.rs` |
| `TokenUtil` | `token.rs`: mints, fees, `is_supported_mint`, what a transfer credits |
| `AmmConfig` | the configuration, with its own `ConfigSpec` |
| `Observation` | the oracle, as a variable and the action `update` |
| `CpPool` | the whole program on one pool: composes all of the above; `Spec` |
| `ShareMarket` | abstract: what a pool promises its share holders |
| `PoolOracle` | `CpPool` with two history variables that record the prices the pool really had |
| `PureCalls` | one call of a pure operator with every argument of a domain, against what the result is for |
| `Traders` | `CpPool` with what each instruction does to its signer's accounts: limits signed earlier, and one user alone against the pool |
| `PoolAccounts` | several pools and configurations, every choice of accounts, amounts reduced to units |
| `WarmAccounts` | abstract: the accounts of a pool if none ever left the chain |
| `ColdAccounts` | the accounts of a pool as they become cold and are loaded back; refines `WarmAccounts` |
| `CpSwapSdk` | the client library of `tests/program.rs`, several clients on `ColdAccounts` |
| `MC*` | constants of the TLC instances |
| `CurveLemmas` | lemmas about the operators of `Fees`, `CurveCalculator` and `TokenUtil` |
| `AmmConfigProofs`, `CpPoolProofs`, `TradersProofs`, `PoolOracleProofs`, `PureCallsProofs`, `PoolAccountsProofs`, `CpSwapSdkProofs` | theorems about the module each is named after |

### Correspondence with the code

* One instruction is one action. Its guard is everything that must hold for
  it to commit: the account constraints, the `require!`s, the early returns, the
  `unwrap`s and the transfers; its primes are all its writes, the closing
  `pool_state.recent_epoch = ...` included. `settle` in `CpPool` is the tail that
  both swap handlers have in common and `settlement_passes` its guard; `input_swap_passes` and
  `output_swap_passes` are what each handler asks before it, `withdrawal_passes` is the whole guard of
  `Withdraw`. That the guards have names of their own lets properties speak of them.
* `PoolState` is flattened into variables with the names of its fields. Left
  out: keys, bumps, decimals and padding, fixed at creation and
  read only to find accounts. `status` is the set of operations whose bit is set
  (a set bit disables); bits above 2 are never read.
* The release profile sets `overflow-checks = true`, so a plain `+` panics like
  a failed `checked_add`: both are a guard `... \in U64`. With u64 operands no
  u128 or U256 intermediate overflows, so only results that go back to a u64 are
  guarded. An exception is the oracle: `price * delta` is a checked u128 product,
  guarded by `CUMULATIVE_MODULUS`, and the integral itself wraps.
* `is_integer_sqrt` describes `U128::integer_sqrt` by what it returns.
* The limits of users (`maximum_token_0_amount`, `minimum_amount_out` and so on)
  are inputs from `Limits`, as are amounts, opening times, fee requests and
  status bytes: each is a CONSTANT set.
* `Environment` is what the program does not do: time passes, someone
  transfers tokens into a vault (`Donate`), a holder burns LP tokens (`BurnLp`), the
  authority of a mint changes its transfer fee. The last takes effect at once;
  the token program delays it by two epochs, so this allows more behaviours.
  A handler reads the fee and transfers in one instruction, so they
  always see the same fee. These actions and the fee that the token program
  takes (`received` in `TokenUtil`) are external.
* Users hold whatever an action needs: their balances are not state. One that
  does not makes the instruction fail, which is no step. `Traders` books what an instruction
  does to them: the amount that the handler passes to each transfer from the user, what
  arrives of each transfer to it after the fee, and the shares minted or burned.
* A user who names a vault as the account to pay into makes an instruction
  followed by a `Donate` in `CpPool`. In `PoolAccounts`, where it matters whose vault
  that is, it is a recipient like any other.
* `Traders` adds history only. `honoured` compares each instruction with
  the limits its signer gave. Nothing ties the limits to the pool of that moment, so
  an order signed at any earlier time, landing after any other instructions, is
  among the steps. `wallet` is the gain of one user since `Begin`, the
  moment from which nobody else trades.
* `PoolAccounts` has an account argument for each account that the caller names and
  the program checks. Those derived from seeds with no choice left
  (the authority, the programs) are left out. Every operation moves single units. Of a
  rate only whether it is zero is kept, so a swap owes a unit of each fee that its configuration
  charges at that moment, and the admin changes rates and owners at any time, also while
  pools owe fees counted under earlier ones. `create_pool_fee` and `disable_create_pool` are
  left to `CpPool` and `AmmConfig`. The module says *which* account changes; *by how much*, the status and the opening time are in `CpPool`. A swap's
  `input` is the side whose vault is named first, and its recipient is bound by nothing
  but the mint, like those of `withdraw` and the collections (`swap_base_input.rs:36`).
* In `ColdAccounts` the content of an account is the number of times it was written:
  enough to tell an old copy from the newest. The vaults' mints exist before the pool
  and no instruction of the program writes them, but they can become cold as well.
  Compression of any set in `Batches` may happen between any two transactions once the
  pool exists. `Load` is one transaction and fails as a whole on one spent leaf. These two are
  the Light protocol's and external.
* In `CpSwapSdk` each client goes through the phases of `tests/program_test.rs`: build the library from
  the pool state, fetch and update, load, execute. The test panics when a transaction
  fails; the model's client starts again from `update`, which is what the library
  is for. `specs[c]` is `pda_specs` and `mint_specs` in one; the user's own token
  accounts, which the test adds by hand, are not in it. The one account recognised by something other
  than its key or discriminator is the LP mint: `mint_signer()` of the Light client decides
  (`program.rs:352`). It names the signer of a cold mint, or the test could
  not pass; whether it does so of a hot one is the constant choice
  `mint_signer_of_hot`. If not, a client that cached the mint as cold keeps a spent leaf
  for good once another client has loaded it; so `ClientsFinish` and `LoadSuffices` claim
  nothing of deposits and withdrawals in that case. `overtaken` is history: since a client's last
  update somebody else moved, loaded or compressed an account that it had fetched. No guard reads it;
  `FailsOnlyIfOvertaken` says that a client fails in no other case, that LP mint excepted.
* The definitions marked "Mutant" beside some operators are plausible bugs in
  the operator that follows; nothing uses them. For each checked property,
  `PROJECT.json` names one that makes TLC find a violation.

## The runs

| Run | Question | Answer |
|---|---|---|
| `reserves` (`Reserves.cfg`) | Can any sequence of instructions, gifts and burns, with every amount a small machine has, make a pool insolvent, unback its shares or dilute one? Does the pool implement `ShareMarket`? Can one user, from some moment on alone with the pool, take more out than it put in by some cycle of swaps, deposits, withdrawals, gifts and burns? | No; yes; no. |
| `governed` (`Governed.cfg`) | The same while the admin changes rates, owner, switch and status between trades, epochs turn, pools open late and transfer fees are switched on and off. Can anything but the withdraw bit keep a holder in, or a check inside a swap refuse one that has a price? | No; no. |
| `transfer_fees` (`TransferFees.cfg`) | With mints whose fee is absent, proportional, capped, total, or changes, and an unsupported mint: do the reserves count tokens that did not arrive? With every limit and every pool and fee an order may meet: can it take more or bring less than was signed? Does a swap with a price always settle, whatever the transfer fees? | No; no; yes. |
| `oracle` (`Oracle.cfg`) | Is the mean price a reader computes between the lowest and the highest price the pool had, although the integral wraps, trades come at any time and tokens are given to the vaults between them? | Yes. |
| `config` (`Config.cfg`) | Every creation and every order of updates with every value: do the rates stay valid? | Yes. |
| `calls` (`Calls.cfg`) | For every argument: is an exact-input swap the largest that keeps the product, an exact-output swap the cheapest, do they agree, do the fees nest, do shares bought and sold bring no profit? Does a swap cut in two pieces ever bring more or cost less? For every rate, cap and amount of a transfer fee: does exactly the wanted amount arrive at least cost, and can the code's own fee check fail? | Yes; no; yes; no. |
| `accounts` (`Accounts.cfg`) | Two pools on shared mints, one or two configurations, and every choice of accounts: with rates and owners that change at any time, does an instruction on one pool take from the other, charge another configuration's fees or pay another one's owner? Can a pair have two pools? | No. |
| `cold_pool` (`ColdPool.cfg`) | Accounts become cold together or alone while two clients fetch, load and execute: can the program ever see an old account or create the pool twice? Does what a client loads suffice? Does a client fail only when another came between? Do clients finish? | No; yes; yes; yes. |
| `open_time`, `config_params`, `config_owner`, `ceil_div` | Four statements of comments and tests that the code does not keep (below). | Violated. |

### Bounds

`U64_MAX` stands for 2^64 - 1 and is 4 to 20. Every property is a fact about
rounding, order and agreement of counters, and each rounding case (exact, one
unit off, quotient zero, everything) already happens with reserves of one to
ten units. The width is also small enough that a full vault and a full LP supply, the
guards `\in U64` that refuse an instruction first, are reached. `FEE_RATE_DENOMINATOR_VALUE` (10^6) is 4 or 7, so one
swap can be charged zero, part or nearly all of its input; a rate that the real
denominator has is a fraction of the same kind. `lock_lp_amount` (100) is 1, the
smallest value with locked shares. The ring keeps its two slots, and
`CUMULATIVE_MODULUS` (2^128) is 24 in `oracle` so that the integral wraps within
the run; `OBSERVATION_UPDATE_DURATION_DEFAULT` (15) is 2 so that a swap can come
at once, too early, in time and late. Trades there are of two units and gifts of one, which already
gives windows of several prices. `MaxTime` stops the clock; `EPOCH_LENGTH`
turns the epoch. Outside `transfer_fees`,
`Limits` is no limit or an impossible one: a limit is only
compared, so the values between add no behaviour of the pool. `FeeRequests` of one unit and of all
cover part and full collection. `governed` uses the parameters 0, 1, 2, 4 and 6
of `update_amm_config`; `config` uses all of 0 to 7 and every value.

In `reserves` amounts go up to 6, and `MaxLoss` 6 lets the lone user go as far into debt
in each asset as the machine has tokens, so a cycle is cut off only where no one
could pay for it. Nobody else trades then, but fees are collected. In `transfer_fees`, where
nobody is alone, amounts and limits go up to 6.

`accounts` has two mints, two configurations and `MaxPools` 2: the pools then either share
mints or, with the mutant, a configuration. Three instructions (`MaxInstructions`) suffice to
charge a fee, change what the vault holds and collect, and a wrong account shows
in the first one that accepts it. One configuration charges both fees and the other the fund's only;
`RateRequests` sets the trade fee of the first to zero and back and
`OwnerRequests` gives each a new owner of one fee, at any time and as often as they like: updates are not counted.

`cold_pool` has two clients, so that one can spend what the other cached, and
`MaxCompressions` 2: one for an account to become cold and one more after
somebody loaded it, which makes a second leaf of the same account. The batches are the whole pool, as when it is idle, and
single accounts of each kind.

The proofs below remove these bounds for the properties they cover.

`CHECK_DEADLOCK FALSE` stands where the system really stops: `calls` and
`ceil_div` make one call; in `transfer_fees` a pool of an unsupported mint is
never created; `accounts` stops at `MaxInstructions` and `cold_pool` when both
clients are done; in `reserves` the lone user may be too poor for any amount.

### Fairness

None is assumed of the program. Nothing in it runs by itself: every step is
somebody's instruction and nobody has to send one. What must stay possible is
therefore stated with ENABLED (`HoldersCanExit`), not as something that happens.
The specs are `Init /\ [][Next]_vars`.

`CpSwapSdk` is a client, a sequential program that runs to its end once started:
`FairSpec` assumes `WF_vars(ClientStep(c))` of each client, and weak fairness of the
first `Initialize`, without which there is no pool to trade on. Nothing is
assumed of compression, and `MaxCompressions` makes it stop. Without that bound no client could be sure to
finish, because an account may become cold again between its load and its
execution. `ClientsFinish` says that the clients do not obstruct each
other for good: one that loses a race starts again, and its next update repairs its
cache.

## What is proved

Every invariant and every safety property that the runs check is a theorem, with two
exceptions at the end of this section. The theorems hold for every width, rate, denominator,
mint, transfer fee, amount, ring length, clock and number of pools and clients, from the
named assumptions that the modules make of their constants and nothing else.

| Theorem | States |
|---|---|
| `CpPoolProofs!TypeCorrect` | `Spec => []TypeOK`: nothing is ever committed outside its width |
| `CpPoolProofs!AlwaysSolvent` | `Spec => []Solvent`: both reserves stay positive, so no `unwrap` of `pool.rs` and no price division panics |
| `CpPoolProofs!AlwaysLpBacked` | `Spec => []LpBacked`: existing plus locked shares never exceed the counted ones |
| `CpPoolProofs!AlwaysShareValue` | `Spec => []ShareValue`: the counted shares, squared, never exceed the product of the reserves |
| `CpPoolProofs!NeverDiluted` | `Spec => NoDilution`: no step of anyone lowers the product of the reserves per share squared |
| `CpPoolProofs!PoolIsMarket` | `Spec => ImplementsMarket`: the whole program refines `ShareMarket` |
| `CpPoolProofs!HoldersNeverRefused` | `Spec => []HoldersPass`: nothing in `withdraw` refuses the holders all their shares if these are worth a unit of each token |
| `CpPoolProofs!SwapsNeverRefused` | `Spec => []SwapsAlwaysSettle`: a swap with a price that its signer accepts passes the product check, the fee counters and the paying vault |
| `CpPoolProofs!OracleNeverRefuses` | `Spec => []PricesFit` where the integral is as wide as a u64 price, shifted, times the clock: the checked product of `oracle.rs:61-66` panics no swap |
| `CpPoolProofs!ConfigInPool` | `Spec => ConfigSpec`: the pool does to its configuration only what the configuration's own specification allows |
| `TradersProofs!TradersUsePool`, `OrdersAreTrades`; `PoolOracleProofs!OracleUsesPool` | `TraderSpec => Spec`, `OrderSpec => TraderSpec`, `OracleSpec => Spec`: what is proved of the pool holds in the runs that check it under these specifications |
| `TradersProofs!NobodyGainsFromRounding` | `TraderSpec => []NoFreeLunch`: no cycle of instructions of a lone user, however long, takes more out than it puts in |
| `TradersProofs!EveryOrderHonoured` | `OrderSpec => []OrdersHonoured`: an order never takes more or brings less than signed |
| `TradersProofs!TradersTypeCorrect` | the books of the users stay numbers |
| `PureCallsProofs!InputIsExact`, `OutputIsExact`, `OnePrice` | both swaps keep the product and are optimal to the unit; paying for an exact output by exact input buys at least as much |
| `PureCallsProofs!SplittingInputsNeverPays`, `SplittingOutputsNeverPays` | two swaps never bring more than one for the same input, nor cost less for the same output |
| `PureCallsProofs!FeesInside`, `SharesBringNoProfit`, `StayersKeepTheirShare` | fees nest; shares bought and sold bring no profit; a withdrawal takes nothing from the others |
| `PureCallsProofs!WhatIsSentArrives`, `FeesNeverMismatch` | the inverse transfer fee is exact and cheapest for every rate and cap, and the code's check of it never fails |
| `PoolOracleProofs!RingIsNotCrowded`, `MeanIsInWindow`, `NewestIsKept` | the ring's windows are long enough, its mean is between the prices of the window, its newest entry is not overwritten |
| `PoolAccountsProofs!PairHasOnePool`, `FeesFollowConfig` | one pool per pair and configuration; `Spec => OwnConfigCharges`: what a pool owes rises only by fees that its own configuration charges at that moment, after any changes of the rates |
| `PoolAccountsProofs!PoolsAreApart`, `OnlyOwnersCollect` | an instruction takes nothing from another pool; fees go down only by the hand of their owner |
| `AmmConfigProofs!ConfigTypeCorrect`, `RatesAlwaysValid` | the configuration on its own: types and valid rates after any updates |
| `CpSwapSdkProofs!SdkTypeCorrect` | `Spec => []SdkTypeOK` for any clients, batches of accounts and number of compressions |
| `CpSwapSdkProofs!ColdIsWarm` | `Spec => ImplementsWarm`: the program sees what it would if no account ever left the chain |
| `CpSwapSdkProofs!ClientLoadsEnough` | `Spec => []LoadSuffices`: the lists of the client library cover what its instruction needs |
| `CpSwapSdkProofs!FailureMeansOvertaken` | `Spec => []FailsOnlyIfOvertaken`: a client's load or instruction fails only if somebody moved an account since it looked, an LP mint with an unreadable signer apart |

The assumptions say what the code guarantees: amounts are u64 and rates the u64 that
`update_config.rs` lets through (`CallAssumption`), at least one share is locked, the ring has more
than one slot (`RingAssumption`; the program has two, `oracle.rs:9`), keys of users and derived
addresses do not coincide (`AccountsAssumption`), a cached leaf is not the mark of an account that is
hot or not cached (`SdkAssumption`).

**The pool.** `Solvent` is not inductive: a swap leaves positive reserves only
if its three fees nest, which needs valid rates, and a withdrawal only if not all
shares can be sold, which needs the locked ones. The inductive invariant is

    IInv == TypeOK /\ RatesValid /\ Configured /\ Solvent /\ LpBacked /\ ShareValue

where `Configured` says that a pool exists only with a configuration. `CpPoolProofs` has one
lemma per action that proves `TypeOK'` and the pool's three invariants and
`NoDilution` for that step; `Invariance` puts them together. The arithmetic is in
`CurveLemmas`: the ceiling division is at least and the floor at most the
quotient (`CeilingWorth`, `FloorWorth`), the two shares fit in the trade fee
(`SharesAtMostTradeFee`), a swap whose check of the product passes keeps the reserve
product (`SwapArithmetic`), a sent amount grossed up by the inverse fee
arrives in full (`ReceivedExactly`). Not used: that the curve chooses its
outputs well. The check in `settle` suffices for safety, so these theorems hold
even of a curve that errs.

**Swaps that pass.** That the check never has to refuse does use the curve. `InputSwapSettles` and
`OutputSwapSettles` take each handler's own guard and give `settlement_passes`: the product is kept by
`LargestOutput` and `SmallestInput`; the output is less than the reserve and so within the vault; and the
counters fit because the fees owed, the reserve and the credit together are the vault's new
balance (`SettlementFunded`), which has room by assumption. The invariant used is `IInv`, above all
`RatesValid` and `Solvent`.

**The market.** Every lemma per action also says what the step does to each reserve
(a deposit adds at least its part, a withdrawal takes at most its part and leaves some, a swap
raises the one and lowers the other). That is what a step of `ShareMarket` asks, so
`PoolIsMarket` goes through the same cases once more; collections, configuration, status
and time leave reserves and shares alone and are stutters.

**Leaving.** `HoldersPass` is `HoldersCanExit` with `withdrawal_passes`, the guard of `Withdraw`,
for `ENABLED Withdraw`; the rest of that action gives each variable one next value. `Solvent` makes
the subtractions defined, `LpBacked` lets the burn through, and shares worth a unit are paid
at least a unit because the quotient is rounded down from at least one.

**Users.** `NoFreeLunch` follows from no single step: it is about whole cycles. The invariant that
carries it is `Endowed`: what the user gained since it began came out of the reserves and shares of
that moment, and no share has lost worth since. It is stated with an existential over those three numbers,
so the model need not record them, and every step keeps it: the
user's gain is bounded by what the share holders give up (the lemmas named `...Gain`), and worth is
transitive (`WorthTransitive`). Had the user more of everything, the pool
would be left with fewer tokens for its shares than worth allows (`NothingTaken`).
`OrdersHonoured` needs the gains of the same lemmas against the limits that were signed.

**Calls.** A call is answered once, so the invariant says that the result is what the code answers to a
call of the domain. The optimality of an exact output rests on `CeilDivCovers`, that the
ceiling of `math.rs` is the quotient rounded up wherever it is not 0, which a swap refuses, and on
`GrossUp`, that a rounded-up gross amount is the least whose net is enough.

A swap in two pieces (`InputPieces`, `OutputPieces`) is compared with the whole through the product alone.
The trade fee is rounded up, so the pieces' nets add up to no more than the net of the whole
(`FeeOfPieces`). Each piece keeps the product of the reserves that it meets, the second one's reserves hold
part of the first one's fee besides its net, and that only raises what it must leave
(`PiecesKeepProduct`). So both pieces together keep the first product, and the whole is the
largest output, or the least input, that does.

**Composition.** `Traders` and `PoolOracle` add history to `CpPool`, and their runs check the pool's
properties under `TraderSpec`, `OrderSpec` and `OracleSpec`. Each of their actions is one of `CpPool`
with more conjuncts, or a stutter, action by action.

**The oracle.** A mean between the lowest and highest price is not inductive, since the integrals
forget how they were summed. The invariant `MeanWasHeld` is stronger: the mean *is* a price the pool had
in the window, because each observation weighs the price it finds with all the time since
the last one, and subtracting modulo the width gives back what was added although it
wrapped (`CyclicDifference`). That needs one product of price and time to be below the
modulus: the guard that stands for the checked product. `OracleNeverRefuses` says the guard is no loss:
a price is at most `U64_MAX * Q32`, so with the program's 64, 32 and 128 bits it holds until
the clock has run for 2^32 seconds.

**Accounts.** `AInv` says that every address in a pool's state is derived from the pool's own
(`Derived`), which the account constraints compare with what the caller names. Two pools
share no vault, LP mint or oracle then (`AddressFacts`), so what an instruction on one pool writes is
its own, except that it may pay into any vault, which only adds. One lemma per instruction proves
`StepGood`: the invariant and the three action properties. That mints are ordered makes the address a function of
the pair (`SamePair`).

**Cold accounts.** `ColdIsWarm` maps `content` to the leaf's data of a cold account and
to the account's own otherwise. That is a state of `WarmAccounts` only while no account
lies in two places and none is lost, which the types do not say, so the invariant is

    IInv == SdkTypeOK /\ Placed /\ ClientsStarted

where `Placed` says that an account is never hot and cold at once, that a pool's
accounts are one or the other as soon as `pool_state` is among the known addresses and
neither before (this is why a cold pool cannot be initialized again), and
`ClientsStarted` that no client starts before the pool exists, so that it caches
only leaves of accounts. `InitializeKept` and `RunKept` show that the program's
steps are those of `WarmAccounts`; `CompressKept` and `LoadKept` that the protocol's
leave `content` alone. A load needs every leaf it spends to be the current one; what
the client cached, and when, does not matter. `LoadSuffices` needs in addition `Cached`: between its
update and its execution a client has cached every account that its instruction names. `FailsOnlyIfOvertaken` needs `Fresh`:
while a client is not overtaken, what it cached of each account is where the account lies, up to its
load, and after it all that its instruction needs is hot. `OthersKeepFresh` is the case of
a step by somebody else, which either moves none of these accounts or sets `overtaken`.

Only model-checked: `HoldersCanExit` as stated, with ENABLED, which the prover does not
know (`HoldersNeverRefused` proves the guard that it stands for), and the liveness property
`ClientsFinish` (its safety half, that a client fails only when another came between, is
`FailureMeansOvertaken`). There is no RECURSIVE operator.

## Where code and documentation disagree

* `src/lib.rs:119` says `update_amm_config` rejects `param` above 4; 5 and 6 work
  (`update_config.rs:27-32`). Run `config_params`.
* `update_config.rs:8` and `lib.rs:109` say the owner or the admin may update;
  only the admin key may. Run `config_owner`.
* `math.rs:21` says a quotient below one fails instead of returning 1; from half
  upwards it returns 1, below half it returns 0. Run `ceil_div`. The swaps stay
  correct because an answer of 0 is refused.
* `tests/functional_test.rs:134` expects a pool created with `open_time` 0 to open
  one second later; it opens at once (`initialize.rs:187-190`). Run `open_time`.

## Not modelled

* The Light SDK and the Light protocol: how an account is compressed and loaded, proofs of
  validity, rent and its sponsor, `compression_info`. Their code is not in the
  repository; `ColdAccounts` models what a pool sees of them.
* Lamports other than the creation fee, and token account creation.
  `create_token_account` and `create_or_allocate_account` of `token.rs` are called by nothing.
* Users' own token accounts as they become cold.
* Events, error codes, logging, `get_mint_decimals`.
* The test harness: it builds instructions and drives a validator.

## Plan

Done: arithmetic, transfers, configuration, pool, oracle, abstract market, users
and their orders, several pools and their accounts, the life of compressed accounts and the
client library; theorems for every safety property of the runs and for the way the specifications
build on each other. What could come next, in order of what it would say:

1. How far exact-input and exact-output prices may differ, in units, for every rate.
2. Swaps in any number of pieces: an induction over the two-piece theorems.
3. Rent in `ColdAccounts`: when an account may become cold, once that code is in the repository.
