---------------------------- MODULE PoolAccounts ----------------------------
(***************************************************************************)
(* Several pools under several configurations, and the accounts that the    *)
(* instructions are given.  A caller may name any account of the right type; *)
(* one authority signs for the vaults of all pools, so only the account      *)
(* constraints of the handlers keep the pools apart.  Addresses derived from *)
(* seeds are tuples of the seeds.  Amounts are reduced to units: a deposit   *)
(* or withdrawal moves one unit of each token, a swap one for one plus a     *)
(* unit of each fee that its configuration charges at that moment.  Of a     *)
(* rate only whether it is zero is kept: no assert of update_config.rs       *)
(* forbids a combination of these.  CpPool and AmmConfig have the amounts,   *)
(* and create_pool_fee and disable_create_pool.                              *)
(***************************************************************************)
EXTENDS Widths, FiniteSets

CONSTANTS
  Mints,            \* keys of mints, which are ordered
  Keys, admin,
  CreateRequests,   \* index of a configuration and its rates
  RateRequests,     \* index of a configuration, one of its rates and the new value
  OwnerRequests,    \* index of a configuration, fee and its new owner
  MaxPools,         \* how many pools are created
  MaxInstructions,  \* how many instructions run on them
  NoPool,           \* no pool is named, or none wrote
  User              \* a user, and the token accounts that are not vaults

FeeKinds == {"protocol_fees", "fund_fees"}

\* The rate of the trade fee, and the share of it that goes to each kind.
RateKinds == FeeKinds \cup {"trade_fee"}

\* Which rates of a configuration are above zero.
Rates == [RateKinds -> BOOLEAN]

ASSUME AccountsAssumption ==
  /\ Mints \subseteq Nat
  /\ admin \in Keys
  /\ CreateRequests \subseteq [index : Nat, rates : Rates]
  /\ RateRequests \subseteq [index : Nat, rate : RateKinds, value : BOOLEAN]
  /\ OwnerRequests \subseteq [index : Nat, kind : FeeKinds, new_owner : Keys]
  /\ MaxPools \in Nat /\ MaxInstructions \in Nat
  /\ User \notin (Nat \X Mints \X Mints) \X Mints

VARIABLES
  amm_configs,    \* the configuration at each address in use
  pool_states,    \* the addresses that each pool's state holds
  fees,           \* the fees that each pool owes
  balance,        \* of each vault
  lp_mint_supply, \* of each LP mint
  observations,   \* the pool whose price each oracle account was last given
  last,           \* history: the pool and the signer of the last instruction
  instructions    \* instructions that ran on the pools

accountVars ==
  <<amm_configs, pool_states, fees, balance, lp_mint_supply, observations, last,
    instructions>>

Init ==
  /\ amm_configs = <<>> /\ pool_states = <<>> /\ fees = <<>>
  /\ balance = <<>> /\ lp_mint_supply = <<>> /\ observations = <<>>
  /\ last = [pool |-> NoPool, signer |-> admin]
  /\ instructions = 0

Signed(p, key) == last' = [pool |-> p, signer |-> key]

\* An instruction on a pool that exists.
OnPool(p, key) ==
  /\ instructions < MaxInstructions
  /\ instructions' = instructions + 1
  /\ Signed(p, key)

\* f with x mapped to y, x in its domain or not.
With(f, x, y) == [z \in DOMAIN f \cup {x} |-> IF z = x THEN y ELSE f[z]]

-----------------------------------------------------------------------------
(* Addresses.  Each kind has a first seed of its own, which is left out. *)

amm_config_address(index)  == <<index>>
pool_address(config, mint) == <<config[1], mint[0], mint[1]>>
vault_address(p, mint)     == <<p, mint>>
lp_mint_address(p)         == p
observation_address(p)     == p

vault_mint(v) == v[2]

-----------------------------------------------------------------------------
(* Account constraints *)

\* Mutant: any two different mints.
mints_differ(mint) == mint[0] # mint[1]

mints_ordered(mint) == mint[0] < mint[1]

\* Mutant: vaults of the right tokens.
names_vaults_of_mints(p, v) ==
  \A t \in Tokens : vault_mint(v[t]) = vault_mint(pool_states[p].vault[t])

names_vaults(p, v) == v = pool_states[p].vault

\* Mutant: any configuration of the program.
names_any_config(p, config) == config \in DOMAIN amm_configs

names_config(p, config) == config = pool_states[p].amm_config

names_observation(p, o) == o = pool_states[p].observation_key

names_lp_mint(p, m) == m = pool_states[p].lp_mint

\* Mutant: the owner of the other fee collects.
may_collect_either(config, kind, signer) ==
  signer = admin \/ \E k \in FeeKinds : signer = amm_configs[config].owner[k]

may_collect(config, kind, signer) ==
  signer \in {amm_configs[config].owner[kind], admin}

-----------------------------------------------------------------------------
owed(p, t) == fees[p]["protocol_fees"][t] + fees[p]["fund_fees"][t]

\* A swap owes a unit of a fee if it charges one and gives a share of it to the kind.
charges(config, kind) ==
  amm_configs[config].rates["trade_fee"] /\ amm_configs[config].rates[kind]

fee_of(config, kind) == IF charges(config, kind) THEN 1 ELSE 0

\* What the curve may pay out of the named vault: never all of it.
payable(p, t, v) == balance[v] - owed(p, t) > 1

\* Pay out of the named vaults to accounts of the same mint: the user's, or any vault.
recipients(v) == {User} \cup { w \in DOMAIN balance : vault_mint(w) = vault_mint(v) }

\* balance when each vault of out loses and each account of to gains amount[t].
paid(out, to, amount) ==
  [v \in DOMAIN balance |->
     balance[v] - (IF v = out[0] THEN amount[0] ELSE 0) - (IF v = out[1] THEN amount[1] ELSE 0)
                + (IF v = to[0] THEN amount[0] ELSE 0) + (IF v = to[1] THEN amount[1] ELSE 0)]

CreateAmmConfig(signer, index, rates) ==
  LET config == amm_config_address(index) IN
  /\ signer = admin
  /\ config \notin DOMAIN amm_configs
  /\ amm_configs' = With(amm_configs, config,
       [rates |-> rates, owner |-> [kind \in FeeKinds |-> signer]])
  /\ Signed(NoPool, signer)
  /\ UNCHANGED <<pool_states, fees, balance, lp_mint_supply, observations, instructions>>

\* update_trade_fee_rate, update_protocol_fee_rate and update_fund_fee_rate.
update_rate(config, rate, value) ==
  amm_configs' = [amm_configs EXCEPT ![config].rates[rate] = value]

\* set_new_protocol_owner and set_new_fund_owner.
set_new_owner(config, kind, new_owner) ==
  amm_configs' = [amm_configs EXCEPT ![config].owner[kind] = new_owner]

UpdateAmmConfig(signer, config) ==
  /\ signer = admin
  /\ config \in DOMAIN amm_configs
  /\ \/ \E r \in RateRequests :
          config = amm_config_address(r.index) /\ update_rate(config, r.rate, r.value)
     \/ \E r \in OwnerRequests :
          config = amm_config_address(r.index) /\ set_new_owner(config, r.kind, r.new_owner)
  /\ Signed(NoPool, signer)
  /\ UNCHANGED <<pool_states, fees, balance, lp_mint_supply, observations, instructions>>

Initialize(config, mint) ==
  LET p == pool_address(config, mint)
      v == [t \in Tokens |-> vault_address(p, mint[t])] IN
  /\ Cardinality(DOMAIN pool_states) < MaxPools
  /\ mints_ordered(mint)
  /\ p \notin DOMAIN pool_states
  /\ pool_states' = With(pool_states, p,
       [ amm_config |-> config, vault |-> v, lp_mint |-> lp_mint_address(p),
         observation_key |-> observation_address(p) ])
  /\ fees' = With(fees, p, [kind \in FeeKinds |-> [t \in Tokens |-> 0]])
  /\ balance' = With(With(balance, v[0], 2), v[1], 2)
  /\ lp_mint_supply' = With(lp_mint_supply, lp_mint_address(p), 1)
  /\ observations' = With(observations, observation_address(p), NoPool)
  /\ Signed(p, User)
  /\ UNCHANGED <<amm_configs, instructions>>

Deposit(p, v, lp_mint) ==
  /\ names_lp_mint(p, lp_mint)
  /\ balance' = [w \in DOMAIN balance |->
                   IF w \in {v[0], v[1]} THEN balance[w] + 1 ELSE balance[w]]
  /\ lp_mint_supply' = [lp_mint_supply EXCEPT ![lp_mint] = @ + 1]
  /\ OnPool(p, User)
  /\ UNCHANGED <<amm_configs, pool_states, fees, observations>>

Withdraw(p, v, lp_mint, to) ==
  /\ names_lp_mint(p, lp_mint)
  /\ \A t \in Tokens : payable(p, t, v[t])
  /\ lp_mint_supply[lp_mint] > 0
  /\ balance' = paid(v, to, [t \in Tokens |-> 1])
  /\ lp_mint_supply' = [lp_mint_supply EXCEPT ![lp_mint] = @ - 1]
  /\ OnPool(p, User)
  /\ UNCHANGED <<amm_configs, pool_states, fees, observations>>

\* Both swaps take these accounts; input is the token that the vaults say it is.
Swap(p, config, v, input, observation, to) ==
  LET output == 1 - input
      fee == fee_of(config, "protocol_fees") + fee_of(config, "fund_fees")
      out == [t \in Tokens |-> IF t = output THEN v[t] ELSE User] IN
  /\ names_config(p, config)
  /\ names_observation(p, observation)
  /\ payable(p, output, v[output])
  /\ balance' = [paid(out, [t \in Tokens |-> IF t = output THEN to ELSE User],
                      [t \in Tokens |-> 1])
                   EXCEPT ![v[input]] = @ + 1 + fee]
  /\ fees' = [fees EXCEPT ![p] = [kind \in FeeKinds |->
               [t \in Tokens |-> @[kind][t] + (IF t = input THEN fee_of(config, kind) ELSE 0)]]]
  /\ observations' = [observations EXCEPT ![observation] = p]
  /\ OnPool(p, User)
  /\ UNCHANGED <<amm_configs, pool_states, lp_mint_supply>>

\* collect_protocol_fee and collect_fund_fee: what is asked of each token, at
\* most what is owed.
CollectFee(signer, kind, p, config, v, asked, to) ==
  LET amount == [t \in Tokens |-> IF t \in asked THEN fees[p][kind][t] ELSE 0] IN
  /\ names_config(p, config)
  /\ may_collect(config, kind, signer)
  /\ \A t \in Tokens : amount[t] <= balance[v[t]]
  /\ fees' = [fees EXCEPT ![p][kind] = [t \in Tokens |-> @[t] - amount[t]]]
  /\ balance' = paid(v, to, amount)
  /\ OnPool(p, signer)
  /\ UNCHANGED <<amm_configs, pool_states, lp_mint_supply, observations>>

\* The accounts that a token may be paid into for each of two vaults.
Payees(v) == { to \in [Tokens -> {User} \cup DOMAIN balance] :
                 \A t \in Tokens : to[t] \in recipients(v[t]) }

\* The vaults that an instruction on a pool accepts.
Accepted(p) == { v \in [Tokens -> DOMAIN balance] : names_vaults(p, v) }

Configure ==
  \/ \E signer \in Keys, request \in CreateRequests :
       CreateAmmConfig(signer, request.index, request.rates)
  \/ \E signer \in Keys, config \in DOMAIN amm_configs : UpdateAmmConfig(signer, config)

Trade ==
  \E p \in DOMAIN pool_states : \E v \in Accepted(p) :
    \/ \E lp_mint \in DOMAIN lp_mint_supply : Deposit(p, v, lp_mint)
    \/ \E lp_mint \in DOMAIN lp_mint_supply, to \in Payees(v) :
         Withdraw(p, v, lp_mint, to)
    \/ \E config \in DOMAIN amm_configs, input \in Tokens,
          observation \in DOMAIN observations :
         \E to \in recipients(v[1 - input]) :
           Swap(p, config, v, input, observation, to)

Collect ==
  \E p \in DOMAIN pool_states : \E v \in Accepted(p) :
    \E signer \in Keys, kind \in FeeKinds, config \in DOMAIN amm_configs,
       asked \in SUBSET { t \in Tokens : owed(p, t) > 0 },
       to \in Payees(v) : CollectFee(signer, kind, p, config, v, asked, to)

Next ==
  \/ Configure
  \/ \E config \in DOMAIN amm_configs, mint \in [Tokens -> Mints] :
       Initialize(config, mint)
  \/ Trade
  \/ Collect

Spec == Init /\ [][Next]_accountVars
-----------------------------------------------------------------------------
\* A configuration has one pool of two mints, whichever comes first
\* (initialize.rs:54-73), so the liquidity of a pair is not split.
OnePoolPerPair ==
  \A p, q \in DOMAIN pool_states :
    /\ pool_states[p].amm_config = pool_states[q].amm_config
    /\ { vault_mint(pool_states[p].vault[t]) : t \in Tokens }
         = { vault_mint(pool_states[q].vault[t]) : t \in Tokens }
    => p = q

\* Whatever accounts an instruction on one pool is given, every other pool keeps
\* its fees, its LP supply and its oracle, and its vaults lose nothing, though one
\* authority signs for all vaults (swap_base_input.rs:24-73, deposit.rs:50-90,
\* withdraw.rs:52-89, collect_protocol_fee.rs:27-61).
OthersUntouched ==
  [][\A p \in DOMAIN pool_states \ {last'.pool} :
       LET own == pool_states[p] IN
       /\ pool_states'[p] = own
       /\ fees'[p] = fees[p]
       /\ \A t \in Tokens : balance'[own.vault[t]] >= balance[own.vault[t]]
       /\ lp_mint_supply'[own.lp_mint] = lp_mint_supply[own.lp_mint]
       /\ observations'[own.observation_key] = observations[own.observation_key]
    ]_accountVars

\* What a pool owes rises only by a fee that its own configuration charges at that
\* moment, though its mints trade under other configurations as well and the admin
\* changes all rates at any time (swap_base_input.rs:24-26, update_config.rs:40-55).
OwnConfigCharges ==
  [][\A p \in DOMAIN pool_states, kind \in FeeKinds, t \in Tokens :
       fees'[p][kind][t] > fees[p][kind][t]
         => charges(pool_states[p].amm_config, kind)
    ]_accountVars

\* What a pool owes falls only by a collection of the owner that its own
\* configuration names for that fee, or the admin (collect_protocol_fee.rs:12-32,
\* collect_fund_fee.rs:11-31), after any changes of the owners.
OwnersCollect ==
  [][\A p \in DOMAIN pool_states, kind \in FeeKinds, t \in Tokens :
       fees'[p][kind][t] < fees[p][kind][t]
         => last'.signer \in
              {admin, amm_configs[pool_states[p].amm_config].owner[kind]}
    ]_accountVars
=============================================================================
