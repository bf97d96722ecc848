------------------------- MODULE PoolAccountsProofs -------------------------
(***************************************************************************)
(* Theorems about PoolAccounts for any mints, configurations and requests,  *)
(* any number of pools and any number of instructions.  Every argument is   *)
(* that a pool's state holds addresses derived from its own, and that the   *)
(* account constraints accept no other.                                     *)
(***************************************************************************)
EXTENDS PoolAccounts, TLAPS

\* A pool's address holds the index of its configuration and its two mints.
mint_of(p, t)   == IF t = 0 THEN p[2] ELSE p[3]
config_of(p)    == <<p[1]>>
vault_of(p, t)  == <<p, mint_of(p, t)>>

PoolAddresses == { p \in Nat \X Mints \X Mints : p[2] < p[3] }

VaultsInUse == { vault_of(p, t) : p \in DOMAIN pool_states, t \in Tokens }

\* Every address that a pool's state holds is derived from the pool's own.
Derived(p) ==
  /\ pool_states[p].amm_config = config_of(p)
  /\ pool_states[p].vault = [t \in Tokens |-> vault_of(p, t)]
  /\ pool_states[p].lp_mint = p
  /\ pool_states[p].observation_key = p

Configs == [rates : Rates, owner : [FeeKinds -> Keys]]

ConfigsTyped ==
  /\ DOMAIN amm_configs \subseteq { <<index>> : index \in Nat }
  /\ \A config \in DOMAIN amm_configs : amm_configs[config] \in Configs

PoolsDerived ==
  /\ DOMAIN pool_states \subseteq PoolAddresses
  /\ \A p \in DOMAIN pool_states : Derived(p) /\ config_of(p) \in DOMAIN amm_configs

AccountsTyped ==
  /\ fees \in [DOMAIN pool_states -> [FeeKinds -> [Tokens -> Nat]]]
  /\ balance \in [VaultsInUse -> Int]
  /\ lp_mint_supply \in [DOMAIN pool_states -> Int]
  /\ DOMAIN observations = DOMAIN pool_states

AInv == ConfigsTyped /\ PoolsDerived /\ AccountsTyped

\* What a step owes to a pool that its instruction does not name.
LeftAlone(p) ==
  /\ pool_states'[p] = pool_states[p]
  /\ fees'[p] = fees[p]
  /\ \A t \in Tokens : balance'[pool_states[p].vault[t]] >= balance[pool_states[p].vault[t]]
  /\ lp_mint_supply'[pool_states[p].lp_mint] = lp_mint_supply[pool_states[p].lp_mint]
  /\ observations'[pool_states[p].observation_key]
       = observations[pool_states[p].observation_key]

OthersLeftAlone == \A p \in DOMAIN pool_states \ {last'.pool} : LeftAlone(p)

CollectedByOwner ==
  \A p \in DOMAIN pool_states, kind \in FeeKinds, t \in Tokens :
    fees'[p][kind][t] < fees[p][kind][t]
      => last'.signer \in {admin, amm_configs[pool_states[p].amm_config].owner[kind]}

ChargedByOwn ==
  \A p \in DOMAIN pool_states, kind \in FeeKinds, t \in Tokens :
    fees'[p][kind][t] > fees[p][kind][t] => charges(pool_states[p].amm_config, kind)

StepGood == AInv' /\ OthersLeftAlone /\ ChargedByOwn /\ CollectedByOwner

-----------------------------------------------------------------------------
(* Addresses *)

\* The accounts of a pool are its own.
LEMMA AddressFacts ==
  ASSUME AInv, NEW p \in DOMAIN pool_states
  PROVE  /\ p \in PoolAddresses /\ p = <<p[1], p[2], p[3]>>
         /\ p[1] \in Nat /\ p[2] \in Nat /\ p[3] \in Nat /\ p[2] < p[3]
         /\ Derived(p)
         /\ config_of(p) \in DOMAIN amm_configs
         /\ \A t \in Tokens : vault_of(p, t) \in VaultsInUse /\ vault_of(p, t) # User
         /\ vault_of(p, 0) # vault_of(p, 1)
         /\ \A q, t, u : q # p => vault_of(p, t) # vault_of(q, u)
  <1>1. p \in PoolAddresses /\ Derived(p) /\ config_of(p) \in DOMAIN amm_configs
    BY DEF AInv, PoolsDerived
  <1>2. /\ p \in Nat \X Mints \X Mints /\ p[2] < p[3]
        /\ p = <<p[1], p[2], p[3]>> /\ p[1] \in Nat /\ p[2] \in Mints /\ p[3] \in Mints
    BY <1>1 DEF PoolAddresses
  <1>3. p[2] \in Nat /\ p[3] \in Nat
    BY <1>2, AccountsAssumption
  <1>4. \A t \in Tokens : vault_of(p, t) \in VaultsInUse
    BY DEF VaultsInUse
  <1>5. \A t \in Tokens : vault_of(p, t) # User
    <2>1. \A t \in Tokens : vault_of(p, t) \in (Nat \X Mints \X Mints) \X Mints
      BY <1>2 DEF vault_of, mint_of
    <2> QED
      BY <2>1, AccountsAssumption
  <1>6. vault_of(p, 0) # vault_of(p, 1)
    BY <1>2, <1>3 DEF vault_of, mint_of
  <1>7. \A q, t, u : q # p => vault_of(p, t) # vault_of(q, u)
    BY DEF vault_of
  <1> QED
    BY <1>1, <1>2, <1>3, <1>4, <1>5, <1>6, <1>7

\* The vaults that an instruction on a pool accepts are the pool's.
LEMMA AcceptedFacts ==
  ASSUME AInv, NEW p \in DOMAIN pool_states, NEW v \in Accepted(p)
  PROVE  /\ \A t \in Tokens : v[t] = vault_of(p, t) /\ v[t] \in DOMAIN balance
         /\ v[0] # v[1]
         /\ \A q \in DOMAIN pool_states \ {p}, t, u \in Tokens :
              /\ pool_states[q].vault[t] \in DOMAIN balance
              /\ pool_states[q].vault[t] # v[u] /\ pool_states[q].vault[t] # User
  <1>1. v = pool_states[p].vault /\ v \in [Tokens -> DOMAIN balance]
    BY DEF Accepted, names_vaults
  <1>2. ASSUME NEW q \in DOMAIN pool_states, NEW t \in Tokens
        PROVE  pool_states[q].vault[t] = vault_of(q, t)
    <2>1. Derived(q)
      BY DEF AInv, PoolsDerived
    <2> QED
      BY <2>1 DEF Derived
  <1>3. DOMAIN balance = VaultsInUse
    BY DEF AInv, AccountsTyped
  <1> QED
    BY <1>1, <1>2, <1>3, AddressFacts DEF Tokens

\* Paying out of some vaults takes nothing from any other.
LEMMA PaidFacts ==
  ASSUME balance \in [VaultsInUse -> Int], NEW out, NEW to, NEW amount \in [Tokens -> Nat]
  PROVE  /\ paid(out, to, amount) \in [VaultsInUse -> Int]
         /\ \A w \in VaultsInUse : w # out[0] /\ w # out[1]
              => paid(out, to, amount)[w] >= balance[w]
  <1>1. amount[0] \in Nat /\ amount[1] \in Nat /\ DOMAIN balance = VaultsInUse
    BY DEF Tokens
  <1>2. \A w \in VaultsInUse : balance[w] \in Int
    OBVIOUS
  <1> QED
    BY <1>1, <1>2 DEF paid

-----------------------------------------------------------------------------
(* Instructions on a pool *)

\* What an instruction on p must do, beyond what it leaves unchanged.
LEMMA OnPoolGood ==
  ASSUME AInv, NEW p \in DOMAIN pool_states, NEW signer,
         pool_states' = pool_states, amm_configs' = amm_configs,
         last' = [pool |-> p, signer |-> signer],
         fees' \in [DOMAIN pool_states -> [FeeKinds -> [Tokens -> Nat]]],
         \A q \in DOMAIN pool_states \ {p} : fees'[q] = fees[q],
         \A kind \in FeeKinds, t \in Tokens :
           fees'[p][kind][t] > fees[p][kind][t] => charges(pool_states[p].amm_config, kind),
         \A kind \in FeeKinds, t \in Tokens :
           fees'[p][kind][t] < fees[p][kind][t]
             => signer \in {admin, amm_configs[pool_states[p].amm_config].owner[kind]},
         balance' \in [VaultsInUse -> Int],
         \A q \in DOMAIN pool_states \ {p}, t \in Tokens :
           balance'[pool_states[q].vault[t]] >= balance[pool_states[q].vault[t]],
         lp_mint_supply' \in [DOMAIN pool_states -> Int],
         \A q \in DOMAIN pool_states \ {p} : lp_mint_supply'[q] = lp_mint_supply[q],
         DOMAIN observations' = DOMAIN pool_states,
         \A q \in DOMAIN pool_states \ {p} : observations'[q] = observations[q]
  PROVE  StepGood
  <1>1. VaultsInUse' = VaultsInUse
    BY DEF VaultsInUse, vault_of, mint_of
  <1>2. ConfigsTyped' /\ PoolsDerived' /\ AccountsTyped'
    BY <1>1 DEF AInv, ConfigsTyped, PoolsDerived, AccountsTyped, Derived
  <1>3. ChargedByOwn
    <2> SUFFICES ASSUME NEW q \in DOMAIN pool_states, NEW kind \in FeeKinds, NEW t \in Tokens,
                        fees'[q][kind][t] > fees[q][kind][t]
                 PROVE  charges(pool_states[q].amm_config, kind)
      BY DEF ChargedByOwn
    <2>1. CASE q = p
      BY <2>1
    <2>2. CASE q # p
      <3>1. fees[q][kind][t] \in Nat /\ fees'[q][kind][t] = fees[q][kind][t]
        BY <2>2 DEF AInv, AccountsTyped
      <3> QED
        BY <3>1
    <2> QED
      BY <2>1, <2>2
  <1>4. \A q \in DOMAIN pool_states :
          pool_states[q].lp_mint = q /\ pool_states[q].observation_key = q
    BY AddressFacts DEF Derived
  <1>5. OthersLeftAlone
    BY <1>4 DEF OthersLeftAlone, LeftAlone
  <1>6. CollectedByOwner
    <2> SUFFICES ASSUME NEW q \in DOMAIN pool_states, NEW kind \in FeeKinds, NEW t \in Tokens,
                        fees'[q][kind][t] < fees[q][kind][t]
                 PROVE  signer \in {admin, amm_configs[pool_states[q].amm_config].owner[kind]}
      BY DEF CollectedByOwner
    <2>1. CASE q = p
      BY <2>1
    <2>2. CASE q # p
      <3>1. fees[q][kind][t] \in Nat /\ fees'[q][kind][t] = fees[q][kind][t]
        BY <2>2 DEF AInv, AccountsTyped
      <3> QED
        BY <3>1
    <2> QED
      BY <2>1, <2>2
  <1> QED
    BY <1>2, <1>3, <1>5, <1>6 DEF StepGood, AInv

\* The instructions that leave all fees as they are.
LEMMA FeesStay ==
  ASSUME AInv, fees' = fees, NEW p \in DOMAIN pool_states
  PROVE  /\ fees' \in [DOMAIN pool_states -> [FeeKinds -> [Tokens -> Nat]]]
         /\ \A kind \in FeeKinds, t \in Tokens :
              /\ ~(fees'[p][kind][t] > fees[p][kind][t])
              /\ ~(fees'[p][kind][t] < fees[p][kind][t])
  <1>1. fees \in [DOMAIN pool_states -> [FeeKinds -> [Tokens -> Nat]]]
    BY DEF AInv, AccountsTyped
  <1>2. \A kind \in FeeKinds, t \in Tokens : fees[p][kind][t] \in Nat
    BY <1>1
  <1> QED
    BY <1>1, <1>2

LEMMA DepositGood ==
  ASSUME AInv, NEW p \in DOMAIN pool_states, NEW v \in Accepted(p), NEW lp_mint,
         Deposit(p, v, lp_mint)
  PROVE  StepGood
  <1>1. lp_mint = p /\ last' = [pool |-> p, signer |-> User]
    BY AddressFacts DEF Deposit, names_lp_mint, Derived, OnPool, Signed
  <1>2. balance \in [VaultsInUse -> Int] /\ lp_mint_supply \in [DOMAIN pool_states -> Int]
    BY DEF AInv, AccountsTyped
  <1>3. balance' \in [VaultsInUse -> Int]
    BY <1>2 DEF Deposit
  <1>4. ASSUME NEW q \in DOMAIN pool_states \ {p}, NEW t \in Tokens
        PROVE  balance'[pool_states[q].vault[t]] >= balance[pool_states[q].vault[t]]
    <2>1. pool_states[q].vault[t] \in VaultsInUse
      BY <1>2, AcceptedFacts
    <2> QED
      BY <1>2, <2>1 DEF Deposit
  <1>5. /\ lp_mint_supply' \in [DOMAIN pool_states -> Int]
        /\ \A q \in DOMAIN pool_states \ {p} : lp_mint_supply'[q] = lp_mint_supply[q]
    BY <1>1, <1>2 DEF Deposit
  <1>6. /\ pool_states' = pool_states /\ amm_configs' = amm_configs /\ fees' = fees
        /\ observations' = observations
    BY DEF Deposit
  <1> QED
    BY <1>1, <1>3, <1>4, <1>5, <1>6, FeesStay, OnPoolGood DEF AInv, AccountsTyped

LEMMA WithdrawGood ==
  ASSUME AInv, NEW p \in DOMAIN pool_states, NEW v \in Accepted(p), NEW lp_mint, NEW to,
         Withdraw(p, v, lp_mint, to)
  PROVE  StepGood
  <1>1. lp_mint = p /\ last' = [pool |-> p, signer |-> User]
    BY AddressFacts DEF Withdraw, names_lp_mint, Derived, OnPool, Signed
  <1>2. balance \in [VaultsInUse -> Int] /\ lp_mint_supply \in [DOMAIN pool_states -> Int]
    BY DEF AInv, AccountsTyped
  <1>3. [t \in Tokens |-> 1] \in [Tokens -> Nat] /\ 0 \in Tokens /\ 1 \in Tokens
    BY DEF Tokens
  <1>4. /\ balance' \in [VaultsInUse -> Int]
        /\ \A w \in VaultsInUse : w # v[0] /\ w # v[1] => balance'[w] >= balance[w]
    BY <1>2, <1>3, PaidFacts DEF Withdraw
  <1>5. \A q \in DOMAIN pool_states \ {p}, t \in Tokens :
          balance'[pool_states[q].vault[t]] >= balance[pool_states[q].vault[t]]
    BY <1>2, <1>3, <1>4, AcceptedFacts
  <1>6. /\ lp_mint_supply' \in [DOMAIN pool_states -> Int]
        /\ \A q \in DOMAIN pool_states \ {p} : lp_mint_supply'[q] = lp_mint_supply[q]
    BY <1>1, <1>2 DEF Withdraw
  <1>7. /\ pool_states' = pool_states /\ amm_configs' = amm_configs /\ fees' = fees
        /\ observations' = observations
    BY DEF Withdraw
  <1> QED
    BY <1>1, <1>4, <1>5, <1>6, <1>7, FeesStay, OnPoolGood DEF AInv, AccountsTyped

\* What a swap adds to the fees its own configuration charges.
LEMMA SwapFees ==
  ASSUME AInv, NEW p \in DOMAIN pool_states, NEW v, NEW config,
         NEW input \in Tokens, NEW observation, NEW to,
         Swap(p, config, v, input, observation, to)
  PROVE  /\ fees' \in [DOMAIN pool_states -> [FeeKinds -> [Tokens -> Nat]]]
         /\ \A q \in DOMAIN pool_states \ {p} : fees'[q] = fees[q]
         /\ \A kind \in FeeKinds, t \in Tokens :
              /\ fees'[p][kind][t] > fees[p][kind][t]
                   => charges(pool_states[p].amm_config, kind)
              /\ ~(fees'[p][kind][t] < fees[p][kind][t])
  <1>0. /\ \A kind \in FeeKinds :
             /\ fee_of(config, kind) \in {0, 1}
             /\ fee_of(config, kind) = 1 => charges(pool_states[p].amm_config, kind)
        /\ fees' = [fees EXCEPT ![p] =
                     [kind \in FeeKinds |->
                       [t \in Tokens |->
                          @[kind][t] + (IF t = input THEN fee_of(config, kind) ELSE 0)]]]
    BY DEF Swap, names_config, fee_of
  <1>1. fees \in [DOMAIN pool_states -> [FeeKinds -> [Tokens -> Nat]]]
    BY DEF AInv, AccountsTyped
  <1>2. fees'[p] = [kind \in FeeKinds |->
                      [t \in Tokens |-> fees[p][kind][t] + (IF t = input THEN fee_of(config, kind) ELSE 0)]]
    BY <1>0, <1>1
  <1>3. ASSUME NEW kind \in FeeKinds, NEW t \in Tokens
        PROVE  /\ fees[p][kind][t] \in Nat
               /\ fees'[p][kind][t] = fees[p][kind][t] + (IF t = input THEN fee_of(config, kind) ELSE 0)
    BY <1>0, <1>1, <1>2
  <1>4. fees'[p] \in [FeeKinds -> [Tokens -> Nat]]
    BY <1>0, <1>1, <1>2
  <1>5. fees' = [fees EXCEPT ![p] = fees'[p]]
    BY <1>0, <1>1, <1>2
  <1>6. fees' \in [DOMAIN pool_states -> [FeeKinds -> [Tokens -> Nat]]]
        /\ \A q \in DOMAIN pool_states \ {p} : fees'[q] = fees[q]
    BY <1>1, <1>4, <1>5
  <1> QED
    BY <1>0, <1>3, <1>6

LEMMA SwapGood ==
  ASSUME AInv, NEW p \in DOMAIN pool_states, NEW v \in Accepted(p), NEW config,
         NEW input \in Tokens, NEW observation, NEW to,
         Swap(p, config, v, input, observation, to)
  PROVE  StepGood
  <1> DEFINE fee    == fee_of(config, "protocol_fees") + fee_of(config, "fund_fees")
             output == 1 - input
             out    == [t \in Tokens |-> IF t = output THEN v[t] ELSE User]
             payee  == [t \in Tokens |-> IF t = output THEN to ELSE User]
             base   == paid(out, payee, [t \in Tokens |-> 1])
  <1>1. /\ observation = p /\ config = pool_states[p].amm_config
        /\ last' = [pool |-> p, signer |-> User]
        /\ pool_states' = pool_states /\ amm_configs' = amm_configs
        /\ lp_mint_supply' = lp_mint_supply
    BY AddressFacts DEF Swap, names_observation, names_config, Derived, OnPool, Signed
  <1>2. /\ balance \in [VaultsInUse -> Int] /\ DOMAIN observations = DOMAIN pool_states
        /\ lp_mint_supply \in [DOMAIN pool_states -> Int]
    BY DEF AInv, AccountsTyped
  <1>3. [t \in Tokens |-> 1] \in [Tokens -> Nat] /\ 0 \in Tokens /\ 1 \in Tokens
    BY DEF Tokens
  <1>4. /\ base \in [VaultsInUse -> Int]
        /\ \A w \in VaultsInUse : w # out[0] /\ w # out[1] => base[w] >= balance[w]
    BY <1>2, <1>3, PaidFacts
  <1>5. balance' = [base EXCEPT ![v[input]] = @ + 1 + fee] /\ fee \in Nat
    BY DEF Swap, fee_of
  <1>6. \A w : w # v[0] /\ w # v[1] /\ w # User => w # out[0] /\ w # out[1]
    BY <1>3
  <1>7. balance' \in [VaultsInUse -> Int]
    <2>1. base[v[input]] + 1 + fee \in Int
      BY <1>2, <1>4, <1>5, AcceptedFacts
    <2> HIDE DEF base, fee
    <2> QED
      BY <1>4, <1>5, <2>1
  <1>8. ASSUME NEW q \in DOMAIN pool_states \ {p}, NEW t \in Tokens
        PROVE  balance'[pool_states[q].vault[t]] >= balance[pool_states[q].vault[t]]
    <2> DEFINE w == pool_states[q].vault[t]
    <2>1. w \in VaultsInUse /\ w # v[0] /\ w # v[1] /\ w # v[input] /\ w # User
      BY <1>2, <1>3, AcceptedFacts
    <2>2. base[w] >= balance[w]
      <3> HIDE DEF base, out, w
      <3> QED
        BY <1>4, <1>6, <2>1
    <2>3. balance'[w] = base[w]
      <3> HIDE DEF base, fee, w
      <3> QED
        BY <1>4, <1>5, <2>1
    <2> QED
      BY <2>2, <2>3
  <1>9. /\ fees' \in [DOMAIN pool_states -> [FeeKinds -> [Tokens -> Nat]]]
        /\ \A q \in DOMAIN pool_states \ {p} : fees'[q] = fees[q]
        /\ \A kind \in FeeKinds, t \in Tokens :
             /\ fees'[p][kind][t] > fees[p][kind][t]
                  => charges(pool_states[p].amm_config, kind)
             /\ ~(fees'[p][kind][t] < fees[p][kind][t])
    BY SwapFees
  <1>10. /\ DOMAIN observations' = DOMAIN pool_states
         /\ \A q \in DOMAIN pool_states \ {p} : observations'[q] = observations[q]
    BY <1>1, <1>2 DEF Swap
  <1> HIDE DEF fee, out, base, payee, output
  <1> QED
    BY <1>1, <1>2, <1>7, <1>8, <1>9, <1>10, OnPoolGood

LEMMA CollectFeeGood ==
  ASSUME AInv, NEW p \in DOMAIN pool_states, NEW v \in Accepted(p), NEW config, NEW to,
         NEW signer, NEW kind \in FeeKinds, NEW asked,
         CollectFee(signer, kind, p, config, v, asked, to)
  PROVE  StepGood
  <1> DEFINE amount == [t \in Tokens |-> IF t \in asked THEN fees[p][kind][t] ELSE 0]
             left   == [t \in Tokens |-> fees[p][kind][t] - amount[t]]
  <1>1. /\ config = pool_states[p].amm_config
        /\ signer \in {amm_configs[pool_states[p].amm_config].owner[kind], admin}
        /\ last' = [pool |-> p, signer |-> signer]
        /\ pool_states' = pool_states /\ amm_configs' = amm_configs
        /\ lp_mint_supply' = lp_mint_supply /\ observations' = observations
    BY DEF CollectFee, may_collect, names_config, OnPool, Signed
  <1>2. /\ balance \in [VaultsInUse -> Int] /\ DOMAIN observations = DOMAIN pool_states
        /\ lp_mint_supply \in [DOMAIN pool_states -> Int]
        /\ fees \in [DOMAIN pool_states -> [FeeKinds -> [Tokens -> Nat]]]
    BY DEF AInv, AccountsTyped
  <1>3. /\ fees[p] \in [FeeKinds -> [Tokens -> Nat]]
        /\ \A t \in Tokens : fees[p][kind][t] \in Nat
    BY <1>2
  <1>4. amount \in [Tokens -> Nat] /\ left \in [Tokens -> Nat]
        /\ \A t \in Tokens : left[t] <= fees[p][kind][t]
    BY <1>3
  <1>5. /\ balance' \in [VaultsInUse -> Int]
        /\ \A w \in VaultsInUse : w # v[0] /\ w # v[1] => balance'[w] >= balance[w]
    <2>1. balance' = paid(v, to, amount)
      BY DEF CollectFee
    <2> HIDE DEF amount
    <2> QED
      BY <1>2, <1>4, <2>1, PaidFacts
  <1>6. \A q \in DOMAIN pool_states \ {p}, t \in Tokens :
          balance'[pool_states[q].vault[t]] >= balance[pool_states[q].vault[t]]
    BY <1>2, <1>5, AcceptedFacts DEF Tokens
  <1>7. /\ fees' = [fees EXCEPT ![p] = [fees[p] EXCEPT ![kind] = left]]
        /\ fees'[p] = [fees[p] EXCEPT ![kind] = left]
    BY <1>2 DEF CollectFee
  <1> HIDE DEF amount, left
  <1>8. /\ fees' \in [DOMAIN pool_states -> [FeeKinds -> [Tokens -> Nat]]]
        /\ \A q \in DOMAIN pool_states \ {p} : fees'[q] = fees[q]
    <2>1. [fees[p] EXCEPT ![kind] = left] \in [FeeKinds -> [Tokens -> Nat]]
      BY <1>3, <1>4
    <2> QED
      BY <1>2, <1>7, <2>1
  <1>9. ASSUME NEW k \in FeeKinds, NEW t \in Tokens
        PROVE  /\ fees[p][k][t] \in Nat /\ fees'[p][k][t] \in Nat
               /\ fees'[p][k][t] <= fees[p][k][t]
               /\ fees'[p][k][t] < fees[p][k][t] => k = kind
    <2>1. fees'[p][k] = IF k = kind THEN left ELSE fees[p][k]
      BY <1>3, <1>7
    <2> QED
      BY <1>2, <1>3, <1>4, <2>1
  <1>10. \A k \in FeeKinds, t \in Tokens : ~(fees'[p][k][t] > fees[p][k][t])
    BY <1>9
  <1>11. \A k \in FeeKinds, t \in Tokens :
           fees'[p][k][t] < fees[p][k][t]
             => signer \in {admin, amm_configs[pool_states[p].amm_config].owner[k]}
    BY <1>1, <1>9
  <1> QED
    BY <1>1, <1>2, <1>5, <1>6, <1>8, <1>10, <1>11, OnPoolGood

-----------------------------------------------------------------------------
(* Creating pools and changing configurations *)

\* What the addresses of a new pool are derived from.
LEMMA NewAddresses ==
  ASSUME AInv, NEW config \in DOMAIN amm_configs, NEW mint \in [Tokens -> Mints],
         Initialize(config, mint)
  PROVE  LET p == pool_address(config, mint) IN
         /\ p \in PoolAddresses /\ p \notin DOMAIN pool_states
         /\ config_of(p) = config
         /\ \A t \in Tokens : vault_address(p, mint[t]) = vault_of(p, t)
  <1>1. /\ mint[0] \in Mints /\ mint[1] \in Mints /\ mint[0] < mint[1]
        /\ pool_address(config, mint) \notin DOMAIN pool_states
    BY DEF Initialize, mints_ordered, Tokens
  <1>2. PICK index \in Nat : config = <<index>>
    BY DEF AInv, ConfigsTyped
  <1>3. pool_address(config, mint) = <<index, mint[0], mint[1]>>
    BY <1>2 DEF pool_address
  <1> QED
    BY <1>1, <1>2, <1>3
    DEF PoolAddresses, config_of, vault_address, vault_of, mint_of, Tokens

LEMMA InitializeGood ==
  ASSUME AInv, NEW config \in DOMAIN amm_configs, NEW mint \in [Tokens -> Mints],
         Initialize(config, mint)
  PROVE  StepGood
  <1> DEFINE p    == pool_address(config, mint)
             v    == [t \in Tokens |-> vault_address(p, mint[t])]
             none == [kind \in FeeKinds |-> [t \in Tokens |-> 0]]
             new  == [ amm_config |-> config, vault |-> v, lp_mint |-> lp_mint_address(p),
                       observation_key |-> observation_address(p) ]
  <1>1. /\ p \in PoolAddresses /\ p \notin DOMAIN pool_states
        /\ config_of(p) = config
        /\ v = [t \in Tokens |-> vault_of(p, t)]
    BY NewAddresses
  <1>2. /\ pool_states' = With(pool_states, p, new) /\ amm_configs' = amm_configs
        /\ fees' = With(fees, p, none)
        /\ balance' = With(With(balance, v[0], 2), v[1], 2)
        /\ lp_mint_supply' = With(lp_mint_supply, p, 1)
        /\ observations' = With(observations, p, NoPool)
        /\ last'.pool = p
    BY DEF Initialize, lp_mint_address, observation_address, Signed
  <1>3. /\ new.amm_config = config_of(p) /\ new.vault = [t \in Tokens |-> vault_of(p, t)]
        /\ new.lp_mint = p /\ new.observation_key = p
    BY <1>1 DEF lp_mint_address, observation_address
  <1>4. v[0] = vault_of(p, 0) /\ v[1] = vault_of(p, 1)
    BY <1>1 DEF Tokens
  <1>5. none \in [FeeKinds -> [Tokens -> Nat]]
        /\ \A kind \in FeeKinds, t \in Tokens : none[kind][t] = 0
    OBVIOUS
  <1> HIDE DEF p, v, none, new
  <1>6. /\ balance \in [VaultsInUse -> Int] /\ DOMAIN observations = DOMAIN pool_states
        /\ lp_mint_supply \in [DOMAIN pool_states -> Int]
        /\ fees \in [DOMAIN pool_states -> [FeeKinds -> [Tokens -> Nat]]]
    BY DEF AInv, AccountsTyped
  <1>7. /\ DOMAIN pool_states' = DOMAIN pool_states \cup {p}
        /\ pool_states'[p] = new
        /\ \A q \in DOMAIN pool_states : q # p /\ pool_states'[q] = pool_states[q]
    BY <1>1, <1>2 DEF With
  <1>8. ConfigsTyped' /\ PoolsDerived'
    <2>1. ConfigsTyped'
      BY <1>2 DEF AInv, ConfigsTyped
    <2>2. Derived(p)'
      BY <1>3, <1>7 DEF Derived, config_of, vault_of, mint_of
    <2>3. \A q \in DOMAIN pool_states : Derived(q)'
      BY <1>7 DEF AInv, PoolsDerived, Derived
    <2> QED
      BY <1>1, <1>2, <1>7, <2>1, <2>2, <2>3 DEF AInv, PoolsDerived
  <1>9. VaultsInUse' = VaultsInUse \cup {v[0], v[1]}
    BY <1>4, <1>7 DEF VaultsInUse, Tokens, vault_of, mint_of
  <1>10. /\ balance' \in [VaultsInUse' -> Int]
         /\ \A w \in VaultsInUse : w # v[0] /\ w # v[1] => balance'[w] = balance[w]
    <2> DEFINE once == With(balance, v[0], 2)
    <2>1. once \in [VaultsInUse \cup {v[0]} -> Int]
          /\ \A w \in VaultsInUse : w # v[0] => once[w] = balance[w]
      BY <1>6 DEF With
    <2> HIDE DEF once
    <2>2. balance' = With(once, v[1], 2)
      BY <1>2 DEF once
    <2> QED
      BY <1>9, <2>1, <2>2 DEF With
  <1>11. /\ fees' \in [DOMAIN pool_states' -> [FeeKinds -> [Tokens -> Nat]]]
         /\ fees'[p] = none
         /\ \A q \in DOMAIN pool_states : fees'[q] = fees[q]
    BY <1>2, <1>5, <1>6, <1>7 DEF With
  <1>12. /\ lp_mint_supply' \in [DOMAIN pool_states' -> Int]
         /\ DOMAIN observations' = DOMAIN pool_states'
         /\ \A q \in DOMAIN pool_states :
              lp_mint_supply'[q] = lp_mint_supply[q] /\ observations'[q] = observations[q]
    BY <1>2, <1>6, <1>7 DEF With
  <1>13. AccountsTyped'
    BY <1>10, <1>11, <1>12 DEF AccountsTyped
  <1>14. ChargedByOwn
    BY <1>6, <1>11 DEF ChargedByOwn
  <1>15. ASSUME NEW q \in DOMAIN pool_states
         PROVE  LeftAlone(q)
    <2>1. Derived(q) /\ q # p
      BY <1>7 DEF AInv, PoolsDerived
    <2>2. \A t \in Tokens : balance'[vault_of(q, t)] = balance[vault_of(q, t)]
                            /\ balance[vault_of(q, t)] \in Int
      <3>1. \A t \in Tokens : /\ vault_of(q, t) \in VaultsInUse
                              /\ vault_of(q, t) # v[0] /\ vault_of(q, t) # v[1]
        BY <1>4, <2>1, AddressFacts
      <3> QED
        BY <1>6, <1>10, <3>1
    <2> QED
      BY <1>7, <1>11, <1>12, <2>1, <2>2 DEF LeftAlone, Derived
  <1>16. CollectedByOwner
    BY <1>6, <1>11 DEF CollectedByOwner
  <1> QED
    BY <1>8, <1>13, <1>14, <1>15, <1>16 DEF StepGood, AInv, OthersLeftAlone

\* A step that leaves the pools alone and deletes no configuration.
LEMMA PoolsStay ==
  ASSUME AInv, ConfigsTyped', UNCHANGED <<pool_states, fees, balance, lp_mint_supply, observations>>,
         DOMAIN amm_configs \subseteq DOMAIN amm_configs'
  PROVE  StepGood
  <1>1. VaultsInUse' = VaultsInUse
    BY DEF VaultsInUse, vault_of, mint_of
  <1>2. PoolsDerived' /\ AccountsTyped'
    BY <1>1 DEF AInv, PoolsDerived, AccountsTyped, Derived
  <1>3. ChargedByOwn
    BY DEF AInv, AccountsTyped, ChargedByOwn
  <1>4. ASSUME NEW q \in DOMAIN pool_states
        PROVE  LeftAlone(q)
    <2>1. \A t \in Tokens : balance[pool_states[q].vault[t]] \in Int
      <3>1. Derived(q) /\ \A t \in Tokens : vault_of(q, t) \in VaultsInUse
        BY AddressFacts
      <3>2. \A t \in Tokens : pool_states[q].vault[t] = vault_of(q, t)
        BY <3>1 DEF Derived
      <3>3. balance \in [VaultsInUse -> Int]
        BY DEF AInv, AccountsTyped
      <3> QED
        BY <3>1, <3>2, <3>3
    <2> QED
      BY <2>1 DEF LeftAlone
  <1>5. CollectedByOwner
    BY DEF AInv, AccountsTyped, CollectedByOwner
  <1> QED
    BY <1>2, <1>3, <1>4, <1>5 DEF StepGood, AInv, OthersLeftAlone

LEMMA ConfigureGood ==
  ASSUME AInv, Configure
  PROVE  StepGood
  <1>1. ASSUME NEW signer \in Keys, NEW request \in CreateRequests,
               CreateAmmConfig(signer, request.index, request.rates)
        PROVE  StepGood
    <2> DEFINE config  == amm_config_address(request.index)
               created == [rates |-> request.rates, owner |-> [kind \in FeeKinds |-> signer]]
    <2>1. /\ amm_configs' = With(amm_configs, config, created)
          /\ config \notin DOMAIN amm_configs
          /\ UNCHANGED <<pool_states, fees, balance, lp_mint_supply, observations>>
      BY <1>1 DEF CreateAmmConfig
    <2>2. /\ config \in { <<index>> : index \in Nat }
          /\ created \in Configs
      BY AccountsAssumption DEF Configs, amm_config_address
    <2> HIDE DEF config, created
    <2>3. ConfigsTyped'
      BY <2>1, <2>2 DEF AInv, ConfigsTyped, With
    <2>4. DOMAIN amm_configs \subseteq DOMAIN amm_configs'
      BY <2>1 DEF With
    <2> QED
      BY <2>1, <2>3, <2>4, PoolsStay
  <1>2. ASSUME NEW signer \in Keys, NEW config \in DOMAIN amm_configs,
               UpdateAmmConfig(signer, config)
        PROVE  StepGood
    <2>1. amm_configs[config] \in Configs
      BY DEF AInv, ConfigsTyped
    <2>2. PICK new \in Configs : amm_configs' = [amm_configs EXCEPT ![config] = new]
      <3>1. CASE \E r \in RateRequests : update_rate(config, r.rate, r.value)
        <4>1. PICK r \in RateRequests : update_rate(config, r.rate, r.value)
          BY <3>1
        <4>2. r.rate \in RateKinds /\ r.value \in BOOLEAN
          BY AccountsAssumption
        <4>3. [amm_configs[config] EXCEPT !.rates[r.rate] = r.value] \in Configs
          BY <2>1, <4>2 DEF Configs, Rates
        <4>4. amm_configs' = [amm_configs EXCEPT ![config] =
                                [amm_configs[config] EXCEPT !.rates[r.rate] = r.value]]
          BY <4>1 DEF update_rate
        <4> QED
          BY <4>3, <4>4
      <3>2. CASE \E r \in OwnerRequests : set_new_owner(config, r.kind, r.new_owner)
        <4>1. PICK r \in OwnerRequests : set_new_owner(config, r.kind, r.new_owner)
          BY <3>2
        <4>2. r.kind \in FeeKinds /\ r.new_owner \in Keys
          BY AccountsAssumption
        <4>3. [amm_configs[config] EXCEPT !.owner[r.kind] = r.new_owner] \in Configs
          BY <2>1, <4>2 DEF Configs
        <4>4. amm_configs' = [amm_configs EXCEPT ![config] =
                                [amm_configs[config] EXCEPT !.owner[r.kind] = r.new_owner]]
          BY <4>1 DEF set_new_owner
        <4> QED
          BY <4>3, <4>4
      <3> QED
        BY <1>2, <3>1, <3>2 DEF UpdateAmmConfig
    <2>3. ConfigsTyped' /\ DOMAIN amm_configs' = DOMAIN amm_configs
      BY <2>2 DEF AInv, ConfigsTyped
    <2>4. UNCHANGED <<pool_states, fees, balance, lp_mint_supply, observations>>
      BY <1>2 DEF UpdateAmmConfig
    <2> QED
      BY <2>3, <2>4, PoolsStay
  <1> QED
    BY <1>1, <1>2 DEF Configure

-----------------------------------------------------------------------------
(* Theorems *)

LEMMA AccountInit ==
  ASSUME Init
  PROVE  AInv
  <1>1. DOMAIN amm_configs = {} /\ DOMAIN pool_states = {} /\ DOMAIN fees = {}
        /\ DOMAIN balance = {} /\ DOMAIN lp_mint_supply = {} /\ DOMAIN observations = {}
    BY DEF Init
  <1>2. VaultsInUse = {}
    BY <1>1 DEF VaultsInUse
  <1>3. ConfigsTyped /\ PoolsDerived
    BY <1>1 DEF ConfigsTyped, PoolsDerived
  <1>4. AccountsTyped
    BY <1>1, <1>2 DEF AccountsTyped, Init
  <1> QED
    BY <1>3, <1>4 DEF AInv

LEMMA AccountStep ==
  ASSUME AInv, Next
  PROVE  StepGood
  <1>1. CASE Configure
    BY <1>1, ConfigureGood
  <1>2. CASE \E config \in DOMAIN amm_configs, mint \in [Tokens -> Mints] :
               Initialize(config, mint)
    BY <1>2, InitializeGood
  <1>3. CASE Trade
    <2>1. PICK p \in DOMAIN pool_states : \E v \in Accepted(p) :
            \/ \E lp_mint \in DOMAIN lp_mint_supply : Deposit(p, v, lp_mint)
            \/ \E lp_mint \in DOMAIN lp_mint_supply, to \in Payees(v) :
                 Withdraw(p, v, lp_mint, to)
            \/ \E config \in DOMAIN amm_configs, input \in Tokens,
                  observation \in DOMAIN observations :
                 \E to \in recipients(v[1 - input]) :
                   Swap(p, config, v, input, observation, to)
      BY <1>3 DEF Trade
    <2> QED
      BY <2>1, DepositGood, WithdrawGood, SwapGood
  <1>4. CASE Collect
    BY <1>4, CollectFeeGood DEF Collect
  <1> QED
    BY <1>1, <1>2, <1>3, <1>4 DEF Next

\* Every pool's state holds the addresses derived from the pool's own, and the
\* rest is of its type.
THEOREM AccountsInvariance == Spec => []AInv
  <1>1. AInv /\ [Next]_accountVars => AInv'
    <2>1. ASSUME AInv, UNCHANGED accountVars
          PROVE  AInv'
      <3>1. StepGood
        BY <2>1, PoolsStay DEF accountVars, AInv, ConfigsTyped
      <3> QED
        BY <3>1 DEF StepGood
    <2> QED
      BY <2>1, AccountStep DEF StepGood
  <1> QED
    BY <1>1, AccountInit, PTL DEF Spec

\* The addresses of two pools of a pair under a configuration are the same seeds.
LEMMA SamePair ==
  ASSUME AInv
  PROVE  OnePoolPerPair
  <1> SUFFICES ASSUME NEW p \in DOMAIN pool_states, NEW q \in DOMAIN pool_states,
                      pool_states[p].amm_config = pool_states[q].amm_config,
                      { vault_mint(pool_states[p].vault[t]) : t \in Tokens }
                        = { vault_mint(pool_states[q].vault[t]) : t \in Tokens }
               PROVE  p = q
    BY DEF OnePoolPerPair
  <1>1. /\ p = <<p[1], p[2], p[3]>> /\ p[2] \in Nat /\ p[3] \in Nat /\ p[2] < p[3]
        /\ q = <<q[1], q[2], q[3]>> /\ q[2] \in Nat /\ q[3] \in Nat /\ q[2] < q[3]
        /\ Derived(p) /\ Derived(q)
    BY AddressFacts
  <1>2. p[1] = q[1]
    <2>1. config_of(p) = config_of(q)
      BY <1>1 DEF Derived
    <2> QED
      BY <2>1 DEF config_of
  <1>3. ASSUME NEW r \in DOMAIN pool_states, Derived(r)
        PROVE  { vault_mint(pool_states[r].vault[t]) : t \in Tokens } = {r[2], r[3]}
    BY <1>3 DEF Derived, vault_of, vault_mint, mint_of, Tokens
  <1>4. {p[2], p[3]} = {q[2], q[3]}
    BY <1>1, <1>3
  <1>5. p[2] = q[2] /\ p[3] = q[3]
    BY <1>1, <1>4
  <1> QED
    BY <1>1, <1>2, <1>5

\* A configuration has one pool of two mints, however the pools are created
\* (initialize.rs:54-73).
THEOREM PairHasOnePool == Spec => []OnePoolPerPair
  BY AccountsInvariance, SamePair, PTL

\* What a pool owes rises only by a fee that its own configuration charges at that
\* moment, after any updates of the rates (swap_base_input.rs:24-26,
\* update_config.rs:40-55).
THEOREM FeesFollowConfig == Spec => OwnConfigCharges
  <1>1. AInv /\ Next => ChargedByOwn
    BY AccountStep DEF StepGood
  <1>2. AInv /\ [Next]_accountVars
          => [\A p \in DOMAIN pool_states, kind \in FeeKinds, t \in Tokens :
                fees'[p][kind][t] > fees[p][kind][t]
                  => charges(pool_states[p].amm_config, kind)
             ]_accountVars
    BY <1>1 DEF ChargedByOwn
  <1> QED
    BY <1>2, AccountsInvariance, PTL DEF Spec, OwnConfigCharges

\* No instruction on one pool takes anything from another, whatever accounts it is
\* given (swap_base_input.rs:24-73, deposit.rs:50-90, withdraw.rs:52-89,
\* collect_protocol_fee.rs:27-61).
THEOREM PoolsAreApart == Spec => OthersUntouched
  <1>1. AInv /\ Next => OthersLeftAlone
    BY AccountStep DEF StepGood
  <1>2. AInv /\ [Next]_accountVars
          => [\A p \in DOMAIN pool_states \ {last'.pool} :
                LET own == pool_states[p] IN
                /\ pool_states'[p] = own
                /\ fees'[p] = fees[p]
                /\ \A t \in Tokens : balance'[own.vault[t]] >= balance[own.vault[t]]
                /\ lp_mint_supply'[own.lp_mint] = lp_mint_supply[own.lp_mint]
                /\ observations'[own.observation_key] = observations[own.observation_key]
             ]_accountVars
    BY <1>1 DEF OthersLeftAlone, LeftAlone
  <1> QED
    BY <1>2, AccountsInvariance, PTL DEF Spec, OthersUntouched

\* What a pool owes falls only by a collection of the owner that its own
\* configuration names, or of the admin (collect_protocol_fee.rs:12-32,
\* collect_fund_fee.rs:11-31).
THEOREM OnlyOwnersCollect == Spec => OwnersCollect
  <1>1. AInv /\ Next => CollectedByOwner
    BY AccountStep DEF StepGood
  <1>2. AInv /\ [Next]_accountVars
          => [\A p \in DOMAIN pool_states, kind \in FeeKinds, t \in Tokens :
                fees'[p][kind][t] < fees[p][kind][t]
                  => last'.signer \in
                       {admin, amm_configs[pool_states[p].amm_config].owner[kind]}
             ]_accountVars
    BY <1>1 DEF CollectedByOwner
  <1> QED
    BY <1>2, AccountsInvariance, PTL DEF Spec, OwnersCollect
=============================================================================
