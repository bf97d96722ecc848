----------------------------- MODULE AmmConfig -----------------------------
(***************************************************************************)
(* The fee configuration a pool points to: states/config.rs and             *)
(* instructions/admin/{create,update}_config.rs.  An instruction is atomic: *)
(* one that returns an error or panics leaves no trace and is not a step.   *)
(* The rates are read by every swap and only ever changed one at a time.    *)
(***************************************************************************)
EXTENDS Fees

CONSTANTS
  Keys,            \* public keys that may sign or be named as owners
  admin,           \* crate::admin::ID
  default_key,     \* Pubkey::default()
  CreateRequests,  \* the arguments create_amm_config is called with
  UpdateRequests,  \* the arguments update_amm_config is called with
  NoConfig         \* the account does not exist yet

AmmConfigs ==
  [ disable_create_pool : BOOLEAN,
    trade_fee_rate      : U64,
    protocol_fee_rate   : U64,
    fund_fee_rate       : U64,
    create_pool_fee     : U64,
    protocol_owner      : Keys,
    fund_owner          : Keys ]

ASSUME ConfigAssumption ==
  /\ admin \in Keys
  /\ default_key \notin Keys
  /\ NoConfig \notin AmmConfigs
  /\ CreateRequests \subseteq
       [ trade : U64, protocol : U64, fund : U64, pool_fee : U64 ]
  /\ UpdateRequests \subseteq
       [ param : 0 .. 255, value : U64, new_owner : Keys \cup {default_key} ]

VARIABLE amm_config

ConfigTypeOK == amm_config \in AmmConfigs \cup {NoConfig}

ConfigInit == amm_config = NoConfig

-----------------------------------------------------------------------------
\* The sum is a checked u64 addition before it is compared.
shares_fit(one_rate, other_rate) ==
  /\ one_rate <= FEE_RATE_DENOMINATOR_VALUE
  /\ one_rate + other_rate <= FEE_RATE_DENOMINATOR_VALUE

CreateAmmConfig(owner, trade, protocol, fund, pool_fee) ==
  /\ owner = admin
  /\ amm_config = NoConfig
  /\ trade < FEE_RATE_DENOMINATOR_VALUE
  /\ shares_fit(protocol, fund)
  /\ fund <= FEE_RATE_DENOMINATOR_VALUE
  /\ amm_config' = [ disable_create_pool |-> FALSE,
                     trade_fee_rate      |-> trade,
                     protocol_fee_rate   |-> protocol,
                     fund_fee_rate       |-> fund,
                     create_pool_fee     |-> pool_fee,
                     protocol_owner      |-> owner,
                     fund_owner          |-> owner ]

update_trade_fee_rate(value) ==
  /\ value < FEE_RATE_DENOMINATOR_VALUE
  /\ amm_config' = [amm_config EXCEPT !.trade_fee_rate = value]

update_protocol_fee_rate(value) ==
  /\ shares_fit(value, amm_config.fund_fee_rate)
  /\ amm_config' = [amm_config EXCEPT !.protocol_fee_rate = value]

\* Mutant: checks the new rate alone, not its sum with the protocol's.
update_fund_fee_rate_alone(value) ==
  /\ value <= FEE_RATE_DENOMINATOR_VALUE
  /\ amm_config' = [amm_config EXCEPT !.fund_fee_rate = value]

update_fund_fee_rate(value) ==
  /\ shares_fit(value, amm_config.protocol_fee_rate)
  /\ amm_config' = [amm_config EXCEPT !.fund_fee_rate = value]

\* Mutant: forgets to refuse the default key.
set_new_protocol_owner_unchecked(new_owner) ==
  amm_config' = [amm_config EXCEPT !.protocol_owner = new_owner]

set_new_protocol_owner(new_owner) ==
  /\ new_owner # default_key
  /\ amm_config' = [amm_config EXCEPT !.protocol_owner = new_owner]

set_new_fund_owner(new_fund_owner) ==
  /\ new_fund_owner # default_key
  /\ amm_config' = [amm_config EXCEPT !.fund_owner = new_fund_owner]

\* new_owner is the first of the remaining accounts, a key of the caller's choice.
UpdateAmmConfig(owner, param, value, new_owner) ==
  /\ owner = admin
  /\ amm_config # NoConfig
  /\ \/ param = 0 /\ update_trade_fee_rate(value)
     \/ param = 1 /\ update_protocol_fee_rate(value)
     \/ param = 2 /\ update_fund_fee_rate(value)
     \/ param = 3 /\ set_new_protocol_owner(new_owner)
     \/ param = 4 /\ set_new_fund_owner(new_owner)
     \/ param = 5 /\ amm_config' = [amm_config EXCEPT !.create_pool_fee = value]
     \/ param = 6 /\ amm_config' = [amm_config EXCEPT
                                      !.disable_create_pool = (value # 0)]

ConfigNext ==
  \E owner \in Keys :
    \/ \E r \in CreateRequests :
         CreateAmmConfig(owner, r.trade, r.protocol, r.fund, r.pool_fee)
    \/ \E r \in UpdateRequests :
         UpdateAmmConfig(owner, r.param, r.value, r.new_owner)

ConfigSpec == ConfigInit /\ [][ConfigNext]_amm_config

-----------------------------------------------------------------------------
\* However the rates are updated one after the other, a swap never owes the
\* protocol and the fund together more than the trade fee it charges, and never
\* charges the whole input (asserts of update_config.rs:40-55, lib.rs:94-97).
RatesValid ==
  amm_config # NoConfig =>
    /\ amm_config.trade_fee_rate < FEE_RATE_DENOMINATOR_VALUE
    /\ amm_config.protocol_fee_rate + amm_config.fund_fee_rate
         <= FEE_RATE_DENOMINATOR_VALUE

\* lib.rs:119 says of `param` "The value can be 0 | 1 | 2 | 3 | 4, otherwise will
\* report a error": what those five values do not name would never change.
ParamsUpToFour ==
  [][amm_config # NoConfig =>
       /\ amm_config'.create_pool_fee = amm_config.create_pool_fee
       /\ amm_config'.disable_create_pool = amm_config.disable_create_pool]_amm_config

\* update_config.rs:8 says of the signer "The amm config owner or admin": the
\* protocol owner named in the config could update it.
ConfigOwnerMayUpdate ==
  amm_config # NoConfig =>
    ENABLED \E r \in UpdateRequests :
              UpdateAmmConfig(amm_config.protocol_owner, r.param, r.value, r.new_owner)
=============================================================================
