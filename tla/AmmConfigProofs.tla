-------------------------- MODULE AmmConfigProofs --------------------------
(***************************************************************************)
(* Theorems about AmmConfig.  ConfigTypeOK and RatesValid are inductive     *)
(* together: the update of one rate reads the other from the account.       *)
(***************************************************************************)
EXTENDS AmmConfig, TLAPS

\* The first step of a configuration keeps its rates valid (create_config.rs:32-51).
LEMMA CreateAmmConfigKept ==
  ASSUME NEW owner \in Keys, NEW r \in CreateRequests,
         CreateAmmConfig(owner, r.trade, r.protocol, r.fund, r.pool_fee)
  PROVE  amm_config' \in AmmConfigs /\ RatesValid'
  <1>1. r.trade \in U64 /\ r.protocol \in U64 /\ r.fund \in U64 /\ r.pool_fee \in U64
    BY ConfigAssumption
  <1>2. /\ amm_config'.trade_fee_rate < FEE_RATE_DENOMINATOR_VALUE
        /\ amm_config'.protocol_fee_rate + amm_config'.fund_fee_rate
             <= FEE_RATE_DENOMINATOR_VALUE
    BY DEF CreateAmmConfig, shares_fit
  <1>3. amm_config' \in AmmConfigs
    BY <1>1 DEF CreateAmmConfig, AmmConfigs
  <1> QED
    BY <1>2, <1>3 DEF RatesValid

\* An update of one rate keeps it valid together with those it leaves alone, and
\* no update removes the account (update_config.rs:17-79).
LEMMA UpdateAmmConfigKept ==
  ASSUME ConfigTypeOK, RatesValid, NEW owner \in Keys, NEW r \in UpdateRequests,
         UpdateAmmConfig(owner, r.param, r.value, r.new_owner)
  PROVE  amm_config' \in AmmConfigs /\ RatesValid'
  <1>1. r.value \in U64 /\ r.new_owner \in Keys \cup {default_key}
    BY ConfigAssumption
  <1>2. amm_config \in AmmConfigs
    BY DEF UpdateAmmConfig, ConfigTypeOK
  <1>3. /\ amm_config.trade_fee_rate < FEE_RATE_DENOMINATOR_VALUE
        /\ amm_config.protocol_fee_rate + amm_config.fund_fee_rate
             <= FEE_RATE_DENOMINATOR_VALUE
    BY DEF UpdateAmmConfig, RatesValid
  <1>4. amm_config.protocol_fee_rate \in Int /\ amm_config.fund_fee_rate \in Int
    BY <1>2, WidthAssumption DEF AmmConfigs, U64
  <1>5. CASE update_trade_fee_rate(r.value)
    BY <1>1, <1>2, <1>3, <1>5 DEF update_trade_fee_rate, AmmConfigs, RatesValid
  <1>6. CASE update_protocol_fee_rate(r.value)
    <2>1. amm_config' \in AmmConfigs
      BY <1>1, <1>2, <1>6 DEF update_protocol_fee_rate, AmmConfigs
    <2>2. /\ amm_config'.trade_fee_rate = amm_config.trade_fee_rate
          /\ amm_config'.protocol_fee_rate = r.value
          /\ amm_config'.fund_fee_rate = amm_config.fund_fee_rate
          /\ r.value + amm_config.fund_fee_rate <= FEE_RATE_DENOMINATOR_VALUE
      BY <1>2, <1>6 DEF update_protocol_fee_rate, AmmConfigs, shares_fit
    <2> QED
      BY <1>3, <2>1, <2>2 DEF RatesValid
  <1>7. CASE update_fund_fee_rate(r.value)
    <2>1. amm_config' \in AmmConfigs
      BY <1>1, <1>2, <1>7 DEF update_fund_fee_rate, AmmConfigs
    <2>2. /\ amm_config'.trade_fee_rate = amm_config.trade_fee_rate
          /\ amm_config'.protocol_fee_rate = amm_config.protocol_fee_rate
          /\ amm_config'.fund_fee_rate = r.value
          /\ r.value + amm_config.protocol_fee_rate <= FEE_RATE_DENOMINATOR_VALUE
      BY <1>2, <1>7 DEF update_fund_fee_rate, AmmConfigs, shares_fit
    <2>3. r.value \in Int
      BY <1>1, WidthAssumption DEF U64
    <2>4. amm_config.protocol_fee_rate + r.value <= FEE_RATE_DENOMINATOR_VALUE
      BY <1>4, <2>2, <2>3
    <2> QED
      BY <1>3, <2>1, <2>2, <2>4 DEF RatesValid
  <1>8. CASE set_new_protocol_owner(r.new_owner) \/ set_new_fund_owner(r.new_owner)
    BY <1>1, <1>2, <1>3, <1>8
    DEF set_new_protocol_owner, set_new_fund_owner, AmmConfigs, RatesValid
  <1>9. CASE \/ amm_config' = [amm_config EXCEPT !.create_pool_fee = r.value]
             \/ amm_config' = [amm_config EXCEPT !.disable_create_pool = (r.value # 0)]
    BY <1>1, <1>2, <1>3, <1>9 DEF AmmConfigs, RatesValid
  <1> QED
    BY <1>5, <1>6, <1>7, <1>8, <1>9 DEF UpdateAmmConfig

\* The two invariants of the configuration are kept together, and an account
\* that exists stays.
LEMMA ConfigKept ==
  ASSUME ConfigTypeOK, RatesValid, [ConfigNext]_amm_config
  PROVE  /\ ConfigTypeOK' /\ RatesValid'
         /\ amm_config # NoConfig => amm_config' # NoConfig
  <1>1. CASE ConfigNext
    <2>1. amm_config' \in AmmConfigs /\ RatesValid'
      <3>1. PICK owner \in Keys :
              \/ \E r \in CreateRequests :
                   CreateAmmConfig(owner, r.trade, r.protocol, r.fund, r.pool_fee)
              \/ \E r \in UpdateRequests :
                   UpdateAmmConfig(owner, r.param, r.value, r.new_owner)
        BY <1>1 DEF ConfigNext
      <3>2. CASE \E r \in CreateRequests :
                   CreateAmmConfig(owner, r.trade, r.protocol, r.fund, r.pool_fee)
        BY <3>2, CreateAmmConfigKept
      <3>3. CASE \E r \in UpdateRequests :
                   UpdateAmmConfig(owner, r.param, r.value, r.new_owner)
        BY <3>3, UpdateAmmConfigKept
      <3> QED
        BY <3>1, <3>2, <3>3
    <2> QED
      BY <2>1, ConfigAssumption DEF ConfigTypeOK
  <1>2. CASE UNCHANGED amm_config
    BY <1>2 DEF ConfigTypeOK, RatesValid
  <1> QED
    BY <1>1, <1>2

-----------------------------------------------------------------------------
\* The configuration account always holds a configuration, with owners that are
\* real keys (update_config.rs:57-79 refuses the default key).
THEOREM ConfigTypeCorrect == ConfigSpec => []ConfigTypeOK
  <1>1. ConfigInit => ConfigTypeOK /\ RatesValid
    BY DEF ConfigInit, ConfigTypeOK, RatesValid
  <1>2. ConfigTypeOK /\ RatesValid /\ [ConfigNext]_amm_config
          => (ConfigTypeOK /\ RatesValid)'
    BY ConfigKept
  <1> QED
    BY <1>1, <1>2, PTL DEF ConfigSpec

\* Whatever the order of the updates, the rates of the protocol and the fund
\* never exceed the trade fee together, and the trade fee is below the whole.
THEOREM RatesAlwaysValid == ConfigSpec => []RatesValid
  <1>1. ConfigInit => ConfigTypeOK /\ RatesValid
    BY DEF ConfigInit, ConfigTypeOK, RatesValid
  <1>2. ConfigTypeOK /\ RatesValid /\ [ConfigNext]_amm_config
          => (ConfigTypeOK /\ RatesValid)'
    BY ConfigKept
  <1> QED
    BY <1>1, <1>2, PTL DEF ConfigSpec
=============================================================================
