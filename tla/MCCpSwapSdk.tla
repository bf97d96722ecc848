---------------------------- MODULE MCCpSwapSdk ----------------------------
EXTENDS CpSwapSdk

CONSTANTS c1, c2

MCClients == {c1, c2}

\* All of the pool at once, as when it is idle for long, or one account of a kind.
MCBatches ==
  { PoolAccounts, {"pool_state"}, {"token_0_vault"}, {"lp_mint"}, {"token_1_mint"} }
=============================================================================
