---------------------------- MODULE MCPoolOracle ----------------------------
EXTENDS PoolOracle

MCKeys == {admin}

PlainMint ==
  [ program |-> "LightToken", whitelisted |-> FALSE, extensions |-> {},
    basis_points |-> 0, maximum_fee |-> 0 ]

MCMints   == {PlainMint}
MCCreate  == {[trade |-> 1, protocol |-> 0, fund |-> 0, pool_fee |-> 0]}
MCUpdate  == {}
MCAmounts == {2}
MCLimits  == {0, U64_MAX}
MCOpen    == {0}
MCAsked   == {0}
MCStatus  == {}
MCGifts   == {1}
=============================================================================
