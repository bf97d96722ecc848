---------------------------- MODULE MCAmmConfig ----------------------------
EXTENDS AmmConfig

CONSTANTS k1, k2

MCKeys == {admin, k1, k2}

MCCreate == [ trade : U64, protocol : U64, fund : U64, pool_fee : {0, 1} ]

MCUpdate == [ param : 0 .. 7, value : U64, new_owner : {k1, k2, default_key} ]
=============================================================================
