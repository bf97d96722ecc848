---------------------------- MODULE MCPureCalls ----------------------------
EXTENDS PureCalls

MCReserves == 1 .. U64_MAX

Rate(trade, protocol, fund) ==
  [trade_fee_rate |-> trade, protocol_fee_rate |-> protocol, fund_fee_rate |-> fund]

\* No fee, a whole trade fee shared out, the highest trade fee, odd shares.
MCRates == { Rate(0, 0, 0), Rate(1, 4, 3), Rate(3, 2, 2), Rate(4, 0, 7), Rate(6, 3, 3) }

Mint(program, extensions, basis_points, maximum_fee) ==
  [ program |-> program, whitelisted |-> TRUE, extensions |-> extensions,
    basis_points |-> basis_points, maximum_fee |-> maximum_fee ]

\* Every rate with every cap that the width can tell apart, and mints of the
\* three programs that charge nothing.
MCMints ==
  { Mint("Token2022", {"TransferFeeConfig"}, basis_points, maximum_fee) :
      basis_points \in 0 .. MAX_FEE_BASIS_POINTS, maximum_fee \in U64 }
  \cup { Mint(program, {}, 0, 0) : program \in TokenPrograms }
=============================================================================
