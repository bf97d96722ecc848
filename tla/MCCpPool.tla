------------------------------ MODULE MCCpPool ------------------------------
(* Small instances of CpPool for TLC; the README says what each is for. *)
EXTENDS CpPool

CONSTANT collector

MCKeys == {admin, collector}

Rates(trade, protocol, fund) ==
  [trade |-> trade, protocol |-> protocol, fund |-> fund, pool_fee |-> 1]

Change(param, value) == [param |-> param, value |-> value, new_owner |-> collector]

PlainMint ==
  [ program |-> "Token", whitelisted |-> FALSE, extensions |-> {},
    basis_points |-> 0, maximum_fee |-> 0 ]

FeeMint(basis_points, maximum_fee) ==
  [ program |-> "Token2022", whitelisted |-> TRUE,
    extensions |-> {"TransferFeeConfig"},
    basis_points |-> basis_points, maximum_fee |-> maximum_fee ]

UnsupportedMint ==
  [ program |-> "Token2022", whitelisted |-> FALSE, extensions |-> {"Other"},
    basis_points |-> 0, maximum_fee |-> 0 ]

PlainMints == {PlainMint}
NoRequests == {}
NoStatuses == {}
NoLimits   == {0, U64_MAX}
AtOnce     == {0}
OneUnit    == {1}
NoAmounts  == {}
AllUnits   == 1 .. U64_MAX
OneOrAll   == {1, U64_MAX}

\* Reserves: every amount, one configuration that shares out the whole trade fee.
ReservesCreate == {Rates(1, 2, 2)}

\* Governed: the admin changes everything that can be changed, and so do the mints.
GovernedCreate  == {Rates(1, 3, 1)}
GovernedUpdate  == { Change(0, 3), Change(1, 0), Change(2, 4),
                     Change(4, 0), Change(6, 1) }
GovernedStatus  == { {}, {"Deposit"}, {"Swap"} }
GovernedAmounts == {2, 3}
GovernedMints   == { FeeMint(0, 0), FeeMint(2, 1) }
SoonOrAtOnce    == {0, 1}

\* TransferFees: the fee of a mint is on, capped, total or off, and changes.
FeesCreate == {Rates(1, 1, 2)}
FeesMints  == { PlainMint, UnsupportedMint, FeeMint(1, U64_MAX), FeeMint(2, 1), FeeMint(4, 2) }
=============================================================================
