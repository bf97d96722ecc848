--------------------------- MODULE MCPoolAccounts ---------------------------
EXTENDS PoolAccounts

CONSTANT collector

MCKeys  == {admin, collector}
MCMints == 1 .. 2

\* One configuration charges both fees until its trade fee is set to zero, and the
\* other the fund's only; each gets an owner of one fee.
MCCreate == { [index |-> 0, rates |-> [rate \in RateKinds |-> TRUE]],
              [index |-> 1, rates |-> [rate \in RateKinds |-> rate # "protocol_fees"]] }
MCRates  == [index : {0}, rate : {"trade_fee"}, value : BOOLEAN]
MCOwners == { [index |-> 0, kind |-> "protocol_fees", new_owner |-> collector],
              [index |-> 1, kind |-> "fund_fees", new_owner |-> collector] }
=============================================================================
