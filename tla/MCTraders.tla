----------------------------- MODULE MCTraders -----------------------------
(* Instances of Traders that also check the pool itself. *)
EXTENDS Traders, MCCpPool

\* TransferFees: every limit that can be told apart.
AllLimits == 0 .. U64_MAX
=============================================================================
