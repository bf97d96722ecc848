------------------------------- MODULE Widths -------------------------------
(***************************************************************************)
(* The machine integers of the program.  Token amounts, fee counters, rates *)
(* and timestamps are u64, the intermediate results of the curve are u128.  *)
(* A checked operation that leaves its width fails, a failed instruction    *)
(* reverts the whole transaction, and so in the models such an operation is *)
(* a guard "the result is in U64".  U64_MAX is a constant so that TLC can   *)
(* use a small machine on which the limits are reached; the theorems hold   *)
(* for every width.                                                         *)
(***************************************************************************)
EXTENDS Integers

CONSTANT U64_MAX

ASSUME WidthAssumption == U64_MAX \in Nat \ {0}

U64 == 0 .. U64_MAX

\* The two tokens of a pool, the subscripts _0 and _1 of the source's fields.
Tokens == {0, 1}
=============================================================================
