----------------------------- MODULE TokenUtil -----------------------------
(***************************************************************************)
(* utils/token.rs: which mints a pool may hold and what a transfer costs.   *)
(* A mint belongs to a token program, is on the whitelist or not, and has a *)
(* set of Token-2022 extensions; one of them is a transfer fee.             *)
(* calculate_fee and its inverse belong to the spl-token-2022 library and   *)
(* are modelled as get_transfer_fee and get_transfer_inverse_fee call them. *)
(***************************************************************************)
EXTENDS Widths

CONSTANT MAX_FEE_BASIS_POINTS      \* 10000 in spl-token-2022

ASSUME BasisPointsAssumption == MAX_FEE_BASIS_POINTS \in Nat \ {0}

TokenPrograms  == {"Token", "LightToken", "Token2022"}
ExtensionTypes == {"TokenMetadata", "TransferFeeConfig", "Other"}

MintInfos ==
  [ program      : TokenPrograms,
    whitelisted  : BOOLEAN,
    extensions   : SUBSET ExtensionTypes,
    basis_points : 0 .. MAX_FEE_BASIS_POINTS,
    maximum_fee  : U64 ]

\* Only Token-2022 mints with the extension have a transfer fee at all.
charges_transfer_fee(mint) ==
  /\ mint.program = "Token2022"
  /\ "TransferFeeConfig" \in mint.extensions

is_supported_mint(mint) ==
  \/ mint.program \in {"Token", "LightToken"}
  \/ mint.whitelisted
  \/ mint.extensions \subseteq {"TokenMetadata"}

-----------------------------------------------------------------------------
(* spl-token-2022, extension/transfer_fee *)

smaller(a, b) == IF a <= b THEN a ELSE b

calculate_fee(mint, pre_fee_amount) ==
  smaller((pre_fee_amount * mint.basis_points + MAX_FEE_BASIS_POINTS - 1)
            \div MAX_FEE_BASIS_POINTS,
          mint.maximum_fee)

\* The amount to send so that post_fee_amount arrives, for rates below 100%.
calculate_gross_amount(mint, post_fee_amount) ==
  LET denominator == MAX_FEE_BASIS_POINTS - mint.basis_points
      gross == (post_fee_amount * MAX_FEE_BASIS_POINTS + denominator - 1)
                 \div denominator
  IN  smaller(gross, post_fee_amount + mint.maximum_fee)

calculate_inverse_fee(mint, post_fee_amount) ==
  calculate_fee(mint, calculate_gross_amount(mint, post_fee_amount))

-----------------------------------------------------------------------------
\* Mutant: charges the cap whatever the amount.
get_transfer_fee_capped(mint, pre_fee_amount) ==
  IF charges_transfer_fee(mint) THEN mint.maximum_fee ELSE 0

get_transfer_fee(mint, pre_fee_amount) ==
  IF charges_transfer_fee(mint) THEN calculate_fee(mint, pre_fee_amount) ELSE 0

\* Mutant: the plain fee of the wanted amount.
get_transfer_inverse_fee_plain(mint, post_fee_amount) ==
  get_transfer_fee(mint, post_fee_amount)

\* The fee to add to post_fee_amount so that post_fee_amount arrives.
get_transfer_inverse_fee(mint, post_fee_amount) ==
  IF ~charges_transfer_fee(mint) THEN 0
  ELSE IF mint.basis_points = MAX_FEE_BASIS_POINTS THEN mint.maximum_fee
  ELSE calculate_inverse_fee(mint, post_fee_amount)

\* When get_transfer_inverse_fee returns: the amount is not zero (a mint outside
\* Token-2022 is not asked), nothing overflows, and the fee it found is the fee
\* the token program will take (TransferFeeCalculateNotMatch otherwise).
transfer_inverse_fee_defined(mint, post_fee_amount) ==
  LET fee == get_transfer_inverse_fee(mint, post_fee_amount) IN
  /\ mint.program = "Token2022" => post_fee_amount # 0
  /\ (charges_transfer_fee(mint) /\ mint.basis_points # MAX_FEE_BASIS_POINTS)
       => /\ calculate_gross_amount(mint, post_fee_amount) \in U64
          /\ post_fee_amount + fee \in U64
          /\ fee = calculate_fee(mint, post_fee_amount + fee)

\* What a transfer of amount credits to the receiver.
received(mint, amount) == amount - get_transfer_fee(mint, amount)
=============================================================================
