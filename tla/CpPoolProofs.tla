---------------------------- MODULE CpPoolProofs ----------------------------
(***************************************************************************)
(* Theorems about CpPool for every value of its constants.  The inductive   *)
(* invariant joins the type invariant with what the instructions rely on:   *)
(* rates that share out at most the trade fee, reserves that are positive,  *)
(* locked LP tokens that are never redeemed, and shares backed by reserves. *)
(***************************************************************************)
EXTENDS CpPool, CurveLemmas, AmmConfigProofs

Configured == pool_created => amm_config # NoConfig

IInv ==
  /\ TypeOK
  /\ RatesValid
  /\ Configured
  /\ Solvent
  /\ LpBacked
  /\ ShareValue

\* No share loses worth in a step.
KeepsWorth ==
  Reserve(0) * Reserve(1) * (lp_supply' * lp_supply')
    <= Reserve(0)' * Reserve(1)' * (lp_supply * lp_supply)

\* What a step of a pool that exists must do.
PoolKept ==
  /\ pool_created'
  /\ \A t \in Tokens : Reserve(t)' > 0
  /\ lp_mint_supply' + lock_lp_amount <= lp_supply'
  /\ KeepsWorth

-----------------------------------------------------------------------------
(* Arithmetic of shares *)

\* If each share keeps its part of each reserve, it keeps its worth.
LEMMA WorthFromParts ==
  ASSUME NEW x \in Nat, NEW y \in Nat, NEW x1 \in Nat, NEW y1 \in Nat,
         NEW s \in Nat, NEW s1 \in Nat,
         x * s1 <= x1 * s, y * s1 <= y1 * s
  PROVE  x * y * (s1 * s1) <= x1 * y1 * (s * s)
  <1>1. x * s1 \in Nat /\ x1 * s \in Nat /\ y * s1 \in Nat /\ y1 * s \in Nat
    OBVIOUS
  <1>2. (x * s1) * (y * s1) <= (x1 * s) * (y1 * s)
    BY <1>1, ProductMonotone
  <1>3. (x * s1) * (y * s1) = x * y * (s1 * s1)
    OBVIOUS
  <1>4. (x1 * s) * (y1 * s) = x1 * y1 * (s * s)
    OBVIOUS
  <1> QED
    BY <1>2, <1>3, <1>4

\* If no share loses worth, the shares stay below the root of the reserves.
LEMMA RootKept ==
  ASSUME NEW x \in Nat, NEW y \in Nat, NEW x1 \in Nat, NEW y1 \in Nat,
         NEW s \in Nat \ {0}, NEW s1 \in Nat,
         s * s <= x * y,
         x * y * (s1 * s1) <= x1 * y1 * (s * s)
  PROVE  s1 * s1 <= x1 * y1
  <1> DEFINE p  == x * y
             p1 == x1 * y1
             q  == s * s
             q1 == s1 * s1
  <1>1. p \in Nat /\ p1 \in Nat /\ q \in Nat \ {0} /\ q1 \in Nat
    OBVIOUS
  <1>2. q <= p /\ p * q1 <= p1 * q
    OBVIOUS
  <1> HIDE DEF p, p1, q, q1
  <1>3. q * q1 <= p * q1
    BY <1>1, <1>2, ProductMonotone
  <1>4. q1 * q <= p1 * q
    BY <1>1, <1>2, <1>3
  <1>5. q1 <= p1
    BY <1>1, <1>4, CancelFactor
  <1> QED
    BY <1>5 DEF q1, p1

-----------------------------------------------------------------------------
(* The state of a pool that exists *)

\* The numbers of a pool that exists, and how the code reads its reserves.
LEMMA PoolFacts ==
  ASSUME IInv, pool_created
  PROVE  /\ lp_supply \in Nat \ {0} /\ lp_supply \in U64
         /\ lp_mint_supply \in Nat /\ lp_mint_supply < lp_supply
         /\ \A t \in Tokens :
              /\ vault[t] \in Nat /\ protocol_fees[t] \in Nat /\ fund_fees[t] \in Nat
              /\ Reserve(t) \in Nat \ {0}
              /\ vault_amount_without_fee(t) = Reserve(t)
  <1>1. lp_supply \in Nat /\ lp_supply \in U64 /\ lp_mint_supply \in Nat
    BY WidthAssumption DEF IInv, TypeOK, U64
  <1>2. lp_mint_supply < lp_supply
    BY <1>1, LockAssumption DEF IInv, LpBacked
  <1>3. ASSUME NEW t \in Tokens
        PROVE  vault[t] \in Nat /\ protocol_fees[t] \in Nat /\ fund_fees[t] \in Nat
    BY WidthAssumption DEF IInv, TypeOK, U64
  <1>4. ASSUME NEW t \in Tokens
        PROVE  /\ Reserve(t) \in Nat \ {0}
               /\ vault_amount_without_fee(t) = Reserve(t)
    <2>1. Reserve(t) > 0
      BY DEF IInv, Solvent
    <2> QED
      BY <1>3, <2>1 DEF Reserve, vault_amount_without_fee
  <1> QED
    BY <1>1, <1>2, <1>3, <1>4

\* A step that keeps the pool keeps the backing of its shares.
LEMMA ShareValueKept ==
  ASSUME IInv, pool_created, PoolKept, TypeOK'
  PROVE  ShareValue'
  <1>1. 0 \in Tokens /\ 1 \in Tokens
    BY DEF Tokens
  <1>2. Reserve(0) \in Nat /\ Reserve(1) \in Nat /\ lp_supply \in Nat \ {0}
    BY <1>1, PoolFacts
  <1>3. lp_supply' \in Nat
    BY WidthAssumption DEF TypeOK, U64
  <1>4. Reserve(0)' \in Nat /\ Reserve(1)' \in Nat
    <2>1. \A t \in Tokens : vault'[t] \in Int /\ protocol_fees'[t] \in Int
                            /\ fund_fees'[t] \in Int
      BY WidthAssumption DEF TypeOK, U64
    <2>2. Reserve(0)' \in Int /\ Reserve(1)' \in Int
      BY <1>1, <2>1 DEF Reserve
    <2>3. Reserve(0)' > 0 /\ Reserve(1)' > 0
      BY <1>1 DEF PoolKept
    <2> QED
      BY <2>2, <2>3
  <1>5. lp_supply * lp_supply <= Reserve(0) * Reserve(1)
    BY DEF IInv, ShareValue
  <1>6. Reserve(0) * Reserve(1) * (lp_supply' * lp_supply')
          <= Reserve(0)' * Reserve(1)' * (lp_supply * lp_supply)
    BY DEF PoolKept, KeepsWorth
  <1>7. lp_supply' * lp_supply' <= Reserve(0)' * Reserve(1)'
    BY <1>2, <1>3, <1>4, <1>5, <1>6, RootKept
  <1> QED
    BY <1>7 DEF ShareValue

\* The epoch of every clock is a natural.
LEMMA EpochType ==
  ASSUME TypeOK
  PROVE  epoch \in Nat
  <1>1. now \in Nat /\ EPOCH_LENGTH \in Nat \ {0}
    BY PoolAssumption DEF TypeOK
  <1> QED
    BY <1>1, QuotientBounds DEF epoch

-----------------------------------------------------------------------------
(* The instructions of the share holders *)

\* What arrives in the vault of t and belongs to the share holders.
Joined(t, arrived) ==
  /\ arrived \in Nat \ {0}
  /\ vault'[t] = vault[t] + arrived
  /\ Reserve(t)' = Reserve(t) + arrived

\* No share loses any part of what it owns of t.
KeepsPart(t) == Reserve(t) * lp_supply' <= Reserve(t)' * lp_supply

\* A deposit adds to each reserve exactly the worth of the shares, which is at
\* least their part of it, and costs no more than signed (deposit.rs:98-221).
LEMMA DepositKept ==
  ASSUME IInv, NEW lp_token_amount \in Nat, NEW limit,
         Deposit(lp_token_amount, limit)
  PROVE  /\ TypeOK' /\ PoolKept
         /\ \A t \in Tokens :
              /\ KeepsPart(t)
              /\ Joined(t, deposited(lp_token_amount)[t])
              /\ deposit_sent(lp_token_amount)[t] <= limit[t]
  <1> DEFINE worth(t) == lp_tokens_to_trading_tokens(lp_token_amount, lp_supply,
                           vault_amount_without_fee(t), "Ceiling")
             sent(t) == worth(t) + get_transfer_inverse_fee(mints[t], worth(t))
             credit(t) == received(mints[t], sent(t))
  <1>1. /\ pool_created /\ pool_created' = pool_created
        /\ lp_supply' = lp_supply + lp_token_amount
        /\ lp_mint_supply' = lp_mint_supply + lp_token_amount
        /\ lp_supply' \in U64 /\ lp_mint_supply' \in U64
        /\ vault' = [t \in Tokens |-> vault[t] + credit(t)]
        /\ protocol_fees' = protocol_fees /\ fund_fees' = fund_fees
        /\ lp_token_amount > 0
    BY DEF Deposit, deposited, deposit_sent, with_transfer_fee
  <1>2. \A t \in Tokens :
          /\ worth(t) # 0
          /\ transfer_inverse_fee_defined(mints[t], worth(t))
          /\ vault[t] + credit(t) \in U64
          /\ sent(t) <= limit[t]
          /\ deposited(lp_token_amount)[t] = worth(t)
          /\ deposit_sent(lp_token_amount)[t] = sent(t)
    BY DEF Deposit, deposited, deposit_sent, with_transfer_fee
  <1>3. TypeOK'
    <2>1. vault' \in [Tokens -> U64]
      BY <1>1, <1>2
    <2>2. recent_epoch' \in Nat
      <3>1. recent_epoch' = epoch
        BY DEF Deposit
      <3> QED
        BY <3>1, EpochType DEF IInv
    <2> QED
      BY <1>1, <2>1, <2>2 DEF Deposit, IInv, TypeOK, ConfigTypeOK, ObservationTypeOK,
         environment
  <1>4. ASSUME NEW t \in Tokens
        PROVE  /\ credit(t) = worth(t) /\ worth(t) \in Nat
               /\ lp_token_amount * Reserve(t) <= worth(t) * lp_supply
    <2>1. vault_amount_without_fee(t) = Reserve(t) /\ Reserve(t) \in Nat
          /\ lp_supply \in Nat \ {0}
      BY <1>1, PoolFacts
    <2>2. /\ worth(t) \in Nat
          /\ worth(t) # 0 => lp_token_amount * Reserve(t) <= worth(t) * lp_supply
      BY <2>1, CeilingWorth
    <2>3. mints[t] \in MintInfos
      BY DEF IInv, TypeOK
    <2>4. transfer_inverse_fee_defined(mints[t], worth(t))
      BY <1>2
    <2> HIDE DEF worth
    <2>5. received(mints[t], worth(t) + get_transfer_inverse_fee(mints[t], worth(t)))
            = worth(t)
      BY <2>2, <2>3, <2>4, ReceivedExactly
    <2> QED
      BY <1>2, <2>2, <2>5
  <1> HIDE DEF worth, credit, sent
  <1>5. ASSUME NEW t \in Tokens
        PROVE  /\ Reserve(t)' = Reserve(t) + worth(t)
               /\ Reserve(t)' \in Nat \ {0}
    <2>1. vault'[t] = vault[t] + worth(t)
      BY <1>1, <1>4
    <2>2. vault[t] \in Nat /\ protocol_fees[t] \in Nat /\ fund_fees[t] \in Nat
          /\ Reserve(t) \in Nat \ {0}
      BY <1>1, PoolFacts
    <2>3. Reserve(t)' = Reserve(t) + worth(t)
      BY <1>1, <1>4, <2>1, <2>2 DEF Reserve
    <2> QED
      BY <1>4, <2>2, <2>3
  <1>6. lp_mint_supply' + lock_lp_amount <= lp_supply'
    <2>1. lp_mint_supply + lock_lp_amount <= lp_supply
      BY <1>1 DEF IInv, LpBacked
    <2> QED
      BY <1>1, <2>1, PoolFacts, LockAssumption
  <1>7. ASSUME NEW t \in Tokens
        PROVE  KeepsPart(t)
    <2>1. Reserve(t) \in Nat /\ lp_supply \in Nat /\ worth(t) \in Nat
      BY <1>1, <1>4, PoolFacts
    <2>2. lp_token_amount * Reserve(t) <= worth(t) * lp_supply
      BY <1>4
    <2>3. Reserve(t) * (lp_supply + lp_token_amount)
            <= (Reserve(t) + worth(t)) * lp_supply
      <3> DEFINE r == Reserve(t)
      <3> HIDE DEF r
      <3>1. r \in Nat /\ lp_token_amount * r <= worth(t) * lp_supply
        BY <2>1, <2>2 DEF r
      <3>2. r * (lp_supply + lp_token_amount) <= (r + worth(t)) * lp_supply
        BY <2>1, <3>1
      <3> QED
        BY <3>2 DEF r
    <2> QED
      BY <1>1, <1>5, <2>3 DEF KeepsPart
  <1>8. KeepsWorth
    <2>2. /\ Reserve(0) \in Nat /\ Reserve(1) \in Nat
          /\ Reserve(0)' \in Nat /\ Reserve(1)' \in Nat
          /\ lp_supply \in Nat /\ lp_supply' \in Nat
      BY <1>1, <1>5, PoolFacts DEF Tokens
    <2>3. /\ Reserve(0) * lp_supply' <= Reserve(0)' * lp_supply
          /\ Reserve(1) * lp_supply' <= Reserve(1)' * lp_supply
      BY <1>7 DEF Tokens, KeepsPart
    <2>4. Reserve(0) * Reserve(1) * (lp_supply' * lp_supply')
            <= Reserve(0)' * Reserve(1)' * (lp_supply * lp_supply)
      BY <2>2, <2>3, WorthFromParts
    <2> QED
      BY <2>4 DEF KeepsWorth
  <1>9. ASSUME NEW t \in Tokens
        PROVE  /\ Joined(t, deposited(lp_token_amount)[t])
               /\ deposit_sent(lp_token_amount)[t] <= limit[t]
    <2>1. worth(t) # 0 /\ deposit_sent(lp_token_amount)[t] <= limit[t]
          /\ deposited(lp_token_amount)[t] = worth(t)
      BY <1>2
    <2>2. vault'[t] = vault[t] + worth(t)
      BY <1>1, <1>4
    <2> QED
      BY <1>4, <1>5, <2>1, <2>2 DEF Joined
  <1> QED
    BY <1>1, <1>3, <1>5, <1>6, <1>7, <1>8, <1>9 DEF PoolKept

\* What leaves the vault of t and belonged to the share holders.
Left(t, paid) ==
  /\ paid \in Nat \ {0}
  /\ vault'[t] = vault[t] - paid
  /\ Reserve(t)' = Reserve(t) - paid

\* A withdrawal takes at most the shares' part of each reserve, the locked shares
\* leave some of it, and it brings no less than signed (withdraw.rs:107-232).
LEMMA WithdrawKept ==
  ASSUME IInv, NEW lp_token_amount \in Nat, NEW limit,
         Withdraw(lp_token_amount, limit)
  PROVE  /\ TypeOK' /\ PoolKept
         /\ \A t \in Tokens :
              /\ KeepsPart(t)
              /\ Left(t, withdrawn(lp_token_amount)[t])
              /\ received(mints[t], withdrawn(lp_token_amount)[t]) >= limit[t]
  <1> DEFINE worth(t) == lp_tokens_to_trading_tokens(lp_token_amount, lp_supply,
                           vault_amount_without_fee(t), "Floor")
             paid(t) == smaller(vault_amount_without_fee(t), worth(t))
  <1>1. /\ pool_created /\ pool_created' = pool_created
        /\ lp_supply' = lp_supply - lp_token_amount
        /\ lp_mint_supply' = lp_mint_supply - lp_token_amount
        /\ lp_token_amount <= lp_mint_supply
        /\ vault' = [t \in Tokens |-> vault[t] - paid(t)]
        /\ protocol_fees' = protocol_fees /\ fund_fees' = fund_fees
        /\ \A t \in Tokens :
             /\ paid(t) <= vault[t] /\ paid(t) # 0
             /\ received(mints[t], paid(t)) >= limit[t]
             /\ withdrawn(lp_token_amount)[t] = paid(t)
    BY DEF Withdraw, withdrawal_passes, withdrawn
  <1>2. /\ lp_supply \in Nat \ {0} /\ lp_supply \in U64
        /\ lp_mint_supply \in U64 /\ lp_mint_supply \in Nat
        /\ lp_mint_supply + lock_lp_amount <= lp_supply
    BY <1>1, PoolFacts DEF IInv, LpBacked, TypeOK
  <1>3. /\ lp_supply' \in Nat \ {0} /\ lp_supply' \in U64
        /\ lp_mint_supply' \in Nat /\ lp_mint_supply' \in U64
        /\ lp_mint_supply' + lock_lp_amount <= lp_supply'
    BY <1>1, <1>2, LockAssumption, WidthAssumption DEF U64
  <1>4. ASSUME NEW t \in Tokens
        PROVE  /\ vault[t] \in U64 /\ vault[t] \in Nat
               /\ Reserve(t) \in Nat \ {0}
               /\ paid(t) \in Nat /\ paid(t) <= vault[t]
               /\ paid(t) * lp_supply <= lp_token_amount * Reserve(t)
    <2>1. /\ vault[t] \in Nat /\ Reserve(t) \in Nat \ {0}
          /\ vault_amount_without_fee(t) = Reserve(t)
      BY <1>1, PoolFacts
    <2>2. vault[t] \in U64
      BY DEF IInv, TypeOK
    <2>3. worth(t) \in Nat /\ worth(t) * lp_supply <= lp_token_amount * Reserve(t)
      BY <1>2, <2>1, FloorWorth
    <2>4. paid(t) \in Nat /\ paid(t) <= worth(t)
      <3> HIDE DEF worth
      <3> QED
        BY <2>1, <2>3 DEF smaller
    <2> HIDE DEF worth, paid
    <2>5. paid(t) * lp_supply <= worth(t) * lp_supply
      BY <1>2, <2>3, <2>4, ProductMonotone
    <2>6. paid(t) * lp_supply \in Nat /\ worth(t) * lp_supply \in Nat
          /\ lp_token_amount * Reserve(t) \in Nat
      BY <1>2, <2>1, <2>3, <2>4
    <2>7. paid(t) * lp_supply <= lp_token_amount * Reserve(t)
      BY <2>3, <2>5, <2>6
    <2>8. paid(t) <= vault[t]
      BY <1>1
    <2> QED
      BY <2>1, <2>2, <2>4, <2>7, <2>8
  <1> HIDE DEF paid
  <1>5. TypeOK'
    <2>1. vault' \in [Tokens -> U64]
      <3>1. ASSUME NEW t \in Tokens
            PROVE  vault[t] - paid(t) \in U64
        BY <1>4, WidthAssumption DEF U64
      <3> QED
        BY <1>1, <3>1
    <2>2. recent_epoch' \in Nat
      <3>1. recent_epoch' = epoch
        BY DEF Withdraw
      <3> QED
        BY <3>1, EpochType DEF IInv
    <2> QED
      BY <1>1, <1>3, <2>1, <2>2
      DEF Withdraw, IInv, TypeOK, ConfigTypeOK, ObservationTypeOK, environment
  <1>6. ASSUME NEW t \in Tokens
        PROVE  /\ Reserve(t)' = Reserve(t) - paid(t)
               /\ Reserve(t) * lp_supply' <= Reserve(t)' * lp_supply
               /\ Reserve(t)' \in Nat \ {0}
    <2>1. vault'[t] = vault[t] - paid(t)
      BY <1>1
    <2>2. vault[t] \in Nat /\ protocol_fees[t] \in Nat /\ fund_fees[t] \in Nat
      BY <1>1, PoolFacts
    <2>3. Reserve(t)' = Reserve(t) - paid(t)
      BY <1>1, <1>4, <2>1, <2>2 DEF Reserve
    <2> DEFINE r == Reserve(t)
               p == paid(t)
    <2>4. r \in Nat \ {0} /\ p \in Nat /\ p * lp_supply <= lp_token_amount * r
      BY <1>4
    <2> HIDE DEF r, p
    <2>5. r * (lp_supply - lp_token_amount) <= (r - p) * lp_supply
      BY <1>2, <2>4
    <2>6. lp_supply - lp_token_amount \in Nat \ {0}
      BY <1>1, <1>3
    <2>7. r * (lp_supply - lp_token_amount) > 0
      BY <2>4, <2>6
    <2>8. r - p \in Nat \ {0}
      <3>1. (r - p) * lp_supply > 0
        BY <1>2, <2>4, <2>5, <2>6, <2>7
      <3> QED
        BY <1>2, <2>4, <3>1
    <2> QED
      BY <1>1, <2>3, <2>5, <2>8 DEF r, p
  <1>7. KeepsWorth
    <2>1. /\ Reserve(0) \in Nat /\ Reserve(1) \in Nat
          /\ Reserve(0)' \in Nat /\ Reserve(1)' \in Nat
          /\ Reserve(0) * lp_supply' <= Reserve(0)' * lp_supply
          /\ Reserve(1) * lp_supply' <= Reserve(1)' * lp_supply
      BY <1>4, <1>6 DEF Tokens
    <2>2. Reserve(0) * Reserve(1) * (lp_supply' * lp_supply')
            <= Reserve(0)' * Reserve(1)' * (lp_supply * lp_supply)
      BY <1>2, <1>3, <2>1, WorthFromParts
    <2> QED
      BY <2>2 DEF KeepsWorth
  <1>8. ASSUME NEW t \in Tokens
        PROVE  KeepsPart(t) /\ Left(t, paid(t)) /\ received(mints[t], paid(t)) >= limit[t]
    <2>1. vault'[t] = vault[t] - paid(t) /\ paid(t) # 0
      BY <1>1
    <2> QED
      BY <1>1, <1>4, <1>6, <2>1 DEF KeepsPart, Left
  <1> QED
    BY <1>1, <1>3, <1>5, <1>6, <1>7, <1>8 DEF PoolKept

-----------------------------------------------------------------------------
(* Steps that change no share *)

\* A step that leaves the shares alone and does not lower the product of the
\* reserves keeps the worth of a share.
LEMMA WorthWithoutShares ==
  ASSUME IInv, pool_created, lp_supply' = lp_supply,
         \A t \in Tokens : Reserve(t)' \in Nat,
         Reserve(0) * Reserve(1) <= Reserve(0)' * Reserve(1)'
  PROVE  KeepsWorth
  <1> DEFINE p  == Reserve(0) * Reserve(1)
             p1 == Reserve(0)' * Reserve(1)'
             q  == lp_supply * lp_supply
  <1>1. p \in Nat /\ p1 \in Nat /\ q \in Nat /\ p <= p1
    <2>1. Reserve(0) \in Nat /\ Reserve(1) \in Nat /\ lp_supply \in Nat
          /\ Reserve(0)' \in Nat /\ Reserve(1)' \in Nat
      BY PoolFacts DEF Tokens
    <2> QED
      BY <2>1
  <1>2. lp_supply' * lp_supply' = q
    OBVIOUS
  <1> HIDE DEF p, p1, q
  <1>3. p * q <= p1 * q
    BY <1>1, ProductMonotone
  <1> QED
    BY <1>2, <1>3 DEF KeepsWorth, p, p1, q

\* No reserve falls.
ReservesKept == \A t \in Tokens : Reserve(t)' \in Nat /\ Reserve(t) <= Reserve(t)'

\* In particular a step that lowers no reserve and mints no LP token.
LEMMA KeptWithoutShares ==
  ASSUME IInv, pool_created, pool_created', lp_supply' = lp_supply,
         lp_mint_supply' \in Nat, lp_mint_supply' <= lp_mint_supply,
         ReservesKept
  PROVE  PoolKept
  <1>1. /\ \A t \in Tokens : Reserve(t) \in Nat \ {0}
        /\ lp_supply \in Nat /\ lp_mint_supply \in Nat
        /\ lp_mint_supply + lock_lp_amount <= lp_supply
    BY PoolFacts DEF IInv, LpBacked
  <1>2. \A t \in Tokens : Reserve(t)' > 0
    BY <1>1 DEF ReservesKept
  <1>3. lp_mint_supply' + lock_lp_amount <= lp_supply'
    <2>1. \A n \in Nat : n <= lp_mint_supply => n + lock_lp_amount <= lp_supply
      BY <1>1, LockAssumption
    <2> QED
      BY <2>1
  <1>4. /\ Reserve(0) \in Nat /\ Reserve(0)' \in Nat /\ Reserve(0) <= Reserve(0)'
        /\ Reserve(1) \in Nat /\ Reserve(1)' \in Nat /\ Reserve(1) <= Reserve(1)'
    BY <1>1 DEF Tokens, ReservesKept
  <1>5. Reserve(0) * Reserve(1) <= Reserve(0)' * Reserve(1)'
    BY <1>4, ProductMonotone
  <1>6. KeepsWorth
    BY <1>5, WorthWithoutShares DEF ReservesKept
  <1> QED
    BY <1>2, <1>3, <1>6 DEF PoolKept

\* A step that touches neither the vaults nor the fees owed nor the shares.
LEMMA UntouchedKept ==
  ASSUME IInv, pool_created, pool_created' = pool_created, lp_supply' = lp_supply,
         lp_mint_supply' = lp_mint_supply,
         vault' = vault, protocol_fees' = protocol_fees, fund_fees' = fund_fees
  PROVE  PoolKept
  <1>1. \A t \in Tokens : Reserve(t) \in Nat /\ Reserve(t)' = Reserve(t)
    BY PoolFacts DEF Reserve
  <1>2. ReservesKept
    BY <1>1 DEF ReservesKept
  <1>3. lp_mint_supply' \in Nat /\ lp_mint_supply' <= lp_mint_supply
    BY PoolFacts
  <1> QED
    BY <1>2, <1>3, KeptWithoutShares

-----------------------------------------------------------------------------
(* Administration *)

\* What the share holders own does not change.
ReservesStay == /\ \A t \in Tokens : Reserve(t)' = Reserve(t)
                /\ lp_supply' = lp_supply

\* The amounts collected leave the vault and the fees owed together (collect_protocol_fee.rs:79-141).
LEMMA CollectProtocolFeeKept ==
  ASSUME IInv, NEW owner, NEW requested \in [Tokens -> Nat],
         CollectProtocolFee(owner, requested)
  PROVE  TypeOK' /\ PoolKept /\ ReservesStay
  <1> DEFINE amount(t) == smaller(requested[t], protocol_fees[t])
  <1>1. /\ pool_created /\ pool_created' = pool_created
        /\ lp_supply' = lp_supply /\ lp_mint_supply' = lp_mint_supply
        /\ vault' = [t \in Tokens |-> vault[t] - amount(t)]
        /\ protocol_fees' = [t \in Tokens |-> protocol_fees[t] - amount(t)]
        /\ fund_fees' = fund_fees
        /\ \A t \in Tokens : amount(t) <= vault[t]
    BY DEF CollectProtocolFee, pool_state
  <1>2. ASSUME NEW t \in Tokens
        PROVE  /\ vault[t] - amount(t) \in U64
               /\ protocol_fees[t] - amount(t) \in U64
               /\ amount(t) \in Nat
    <2>1. requested[t] \in Nat /\ vault[t] \in U64 /\ protocol_fees[t] \in U64
      BY DEF IInv, TypeOK
    <2>2. amount(t) \in Nat /\ amount(t) <= protocol_fees[t]
      BY <2>1, WidthAssumption DEF smaller, U64
    <2>3. amount(t) <= vault[t]
      BY <1>1
    <2> HIDE DEF amount
    <2> QED
      BY <2>1, <2>2, <2>3, WidthAssumption DEF U64
  <1> HIDE DEF amount
  <1>3. TypeOK'
    <2>1. vault' \in [Tokens -> U64] /\ protocol_fees' \in [Tokens -> U64]
      BY <1>1, <1>2
    <2>2. recent_epoch' \in Nat
      <3>1. recent_epoch' = epoch
        BY DEF CollectProtocolFee
      <3> QED
        BY <3>1, EpochType DEF IInv
    <2> QED
      BY <1>1, <2>1, <2>2
      DEF CollectProtocolFee, IInv, TypeOK, ConfigTypeOK, ObservationTypeOK, environment
  <1>4. ReservesKept /\ ReservesStay
    <2>1. ASSUME NEW t \in Tokens
          PROVE  Reserve(t)' = Reserve(t) /\ Reserve(t) \in Nat
      <3>1. /\ vault[t] \in Nat /\ protocol_fees[t] \in Nat /\ fund_fees[t] \in Nat
            /\ Reserve(t) \in Nat
        BY <1>1, PoolFacts
      <3>2. /\ vault'[t] = vault[t] - amount(t)
            /\ protocol_fees'[t] = protocol_fees[t] - amount(t)
            /\ fund_fees'[t] = fund_fees[t]
        BY <1>1
      <3>3. Reserve(t)' = Reserve(t)
        BY <1>2, <3>1, <3>2 DEF Reserve
      <3> QED
        BY <3>1, <3>3
    <2> QED
      BY <1>1, <2>1 DEF ReservesKept, ReservesStay
  <1> QED
    <2>1. lp_mint_supply' \in Nat /\ lp_mint_supply' <= lp_mint_supply
      BY <1>1, PoolFacts
    <2> QED
      BY <1>1, <1>3, <1>4, <2>1, KeptWithoutShares

\* The amounts collected leave the vault and the fees owed together (collect_fund_fee.rs:78-132).
LEMMA CollectFundFeeKept ==
  ASSUME IInv, NEW owner, NEW requested \in [Tokens -> Nat],
         CollectFundFee(owner, requested)
  PROVE  TypeOK' /\ PoolKept /\ ReservesStay
  <1> DEFINE amount(t) == smaller(requested[t], fund_fees[t])
  <1>1. /\ pool_created /\ pool_created' = pool_created
        /\ lp_supply' = lp_supply /\ lp_mint_supply' = lp_mint_supply
        /\ vault' = [t \in Tokens |-> vault[t] - amount(t)]
        /\ fund_fees' = [t \in Tokens |-> fund_fees[t] - amount(t)]
        /\ protocol_fees' = protocol_fees
        /\ \A t \in Tokens : amount(t) <= vault[t]
    BY DEF CollectFundFee, pool_state
  <1>2. ASSUME NEW t \in Tokens
        PROVE  /\ vault[t] - amount(t) \in U64
               /\ fund_fees[t] - amount(t) \in U64
               /\ amount(t) \in Nat
    <2>1. requested[t] \in Nat /\ vault[t] \in U64 /\ fund_fees[t] \in U64
      BY DEF IInv, TypeOK
    <2>2. amount(t) \in Nat /\ amount(t) <= fund_fees[t]
      BY <2>1, WidthAssumption DEF smaller, U64
    <2>3. amount(t) <= vault[t]
      BY <1>1
    <2> HIDE DEF amount
    <2> QED
      BY <2>1, <2>2, <2>3, WidthAssumption DEF U64
  <1> HIDE DEF amount
  <1>3. TypeOK'
    <2>1. vault' \in [Tokens -> U64] /\ fund_fees' \in [Tokens -> U64]
      BY <1>1, <1>2
    <2>2. recent_epoch' \in Nat
      <3>1. recent_epoch' = epoch
        BY DEF CollectFundFee
      <3> QED
        BY <3>1, EpochType DEF IInv
    <2> QED
      BY <1>1, <2>1, <2>2
      DEF CollectFundFee, IInv, TypeOK, ConfigTypeOK, ObservationTypeOK, environment
  <1>4. ReservesKept /\ ReservesStay
    <2>1. ASSUME NEW t \in Tokens
          PROVE  Reserve(t)' = Reserve(t) /\ Reserve(t) \in Nat
      <3>1. /\ vault[t] \in Nat /\ protocol_fees[t] \in Nat /\ fund_fees[t] \in Nat
            /\ Reserve(t) \in Nat
        BY <1>1, PoolFacts
      <3>2. /\ vault'[t] = vault[t] - amount(t)
            /\ fund_fees'[t] = fund_fees[t] - amount(t)
            /\ protocol_fees'[t] = protocol_fees[t]
        BY <1>1
      <3>3. Reserve(t)' = Reserve(t)
        BY <1>2, <3>1, <3>2 DEF Reserve
      <3> QED
        BY <3>1, <3>3
    <2> QED
      BY <1>1, <2>1 DEF ReservesKept, ReservesStay
  <1> QED
    <2>1. lp_mint_supply' \in Nat /\ lp_mint_supply' <= lp_mint_supply
      BY <1>1, PoolFacts
    <2> QED
      BY <1>1, <1>3, <1>4, <2>1, KeptWithoutShares

\* The status of a pool is apart from its reserves (update_pool_status.rs:15-21).
LEMMA UpdatePoolStatusKept ==
  ASSUME IInv, NEW authority, NEW disabled \in Statuses,
         UpdatePoolStatus(authority, disabled)
  PROVE  TypeOK' /\ PoolKept /\ ReservesStay
  <1>1. /\ pool_created /\ pool_created' = pool_created
        /\ lp_supply' = lp_supply /\ lp_mint_supply' = lp_mint_supply
        /\ vault' = vault /\ protocol_fees' = protocol_fees /\ fund_fees' = fund_fees
    BY DEF UpdatePoolStatus
  <1>2. TypeOK'
    <2>1. status' \subseteq PoolOperations
      BY PoolAssumption DEF UpdatePoolStatus
    <2>2. recent_epoch' \in Nat
      <3>1. recent_epoch' = epoch
        BY DEF UpdatePoolStatus
      <3> QED
        BY <3>1, EpochType DEF IInv
    <2> QED
      BY <2>1, <2>2
      DEF UpdatePoolStatus, IInv, TypeOK, ConfigTypeOK, ObservationTypeOK, environment
  <1>3. PoolKept
    BY <1>1, UntouchedKept
  <1> QED
    BY <1>1, <1>2, <1>3 DEF ReservesStay, Reserve

\* A change of the configuration is apart from the reserves too, and the account
\* a pool points to stays.
LEMMA UpdateConfigKept ==
  ASSUME IInv, UpdateConfig
  PROVE  /\ TypeOK' /\ RatesValid' /\ Configured'
         /\ pool_created' = pool_created
         /\ ReservesStay
         /\ pool_created => PoolKept
  <1>1. /\ pool_created' = pool_created
        /\ lp_supply' = lp_supply /\ lp_mint_supply' = lp_mint_supply
        /\ vault' = vault /\ protocol_fees' = protocol_fees /\ fund_fees' = fund_fees
    BY DEF UpdateConfig, pool_state
  <1>2. /\ ConfigTypeOK' /\ RatesValid'
        /\ amm_config # NoConfig => amm_config' # NoConfig
    <2>1. ConfigTypeOK /\ RatesValid /\ ConfigNext
      BY DEF UpdateConfig, IInv, TypeOK
    <2> QED
      BY <2>1, ConfigKept
  <1>3. TypeOK'
    BY <1>2 DEF UpdateConfig, IInv, TypeOK, ObservationTypeOK, environment, pool_state
  <1>4. Configured'
    BY <1>1, <1>2 DEF IInv, Configured
  <1>5. pool_created => PoolKept
    BY <1>1, UntouchedKept
  <1> QED
    BY <1>1, <1>2, <1>3, <1>4, <1>5 DEF ReservesStay, Reserve

-----------------------------------------------------------------------------
(* What others do *)

\* Tokens sent to a vault belong to the share holders.
LEMMA DonateKept ==
  ASSUME IInv, NEW t \in Tokens, NEW amount \in U64, Donate(t, amount)
  PROVE  /\ TypeOK' /\ PoolKept
         /\ \A u \in Tokens :
              Reserve(u)' = Reserve(u)
                              + IF u = t THEN received(mints[t], amount) ELSE 0
  <1> DEFINE credit == received(mints[t], amount)
  <1>1. /\ pool_created /\ pool_created' = pool_created
        /\ lp_supply' = lp_supply /\ lp_mint_supply' = lp_mint_supply
        /\ vault' = [vault EXCEPT ![t] = @ + credit]
        /\ vault[t] + credit \in U64
        /\ protocol_fees' = protocol_fees /\ fund_fees' = fund_fees
    BY DEF Donate, pool_state
  <1>2. credit \in Nat
    <2>1. mints[t] \in MintInfos /\ amount \in Nat
      BY WidthAssumption DEF IInv, TypeOK, U64
    <2> QED
      BY <2>1, ReceivedType
  <1> HIDE DEF credit
  <1>3. TypeOK'
    <2>1. vault' \in [Tokens -> U64]
      BY <1>1 DEF IInv, TypeOK
    <2> QED
      BY <2>1 DEF Donate, IInv, TypeOK, ConfigTypeOK, ObservationTypeOK, environment,
        pool_state
  <1>4. ASSUME NEW u \in Tokens
        PROVE  Reserve(u)' = Reserve(u) + IF u = t THEN credit ELSE 0
    <2> DEFINE gain == IF u = t THEN credit ELSE 0
               v == vault'[u]
    <2>1. /\ vault[u] \in Nat /\ protocol_fees[u] \in Nat /\ fund_fees[u] \in Nat
          /\ gain \in Nat
      BY <1>1, <1>2, PoolFacts
    <2>2. v = vault[u] + gain
      <3>1. vault \in [Tokens -> U64]
        BY DEF IInv, TypeOK
      <3>2. CASE u = t
        BY <1>1, <3>1, <3>2
      <3>3. CASE u # t
        BY <1>1, <2>1, <3>1, <3>3
      <3> QED
        BY <3>2, <3>3
    <2>3. Reserve(u)' = v - protocol_fees[u] - fund_fees[u]
      BY <1>1 DEF Reserve
    <2> HIDE DEF gain, v
    <2>4. v - protocol_fees[u] - fund_fees[u] = Reserve(u) + gain
      BY <2>1, <2>2 DEF Reserve
    <2> QED
      BY <2>3, <2>4 DEF gain
  <1>5. ReservesKept
    <2>1. ASSUME NEW u \in Tokens
          PROVE  Reserve(u)' \in Nat /\ Reserve(u) <= Reserve(u)'
      <3> DEFINE r == Reserve(u)
                 r1 == Reserve(u)'
      <3>1. r \in Nat /\ (r1 = r \/ r1 = r + credit)
        BY <1>1, <1>4, PoolFacts
      <3> HIDE DEF r, r1
      <3>2. r1 \in Nat /\ r <= r1
        BY <1>2, <3>1
      <3> QED
        BY <3>2 DEF r, r1
    <2> QED
      BY <2>1 DEF ReservesKept
  <1>6. lp_mint_supply' \in Nat /\ lp_mint_supply' <= lp_mint_supply
    BY <1>1, PoolFacts
  <1> QED
    BY <1>1, <1>3, <1>4, <1>5, <1>6, KeptWithoutShares DEF credit

\* LP tokens burnt outside the program leave lp_supply above the mint's supply.
LEMMA BurnLpKept ==
  ASSUME IInv, NEW amount \in U64, BurnLp(amount)
  PROVE  TypeOK' /\ (pool_created => PoolKept)
  <1>1. /\ pool_created' = pool_created /\ lp_supply' = lp_supply
        /\ lp_mint_supply' = lp_mint_supply - amount
        /\ amount \in 1 .. lp_mint_supply
        /\ vault' = vault /\ protocol_fees' = protocol_fees /\ fund_fees' = fund_fees
    BY DEF BurnLp, pool_state
  <1>2. /\ lp_mint_supply - amount \in U64 /\ lp_mint_supply - amount \in Nat
        /\ lp_mint_supply - amount <= lp_mint_supply
    <2>1. lp_mint_supply \in U64
      BY DEF IInv, TypeOK
    <2> QED
      BY <1>1, <2>1, WidthAssumption DEF U64
  <1>3. TypeOK'
    BY <1>1, <1>2
    DEF BurnLp, IInv, TypeOK, ConfigTypeOK, ObservationTypeOK, environment, pool_state
  <1>4. ASSUME pool_created
        PROVE  PoolKept
    <2>1. \A t \in Tokens : Reserve(t) \in Nat /\ Reserve(t)' = Reserve(t)
      BY <1>1, <1>4, PoolFacts DEF Reserve
    <2>2. ReservesKept
      BY <2>1 DEF ReservesKept
    <2>3. lp_mint_supply' \in Nat /\ lp_mint_supply' <= lp_mint_supply
      BY <1>1, <1>2
    <2> QED
      BY <1>1, <1>4, <2>2, <2>3, KeptWithoutShares
  <1> QED
    BY <1>3, <1>4

\* Neither the clock nor a mint's fee touches what is in the pool.
LEMMA EnvironmentKept ==
  ASSUME IInv, Environment
  PROVE  /\ TypeOK' /\ amm_config' = amm_config
         /\ pool_created' = pool_created
         /\ pool_created => PoolKept
  <1>1. CASE Tick
    <2>1. /\ amm_config' = amm_config /\ pool_created' = pool_created
          /\ lp_supply' = lp_supply /\ lp_mint_supply' = lp_mint_supply
          /\ vault' = vault /\ protocol_fees' = protocol_fees /\ fund_fees' = fund_fees
      BY <1>1 DEF Tick, pool_state
    <2>2. now' \in 0 .. MaxTime
      BY <1>1, PoolAssumption DEF Tick, IInv, TypeOK
    <2>3. TypeOK'
      BY <1>1, <2>2
      DEF Tick, IInv, TypeOK, ConfigTypeOK, ObservationTypeOK, pool_state
    <2> QED
      BY <2>1, <2>3, UntouchedKept
  <1>2. CASE \E t \in Tokens, amount \in Donations : Donate(t, amount)
    <2>1. PICK t \in Tokens, amount \in Donations : Donate(t, amount)
      BY <1>2
    <2>2. amount \in U64
      BY PoolAssumption
    <2>3. TypeOK' /\ PoolKept
      BY <2>1, <2>2, DonateKept
    <2>4. amm_config' = amm_config /\ pool_created' = pool_created
      BY <2>1 DEF Donate, pool_state
    <2> QED
      BY <2>3, <2>4
  <1>3. CASE \E amount \in Donations : BurnLp(amount)
    <2>1. PICK amount \in Donations : BurnLp(amount)
      BY <1>3
    <2>2. amount \in U64
      BY PoolAssumption
    <2>3. TypeOK' /\ (pool_created => PoolKept)
      BY <2>1, <2>2, BurnLpKept
    <2>4. amm_config' = amm_config /\ pool_created' = pool_created
      BY <2>1 DEF BurnLp, pool_state
    <2> QED
      BY <2>3, <2>4
  <1>4. CASE \E t \in Tokens, kind \in MintKinds : ChangeTransferFee(t, kind)
    <2>1. PICK t \in Tokens, kind \in MintKinds : ChangeTransferFee(t, kind)
      BY <1>4
    <2>2. /\ amm_config' = amm_config /\ pool_created' = pool_created
          /\ lp_supply' = lp_supply /\ lp_mint_supply' = lp_mint_supply
          /\ vault' = vault /\ protocol_fees' = protocol_fees /\ fund_fees' = fund_fees
      BY <2>1 DEF ChangeTransferFee, pool_state
    <2>3. mints' \in [Tokens -> MintInfos]
      <3>1. kind \in MintInfos
        BY PoolAssumption
      <3>2. mints' = [mints EXCEPT ![t] = kind]
        BY <2>1 DEF ChangeTransferFee
      <3> QED
        BY <3>1, <3>2 DEF IInv, TypeOK
    <2>4. TypeOK'
      BY <2>1, <2>3
      DEF ChangeTransferFee, IInv, TypeOK, ConfigTypeOK, ObservationTypeOK, pool_state
    <2> QED
      BY <2>2, <2>4, UntouchedKept
  <1> QED
    BY <1>1, <1>2, <1>3, <1>4 DEF Environment

-----------------------------------------------------------------------------
(* Swaps *)

\* The oracle stays well-formed: its index stays in the ring and the integral
\* wraps at its width (oracle.rs:30-69).
LEMMA UpdateType ==
  ASSUME ObservationTypeOK, NEW time \in U64, NEW price_x32 \in [Tokens -> Nat],
         update(time, price_x32)
  PROVE  ObservationTypeOK'
  <1> DEFINE Indices == 0 .. OBSERVATION_NUM - 1
  <1>1. /\ observation_state.observation_index \in Indices
        /\ observation_state.observations \in [Indices -> Observations]
        /\ observation_state \in [ initialized : BOOLEAN, observation_index : Indices,
                                   observations : [Indices -> Observations] ]
    BY DEF ObservationTypeOK
  <1>2. OBSERVATION_NUM \in Nat \ {0} /\ CUMULATIVE_MODULUS \in Nat \ {0}
    BY ObservationAssumption
  <1>3. CASE first_update(time)
    <2>1. 0 \in U64 /\ 0 \in 0 .. CUMULATIVE_MODULUS - 1
      BY <1>2, WidthAssumption DEF U64
    <2>2. [ZeroObservation EXCEPT !.block_timestamp = time] \in Observations
      BY <2>1 DEF ZeroObservation, Observations
    <2> QED
      BY <1>1, <1>3, <2>2 DEF first_update, ObservationTypeOK
  <1>4. CASE skipped_update(time)
    BY <1>4 DEF skipped_update, ObservationTypeOK
  <1>5. CASE next_update(time, price_x32)
    <2> DEFINE c == [t \in Tokens |->
                 (last_observation.cumulative[t] + price_x32[t] * delta_time(time))
                    % CUMULATIVE_MODULUS]
    <2>1. observation_state' =
            [observation_state EXCEPT
               !.observations[next_observation_index] =
                  [ block_timestamp |-> time, cumulative |-> c ],
               !.observation_index = next_observation_index]
      BY <1>5 DEF next_update
    <2>2. next_observation_index \in Indices
      BY <1>1, <1>2 DEF next_observation_index
    <2>3. c \in [Tokens -> 0 .. CUMULATIVE_MODULUS - 1]
      <3>1. last_observation \in Observations
        BY <1>1 DEF last_observation
      <3>2. delta_time(time) \in Nat
        <4>1. last_observation.block_timestamp \in Nat /\ time \in Nat
          BY <3>1, WidthAssumption DEF Observations, U64
        <4> QED
          BY <4>1 DEF delta_time
      <3>3. ASSUME NEW t \in Tokens
            PROVE  c[t] \in 0 .. CUMULATIVE_MODULUS - 1
        <4> DEFINE n == last_observation.cumulative[t] + price_x32[t] * delta_time(time)
        <4>1. last_observation.cumulative[t] \in Nat
          BY <1>2, <3>1 DEF Observations
        <4>2. n \in Nat
          BY <3>2, <4>1
        <4> HIDE DEF n
        <4>3. n % CUMULATIVE_MODULUS \in 0 .. CUMULATIVE_MODULUS - 1
          BY <1>2, <4>2
        <4> QED
          BY <4>3 DEF n
      <3> QED
        BY <3>3
    <2> HIDE DEF c
    <2>4. [ block_timestamp |-> time, cumulative |-> c ] \in Observations
      BY <2>3 DEF Observations
    <2> QED
      BY <1>1, <2>1, <2>2, <2>4 DEF ObservationTypeOK
  <1> QED
    BY <1>3, <1>4, <1>5 DEF update

\* The prices of a pool with two positive reserves are naturals.
LEMMA QuotedPriceType ==
  ASSUME IInv, pool_created
  PROVE  quoted_price \in [Tokens -> Nat]
  <1>1. ASSUME NEW t \in Tokens
        PROVE  token_price_x32(t) \in Nat
    <2>1. opposite(t) \in Tokens
      BY DEF opposite, Tokens
    <2> DEFINE a == vault_amount_without_fee(opposite(t))
               b == vault_amount_without_fee(t)
    <2>2. a \in Nat /\ b \in Nat \ {0} /\ Q32 \in Nat
      BY <2>1, PoolFacts, PoolAssumption
    <2> HIDE DEF a, b
    <2>3. a * Q32 \in Nat
      BY <2>2
    <2>4. (a * Q32) \div b \in Nat
      BY <2>2, <2>3, QuotientBounds
    <2> QED
      BY <2>4 DEF token_price_x32, a, b
  <1> QED
    BY <1>1 DEF quoted_price

\* The arithmetic of a swap: the fees owed are inside the trade fee, so what the
\* reserves gain is at least what the constant-product check counts.
LEMMA SwapArithmetic ==
  ASSUME NEW x \in Nat \ {0}, NEW y \in Nat \ {0}, NEW source \in Nat, NEW out \in Nat,
         NEW fee \in Nat, NEW p \in Nat, NEW f \in Nat, NEW x1 \in Int, NEW y1 \in Int,
         p + f <= fee, x1 = x + source, y1 = y - out, fee <= x1, y1 >= 0,
         (x1 - fee) * y1 >= x * y
  PROVE  /\ x + source - p - f \in Nat \ {0}
         /\ y - out \in Nat \ {0}
         /\ x * y <= (x + source - p - f) * (y - out)
  <1> DEFINE a == x1 - fee
             c == x + source - p - f
  <1>1. a \in Nat /\ y1 \in Nat /\ c \in Nat /\ a <= c
    OBVIOUS
  <1>2. x * y <= a * y1
    OBVIOUS
  <1>3. x * y > 0 /\ x * y \in Nat
    OBVIOUS
  <1> HIDE DEF a, c
  <1>4. a * y1 > 0
    BY <1>1, <1>2, <1>3
  <1>5. a # 0 /\ y1 # 0
    BY <1>1, <1>4
  <1>6. a * y1 <= c * y1
    BY <1>1, ProductMonotone
  <1>7. x * y <= c * y1
    BY <1>1, <1>2, <1>3, <1>6
  <1>8. c \in Nat \ {0} /\ y1 \in Nat \ {0}
    BY <1>1, <1>5
  <1>9. c = x + source - p - f
    BY DEF c
  <1> QED
    BY <1>7, <1>8, <1>9

\* What the curve promises of the result both swaps settle.
Priced(input, output, result) ==
  /\ result.source_amount_swapped \in Nat
  /\ result.destination_amount_swapped \in Nat
  /\ result.trade_fee \in Nat /\ result.protocol_fee \in Nat /\ result.fund_fee \in Nat
  /\ result.protocol_fee + result.fund_fee <= result.trade_fee
  /\ result.new_swap_source_amount = Reserve(input) + result.source_amount_swapped
  /\ result.new_swap_destination_amount
       = Reserve(output) - result.destination_amount_swapped

\* What a swap moves: arrived comes into one vault and paid leaves the other, and
\* the product of the reserves does not fall though some of what arrived is owed.
Traded(input, output, arrived, paid) ==
  /\ arrived \in Nat
  /\ vault'[input] = vault[input] + arrived
  /\ Reserve(input)' <= Reserve(input) + arrived
  /\ Left(output, paid)
  /\ Reserve(input) * Reserve(output) <= Reserve(input)' * Reserve(output)'

\* Settling a priced swap in full never lowers the product of the reserves and
\* empties neither (swap_base_input.rs:202-267).
LEMMA SettleKept ==
  ASSUME IInv, pool_created, NEW input \in Tokens, NEW output \in Tokens,
         input # output, NEW result, Priced(input, output, result),
         NEW credited, credited = result.source_amount_swapped,
         settle(input, output, result, credited)
  PROVE  /\ TypeOK' /\ PoolKept
         /\ result.destination_amount_swapped # 0
              => Traded(input, output, credited, result.destination_amount_swapped)
  <1> DEFINE source == result.source_amount_swapped
             out == result.destination_amount_swapped
             fee == result.trade_fee
             p == result.protocol_fee
             f == result.fund_fee
  <1>1. /\ source \in Nat /\ out \in Nat /\ fee \in Nat /\ p \in Nat /\ f \in Nat
        /\ p + f <= fee
    BY DEF Priced
  <1>2. /\ pool_created' = pool_created
        /\ lp_supply' = lp_supply /\ lp_mint_supply' = lp_mint_supply
        /\ protocol_fees' = [protocol_fees EXCEPT ![input] = @ + p]
        /\ fund_fees' = [fund_fees EXCEPT ![input] = @ + f]
        /\ vault' = [vault EXCEPT ![input] = @ + source, ![output] = @ - out]
        /\ protocol_fees[input] + p \in U64 /\ fund_fees[input] + f \in U64
        /\ vault[input] + source \in U64 /\ out <= vault[output]
    BY DEF settle, settlement_passes
  <1>3. ASSUME NEW t \in Tokens
        PROVE  /\ vault[t] \in Nat /\ protocol_fees[t] \in Nat /\ fund_fees[t] \in Nat
               /\ Reserve(t) \in Nat \ {0}
               /\ vault_amount_without_fee(t) = Reserve(t)
    BY PoolFacts
  <1>4. /\ fee <= result.new_swap_source_amount
        /\ result.new_swap_destination_amount >= 0
        /\ (result.new_swap_source_amount - fee) * result.new_swap_destination_amount
             >= vault_amount_without_fee(input) * vault_amount_without_fee(output)
    BY DEF settle, settlement_passes
  <1> HIDE DEF source, out, fee, p, f
  <1>5. TypeOK'
    <2>1. /\ vault \in [Tokens -> U64] /\ protocol_fees \in [Tokens -> U64]
          /\ fund_fees \in [Tokens -> U64]
      BY DEF IInv, TypeOK
    <2>2. vault[output] - out \in U64
      BY <1>1, <1>2, <2>1, WidthAssumption DEF U64
    <2>3. /\ vault' \in [Tokens -> U64] /\ protocol_fees' \in [Tokens -> U64]
          /\ fund_fees' \in [Tokens -> U64]
      BY <1>2, <2>1, <2>2
    <2>4. ObservationTypeOK'
      <3>1. block_timestamp \in U64
        BY PoolAssumption, WidthAssumption DEF IInv, TypeOK, block_timestamp, U64
      <3>2. update(block_timestamp, quoted_price) /\ ObservationTypeOK
        BY DEF settle, IInv, TypeOK
      <3> QED
        BY <3>1, <3>2, QuotedPriceType, UpdateType
    <2>5. recent_epoch' \in Nat
      <3>1. recent_epoch' = epoch
        BY DEF settle
      <3> QED
        BY <3>1, EpochType DEF IInv
    <2> QED
      BY <2>3, <2>4, <2>5 DEF settle, IInv, TypeOK, ConfigTypeOK, environment
  <1>6. /\ Reserve(input)' = Reserve(input) + source - p - f
        /\ Reserve(output)' = Reserve(output) - out
    <2>1. /\ vault \in [Tokens -> U64] /\ protocol_fees \in [Tokens -> U64]
          /\ fund_fees \in [Tokens -> U64]
      BY DEF IInv, TypeOK
    <2>2. /\ vault'[input] = vault[input] + source
          /\ protocol_fees'[input] = protocol_fees[input] + p
          /\ fund_fees'[input] = fund_fees[input] + f
          /\ vault'[output] = vault[output] - out
          /\ protocol_fees'[output] = protocol_fees[output]
          /\ fund_fees'[output] = fund_fees[output]
      BY <1>2, <2>1
    <2> DEFINE v == vault'[input]
               q == protocol_fees'[input]
               g == fund_fees'[input]
               r == Reserve(input)
    <2>3. /\ Reserve(input)' = v - q - g
          /\ r = vault[input] - protocol_fees[input] - fund_fees[input]
      BY DEF Reserve
    <2>4. v = vault[input] + source /\ q = protocol_fees[input] + p /\ g = fund_fees[input] + f
      BY <2>2
    <2> HIDE DEF v, q, g, r
    <2>5. v - q - g = r + source - p - f
      BY <1>1, <1>3, <2>3, <2>4
    <2>6. Reserve(input)' = Reserve(input) + source - p - f
      BY <2>3, <2>5 DEF r
    <2>7. Reserve(output)' = Reserve(output) - out
      BY <1>1, <1>3, <2>2 DEF Reserve
    <2> QED
      BY <2>6, <2>7
  <1>7. /\ Reserve(input)' \in Nat \ {0} /\ Reserve(output)' \in Nat \ {0}
        /\ Reserve(input) * Reserve(output) <= Reserve(input)' * Reserve(output)'
    <2> DEFINE x == Reserve(input)
               y == Reserve(output)
               x1 == result.new_swap_source_amount
               y1 == result.new_swap_destination_amount
    <2>1. x \in Nat \ {0} /\ y \in Nat \ {0}
      BY <1>3
    <2>2. x1 = x + source /\ y1 = y - out
      BY DEF Priced, source, out
    <2>3. fee <= x1 /\ y1 >= 0
      BY <1>4
    <2>4. (x1 - fee) * y1 >= x * y
      <3> DEFINE n == (x1 - fee) * y1
                 m(a, b) == a * b
      <3>1. n >= m(vault_amount_without_fee(input), vault_amount_without_fee(output))
        BY <1>4
      <3>2. vault_amount_without_fee(input) = x /\ vault_amount_without_fee(output) = y
        BY <1>3
      <3> HIDE DEF n
      <3>3. n >= m(x, y)
        BY <3>1, <3>2
      <3> QED
        BY <3>3 DEF n
    <2> HIDE DEF x, y, x1, y1
    <2>5. x1 \in Int /\ y1 \in Int
      BY <1>1, <2>1, <2>2
    <2>6. /\ x + source - p - f \in Nat \ {0}
          /\ y - out \in Nat \ {0}
          /\ x * y <= (x + source - p - f) * (y - out)
      BY <1>1, <2>1, <2>2, <2>3, <2>4, <2>5, SwapArithmetic
    <2> QED
      BY <1>6, <2>6 DEF x, y
  <1>8. /\ \A t \in Tokens : Reserve(t)' \in Nat \ {0}
        /\ Reserve(0) * Reserve(1) <= Reserve(0)' * Reserve(1)'
    <2>1. CASE input = 0 /\ output = 1
      BY <1>7, <2>1 DEF Tokens
    <2>2. CASE input = 1 /\ output = 0
      <3>1. /\ Reserve(1)' \in Nat \ {0} /\ Reserve(0)' \in Nat \ {0}
            /\ Reserve(1) * Reserve(0) <= Reserve(1)' * Reserve(0)'
        BY <1>7, <2>2
      <3>2. Reserve(0) \in Nat /\ Reserve(1) \in Nat
        BY <1>3 DEF Tokens
      <3>3. Reserve(0) * Reserve(1) <= Reserve(0)' * Reserve(1)'
        BY <3>1, <3>2
      <3> QED
        BY <3>1, <3>3 DEF Tokens
    <2> QED
      BY <2>1, <2>2 DEF Tokens
  <1>9. PoolKept
    <2>1. KeepsWorth
      BY <1>2, <1>8, WorthWithoutShares
    <2>2. lp_mint_supply + lock_lp_amount <= lp_supply
      BY DEF IInv, LpBacked
    <2>3. lp_mint_supply' + lock_lp_amount <= lp_supply'
      BY <1>2, <2>2
    <2>4. \A t \in Tokens : Reserve(t)' > 0
      BY <1>8
    <2> QED
      BY <1>2, <2>1, <2>3, <2>4 DEF PoolKept
  <1>10. ASSUME out # 0
         PROVE  Traded(input, output, source, out)
    <2>1. /\ vault'[input] = vault[input] + source
          /\ vault'[output] = vault[output] - out
      BY <1>2 DEF IInv, TypeOK
    <2> DEFINE r == Reserve(input)
               r1 == Reserve(input)'
    <2>2. r \in Nat /\ r1 = r + source - p - f
      BY <1>3, <1>6
    <2> HIDE DEF r, r1
    <2>3. r1 <= r + source
      BY <1>1, <2>2
    <2>4. Reserve(input)' <= Reserve(input) + source
      BY <2>3 DEF r, r1
    <2> QED
      BY <1>1, <1>6, <1>7, <1>10, <2>1, <2>4 DEF Traded, Left
  <1> QED
    BY <1>5, <1>9, <1>10 DEF source, out

\* The rates a swap reads and the reserves it prices.
LEMMA RateFacts ==
  ASSUME IInv, pool_created
  PROVE  /\ amm_config.trade_fee_rate \in Nat
         /\ amm_config.protocol_fee_rate \in Nat
         /\ amm_config.fund_fee_rate \in Nat
         /\ amm_config.trade_fee_rate < FEE_RATE_DENOMINATOR_VALUE
         /\ amm_config.protocol_fee_rate + amm_config.fund_fee_rate
              <= FEE_RATE_DENOMINATOR_VALUE
  <1>1. amm_config \in AmmConfigs /\ amm_config # NoConfig
    BY DEF IInv, TypeOK, ConfigTypeOK, Configured
  <1>2. /\ amm_config.trade_fee_rate \in Nat
        /\ amm_config.protocol_fee_rate \in Nat
        /\ amm_config.fund_fee_rate \in Nat
    BY <1>1, WidthAssumption DEF AmmConfigs, U64
  <1> QED
    BY <1>1, <1>2 DEF IInv, RatesValid

\* An exact-input swap settles what its transfer brings in (swap_base_input.rs:84-270).
LEMMA SwapBaseInputKept ==
  ASSUME IInv, NEW input \in Tokens, NEW output \in Tokens, NEW amount \in U64,
         NEW limit, SwapBaseInput(input, output, amount, limit)
  PROVE  /\ TypeOK' /\ PoolKept
         /\ LET paid == input_result(input, output, amount).destination_amount_swapped IN
            /\ Traded(input, output, received(mints[input], amount), paid)
            /\ received(mints[output], paid) >= limit
  <1> DEFINE credited == received(mints[input], amount)
             x == vault_amount_without_fee(input)
             y == vault_amount_without_fee(output)
             result == swap_base_input(credited, x, y, amm_config)
  <1>1. /\ pool_created /\ input # output /\ credited > 0
        /\ settle(input, output, result, credited)
        /\ received(mints[output], result.destination_amount_swapped) > 0
        /\ received(mints[output], result.destination_amount_swapped) >= limit
        /\ input_result(input, output, amount) = result
    BY DEF SwapBaseInput, input_swap_passes, input_result
  <1>2. credited \in Nat \ {0}
    <2>1. mints[input] \in MintInfos /\ amount \in Nat
      BY WidthAssumption DEF IInv, TypeOK, U64
    <2>2. credited \in Nat
      BY <2>1, ReceivedType
    <2> QED
      BY <1>1, <2>2
  <1>3. x \in Nat \ {0} /\ y \in Nat \ {0} /\ x = Reserve(input) /\ y = Reserve(output)
    BY <1>1, PoolFacts
  <1> HIDE DEF credited, x, y
  <1>4. /\ result.source_amount_swapped = credited
        /\ result.destination_amount_swapped \in Nat
        /\ result.trade_fee \in Nat /\ result.protocol_fee \in Nat /\ result.fund_fee \in Nat
        /\ result.protocol_fee + result.fund_fee <= result.trade_fee
        /\ result.new_swap_source_amount = x + credited
        /\ result.new_swap_destination_amount = y - result.destination_amount_swapped
    BY <1>1, <1>2, <1>3, RateFacts, SwapBaseInputResult
  <1> HIDE DEF result
  <1>5. Priced(input, output, result)
    BY <1>2, <1>3, <1>4 DEF Priced
  <1>6. result.destination_amount_swapped # 0
    <2>1. mints[output] \in MintInfos
      BY DEF IInv, TypeOK
    <2>2. received(mints[output], 0) <= 0
      BY <2>1, ReceivedType
    <2>3. received(mints[output], 0) \in Nat
      BY <2>1, ReceivedType
    <2> QED
      BY <1>1, <2>2, <2>3
  <1>7. /\ TypeOK' /\ PoolKept
        /\ Traded(input, output, credited, result.destination_amount_swapped)
    BY <1>1, <1>4, <1>5, <1>6, SettleKept
  <1> QED
    BY <1>1, <1>7 DEF credited

\* An exact-output swap settles what the curve asks for: the transfer is grossed
\* up so that exactly that arrives (swap_base_output.rs:9-202).
LEMMA SwapBaseOutputKept ==
  ASSUME IInv, NEW input \in Tokens, NEW output \in Tokens, NEW amount \in U64,
         NEW limit, SwapBaseOutput(input, output, limit, amount)
  PROVE  /\ TypeOK' /\ PoolKept
         /\ LET arrived == output_result(input, output, amount).source_amount_swapped
                paid == with_transfer_fee(output, amount)
            IN
            /\ Traded(input, output, arrived, paid)
            /\ arrived # 0
            /\ with_transfer_fee(input, arrived) <= limit
            /\ received(mints[output], paid) = amount
  <1> DEFINE out == amount + get_transfer_inverse_fee(mints[output], amount)
             x == vault_amount_without_fee(input)
             y == vault_amount_without_fee(output)
             result == swap_base_output(out, x, y, amm_config)
             source == result.source_amount_swapped
             credited == received(mints[input],
                           source + get_transfer_inverse_fee(mints[input], source))
  <1>1. /\ pool_created /\ input # output
        /\ transfer_inverse_fee_defined(mints[output], amount)
        /\ transfer_inverse_fee_defined(mints[input], source)
        /\ swap_base_output_without_fees_defined(out, y)
        /\ settle(input, output, result, credited)
        /\ amount > 0 /\ source > 0
        /\ limit >= source + get_transfer_inverse_fee(mints[input], source)
        /\ output_result(input, output, amount) = result
        /\ with_transfer_fee(input, source) <= limit
        /\ with_transfer_fee(output, amount) = out
    BY DEF SwapBaseOutput, output_swap_passes, output_result, with_transfer_fee
  <1>2. mints[input] \in MintInfos /\ mints[output] \in MintInfos /\ amount \in Nat
    BY WidthAssumption DEF IInv, TypeOK, U64
  <1>3. out \in Nat /\ out # 0 /\ received(mints[output], out) = amount
    <2>1. /\ get_transfer_inverse_fee(mints[output], amount) \in Nat
          /\ received(mints[output], out) = amount
      BY <1>1, <1>2, ReceivedExactly
    <2> QED
      BY <1>1, <1>2, <2>1
  <1>4. x \in Nat \ {0} /\ y \in Nat \ {0} /\ x = Reserve(input) /\ y = Reserve(output)
    BY <1>1, PoolFacts
  <1>5. out < y
    BY <1>1 DEF swap_base_output_without_fees_defined
  <1> HIDE DEF out, x, y
  <1>6. /\ source \in Nat
        /\ result.destination_amount_swapped = out
        /\ result.trade_fee \in Nat /\ result.protocol_fee \in Nat /\ result.fund_fee \in Nat
        /\ result.protocol_fee + result.fund_fee <= result.trade_fee
        /\ result.new_swap_source_amount = x + source
        /\ result.new_swap_destination_amount = y - out
    BY <1>1, <1>3, <1>4, <1>5, RateFacts, SwapBaseOutputResult
  <1> HIDE DEF result
  <1>7. Priced(input, output, result)
    BY <1>3, <1>4, <1>6 DEF Priced
  <1>8. credited = source
    <2> HIDE DEF source
    <2> QED
      BY <1>1, <1>2, <1>6, ReceivedExactly
  <1>9. /\ TypeOK' /\ PoolKept
        /\ Traded(input, output, source, out)
    <2> HIDE DEF credited
    <2> QED
      BY <1>1, <1>3, <1>6, <1>7, <1>8, SettleKept
  <1> QED
    BY <1>1, <1>3, <1>6, <1>9

-----------------------------------------------------------------------------
(* The steps of a pool *)

\* A new pool has positive reserves that back its shares, the locked ones
\* included (initialize.rs:169-353).
LEMMA InitializeKept ==
  ASSUME IInv, NEW init_amount \in [Tokens -> U64], NEW requested_open_time \in U64,
         Initialize(init_amount, requested_open_time)
  PROVE  IInv'
  <1> DEFINE balance == [t \in Tokens |-> received(mints[t], init_amount[t])]
  <1>1. /\ amm_config # NoConfig /\ amm_config' = amm_config
        /\ validate_supply(balance[0], balance[1])
        /\ open_time' = opening_time(requested_open_time)
        /\ vault' = balance /\ protocol_fees' = Zero /\ fund_fees' = Zero
        /\ create_pool_fee_balance' = create_pool_fee_balance + amm_config.create_pool_fee
        /\ create_pool_fee_balance + amm_config.create_pool_fee \in U64
        /\ pool_created' = TRUE /\ recent_epoch' = epoch
        /\ UNCHANGED <<observation_state, status, environment>>
    BY DEF Initialize
  <1>2. PICK liquidity \in U64 :
          /\ is_integer_sqrt(liquidity, balance[0] * balance[1])
          /\ liquidity >= lock_lp_amount
          /\ lp_supply' = liquidity
          /\ lp_mint_supply' = user_lp_amount(liquidity)
    BY DEF Initialize
  <1>3. ASSUME NEW t \in Tokens
        PROVE  balance[t] \in Nat /\ balance[t] \in U64
    <2>1. mints[t] \in MintInfos /\ init_amount[t] \in Nat /\ init_amount[t] <= U64_MAX
      BY WidthAssumption DEF IInv, TypeOK, U64
    <2> DEFINE b == received(mints[t], init_amount[t])
    <2>2. b \in Nat /\ b <= init_amount[t]
      BY <2>1, ReceivedType
    <2> HIDE DEF b
    <2>3. b \in U64
      BY <2>1, <2>2, WidthAssumption DEF U64
    <2> QED
      BY <2>2, <2>3 DEF b
  <1>4. 0 \in U64 /\ Zero \in [Tokens -> U64]
    BY WidthAssumption DEF U64, Zero
  <1>5. /\ lp_supply' \in U64 /\ lp_mint_supply' \in U64
        /\ lp_mint_supply' + lock_lp_amount <= lp_supply'
    BY <1>2, LockAssumption, WidthAssumption DEF user_lp_amount, U64
  <1>6. open_time' \in U64
    <2>1. now \in Nat /\ now <= U64_MAX - 1
      BY PoolAssumption, WidthAssumption DEF IInv, TypeOK
    <2> QED
      BY <1>1, <2>1, WidthAssumption DEF opening_time, block_timestamp, U64
  <1>7. TypeOK'
    <2>1. vault' \in [Tokens -> U64]
      BY <1>1, <1>3
    <2>2. recent_epoch' \in Nat
      BY <1>1, EpochType DEF IInv
    <2> QED
      BY <1>1, <1>4, <1>5, <1>6, <2>1, <2>2
      DEF IInv, TypeOK, ConfigTypeOK, ObservationTypeOK, environment
  <1>8. ASSUME NEW t \in Tokens
        PROVE  Reserve(t)' = balance[t] /\ balance[t] > 0
    <2>1. vault'[t] = balance[t] /\ protocol_fees'[t] = 0 /\ fund_fees'[t] = 0
      BY <1>1 DEF Zero
    <2>2. balance[t] # 0
      BY <1>1 DEF validate_supply, Tokens
    <2> HIDE DEF balance
    <2>3. Reserve(t)' = balance[t]
      BY <1>3, <2>1 DEF Reserve
    <2> QED
      BY <1>3, <2>2, <2>3
  <1>9. Solvent'
    BY <1>8 DEF Solvent
  <1>10. ShareValue'
    <2>1. liquidity * liquidity <= balance[0] * balance[1]
      BY <1>2 DEF is_integer_sqrt
    <2>2. Reserve(0)' = balance[0] /\ Reserve(1)' = balance[1]
      BY <1>8 DEF Tokens
    <2> HIDE DEF balance
    <2> QED
      BY <1>2, <2>1, <2>2 DEF ShareValue
  <1>11. RatesValid' /\ Configured'
    BY <1>1 DEF IInv, RatesValid, Configured
  <1>12. LpBacked'
    BY <1>5 DEF LpBacked
  <1> QED
    BY <1>7, <1>9, <1>10, <1>11, <1>12 DEF IInv

\* Every instruction of the traders keeps the pool.
LEMMA TradingKept ==
  ASSUME IInv, Trading
  PROVE  /\ TypeOK' /\ PoolKept
         /\ pool_created' = pool_created /\ amm_config' = amm_config
  <1>1. /\ \A amount \in Amounts : amount \in U64 /\ amount \in Nat
    BY PoolAssumption, WidthAssumption DEF U64
  <1>2. CASE \E lp_token_amount \in Amounts, limit \in [Tokens -> Limits] :
               \/ Deposit(lp_token_amount, limit)
               \/ Withdraw(lp_token_amount, limit)
    <2>1. PICK lp_token_amount \in Amounts, limit \in [Tokens -> Limits] :
               \/ Deposit(lp_token_amount, limit)
               \/ Withdraw(lp_token_amount, limit)
      BY <1>2
    <2>2. lp_token_amount \in Nat
      BY <1>1
    <2>3. CASE Deposit(lp_token_amount, limit)
      <3>1. pool_created' = pool_created /\ amm_config' = amm_config
        BY <2>3 DEF Deposit
      <3> QED
        BY <2>2, <2>3, <3>1, DepositKept
    <2>4. CASE Withdraw(lp_token_amount, limit)
      <3>1. pool_created' = pool_created /\ amm_config' = amm_config
        BY <2>4 DEF Withdraw, withdrawal_passes
      <3> QED
        BY <2>2, <2>4, <3>1, WithdrawKept
    <2> QED
      BY <2>1, <2>3, <2>4
  <1>3. CASE \E input, output \in Tokens, amount \in Amounts, limit \in Limits :
               \/ SwapBaseInput(input, output, amount, limit)
               \/ SwapBaseOutput(input, output, limit, amount)
    <2>1. PICK input \in Tokens, output \in Tokens, amount \in Amounts, limit \in Limits :
               \/ SwapBaseInput(input, output, amount, limit)
               \/ SwapBaseOutput(input, output, limit, amount)
      BY <1>3
    <2>2. amount \in U64
      BY <1>1
    <2>3. CASE SwapBaseInput(input, output, amount, limit)
      <3>1. pool_created' = pool_created /\ amm_config' = amm_config
        BY <2>3 DEF SwapBaseInput, settle, input_swap_passes
      <3> QED
        BY <2>2, <2>3, <3>1, SwapBaseInputKept
    <2>4. CASE SwapBaseOutput(input, output, limit, amount)
      <3>1. pool_created' = pool_created /\ amm_config' = amm_config
        BY <2>4 DEF SwapBaseOutput, settle, output_swap_passes
      <3> QED
        BY <2>2, <2>4, <3>1, SwapBaseOutputKept
    <2> QED
      BY <2>1, <2>3, <2>4
  <1> QED
    BY <1>2, <1>3 DEF Trading

\* Every instruction of the admin and the fee owners keeps the pool.
LEMMA AdministrationKept ==
  ASSUME IInv, Administration
  PROVE  /\ TypeOK' /\ RatesValid' /\ Configured'
         /\ pool_created' = pool_created
         /\ ReservesStay
         /\ pool_created => PoolKept
  <1>1. CASE UpdateConfig
    BY <1>1, UpdateConfigKept
  <1>2. CASE \E owner \in Keys, requested \in [Tokens -> FeeRequests] :
               \/ CollectProtocolFee(owner, requested)
               \/ CollectFundFee(owner, requested)
    <2>1. PICK owner \in Keys, requested \in [Tokens -> FeeRequests] :
               \/ CollectProtocolFee(owner, requested)
               \/ CollectFundFee(owner, requested)
      BY <1>2
    <2>2. requested \in [Tokens -> Nat]
      <3>1. FeeRequests \subseteq U64
        BY PoolAssumption
      <3>2. FeeRequests \subseteq Nat
        BY <3>1, WidthAssumption DEF U64
      <3> QED
        BY <3>2
    <2>3. pool_created' = pool_created /\ amm_config' = amm_config
      BY <2>1 DEF CollectProtocolFee, CollectFundFee
    <2>4. TypeOK' /\ PoolKept /\ ReservesStay
      BY <2>1, <2>2, CollectProtocolFeeKept, CollectFundFeeKept
    <2> QED
      BY <2>3, <2>4 DEF IInv, RatesValid, Configured
  <1>3. CASE \E authority \in Keys, disabled \in Statuses :
               UpdatePoolStatus(authority, disabled)
    <2>1. PICK authority \in Keys, disabled \in Statuses :
               UpdatePoolStatus(authority, disabled)
      BY <1>3
    <2>2. pool_created' = pool_created /\ amm_config' = amm_config
      BY <2>1 DEF UpdatePoolStatus
    <2>3. TypeOK' /\ PoolKept /\ ReservesStay
      BY <2>1, UpdatePoolStatusKept
    <2> QED
      BY <2>2, <2>3 DEF IInv, RatesValid, Configured
  <1> QED
    BY <1>1, <1>2, <1>3 DEF Administration

\* A step that keeps the pool keeps the invariant.
LEMMA InvariantFromKept ==
  ASSUME IInv, TypeOK', RatesValid', Configured', pool_created' = pool_created,
         pool_created => PoolKept
  PROVE  IInv' /\ (pool_created => KeepsWorth)
  <1>1. CASE pool_created
    <2>1. ShareValue'
      BY <1>1, ShareValueKept
    <2>2. Solvent'
      BY <1>1 DEF PoolKept, Solvent
    <2>3. LpBacked'
      BY <1>1 DEF PoolKept, LpBacked
    <2>4. KeepsWorth
      BY <1>1 DEF PoolKept
    <2> QED
      BY <2>1, <2>2, <2>3, <2>4 DEF IInv
  <1>2. CASE ~pool_created
    BY <1>2 DEF IInv, ShareValue, Solvent, LpBacked
  <1> QED
    BY <1>1, <1>2

\* The inductive step, and what it does to the worth of a share.
LEMMA StepKept ==
  ASSUME IInv, [Next]_vars
  PROVE  IInv' /\ (pool_created => KeepsWorth)
  <1>1. CASE \E init_amount \in [Tokens -> Amounts], requested_open_time \in OpenTimes :
               Initialize(init_amount, requested_open_time)
    <2>1. PICK init_amount \in [Tokens -> Amounts], requested_open_time \in OpenTimes :
               Initialize(init_amount, requested_open_time)
      BY <1>1
    <2>2. init_amount \in [Tokens -> U64] /\ requested_open_time \in U64
      BY PoolAssumption
    <2>3. ~pool_created
      BY <2>1 DEF Initialize
    <2> QED
      BY <2>1, <2>2, <2>3, InitializeKept
  <1>2. CASE Trading
    <2>1. /\ TypeOK' /\ PoolKept
          /\ pool_created' = pool_created /\ amm_config' = amm_config
      BY <1>2, TradingKept
    <2>2. RatesValid' /\ Configured'
      BY <2>1 DEF IInv, RatesValid, Configured
    <2> QED
      BY <2>1, <2>2, InvariantFromKept
  <1>3. CASE Administration
    BY <1>3, AdministrationKept, InvariantFromKept
  <1>4. CASE Environment
    <2>1. /\ TypeOK' /\ amm_config' = amm_config
          /\ pool_created' = pool_created
          /\ pool_created => PoolKept
      BY <1>4, EnvironmentKept
    <2>2. RatesValid' /\ Configured'
      BY <2>1 DEF IInv, RatesValid, Configured
    <2> QED
      BY <2>1, <2>2, InvariantFromKept
  <1>5. CASE UNCHANGED vars
    <2>1. /\ amm_config' = amm_config /\ pool_created' = pool_created
          /\ lp_supply' = lp_supply /\ lp_mint_supply' = lp_mint_supply
          /\ vault' = vault /\ protocol_fees' = protocol_fees /\ fund_fees' = fund_fees
      BY <1>5 DEF vars, pool_state
    <2>2. TypeOK'
      BY <1>5
      DEF vars, pool_state, environment, IInv, TypeOK, ConfigTypeOK, ObservationTypeOK
    <2>3. RatesValid' /\ Configured'
      BY <2>1 DEF IInv, RatesValid, Configured
    <2>4. pool_created => PoolKept
      BY <2>1, UntouchedKept
    <2> QED
      BY <2>1, <2>2, <2>3, <2>4, InvariantFromKept
  <1> QED
    BY <1>1, <1>2, <1>3, <1>4, <1>5 DEF Next

\* No pool exists at first.
LEMMA InitInvariant ==
  ASSUME Init
  PROVE  IInv
  <1>1. ConfigTypeOK /\ RatesValid /\ amm_config = NoConfig
    BY DEF Init, ConfigInit, ConfigTypeOK, RatesValid
  <1>2. 0 \in U64 /\ Zero \in [Tokens -> U64]
    BY WidthAssumption DEF U64, Zero
  <1>3. ObservationTypeOK
    <2>1. 0 \in 0 .. OBSERVATION_NUM - 1 /\ 0 \in 0 .. CUMULATIVE_MODULUS - 1
      BY ObservationAssumption
    <2>2. ZeroObservation \in Observations
      BY <1>2, <2>1 DEF ZeroObservation, Observations
    <2> QED
      BY <2>1, <2>2 DEF Init, ObservationInit, ObservationTypeOK
  <1>4. mints \in [Tokens -> MintInfos] /\ now \in 0 .. MaxTime
    BY PoolAssumption DEF Init
  <1>5. TypeOK
    BY <1>1, <1>2, <1>3, <1>4 DEF Init, TypeOK
  <1> QED
    BY <1>1, <1>5 DEF Init, IInv, Configured, Solvent, LpBacked, ShareValue

-----------------------------------------------------------------------------
(* Theorems *)

\* The inductive invariant holds in every behaviour of a pool.
THEOREM Invariance == Spec => []IInv
  <1>1. Init => IInv
    BY InitInvariant
  <1>2. IInv /\ [Next]_vars => IInv'
    BY StepKept
  <1> QED
    BY <1>1, <1>2, PTL DEF Spec

\* Amounts, fee counters, times and the oracle's ring stay within their widths
\* in every step of every instruction: no handler commits a wrapped value.
THEOREM TypeCorrect == Spec => []TypeOK
  <1>1. IInv => TypeOK
    BY DEF IInv
  <1> QED
    BY <1>1, Invariance, PTL

\* In every behaviour the vaults hold the fees owed and something over, so the
\* unwraps of pool.rs:113-121 and the divisions of pool.rs:127-128 never panic.
THEOREM AlwaysSolvent == Spec => []Solvent
  <1>1. IInv => Solvent
    BY DEF IInv
  <1> QED
    BY <1>1, Invariance, PTL

\* In every behaviour the pool counts the locked shares and every share that
\* exists (initialize.rs:300-304, deposit.rs and withdraw.rs after it).
THEOREM AlwaysLpBacked == Spec => []LpBacked
  <1>1. IInv => LpBacked
    BY DEF IInv
  <1> QED
    BY <1>1, Invariance, PTL

\* In every behaviour the shares stay below the root of the reserves' product,
\* as initialize.rs:295-299 made them.
THEOREM AlwaysShareValue == Spec => []ShareValue
  <1>1. IInv => ShareValue
    BY DEF IInv
  <1> QED
    BY <1>1, Invariance, PTL

\* No step of anyone lowers the worth of a share: the roundings of the curve, of
\* deposits and of withdrawals and both kinds of fees favour who stays.
THEOREM NeverDiluted == Spec => NoDilution
  <1>1. Init => IInv
    BY InitInvariant
  <1>2. IInv /\ [Next]_vars => IInv'
    BY StepKept
  <1>3. IInv /\ [Next]_vars
          => [pool_created =>
                Reserve(0) * Reserve(1) * (lp_supply' * lp_supply')
                  <= Reserve(0)' * Reserve(1)' * (lp_supply * lp_supply)]_vars
    BY StepKept DEF KeepsWorth
  <1> QED
    BY <1>1, <1>2, <1>3, PTL DEF Spec, NoDilution

-----------------------------------------------------------------------------
(* The market the share holders are promised *)

\* A pool that exists has reserves of both tokens and shares.
LEMMA MarketFunded ==
  ASSUME IInv', pool_created'
  PROVE  Market!StaysFunded
  <1>1. lp_supply' \in Nat \ {0}
    <2>1. lp_supply' \in Nat /\ lp_mint_supply' \in Nat
      BY WidthAssumption DEF IInv, TypeOK, U64
    <2>2. lp_mint_supply' + lock_lp_amount <= lp_supply'
      BY DEF IInv, LpBacked
    <2>3. \A m, n \in Nat : m + lock_lp_amount <= n => n # 0
      BY LockAssumption
    <2> QED
      BY <2>1, <2>2, <2>3
  <1>2. ASSUME NEW t \in Tokens
        PROVE  Reserve(t)' \in Nat \ {0}
    <2>1. vault'[t] \in Int /\ protocol_fees'[t] \in Int /\ fund_fees'[t] \in Int
      BY WidthAssumption DEF IInv, TypeOK, U64
    <2>2. Reserve(t)' \in Int
      BY <2>1 DEF Reserve
    <2>3. Reserve(t)' > 0
      BY DEF IInv, Solvent
    <2> QED
      BY <2>2, <2>3
  <1>3. reserve' \in [Tokens -> Nat \ {0}]
    BY <1>2 DEF reserve
  <1> QED
    BY <1>1, <1>3 DEF Market!StaysFunded, Market!Sides, Tokens

\* How the market reads a side of the pool.
LEMMA MarketReserve ==
  ASSUME NEW t \in Tokens
  PROVE  reserve[t] = Reserve(t) /\ reserve'[t] = Reserve(t)'
  BY DEF reserve

\* A step after which the pool is as open as before and that is one of the market's.
LEMMA MarketContinues ==
  ASSUME pool_created, pool_created' = pool_created, IInv',
         Market!Join \/ Market!Exit \/ Market!Trade \/ Market!Gift
  PROVE  Market!Next
  BY MarketFunded DEF Market!Next

\* A step that the market does not see.
LEMMA MarketStutters ==
  ASSUME pool_created' = pool_created, ReservesStay
  PROVE  UNCHANGED Market!market
  BY DEF Market!market, reserve, ReservesStay

\* A deposit joins and a withdrawal leaves the market, a swap trades in it.
LEMMA TradingInMarket ==
  ASSUME IInv, IInv', Trading
  PROVE  Market!Next
  <1>1. \A amount \in Amounts : amount \in U64 /\ amount \in Nat
    BY PoolAssumption, WidthAssumption DEF U64
  <1>2. ASSUME pool_created, \A t \in Tokens : KeepsPart(t)
        PROVE  \A t \in Tokens : Market!KeepsShare(t)
    <2>1. ASSUME NEW t \in Tokens
          PROVE  Market!KeepsShare(t)
      <3> DEFINE a == Reserve(t) * lp_supply'
                 b == Reserve(t)' * lp_supply
      <3>1. a <= b /\ a \in Int /\ b \in Int
        <4>1. Reserve(t) \in Int /\ lp_supply \in Int /\ lp_supply' \in Int
          BY <1>2, PoolFacts, WidthAssumption DEF IInv, TypeOK, U64
        <4>2. vault'[t] \in Int /\ protocol_fees'[t] \in Int /\ fund_fees'[t] \in Int
          BY WidthAssumption DEF IInv, TypeOK, U64
        <4>3. Reserve(t)' \in Int
          BY <4>2 DEF Reserve
        <4> QED
          BY <1>2, <4>1, <4>3 DEF KeepsPart
      <3>2. b >= a
        <4> HIDE DEF a, b
        <4> QED
          BY <3>1
      <3> QED
        BY <3>2, MarketReserve DEF Market!KeepsShare
    <2> QED
      BY <2>1
  <1>3. ASSUME NEW lp_token_amount \in Amounts, NEW limit,
               Deposit(lp_token_amount, limit)
        PROVE  Market!Next
    <2>1. /\ pool_created /\ pool_created' = pool_created
          /\ lp_supply' = lp_supply + lp_token_amount /\ lp_token_amount > 0
      BY <1>3 DEF Deposit
    <2>2. \A t \in Tokens : KeepsPart(t)
      BY <1>1, <1>3, DepositKept
    <2>3. lp_supply' > lp_supply
      BY <1>1, <2>1, PoolFacts
    <2>4. Market!Join
      BY <1>2, <2>1, <2>2, <2>3 DEF Market!Join, Market!Sides, Tokens
    <2> QED
      BY <2>1, <2>4, MarketContinues
  <1>4. ASSUME NEW lp_token_amount \in Amounts, NEW limit,
               Withdraw(lp_token_amount, limit)
        PROVE  Market!Next
    <2>1. /\ pool_created /\ pool_created' = pool_created
          /\ lp_supply' = lp_supply - lp_token_amount /\ lp_token_amount > 0
      BY <1>4 DEF Withdraw, withdrawal_passes
    <2>2. \A t \in Tokens : KeepsPart(t) /\ \E paid : Left(t, paid)
      BY <1>1, <1>4, WithdrawKept
    <2>3. lp_supply' < lp_supply
      BY <1>1, <2>1, PoolFacts
    <2>4. ASSUME NEW t \in Tokens
          PROVE  reserve'[t] < reserve[t]
      <3>1. PICK paid : Left(t, paid)
        BY <2>2
      <3>2. Reserve(t) \in Nat /\ paid \in Nat \ {0} /\ Reserve(t)' = Reserve(t) - paid
        BY <2>1, <3>1, PoolFacts DEF Left
      <3> QED
        BY <3>2, MarketReserve
    <2>5. Market!Exit
      BY <1>2, <2>1, <2>2, <2>3, <2>4 DEF Market!Exit, Market!Sides, Tokens
    <2> QED
      BY <2>1, <2>5, MarketContinues
  <1>5. ASSUME NEW input \in Tokens, NEW output \in Tokens, input # output,
               NEW arrived, NEW paid, Traded(input, output, arrived, paid),
               pool_created, pool_created' = pool_created, lp_supply' = lp_supply
        PROVE  Market!Next
    <2> DEFINE x == Reserve(input)
               y == Reserve(output)
               x1 == Reserve(input)'
               y1 == Reserve(output)'
    <2>1. /\ x \in Nat \ {0} /\ y \in Nat \ {0} /\ x * y <= x1 * y1
          /\ y1 = y - paid /\ paid \in Nat \ {0}
      BY <1>5, PoolFacts DEF Traded, Left
    <2>2. x1 \in Nat \ {0} /\ y1 \in Nat \ {0}
      <3>1. reserve' \in [Tokens -> Nat \ {0}]
        BY <1>5, MarketFunded DEF Market!StaysFunded, Market!Sides, Tokens
      <3> QED
        BY <3>1, MarketReserve
    <2>3. reserve[input] = x /\ reserve[output] = y /\ reserve'[input] = x1
          /\ reserve'[output] = y1
      BY MarketReserve
    <2>4. output = 1 - input /\ input \in Market!Sides
      BY <1>5 DEF Tokens, Market!Sides
    <2> HIDE DEF x, y, x1, y1
    <2>5. y1 < y
      BY <2>1, <2>2
    <2>6. x1 > x
      <3>1. x1 * y1 < x1 * y
        BY <2>1, <2>2, <2>5
      <3>2. x * y < x1 * y
        BY <2>1, <2>2, <3>1
      <3> QED
        BY <2>1, <2>2, <3>2, CancelStrict
    <2>7. reserve'[0] * reserve'[1] >= reserve[0] * reserve[1]
      <3>1. x1 * y1 >= x * y /\ y1 * x1 >= y * x
        BY <2>1, <2>2
      <3>2. (input = 0 /\ output = 1) \/ (input = 1 /\ output = 0)
        BY <2>4 DEF Market!Sides
      <3> QED
        BY <2>3, <3>1, <3>2
    <2>8. Market!Trade
      BY <1>5, <2>3, <2>4, <2>5, <2>6, <2>7 DEF Market!Trade
    <2> QED
      BY <1>5, <2>8, MarketContinues
  <1>6. ASSUME NEW input \in Tokens, NEW output \in Tokens, NEW amount \in Amounts,
               NEW limit, SwapBaseInput(input, output, amount, limit)
        PROVE  Market!Next
    <2>1. /\ pool_created /\ pool_created' = pool_created /\ lp_supply' = lp_supply
          /\ input # output
      BY <1>6 DEF SwapBaseInput, settle, input_swap_passes
    <2>2. \E paid : Traded(input, output, received(mints[input], amount), paid)
      BY <1>1, <1>6, SwapBaseInputKept
    <2> QED
      BY <1>5, <2>1, <2>2
  <1>7. ASSUME NEW input \in Tokens, NEW output \in Tokens, NEW amount \in Amounts,
               NEW limit, SwapBaseOutput(input, output, limit, amount)
        PROVE  Market!Next
    <2>1. /\ pool_created /\ pool_created' = pool_created /\ lp_supply' = lp_supply
          /\ input # output
      BY <1>7 DEF SwapBaseOutput, settle, output_swap_passes
    <2>2. \E arrived, paid : Traded(input, output, arrived, paid)
      BY <1>1, <1>7, SwapBaseOutputKept
    <2> QED
      BY <1>5, <2>1, <2>2
  <1> QED
    BY <1>3, <1>4, <1>6, <1>7 DEF Trading

\* A gift of tokens is one to the share holders, unless nothing of it arrives.
LEMMA EnvironmentInMarket ==
  ASSUME IInv, IInv', Environment
  PROVE  Market!Next \/ UNCHANGED Market!market
  <1>1. CASE \E t \in Tokens, amount \in Donations : Donate(t, amount)
    <2>1. PICK t \in Tokens, amount \in Donations : Donate(t, amount)
      BY <1>1
    <2> DEFINE credit == received(mints[t], amount)
    <2>2. /\ pool_created /\ pool_created' = pool_created /\ lp_supply' = lp_supply
          /\ amount \in U64
      BY <2>1, PoolAssumption DEF Donate, pool_state
    <2>3. credit \in Nat
      <3>1. mints[t] \in MintInfos /\ amount \in Nat
        BY <2>2, WidthAssumption DEF IInv, TypeOK, U64
      <3> QED
        BY <3>1, ReceivedType
    <2>4. \A u \in Tokens : /\ Reserve(u) \in Nat
                            /\ Reserve(u)' = Reserve(u) + IF u = t THEN credit ELSE 0
      BY <2>1, <2>2, DonateKept, PoolFacts
    <2> HIDE DEF credit
    <2>5. CASE credit = 0
      <3>1. \A u \in Tokens : Reserve(u)' = Reserve(u)
        BY <2>4, <2>5
      <3> QED
        BY <2>2, <3>1, MarketStutters DEF ReservesStay
    <2>6. CASE credit > 0
      <3>1. 1 - t \in Tokens /\ 1 - t # t /\ t \in Market!Sides
        BY DEF Tokens, Market!Sides
      <3>2. Reserve(t)' > Reserve(t) /\ Reserve(1 - t)' = Reserve(1 - t)
        BY <2>3, <2>4, <2>6, <3>1
      <3>3. reserve'[t] > reserve[t] /\ reserve'[1 - t] = reserve[1 - t]
        BY <3>1, <3>2, MarketReserve
      <3>4. Market!Gift
        BY <2>2, <3>1, <3>3 DEF Market!Gift
      <3> QED
        BY <2>2, <3>4, MarketContinues
    <2> QED
      BY <2>3, <2>5, <2>6
  <1>2. CASE \/ Tick
             \/ \E amount \in Donations : BurnLp(amount)
             \/ \E t \in Tokens, kind \in MintKinds : ChangeTransferFee(t, kind)
    <2>1. /\ pool_created' = pool_created /\ lp_supply' = lp_supply
          /\ vault' = vault /\ protocol_fees' = protocol_fees /\ fund_fees' = fund_fees
      BY <1>2 DEF Tick, BurnLp, ChangeTransferFee, pool_state
    <2>2. ReservesStay
      BY <2>1 DEF ReservesStay, Reserve
    <2> QED
      BY <2>1, <2>2, MarketStutters
  <1> QED
    BY <1>1, <1>2 DEF Environment

\* Every step of the pool is one of the market or is not seen there.
LEMMA StepInMarket ==
  ASSUME IInv, [Next]_vars
  PROVE  [Market!Next]_(Market!market)
  <1>1. IInv'
    BY StepKept
  <1>2. ASSUME NEW init_amount, NEW requested_open_time,
               Initialize(init_amount, requested_open_time)
        PROVE  Market!Next
    <2>1. ~pool_created /\ pool_created' = TRUE
      BY <1>2 DEF Initialize
    <2>2. lp_supply' * lp_supply' <= Reserve(0)' * Reserve(1)'
      BY <1>1, <2>1 DEF IInv, ShareValue
    <2>3. lp_supply' * lp_supply' <= reserve'[0] * reserve'[1]
      BY <2>2, MarketReserve DEF Tokens
    <2>4. Market!StaysFunded
      BY <1>1, <2>1, MarketFunded
    <2> QED
      BY <2>1, <2>3, <2>4 DEF Market!Next, Market!Open
  <1>3. CASE Administration
    BY <1>3, AdministrationKept, MarketStutters
  <1>4. CASE UNCHANGED vars
    <2>1. pool_created' = pool_created /\ ReservesStay
      BY <1>4 DEF vars, pool_state, ReservesStay, Reserve
    <2> QED
      BY <2>1, MarketStutters
  <1> QED
    BY <1>1, <1>2, <1>3, <1>4, TradingInMarket, EnvironmentInMarket DEF Next

\* The pool implements the market: a deposit pays at least the share it buys of each
\* token, a withdrawal takes at most the share it sells, a swap never lowers the
\* product of the reserves, and neither reserves nor shares run out.
THEOREM PoolIsMarket == Spec => ImplementsMarket
  <1>1. Init => IInv /\ Market!Init
    <2>1. Init => Market!Init
      <3> SUFFICES ASSUME Init PROVE Market!Init
        OBVIOUS
      <3>1. \A t \in Tokens : Reserve(t) = 0
        BY DEF Init, Zero, Reserve
      <3>2. reserve = [t \in Tokens |-> 0]
        BY <3>1 DEF reserve
      <3> QED
        BY <3>2 DEF Init, Market!Init, Market!Sides, Tokens
    <2> QED
      BY <2>1, InitInvariant
  <1>2. IInv /\ [Next]_vars => IInv' /\ [Market!Next]_(Market!market)
    BY StepKept, StepInMarket
  <1> QED
    BY <1>1, <1>2, PTL DEF Spec, ImplementsMarket, Market!Spec

-----------------------------------------------------------------------------
(* Leaving the pool *)

\* HoldersCanExit with the guard of Withdraw for ENABLED: the rest of the action
\* gives each variable one next value.
HoldersPass ==
  /\ pool_created
  /\ "Withdraw" \notin status
  /\ \A t \in Tokens : lp_mint_supply * Reserve(t) >= lp_supply
  => withdrawal_passes(lp_mint_supply, Zero)

\* Shares worth a unit are paid at least a unit.
LEMMA WorthAtLeastUnit ==
  ASSUME NEW shares \in Nat, NEW supply \in Nat \ {0}, NEW amount \in Nat,
         shares * amount >= supply
  PROVE  lp_tokens_to_trading_tokens(shares, supply, amount, "Floor") # 0
  <1> DEFINE product == shares * amount
             q == product \div supply
  <1>1. product \in Nat /\ product >= supply
    OBVIOUS
  <1>2. q \in Nat /\ product < supply * q + supply
    <2> HIDE DEF product
    <2> QED
      BY <1>1, QuotientBounds
  <1>3. q # 0
    <2> HIDE DEF product
    <2>1. CASE q = 0
      <3>1. supply * q = 0
        BY <2>1
      <3> HIDE DEF q
      <3> QED
        BY <1>1, <1>2, <3>1
    <2> QED
      BY <2>1
  <1>4. lp_tokens_to_trading_tokens(shares, supply, amount, "Floor") = q
    BY DEF lp_tokens_to_trading_tokens
  <1> QED
    BY <1>3, <1>4

\* Nothing that can refuse a withdrawal refuses one of all shares.
LEMMA ExitPasses ==
  ASSUME IInv
  PROVE  HoldersPass
  <1> SUFFICES ASSUME pool_created, "Withdraw" \notin status,
                      \A t \in Tokens : lp_mint_supply * Reserve(t) >= lp_supply
               PROVE  withdrawal_passes(lp_mint_supply, Zero)
    BY DEF HoldersPass
  <1> DEFINE worth(t) == lp_tokens_to_trading_tokens(lp_mint_supply, lp_supply,
                           vault_amount_without_fee(t), "Floor")
             paid(t) == withdrawn(lp_mint_supply)[t]
  <1>1. /\ lp_supply \in Nat \ {0} /\ lp_mint_supply \in Nat
        /\ lp_mint_supply < lp_supply
    BY PoolFacts
  <1>2. ASSUME NEW t \in Tokens
        PROVE  /\ paid(t) \in Nat \ {0} /\ paid(t) <= vault[t]
               /\ vault_amount_without_fee(t) >= 0
               /\ received(mints[t], paid(t)) \in Nat
               /\ lp_mint_supply # 0
    <2>1. /\ vault[t] \in Nat /\ Reserve(t) \in Nat \ {0}
          /\ protocol_fees[t] \in Nat /\ fund_fees[t] \in Nat
          /\ vault_amount_without_fee(t) = Reserve(t)
      BY PoolFacts
    <2>2. worth(t) \in Nat /\ worth(t) # 0
      BY <1>1, <2>1, FloorWorth, WorthAtLeastUnit
    <2>3. paid(t) = smaller(Reserve(t), worth(t))
      BY <2>1 DEF withdrawn
    <2> HIDE DEF worth, paid
    <2>4. paid(t) \in Nat \ {0} /\ paid(t) <= Reserve(t)
      BY <2>1, <2>2, <2>3 DEF smaller
    <2>5. Reserve(t) <= vault[t]
      BY <2>1 DEF Reserve
    <2>6. received(mints[t], paid(t)) \in Nat
      BY <2>4, ReceivedType DEF IInv, TypeOK
    <2>7. lp_mint_supply # 0
      <3>1. CASE lp_mint_supply = 0
        <4>1. lp_mint_supply * Reserve(t) = 0
          BY <2>1, <3>1
        <4> QED
          BY <1>1, <4>1
      <3> QED
        BY <3>1
    <2> QED
      BY <2>1, <2>4, <2>5, <2>6, <2>7
  <1> HIDE DEF paid
  <1>3. ASSUME NEW t \in Tokens
        PROVE  /\ paid(t) # 0
               /\ received(mints[t], paid(t)) >= Zero[t]
               /\ paid(t) <= vault[t]
    BY <1>2 DEF Zero
  <1>4. lp_mint_supply > 0 /\ lp_mint_supply <= lp_mint_supply
        /\ lp_mint_supply <= lp_supply /\ lp_supply > 0
    BY <1>1, <1>2 DEF Tokens
  <1>5. vault_amount_defined
    BY <1>2 DEF vault_amount_defined
  <1> QED
    BY <1>3, <1>4, <1>5 DEF withdrawal_passes, get_status_by_bit, paid

\* As long as withdrawals are not disabled nothing in withdraw.rs:107-232 refuses
\* the holders all their shares, if they are worth a unit of each token, whatever
\* fees are owed, tokens given away and whatever the transfer fees are.
THEOREM HoldersNeverRefused == Spec => []HoldersPass
  BY Invariance, ExitPasses, PTL

-----------------------------------------------------------------------------
(* Swaps settle *)

\* What the checks of a settlement rest on: the price keeps the product, and what
\* a swap adds to the fees owed arrives with its input.
LEMMA SettlementFunded ==
  ASSUME IInv, pool_created, NEW input \in Tokens, NEW output \in Tokens,
         NEW result, Priced(input, output, result),
         NEW credited, credited = result.source_amount_swapped,
         credited \in U64, vault[input] + credited \in U64,
         result.trade_fee <= credited,
         result.destination_amount_swapped <= Reserve(output),
         (Reserve(input) + credited - result.trade_fee)
             * (Reserve(output) - result.destination_amount_swapped)
           >= Reserve(input) * Reserve(output)
  PROVE  settlement_passes(input, output, result, credited)
  <1> DEFINE out == result.destination_amount_swapped
             fee == result.trade_fee
             p == result.protocol_fee
             f == result.fund_fee
             x == Reserve(input)
             y == Reserve(output)
  <1>1. /\ credited \in Nat /\ out \in Nat /\ fee \in Nat /\ p \in Nat /\ f \in Nat
        /\ p + f <= fee /\ fee <= credited
        /\ result.new_swap_source_amount = x + credited
        /\ result.new_swap_destination_amount = y - out
    BY DEF Priced
  <1>2. /\ vault_amount_without_fee(input) = x /\ vault_amount_without_fee(output) = y
        /\ x \in Nat \ {0} /\ y \in Nat \ {0}
        /\ x = vault[input] - protocol_fees[input] - fund_fees[input]
        /\ y = vault[output] - protocol_fees[output] - fund_fees[output]
    BY PoolFacts DEF Reserve
  <1>3. \A t \in Tokens :
          vault[t] \in Nat /\ protocol_fees[t] \in Nat /\ fund_fees[t] \in Nat
    BY PoolFacts
  <1>4. out <= y /\ (x + credited - fee) * (y - out) >= x * y
    OBVIOUS
  <1>5. vault[input] + credited \in Nat /\ vault[input] + credited <= U64_MAX
    BY WidthAssumption DEF U64
  <1> HIDE DEF out, fee, p, f, x, y
  <1>6. protocol_fees[input] + p \in U64 /\ fund_fees[input] + f \in U64
    <2>1. protocol_fees[input] <= vault[input] /\ fund_fees[input] <= vault[input]
      BY <1>2, <1>3
    <2>2. p <= credited /\ f <= credited
      BY <1>1
    <2> QED
      BY <1>1, <1>3, <1>5, <2>1, <2>2, WidthAssumption DEF U64
  <1>7. fee <= x + credited /\ y - out >= 0 /\ out <= vault[output]
    BY <1>1, <1>2, <1>3, <1>4
  <1> QED
    <2>1. /\ result.source_amount_swapped \in U64
          /\ result.trade_fee <= result.new_swap_source_amount
          /\ result.new_swap_destination_amount >= 0
          /\ (result.new_swap_source_amount - result.trade_fee)
                 * result.new_swap_destination_amount
               >= vault_amount_without_fee(input) * vault_amount_without_fee(output)
      BY <1>1, <1>2, <1>4, <1>7 DEF fee
    <2> QED
      BY <1>6, <1>7, <2>1 DEF settlement_passes, out, p, f

\* An exact-input swap at the price of the curve keeps the product.
LEMMA InputSwapSettles ==
  ASSUME IInv, NEW input \in Tokens, NEW output \in Tokens, NEW amount \in U64,
         NEW limit, input_swap_passes(input, output, amount, limit),
         vault[input] + received(mints[input], amount) \in U64
  PROVE  settlement_passes(input, output, input_result(input, output, amount),
                           received(mints[input], amount))
  <1> DEFINE credited == received(mints[input], amount)
             x == Reserve(input)
             y == Reserve(output)
             result == input_result(input, output, amount)
             fee == trading_fee(credited, amm_config.trade_fee_rate)
             out == swap_base_input_without_fees(credited - fee, x, y)
  <1>1. pool_created /\ credited > 0
    BY DEF input_swap_passes
  <1>2. credited \in Nat \ {0} /\ credited \in U64
    <2>1. mints[input] \in MintInfos /\ amount \in Nat /\ amount <= U64_MAX
      BY WidthAssumption DEF IInv, TypeOK, U64
    <2>2. credited \in Nat /\ credited <= amount
      BY <2>1, ReceivedType
    <2> QED
      BY <1>1, <2>1, <2>2, WidthAssumption DEF U64
  <1>3. x \in Nat \ {0} /\ y \in Nat \ {0}
        /\ result = swap_base_input(credited, x, y, amm_config)
    BY <1>1, PoolFacts DEF input_result
  <1> HIDE DEF credited, x, y, result
  <1>4. /\ result.source_amount_swapped = credited
        /\ result.destination_amount_swapped \in Nat
        /\ result.trade_fee \in Nat /\ result.protocol_fee \in Nat /\ result.fund_fee \in Nat
        /\ result.protocol_fee + result.fund_fee <= result.trade_fee
        /\ result.new_swap_source_amount = x + credited
        /\ result.new_swap_destination_amount = y - result.destination_amount_swapped
    <2>1. LET r == swap_base_input(credited, x, y, amm_config) IN
          /\ r.source_amount_swapped = credited
          /\ r.destination_amount_swapped \in Nat
          /\ r.trade_fee \in Nat /\ r.protocol_fee \in Nat /\ r.fund_fee \in Nat
          /\ r.protocol_fee + r.fund_fee <= r.trade_fee
          /\ r.new_swap_source_amount = x + credited
          /\ r.new_swap_destination_amount = y - r.destination_amount_swapped
      <3>1. credited \in Nat \ {0} /\ x \in Nat /\ x > 0 /\ y \in Nat
        BY <1>2, <1>3
      <3>2. /\ amm_config.trade_fee_rate \in Nat
            /\ amm_config.protocol_fee_rate \in Nat
            /\ amm_config.fund_fee_rate \in Nat
            /\ amm_config.trade_fee_rate < FEE_RATE_DENOMINATOR_VALUE
            /\ amm_config.protocol_fee_rate + amm_config.fund_fee_rate
                 <= FEE_RATE_DENOMINATOR_VALUE
        BY <1>1, RateFacts
      <3> QED
        BY ONLY <3>1, <3>2, SwapBaseInputResult
    <2> QED
      BY <1>3, <2>1
  <1>5. result.trade_fee = fee /\ result.destination_amount_swapped = out
    BY <1>3 DEF swap_base_input, SwapResult
  <1>6. fee \in Nat /\ fee <= credited
    <2>1. amm_config.trade_fee_rate \in Nat
          /\ amm_config.trade_fee_rate <= FEE_RATE_DENOMINATOR_VALUE
      BY <1>1, RateFacts, FeeDenominatorAssumption
    <2> QED
      BY <1>2, <2>1, TradingFeeAtMost
  <1> HIDE DEF fee
  <1>7. /\ out \in Nat /\ out <= y
        /\ (x + credited - fee) * (y - out) >= x * y
    <2> DEFINE net == credited - fee
    <2>1. net \in Nat
      BY <1>2, <1>6
    <2> HIDE DEF net
    <2>2. LET o == swap_base_input_without_fees(net, x, y) IN
          o \in Nat /\ (x + net) * (y - o) >= x * y
      BY <1>3, <2>1, LargestOutput
    <2>3. out \in Nat /\ (x + net) * (y - out) >= x * y
      BY <2>2 DEF net
    <2> HIDE DEF out
    <2>4. x + net \in Nat \ {0} /\ x * y > 0 /\ x + net = x + credited - fee
      BY <1>2, <1>3, <1>6, <2>1 DEF net
    <2>5. out <= y
      <3> SUFFICES ASSUME y - out < 0
                   PROVE  FALSE
        BY <1>3, <2>3
      <3>1. (x + net) * (y - out) < 0
        BY <1>3, <2>3, <2>4
      <3> QED
        BY <1>3, <2>3, <2>4, <3>1
    <2> QED
      BY <2>3, <2>4, <2>5
  <1>8. Priced(input, output, result)
    BY <1>2, <1>4 DEF Priced, x, y
  <1>9. vault[input] + credited \in U64
    BY DEF credited
  <1> HIDE DEF out
  <1>10. settlement_passes(input, output, result, credited)
    BY <1>1, <1>2, <1>4, <1>5, <1>6, <1>7, <1>8, <1>9, SettlementFunded DEF x, y
  <1> QED
    BY <1>10 DEF result, credited

\* An exact-output swap is charged what keeps the product.
LEMMA OutputSwapSettles ==
  ASSUME IInv, NEW input \in Tokens, NEW output \in Tokens, NEW amount \in U64,
         NEW limit, output_swap_passes(input, output, limit, amount),
         NEW source, source = output_result(input, output, amount).source_amount_swapped,
         vault[input] + source \in U64
  PROVE  settlement_passes(input, output, output_result(input, output, amount),
                           received(mints[input], with_transfer_fee(input, source)))
  <1> DEFINE actual == with_transfer_fee(output, amount)
             x == Reserve(input)
             y == Reserve(output)
             result == output_result(input, output, amount)
             rate == amm_config.trade_fee_rate
             net == swap_base_output_without_fees(actual, x, y)
  <1>1. /\ pool_created /\ amount > 0 /\ source > 0
        /\ transfer_inverse_fee_defined(mints[output], amount)
        /\ transfer_inverse_fee_defined(mints[input], source)
        /\ with_transfer_fee(input, source) \in U64
        /\ actual \in U64
        /\ actual < vault_amount_without_fee(output)
    BY DEF output_swap_passes, swap_base_output_without_fees_defined
  <1>2. mints[input] \in MintInfos /\ mints[output] \in MintInfos /\ amount \in Nat
    BY WidthAssumption DEF IInv, TypeOK, U64
  <1>3. /\ x \in Nat \ {0} /\ y \in Nat \ {0} /\ actual \in Nat /\ actual < y
        /\ result = swap_base_output(actual, x, y, amm_config)
    BY <1>1, PoolFacts, WidthAssumption DEF output_result, U64
  <1>4. rate \in Nat /\ rate < FEE_RATE_DENOMINATOR_VALUE
    BY <1>1, RateFacts
  <1> HIDE DEF actual, x, y, result, rate
  <1>5. /\ result.source_amount_swapped = source /\ source \in Nat
        /\ result.destination_amount_swapped = actual
        /\ result.trade_fee \in Nat /\ result.protocol_fee \in Nat /\ result.fund_fee \in Nat
        /\ result.protocol_fee + result.fund_fee <= result.trade_fee
        /\ result.new_swap_source_amount = x + source
        /\ result.new_swap_destination_amount = y - actual
    <2> DEFINE r == swap_base_output(actual, x, y, amm_config)
    <2>1. /\ r.source_amount_swapped \in Nat
          /\ r.destination_amount_swapped = actual
          /\ r.trade_fee \in Nat /\ r.protocol_fee \in Nat /\ r.fund_fee \in Nat
          /\ r.protocol_fee + r.fund_fee <= r.trade_fee
          /\ r.new_swap_source_amount = x + r.source_amount_swapped
          /\ r.new_swap_destination_amount = y - actual
      <3>1. actual \in Nat /\ x \in Nat /\ y \in Nat /\ actual < y
        BY <1>3
      <3>2. /\ amm_config.trade_fee_rate \in Nat
            /\ amm_config.protocol_fee_rate \in Nat
            /\ amm_config.fund_fee_rate \in Nat
            /\ amm_config.trade_fee_rate < FEE_RATE_DENOMINATOR_VALUE
            /\ amm_config.protocol_fee_rate + amm_config.fund_fee_rate
                 <= FEE_RATE_DENOMINATOR_VALUE
        BY <1>1, RateFacts
      <3> QED
        BY <3>1, <3>2, SwapBaseOutputResult
    <2> HIDE DEF r
    <2>2. result = r /\ result.source_amount_swapped = source
      BY <1>3 DEF r, result
    <2> QED
      BY <2>1, <2>2
  <1>6. /\ source = calculate_pre_fee_amount(net, rate)
        /\ result.trade_fee = trading_fee(source, rate)
    BY <1>3, <1>5 DEF swap_base_output, SwapResult, rate
  <1>7. /\ net \in Nat /\ source - result.trade_fee = net
        /\ (x + net) * (y - actual) >= x * y
    <2> HIDE DEF net
    <2>1. net = swap_base_output_without_fees(actual, x, y)
      BY DEF net
    <2> QED
      BY <1>1, <1>3, <1>4, <1>6, <2>1, SmallestInput
  <1> HIDE DEF net
  <1>8. received(mints[input], with_transfer_fee(input, source)) = source
    BY <1>1, <1>2, <1>5, ReceivedExactly DEF with_transfer_fee
  <1>9. source \in U64
    <2>1. get_transfer_inverse_fee(mints[input], source) \in Nat
      BY <1>1, <1>2, <1>5, ReceivedExactly
    <2> QED
      BY <1>1, <1>5, <2>1, WidthAssumption DEF with_transfer_fee, U64
  <1>10. /\ result.trade_fee <= source /\ actual <= y
         /\ (x + source - result.trade_fee) * (y - actual) >= x * y
    <2>1. x + source - result.trade_fee = x + net
      BY <1>3, <1>5, <1>7
    <2> QED
      BY <1>3, <1>5, <1>7, <2>1
  <1>11. Priced(input, output, result)
    BY <1>3, <1>5 DEF Priced, x, y
  <1>12. settlement_passes(input, output, result, source)
    BY <1>1, <1>5, <1>9, <1>10, <1>11, SettlementFunded DEF x, y
  <1> QED
    BY <1>8, <1>12 DEF result

\* In every state of the pool, for all widths, rates and mints: a swap that has a
\* price its signer accepts settles (swap_base_input.rs:205-252,
\* swap_base_output.rs:140-190).  The curve's own check never refuses, no counter
\* of owed fees blocks a side of the pool, the output is always in the vault.
THEOREM SwapsNeverRefused == Spec => []SwapsAlwaysSettle
  <1>1. ASSUME IInv
        PROVE  SwapsAlwaysSettle
    <2> SUFFICES ASSUME NEW input \in Tokens, NEW amount \in Amounts
                 PROVE  LET output == opposite(input)
                            bought == output_result(input, output, amount)
                        IN
                        /\ /\ input_swap_passes(input, output, amount, 0)
                           /\ vault[input] + received(mints[input], amount) \in U64
                           => settlement_passes(input, output,
                                input_result(input, output, amount),
                                received(mints[input], amount))
                        /\ /\ output_swap_passes(input, output, U64_MAX, amount)
                           /\ vault[input] + bought.source_amount_swapped \in U64
                           => settlement_passes(input, output, bought,
                                received(mints[input],
                                  with_transfer_fee(input, bought.source_amount_swapped)))
      BY DEF SwapsAlwaysSettle
    <2>1. opposite(input) \in Tokens /\ amount \in U64
      BY PoolAssumption DEF opposite, Tokens
    <2> QED
      BY <1>1, <2>1, InputSwapSettles, OutputSwapSettles
  <1> QED
    BY <1>1, Invariance, PTL

\* What the oracle multiplies at a swap fits its integral.
PricesFit ==
  pool_created =>
    \A t \in Tokens :
      quoted_price[t] * delta_time(block_timestamp) < CUMULATIVE_MODULUS

LEMMA PriceAtMost ==
  ASSUME IInv, pool_created, NEW t \in Tokens
  PROVE  quoted_price[t] \in Nat /\ quoted_price[t] <= U64_MAX * Q32
  <1> DEFINE a == vault_amount_without_fee(opposite(t))
             b == vault_amount_without_fee(t)
             n == a * Q32
  <1>1. opposite(t) \in Tokens
    BY DEF opposite, Tokens
  <1>2. a \in Nat /\ a <= U64_MAX /\ b \in Nat \ {0}
    <2>1. vault[opposite(t)] <= U64_MAX
      BY <1>1, WidthAssumption DEF IInv, TypeOK, U64
    <2>2. /\ vault[opposite(t)] \in Nat /\ protocol_fees[opposite(t)] \in Nat
          /\ fund_fees[opposite(t)] \in Nat
          /\ a = Reserve(opposite(t)) /\ a \in Nat /\ b \in Nat \ {0}
      BY <1>1, PoolFacts
    <2> HIDE DEF a, b
    <2>3. a <= vault[opposite(t)]
      BY <2>2 DEF Reserve
    <2> QED
      BY <2>1, <2>2, <2>3, WidthAssumption
  <1>3. Q32 \in Nat /\ U64_MAX \in Nat
    BY PoolAssumption, WidthAssumption
  <1>4. quoted_price[t] = n \div b
    BY DEF quoted_price, token_price_x32
  <1> HIDE DEF a, b
  <1>5. n \in Nat /\ n <= U64_MAX * Q32
    BY <1>2, <1>3, ProductMonotone
  <1> HIDE DEF n
  <1>6. n \div b \in Nat /\ b * (n \div b) <= n
    BY <1>2, <1>5, QuotientBounds
  <1>7. n \div b <= n
    <2> DEFINE q == n \div b
    <2>1. q \in Nat /\ b * q <= n
      BY <1>6
    <2> HIDE DEF q
    <2>2. 1 * q <= b * q
      BY <1>2, <2>1, ProductMonotone
    <2>3. q <= n
      BY <1>2, <1>5, <2>1, <2>2
    <2> QED
      BY <2>3 DEF q
  <1>8. U64_MAX * Q32 \in Nat
    BY <1>3
  <1> QED
    BY <1>4, <1>5, <1>6, <1>7, <1>8

\* The checked products of oracle.rs:61-66 refuse no swap before the clock has run
\* for 2^32 seconds: a price is at most U64_MAX * Q32, the integral has 128 bits.
THEOREM OracleNeverRefuses ==
  ASSUME U64_MAX * Q32 * MaxTime < CUMULATIVE_MODULUS
  PROVE  Spec => []PricesFit
  <1>1. ASSUME IInv
        PROVE  PricesFit
    <2> SUFFICES ASSUME pool_created, NEW t \in Tokens
                 PROVE  quoted_price[t] * delta_time(block_timestamp) < CUMULATIVE_MODULUS
      BY DEF PricesFit
    <2> DEFINE p == quoted_price[t]
               d == delta_time(block_timestamp)
               m == U64_MAX * Q32
    <2>1. p \in Nat /\ p <= m
      BY <1>1, PriceAtMost
    <2>2. m \in Nat /\ MaxTime \in Nat /\ CUMULATIVE_MODULUS \in Nat
      BY PoolAssumption, WidthAssumption, ObservationAssumption
    <2>3. d \in Nat /\ d <= MaxTime
      <3>1. last_observation.block_timestamp \in Nat
        <4>1. /\ observation_state.observation_index \in 0 .. OBSERVATION_NUM - 1
              /\ observation_state.observations \in
                   [0 .. OBSERVATION_NUM - 1 -> Observations]
          BY <1>1 DEF IInv, TypeOK, ObservationTypeOK
        <4>2. last_observation \in Observations
          BY <4>1 DEF last_observation
        <4> QED
          BY <4>2, WidthAssumption DEF Observations, U64
      <3>2. now \in Nat /\ now <= MaxTime
        BY <1>1, <2>2 DEF IInv, TypeOK
      <3> QED
        BY <2>2, <3>1, <3>2 DEF delta_time, block_timestamp
    <2> HIDE DEF p, d
    <2>4. p * d <= m * MaxTime
      <3> HIDE DEF m
      <3> QED
        BY <2>1, <2>2, <2>3, ProductMonotone
    <2>5. p * d \in Nat /\ m * MaxTime \in Nat
      <3> HIDE DEF m
      <3> QED
        BY <2>1, <2>2, <2>3
    <2>6. m * MaxTime < CUMULATIVE_MODULUS
      OBVIOUS
    <2> QED
      BY <2>2, <2>4, <2>5, <2>6 DEF p, d
  <1> QED
    BY <1>1, Invariance, PTL

-----------------------------------------------------------------------------
(* The pool among the other modules *)

\* Only create_amm_config and update_amm_config touch the configuration.
LEMMA OnlyUpdateConfigs ==
  ASSUME Next
  PROVE  [ConfigNext]_amm_config
  <1>1. CASE \E init_amount \in [Tokens -> Amounts], requested_open_time \in OpenTimes :
               Initialize(init_amount, requested_open_time)
    BY <1>1 DEF Initialize
  <1>2. CASE Trading
    BY <1>2 DEF Trading, Deposit, Withdraw, SwapBaseInput, SwapBaseOutput, settle
  <1>3. CASE Administration
    BY <1>3 DEF Administration, UpdateConfig, CollectProtocolFee, CollectFundFee,
       UpdatePoolStatus
  <1>4. CASE Environment
    BY <1>4 DEF Environment, Tick, Donate, BurnLp, ChangeTransferFee
  <1> QED
    BY <1>1, <1>2, <1>3, <1>4 DEF Next

\* The configuration of a pool behaves as AmmConfig says: what is proved of it there
\* holds whatever else the pool does (lib.rs:60-140).
THEOREM ConfigInPool == Spec => ConfigSpec
  <1>1. Init => ConfigInit
    BY DEF Init
  <1>2. [Next]_vars => [ConfigNext]_amm_config
    BY OnlyUpdateConfigs DEF vars
  <1> QED
    BY <1>1, <1>2, PTL DEF Spec, ConfigSpec
=============================================================================
