---------------------------- MODULE ShareMarket ----------------------------
(***************************************************************************)
(* What a pool promises its share holders, without fees, mints, vaults,     *)
(* rounding or prices.  reserve is what the shares own, token by token.     *)
(* Joining pays at least the share of every token that it buys, leaving     *)
(* takes at most the share that it sells, a trade never lowers the product  *)
(* of the reserves, and neither reserves nor shares ever run out.           *)
(***************************************************************************)
EXTENDS Integers

VARIABLES open, reserve, shares

market == <<open, reserve, shares>>

Sides == {0, 1}

Init ==
  /\ open = FALSE
  /\ reserve = [t \in Sides |-> 0]
  /\ shares = 0

\* The next reserves and shares back one another.
StaysFunded ==
  /\ reserve' \in [Sides -> Nat \ {0}]
  /\ shares' \in Nat \ {0}

\* What each share owns of token t does not fall.
KeepsShare(t) == reserve'[t] * shares >= reserve[t] * shares'

Open ==
  /\ ~open
  /\ open' = TRUE
  /\ StaysFunded
  /\ shares' * shares' <= reserve'[0] * reserve'[1]

Join ==
  /\ shares' > shares
  /\ \A t \in Sides : KeepsShare(t)

Exit ==
  /\ shares' < shares
  /\ \A t \in Sides : KeepsShare(t) /\ reserve'[t] < reserve[t]

Trade ==
  /\ shares' = shares
  /\ \E t \in Sides : reserve'[t] > reserve[t] /\ reserve'[1 - t] < reserve[1 - t]
  /\ reserve'[0] * reserve'[1] >= reserve[0] * reserve[1]

Gift ==
  /\ shares' = shares
  /\ \E t \in Sides : reserve'[t] > reserve[t] /\ reserve'[1 - t] = reserve[1 - t]

Next ==
  \/ Open
  \/ /\ open /\ open' = open
     /\ StaysFunded
     /\ Join \/ Exit \/ Trade \/ Gift

Spec == Init /\ [][Next]_market
=============================================================================
