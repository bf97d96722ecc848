---------------------------- MODULE WarmAccounts ----------------------------
(***************************************************************************)
(* What a pool's instructions rely on: its accounts are created once and     *)
(* then hold what was last written to them.  There is no rent here, and no   *)
(* account ever leaves the chain.                                            *)
(***************************************************************************)
EXTENDS Naturals

CONSTANTS
  Accounts,
  Created,       \* those that initialize creates; the others exist
  WriteSets,     \* what each instruction writes
  NoData

VARIABLE content      \* how often each account was written, or NoData

Init == content = [a \in Accounts |-> IF a \in Created THEN NoData ELSE 0]

Initialize ==
  /\ \A a \in Created : content[a] = NoData
  /\ content' = [a \in Accounts |-> IF a \in Created THEN 1 ELSE content[a]]

Run(written) ==
  /\ \A a \in written : content[a] # NoData
  /\ content' = [a \in Accounts |-> IF a \in written THEN content[a] + 1 ELSE content[a]]

Next == Initialize \/ \E written \in WriteSets : Run(written)

Spec == Init /\ [][Next]_content
=============================================================================
