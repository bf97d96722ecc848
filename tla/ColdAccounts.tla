---------------------------- MODULE ColdAccounts ----------------------------
(***************************************************************************)
(* The accounts of one pool when rent is not paid for them: each lies on    *)
(* chain (hot) or, after its rent ran out, as a leaf of a state tree (cold)  *)
(* until a client loads it back.  Compressing and loading are the Light      *)
(* protocol's; initialize and the other instructions are the program's.     *)
(* The content of an account is the number of times it was written.         *)
(***************************************************************************)
EXTENDS Naturals

CONSTANTS
  Batches,           \* sets of accounts whose rent runs out together
  MaxCompressions,   \* how often that happens
  NoData, NoLeaf

Vaults       == {"token_0_vault", "token_1_vault"}
VaultMints   == {"token_0_mint", "token_1_mint"}
PoolAccounts == {"pool_state", "observation_state", "lp_mint"} \cup Vaults
Accounts     == PoolAccounts \cup VaultMints

Instructions == {"Swap", "Deposit", "Withdraw"}

ASSUME ColdAssumption ==
  /\ Batches \subseteq SUBSET Accounts
  /\ MaxCompressions \in Nat
  /\ NoData \notin Nat
  /\ NoLeaf \notin [nonce : Nat, data : Nat]

VARIABLES
  onchain,        \* content of each hot account
  leaf,           \* the valid leaf of each cold account
  nonce,          \* leaves each account ever had
  addresses,      \* addresses the address tree knows
  compressions

ledger == <<onchain, leaf, nonce, addresses, compressions>>

LedgerTypeOK ==
  /\ onchain \in [Accounts -> Nat \cup {NoData}]
  /\ leaf \in [Accounts -> [nonce : Nat, data : Nat] \cup {NoLeaf}]
  /\ nonce \in [Accounts -> Nat]
  /\ addresses \subseteq Accounts
  /\ compressions \in 0 .. MaxCompressions

hot(a) == onchain[a] # NoData
cold(a) == leaf[a] # NoLeaf

LedgerInit ==
  /\ onchain = [a \in Accounts |-> IF a \in VaultMints THEN 0 ELSE NoData]
  /\ leaf = [a \in Accounts |-> NoLeaf]
  /\ nonce = [a \in Accounts |-> 0]
  /\ addresses = {}
  /\ compressions = 0

-----------------------------------------------------------------------------
(* The program *)

\* The addresses whose absence from the tree create_accounts_proof shows.
proved_new == {"pool_state", "observation_state", "lp_mint"}

\* Mutant: initialize relies on the accounts being absent from the chain.
creatable_when_absent == \A a \in PoolAccounts : ~hot(a)

creatable ==
  /\ \A a \in PoolAccounts : ~hot(a)
  /\ \A a \in proved_new : a \notin addresses

Initialize ==
  /\ creatable
  /\ \A m \in VaultMints : hot(m)
  /\ onchain' = [a \in Accounts |-> IF a \in PoolAccounts THEN 1 ELSE onchain[a]]
  /\ addresses' = addresses \cup proved_new
  /\ UNCHANGED <<leaf, nonce, compressions>>

accounts_of(ix) ==
  {"pool_state"} \cup Vaults \cup VaultMints
    \cup (IF ix = "Swap" THEN {"observation_state"} ELSE {"lp_mint"})

writable_of(ix) == accounts_of(ix) \ VaultMints

\* An instruction reads every account it names, so none may be cold.
runnable(ix) == \A a \in accounts_of(ix) : hot(a)

Run(ix) ==
  /\ runnable(ix)
  /\ onchain' = [a \in Accounts |->
                   IF a \in writable_of(ix) THEN onchain[a] + 1 ELSE onchain[a]]
  /\ UNCHANGED <<leaf, nonce, addresses, compressions>>

-----------------------------------------------------------------------------
(* The Light protocol *)

\* Rent runs out once the pool exists; until then its creator pays for the mints.
Compress(batch) ==
  /\ "pool_state" \in addresses
  /\ compressions < MaxCompressions
  /\ \E a \in batch : hot(a)
  /\ compressions' = compressions + 1
  /\ nonce' = [a \in Accounts |->
                 IF a \in batch /\ hot(a) THEN nonce[a] + 1 ELSE nonce[a]]
  /\ leaf' = [a \in Accounts |->
                IF a \in batch /\ hot(a)
                  THEN [nonce |-> nonce[a] + 1, data |-> onchain[a]]
                  ELSE leaf[a]]
  /\ onchain' = [a \in Accounts |-> IF a \in batch THEN NoData ELSE onchain[a]]
  /\ UNCHANGED <<addresses>>

\* specs are the leaves a client saw; a leaf that was loaded since is spent.
loadable(specs) == \A a \in DOMAIN specs : leaf[a] = specs[a]

\* One transaction: all the accounts are loaded, with the content the client
\* sends, or none.
Load(specs) ==
  /\ loadable(specs)
  /\ onchain' = [a \in Accounts |->
                   IF a \in DOMAIN specs THEN specs[a].data ELSE onchain[a]]
  /\ leaf' = [a \in Accounts |-> IF a \in DOMAIN specs THEN NoLeaf ELSE leaf[a]]
  /\ UNCHANGED <<nonce, addresses, compressions>>

-----------------------------------------------------------------------------
\* What an account holds, wherever it lies.
content == [a \in Accounts |-> IF cold(a) THEN leaf[a].data ELSE onchain[a]]

\* However accounts become cold and whatever clients cached when they load them,
\* the program sees what it would if no account ever left the chain: it is never
\* initialized again while it is cold (initialize.rs:54-67), and no fee or share
\* written before is lost or comes back.
Warm == INSTANCE WarmAccounts
          WITH Created   <- PoolAccounts,
               WriteSets <- { writable_of(ix) : ix \in Instructions },
               content   <- content
ImplementsWarm == Warm!Spec
=============================================================================
