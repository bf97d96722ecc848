--------------------------- MODULE CpSwapSdkProofs ---------------------------
(***************************************************************************)
(* Theorems about CpSwapSdk for any clients, any sets of accounts that      *)
(* become cold together and any number of times that they do: the types,    *)
(* that the program sees what it would if no account left the chain, and    *)
(* that what a client loads is all its instruction needs.                   *)
(***************************************************************************)
EXTENDS CpSwapSdk, TLAPS

Leaves == [nonce : Nat, data : Nat]

Created == "pool_state" \in addresses

\* An account lies in one place; those of the pool lie somewhere once it exists
\* and nowhere before.
Placed ==
  \A a \in Accounts :
    /\ ~(hot(a) /\ cold(a))
    /\ a \in VaultMints \/ Created => hot(a) \/ cold(a)
    /\ a \in PoolAccounts /\ ~Created => ~hot(a) /\ ~cold(a)

\* A client starts from the pool's state.
ClientsStarted == \A c \in Clients : phase[c] # "new" => Created

IInv == SdkTypeOK /\ Placed /\ ClientsStarted

\* What a step of the accounts must do.
LedgerKept == LedgerTypeOK' /\ Placed' /\ (Created => Created') /\ [Warm!Next]_content

-----------------------------------------------------------------------------
(* The accounts *)

\* An account has a content if and only if it lies somewhere.
LEMMA PlaceFacts ==
  ASSUME IInv, NEW a \in Accounts
  PROVE  /\ hot(a) => onchain[a] \in Nat /\ ~cold(a) /\ content[a] = onchain[a]
         /\ cold(a) => leaf[a] \in Leaves /\ content[a] = leaf[a].data
         /\ ~hot(a) => onchain[a] = NoData
         /\ nonce[a] \in Nat
  BY DEF IInv, SdkTypeOK, LedgerTypeOK, Placed, hot, cold, content, Leaves

\* The pool is created only while none of its accounts lies anywhere
\* (initialize.rs:39-167).
LEMMA InitializeKept ==
  ASSUME IInv, Initialize
  PROVE  LedgerKept
  <1>1. /\ onchain' = [a \in Accounts |-> IF a \in PoolAccounts THEN 1 ELSE onchain[a]]
        /\ addresses' = addresses \cup proved_new
        /\ leaf' = leaf /\ nonce' = nonce /\ compressions' = compressions
        /\ ~Created
    BY DEF Initialize, creatable, proved_new, Created
  <1>2. proved_new \subseteq Accounts /\ PoolAccounts \subseteq Accounts
        /\ PoolAccounts \cap VaultMints = {} /\ Accounts = PoolAccounts \cup VaultMints
    BY DEF proved_new, PoolAccounts, Accounts, VaultMints, Vaults
  <1>3. LedgerTypeOK'
    BY <1>1, <1>2 DEF IInv, SdkTypeOK, LedgerTypeOK
  <1>4. Created'
    BY <1>1 DEF Created, proved_new
  <1>5. \A a \in Accounts : cold(a)' = cold(a)
    BY <1>1 DEF cold
  <1>6. \A a \in PoolAccounts : ~hot(a) /\ ~cold(a) /\ hot(a)' /\ onchain'[a] = 1
    <2>1. \A a \in PoolAccounts : ~hot(a) /\ ~cold(a)
      BY <1>1, <1>2 DEF IInv, Placed
    <2>2. \A a \in PoolAccounts : onchain'[a] = 1
      BY <1>1, <1>2
    <2>3. 1 # NoData
      BY ColdAssumption
    <2> QED
      BY <2>1, <2>2, <2>3 DEF hot
  <1>7. \A a \in VaultMints : hot(a)' = hot(a) /\ onchain'[a] = onchain[a]
    BY <1>1, <1>2 DEF hot
  <1>8. Placed'
    <2>1. \A a \in PoolAccounts : hot(a)' /\ ~cold(a)'
      BY <1>2, <1>5, <1>6
    <2>2. \A a \in VaultMints : ~(hot(a)' /\ cold(a)') /\ (hot(a)' \/ cold(a)')
      BY <1>2, <1>5, <1>7 DEF IInv, Placed
    <2> QED
      BY <1>2, <1>4, <2>1, <2>2 DEF Placed
  <1>9. Warm!Initialize
    <2>1. \A a \in PoolAccounts : content[a] = NoData
      BY <1>2, <1>6 DEF content, hot
    <2>2. \A a \in PoolAccounts : content'[a] = 1
      BY <1>2, <1>5, <1>6 DEF content
    <2>3. \A a \in VaultMints : content'[a] = content[a]
      BY <1>1, <1>2, <1>5, <1>7 DEF content
    <2>4. content' = [a \in Accounts |-> IF a \in PoolAccounts THEN 1 ELSE content[a]]
      BY <1>2, <2>2, <2>3 DEF content
    <2> QED
      BY <2>1, <2>4 DEF Warm!Initialize
  <1> QED
    BY <1>3, <1>4, <1>8, <1>9 DEF LedgerKept, Warm!Next

\* An instruction runs only on hot accounts and writes them where they lie
\* (deposit.rs:12-96, withdraw.rs:14-105, swap_base_input.rs:10-82).
LEMMA RunKept ==
  ASSUME IInv, NEW ix \in Instructions, Run(ix)
  PROVE  LedgerKept
  <1> DEFINE written == writable_of(ix)
  <1>1. /\ onchain' = [a \in Accounts |->
                         IF a \in written THEN onchain[a] + 1 ELSE onchain[a]]
        /\ leaf' = leaf /\ nonce' = nonce /\ addresses' = addresses
        /\ compressions' = compressions
        /\ \A a \in written : hot(a)
    BY DEF Run, runnable, writable_of
  <1>2. written \subseteq Accounts
    BY DEF writable_of, accounts_of, Accounts, PoolAccounts, Vaults, VaultMints
  <1> HIDE DEF written
  <1>3. \A a \in written : onchain[a] \in Nat /\ ~cold(a) /\ content[a] = onchain[a]
                           /\ content[a] # NoData
    BY <1>1, <1>2, PlaceFacts DEF hot
  <1>4. LedgerTypeOK'
    <2>1. onchain' \in [Accounts -> Nat \cup {NoData}]
      BY <1>1, <1>2, <1>3 DEF IInv, SdkTypeOK, LedgerTypeOK
    <2> QED
      BY <1>1, <2>1 DEF IInv, SdkTypeOK, LedgerTypeOK
  <1>5. \A a \in Accounts : (cold(a)' <=> cold(a)) /\ (hot(a)' <=> hot(a))
    <2>1. \A a \in written : hot(a)'
      <3>1. \A a \in written : onchain'[a] \in Nat
        BY <1>1, <1>2, <1>3
      <3> QED
        BY <3>1, ColdAssumption DEF hot
    <2>2. \A a \in Accounts \ written : hot(a)' <=> hot(a)
      BY <1>1 DEF hot
    <2>3. \A a \in Accounts : cold(a)' <=> cold(a)
      BY <1>1 DEF cold
    <2> QED
      BY <1>1, <2>1, <2>2, <2>3
  <1>6. Created' = Created
    BY <1>1 DEF Created
  <1>7. Placed'
    BY <1>5, <1>6 DEF IInv, Placed
  <1>8. Warm!Run(written)
    <2>1. ASSUME NEW a \in Accounts
          PROVE  content'[a] = IF a \in written THEN content[a] + 1 ELSE content[a]
      <3>1. content'[a] = IF cold(a) THEN leaf[a].data ELSE onchain'[a]
        BY <1>1, <1>5 DEF content
      <3> QED
        BY <1>1, <1>3, <3>1 DEF content
    <2>2. content' = [a \in Accounts |-> IF a \in written THEN content[a] + 1 ELSE content[a]]
      BY <2>1 DEF content
    <2> QED
      BY <1>3, <2>2 DEF Warm!Run
  <1>9. Warm!Next
    BY <1>8 DEF Warm!Next, written
  <1> QED
    BY <1>4, <1>6, <1>7, <1>9 DEF LedgerKept

\* An account that becomes cold keeps its content in its leaf.
LEMMA CompressKept ==
  ASSUME IInv, NEW batch \in Batches, Compress(batch)
  PROVE  LedgerKept
  <1>1. /\ onchain' = [a \in Accounts |-> IF a \in batch THEN NoData ELSE onchain[a]]
        /\ leaf' = [a \in Accounts |->
                      IF a \in batch /\ hot(a)
                        THEN [nonce |-> nonce[a] + 1, data |-> onchain[a]]
                        ELSE leaf[a]]
        /\ nonce' = [a \in Accounts |->
                       IF a \in batch /\ hot(a) THEN nonce[a] + 1 ELSE nonce[a]]
        /\ addresses' = addresses
        /\ compressions' = compressions + 1 /\ compressions < MaxCompressions
    BY DEF Compress
  <1>2. LedgerTypeOK'
    <2>1. onchain' \in [Accounts -> Nat \cup {NoData}] /\ nonce' \in [Accounts -> Nat]
      BY <1>1 DEF IInv, SdkTypeOK, LedgerTypeOK
    <2>2. leaf' \in [Accounts -> Leaves \cup {NoLeaf}]
      <3>1. ASSUME NEW a \in Accounts
            PROVE  leaf'[a] \in Leaves \cup {NoLeaf}
        <4>1. leaf[a] \in Leaves \cup {NoLeaf}
          BY DEF IInv, SdkTypeOK, LedgerTypeOK, Leaves
        <4>2. hot(a) => [nonce |-> nonce[a] + 1, data |-> onchain[a]] \in Leaves
          BY PlaceFacts DEF Leaves
        <4> QED
          BY <1>1, <4>1, <4>2
      <3> QED
        BY <1>1, <3>1
    <2>3. compressions' \in 0 .. MaxCompressions
      BY <1>1, ColdAssumption DEF IInv, SdkTypeOK, LedgerTypeOK
    <2> QED
      BY <1>1, <2>1, <2>2, <2>3 DEF IInv, SdkTypeOK, LedgerTypeOK, Leaves
  <1>3. ASSUME NEW a \in Accounts
        PROVE  /\ hot(a)' <=> hot(a) /\ a \notin batch
               /\ cold(a)' <=> cold(a) \/ (hot(a) /\ a \in batch)
               /\ content'[a] = content[a]
    <2>1. hot(a)' <=> hot(a) /\ a \notin batch
      BY <1>1 DEF hot
    <2>2. CASE hot(a) /\ a \in batch
      <3>1. leaf'[a] = [nonce |-> nonce[a] + 1, data |-> onchain[a]]
        BY <1>1, <2>2
      <3>2. leaf'[a] \in Leaves
        BY <2>2, <3>1, PlaceFacts DEF Leaves
      <3>3. cold(a)'
        BY <3>2, ColdAssumption DEF cold, Leaves
      <3> QED
        BY <2>1, <2>2, <3>1, <3>3, PlaceFacts DEF content
    <2>3. CASE ~(hot(a) /\ a \in batch)
      <3>1. leaf'[a] = leaf[a] /\ onchain'[a] = onchain[a]
        BY <1>1, <2>3, PlaceFacts
      <3> QED
        BY <2>1, <2>3, <3>1 DEF content, cold
    <2> QED
      BY <2>2, <2>3
  <1>4. Created' = Created
    BY <1>1 DEF Created
  <1>5. Placed'
    BY <1>3, <1>4 DEF IInv, Placed
  <1>6. content' = content
    BY <1>3 DEF content
  <1> QED
    BY <1>2, <1>4, <1>5, <1>6 DEF LedgerKept

\* Loading leaves of which none is spent brings each account back as it was.
LEMMA LoadKept ==
  ASSUME IInv, NEW loaded, loaded = [a \in DOMAIN loaded |-> loaded[a]],
         \A a \in DOMAIN loaded : a \in Accounts /\ loaded[a] \in Leaves,
         Load(loaded)
  PROVE  LedgerKept
  <1>1. /\ onchain' = [a \in Accounts |->
                         IF a \in DOMAIN loaded THEN loaded[a].data ELSE onchain[a]]
        /\ leaf' = [a \in Accounts |-> IF a \in DOMAIN loaded THEN NoLeaf ELSE leaf[a]]
        /\ nonce' = nonce /\ addresses' = addresses /\ compressions' = compressions
        /\ \A a \in DOMAIN loaded : leaf[a] = loaded[a]
    BY DEF Load, loadable
  <1>2. LedgerTypeOK'
    <2>1. ASSUME NEW a \in DOMAIN loaded
          PROVE  loaded[a].data \in Nat
      BY DEF Leaves
    <2> QED
      BY <1>1, <2>1 DEF IInv, SdkTypeOK, LedgerTypeOK
  <1>3. ASSUME NEW a \in Accounts
        PROVE  /\ hot(a)' <=> hot(a) \/ a \in DOMAIN loaded
               /\ cold(a)' <=> cold(a) /\ a \notin DOMAIN loaded
               /\ content'[a] = content[a]
    <2>1. CASE a \in DOMAIN loaded
      <3>1. /\ onchain'[a] = leaf[a].data /\ leaf'[a] = NoLeaf
            /\ leaf[a] \in Leaves
        BY <1>1, <2>1
      <3>2. cold(a) /\ leaf[a].data \in Nat
        BY <3>1, ColdAssumption DEF cold, Leaves
      <3> QED
        BY <2>1, <3>1, <3>2, ColdAssumption DEF hot, cold, content
    <2>2. CASE a \notin DOMAIN loaded
      <3>1. onchain'[a] = onchain[a] /\ leaf'[a] = leaf[a]
        BY <1>1, <2>2
      <3> QED
        BY <2>2, <3>1 DEF hot, cold, content
    <2> QED
      BY <2>1, <2>2
  <1>4. Created' = Created
    BY <1>1 DEF Created
  <1>5. \A a \in DOMAIN loaded : cold(a)
    BY <1>1, ColdAssumption DEF cold, Leaves
  <1>6. Placed'
    BY <1>3, <1>4, <1>5 DEF IInv, Placed
  <1>7. content' = content
    BY <1>3 DEF content
  <1> QED
    BY <1>2, <1>4, <1>6, <1>7 DEF LedgerKept

-----------------------------------------------------------------------------
(* The clients *)

\* The accounts stand still in a step of a client's own.
LEMMA LedgerUntouched ==
  ASSUME IInv, UNCHANGED ledger
  PROVE  LedgerKept
  BY DEF IInv, SdkTypeOK, LedgerTypeOK, Placed, LedgerKept, ledger, Created, hot, cold,
     content

\* Where an account of a pool that exists lies.
LEMMA InterfaceType ==
  ASSUME IInv, Created, NEW a \in Accounts
  PROVE  interface(a) \in Leaves \cup {Hot}
  BY PlaceFacts DEF IInv, Placed, interface

\* What a client loads are leaves of accounts.
LEMMA ColdSpecsType ==
  ASSUME IInv, NEW c \in Clients
  PROVE  /\ cold_specs(c) = [a \in DOMAIN cold_specs(c) |-> cold_specs(c)[a]]
         /\ \A a \in DOMAIN cold_specs(c) : a \in Accounts /\ cold_specs(c)[a] \in Leaves
  <1>1. \A a \in get_specs_for_instruction(c, instruction[c]) : a \in Accounts
    BY DEF get_specs_for_instruction, Accounts, PoolAccounts, Vaults, VaultMints
  <1>2. ASSUME NEW a \in Accounts, is_cold(c, a)
        PROVE  specs[c][a] \in Leaves
    BY <1>2 DEF is_cold, IInv, SdkTypeOK, Leaves
  <1> QED
    BY <1>1, <1>2 DEF cold_specs

\* The history says of each client whether it was overtaken.
LEMMA HistoryType ==
  ASSUME IInv, NEW others, overtakes(others)
  PROVE  overtaken' \in [Clients -> BOOLEAN]
  BY DEF overtakes

\* A client's step, that it moves its own phase and cache aside.
LEMMA ClientStepKept ==
  ASSUME IInv, NEW c \in Clients, ClientStep(c)
  PROVE  IInv' /\ [Warm!Next]_content
  <1> DEFINE SpecSet == [Accounts -> Leaves \cup {NoSpec, Hot}]
  <1>1. /\ phase \in [Clients -> Phases] /\ specs \in [Clients -> SpecSet]
        /\ instruction \in [Clients -> Instructions] /\ mint_signer_of_hot \in BOOLEAN
        /\ overtaken \in [Clients -> BOOLEAN]
    BY DEF IInv, SdkTypeOK, Leaves
  <1>2. ASSUME LedgerKept, NEW p \in Phases, to(c, p), p # "new" => Created,
               specs' \in [Clients -> SpecSet], overtaken' \in [Clients -> BOOLEAN],
               UNCHANGED <<instruction, mint_signer_of_hot>>
        PROVE  IInv' /\ [Warm!Next]_content
    <2>1. phase' = [phase EXCEPT ![c] = p]
      BY <1>2 DEF to
    <2>2. SdkTypeOK'
      BY <1>1, <1>2, <2>1 DEF LedgerKept, SdkTypeOK, Leaves
    <2>3. ClientsStarted'
      BY <1>1, <1>2, <2>1 DEF IInv, ClientsStarted, LedgerKept
    <2> QED
      BY <1>2, <2>2, <2>3 DEF LedgerKept, IInv
  <1>3. /\ phase[c] # "new" => Created
        /\ overtaken' \in [Clients -> BOOLEAN]
    <2>1. overtaken' \in [Clients -> BOOLEAN]
      BY <1>1, HistoryType DEF ClientStep, FromKeyedAccounts, Update, LoadCold, LoadFails,
         Execute, ExecuteFails
    <2> QED
      BY <2>1 DEF IInv, ClientsStarted
  <1>4. CASE FromKeyedAccounts(c)
    <2>1. /\ Created /\ to(c, "update") /\ UNCHANGED ledger
          /\ UNCHANGED <<instruction, mint_signer_of_hot>>
          /\ specs' = [specs EXCEPT ![c]["pool_state"] = interface("pool_state")]
      BY <1>4 DEF FromKeyedAccounts, Created
    <2>2. interface("pool_state") \in Leaves \cup {Hot}
      BY <2>1, InterfaceType DEF Accounts, PoolAccounts
    <2>3. specs' \in [Clients -> SpecSet]
      BY <1>1, <2>1, <2>2
    <2>4. "update" \in Phases
      BY DEF Phases
    <2> QED
      BY <1>2, <1>3, <2>1, <2>3, <2>4, LedgerUntouched
  <1>5. CASE Update(c)
    <2> DEFINE fetched == get_accounts_to_update(instruction[c])
    <2>1. /\ phase[c] = "update" /\ to(c, "load") /\ UNCHANGED ledger
          /\ UNCHANGED <<instruction, mint_signer_of_hot>>
          /\ specs' = [specs EXCEPT ![c] =
                         [a \in Accounts |->
                            IF a \in fetched THEN parse_account(c, a) ELSE specs[c][a]]]
      BY <1>5 DEF Update
    <2> HIDE DEF fetched
    <2>2. \A a \in Accounts : parse_account(c, a) \in Leaves \cup {NoSpec, Hot}
      BY <1>1, <1>3, <2>1, InterfaceType DEF parse_account
    <2>3. specs' \in [Clients -> SpecSet]
      BY <1>1, <2>1, <2>2
    <2>4. "load" \in Phases
      BY DEF Phases
    <2> QED
      BY <1>2, <1>3, <2>1, <2>3, <2>4, LedgerUntouched
  <1>6. CASE LoadCold(c)
    <2>1. /\ phase[c] = "load" /\ to(c, "execute") /\ Load(cold_specs(c))
          /\ UNCHANGED <<instruction, specs, mint_signer_of_hot>>
      BY <1>6 DEF LoadCold
    <2>2. LedgerKept
      BY <2>1, ColdSpecsType, LoadKept
    <2>3. "execute" \in Phases
      BY DEF Phases
    <2> QED
      BY <1>1, <1>2, <1>3, <2>1, <2>2, <2>3
  <1>7. CASE LoadFails(c)
    <2>1. /\ phase[c] = "load" /\ to(c, "update") /\ UNCHANGED ledger
          /\ UNCHANGED <<instruction, specs, mint_signer_of_hot>>
      BY <1>7 DEF LoadFails
    <2>2. "update" \in Phases
      BY DEF Phases
    <2> QED
      BY <1>1, <1>2, <1>3, <2>1, <2>2, LedgerUntouched
  <1>8. CASE Execute(c)
    <2>1. /\ phase[c] = "execute" /\ to(c, "done") /\ Run(instruction[c])
          /\ UNCHANGED <<instruction, specs, mint_signer_of_hot>>
      BY <1>8 DEF Execute
    <2>2. LedgerKept
      BY <1>1, <2>1, RunKept
    <2>3. "done" \in Phases
      BY DEF Phases
    <2> QED
      BY <1>1, <1>2, <1>3, <2>1, <2>2, <2>3
  <1>9. CASE ExecuteFails(c)
    <2>1. /\ phase[c] = "execute" /\ to(c, "update") /\ UNCHANGED ledger
          /\ UNCHANGED <<instruction, specs, mint_signer_of_hot>>
      BY <1>9 DEF ExecuteFails
    <2>2. "update" \in Phases
      BY DEF Phases
    <2> QED
      BY <1>1, <1>2, <1>3, <2>1, <2>2, LedgerUntouched
  <1> QED
    BY <1>4, <1>5, <1>6, <1>7, <1>8, <1>9 DEF ClientStep

\* Neither the pool's creation nor rent that runs out moves a client.
LEMMA LedgerStepKept ==
  ASSUME IInv, LedgerStep
  PROVE  IInv' /\ [Warm!Next]_content
  <1>1. LedgerKept
    BY InitializeKept, CompressKept DEF LedgerStep
  <1>2. UNCHANGED <<phase, instruction, specs, mint_signer_of_hot>>
    BY DEF LedgerStep
  <1>3. SdkTypeOK'
    BY <1>1, <1>2, HistoryType DEF IInv, SdkTypeOK, LedgerKept, LedgerStep
  <1>4. ClientsStarted'
    BY <1>1, <1>2 DEF IInv, ClientsStarted, LedgerKept
  <1> QED
    BY <1>1, <1>3, <1>4 DEF LedgerKept, IInv

\* The inductive step, and what the program sees of it.
LEMMA StepKept ==
  ASSUME IInv, [Next]_vars
  PROVE  IInv' /\ [Warm!Next]_content
  <1>1. CASE Next
    BY <1>1, LedgerStepKept, ClientStepKept DEF Next
  <1>2. CASE UNCHANGED vars
    <2>1. /\ UNCHANGED ledger
          /\ UNCHANGED <<phase, instruction, specs, mint_signer_of_hot, overtaken>>
      BY <1>2 DEF vars
    <2>2. LedgerKept
      BY <2>1, LedgerUntouched
    <2>3. SdkTypeOK' /\ ClientsStarted'
      BY <2>1, <2>2 DEF IInv, SdkTypeOK, ClientsStarted, LedgerKept
    <2> QED
      BY <2>2, <2>3 DEF LedgerKept, IInv
  <1> QED
    BY <1>1, <1>2

\* At first only the vaults' mints exist.
LEMMA InitInvariant ==
  ASSUME Init
  PROVE  IInv /\ Warm!Init
  <1>1. /\ onchain = [a \in Accounts |-> IF a \in VaultMints THEN 0 ELSE NoData]
        /\ leaf = [a \in Accounts |-> NoLeaf]
        /\ nonce = [a \in Accounts |-> 0] /\ addresses = {} /\ compressions = 0
    BY DEF Init, LedgerInit
  <1>2. LedgerTypeOK
    BY <1>1, ColdAssumption DEF LedgerTypeOK
  <1>3. SdkTypeOK
    BY <1>2 DEF Init, SdkTypeOK, Phases
  <1>4. /\ Accounts = PoolAccounts \cup VaultMints
        /\ \A a \in PoolAccounts : a \notin VaultMints
    BY DEF Accounts, PoolAccounts, VaultMints, Vaults
  <1>5. \A a \in Accounts : ~cold(a) /\ (hot(a) <=> a \in VaultMints)
    BY <1>1, ColdAssumption DEF cold, hot
  <1>6. Placed
    BY <1>1, <1>4, <1>5 DEF Placed, Created
  <1>7. ClientsStarted
    BY DEF Init, ClientsStarted
  <1>8. content = [a \in Accounts |-> IF a \in PoolAccounts THEN NoData ELSE 0]
    BY <1>1, <1>4, <1>5 DEF content
  <1> QED
    BY <1>3, <1>6, <1>7, <1>8 DEF IInv, Warm!Init

-----------------------------------------------------------------------------
\* Whatever order clients, rent and the pool's creator act in, what a hot account
\* holds, the leaves, their nonces and the clients' caches keep their types: no
\* instruction ever writes an account that is not there (program.rs:451-566).
THEOREM SdkTypeCorrect == Spec => []SdkTypeOK
  <1>1. Init => IInv
    BY InitInvariant
  <1>2. IInv /\ [Next]_vars => IInv'
    BY StepKept
  <1>3. IInv => SdkTypeOK
    BY DEF IInv
  <1> QED
    BY <1>1, <1>2, <1>3, PTL DEF Spec

\* However accounts become cold and whatever clients cached when they load them,
\* the program sees what it would if no account ever left the chain: initialize
\* (initialize.rs:54-67) succeeds once and nothing written is lost.
THEOREM ColdIsWarm == Spec => ImplementsWarm
  <1>1. Init => IInv /\ Warm!Init
    BY InitInvariant
  <1>2. IInv /\ [Next]_vars => IInv' /\ [Warm!Next]_content
    BY StepKept
  <1> QED
    BY <1>1, <1>2, PTL DEF Spec, ImplementsWarm, Warm!Spec

-----------------------------------------------------------------------------
(* What a client caches *)

\* After an update the cache knows where every account that the instruction names
\* was, if it needs no LP mint that cannot be recognised.
Cached ==
  \A c \in Clients :
    phase[c] \in {"load", "execute"} /\ (mint_signer_of_hot \/ instruction[c] = "Swap")
      => \A a \in accounts_of(instruction[c]) : specs[c][a] # NoSpec

\* The client asks for what the program's instruction names.
LEMMA UpdateCovers ==
  ASSUME NEW ix
  PROVE  /\ accounts_of(ix) \subseteq get_accounts_to_update(ix)
         /\ accounts_of(ix) \subseteq Accounts
         /\ ix = "Swap" => "lp_mint" \notin accounts_of(ix)
  BY DEF accounts_of, get_accounts_to_update, Accounts, PoolAccounts, Vaults, VaultMints

\* An update caches each account that it can recognise, hot or cold.
LEMMA UpdateCaches ==
  ASSUME IInv, NEW c \in Clients, Update(c),
         mint_signer_of_hot \/ instruction[c] = "Swap",
         NEW a \in accounts_of(instruction[c])
  PROVE  specs'[c][a] # NoSpec
  <1>1. Created
    BY DEF IInv, ClientsStarted, Update
  <1>2. a \in get_accounts_to_update(instruction[c]) /\ a \in Accounts
    BY UpdateCovers
  <1>3. recognised(c, a)
    BY UpdateCovers DEF recognised
  <1>4. specs'[c][a] = interface(a)
    <2>1. specs \in [Clients -> [Accounts -> Leaves \cup {NoSpec, Hot}]]
      BY DEF IInv, SdkTypeOK, Leaves
    <2>2. specs'[c] = [b \in Accounts |->
                         IF b \in get_accounts_to_update(instruction[c])
                           THEN parse_account(c, b)
                           ELSE specs[c][b]]
      BY <2>1 DEF Update
    <2> QED
      BY <1>2, <1>3, <2>2 DEF parse_account
  <1> QED
    BY <1>1, <1>2, <1>4, InterfaceType, SdkAssumption DEF Leaves

\* Only an update brings a client to its load, and nothing between there and the
\* execution changes its cache.
LEMMA CachedStep ==
  ASSUME IInv, Cached, [Next]_vars
  PROVE  Cached'
  <1>1. /\ phase \in [Clients -> Phases]
        /\ specs \in [Clients -> [Accounts -> Leaves \cup {NoSpec, Hot}]]
    BY DEF IInv, SdkTypeOK, Leaves
  <1>2. ASSUME UNCHANGED <<phase, instruction, specs, mint_signer_of_hot>>
        PROVE  Cached'
    BY <1>2 DEF Cached
  <1>3. ASSUME NEW c \in Clients, ClientStep(c)
        PROVE  Cached'
    <2>1. UNCHANGED <<instruction, mint_signer_of_hot>>
      BY <1>3 DEF ClientStep, FromKeyedAccounts, Update, LoadCold, LoadFails, Execute,
         ExecuteFails
    <2>2. ASSUME NEW d \in Clients, d # c
          PROVE  phase'[d] = phase[d] /\ specs'[d] = specs[d]
      BY <1>1, <1>3, <2>2 DEF ClientStep, FromKeyedAccounts, Update, LoadCold, LoadFails,
         Execute, ExecuteFails, to
    <2>3. CASE Update(c)
      <3>1. ASSUME mint_signer_of_hot \/ instruction[c] = "Swap",
                   NEW a \in accounts_of(instruction[c])
            PROVE  specs'[c][a] # NoSpec
        BY <2>3, <3>1, UpdateCaches
      <3> QED
        BY <2>1, <2>2, <3>1 DEF Cached
    <2>4. CASE LoadCold(c)
      <3>1. phase[c] = "load" /\ specs' = specs
        BY <2>4 DEF LoadCold
      <3> QED
        BY <2>1, <2>2, <3>1 DEF Cached
    <2>5. CASE ~Update(c) /\ ~LoadCold(c)
      <3>1. phase'[c] \in {"update", "done"}
        BY <1>1, <1>3, <2>5 DEF ClientStep, FromKeyedAccounts, LoadFails, Execute,
           ExecuteFails, to
      <3> QED
        BY <2>1, <2>2, <3>1 DEF Cached
    <2> QED
      BY <2>3, <2>4, <2>5
  <1> QED
    BY <1>2, <1>3 DEF Next, LedgerStep, vars

\* Whatever became cold, was loaded or was spent meanwhile, and however often: when
\* all that the client library told a client to load is hot, the instruction runs
\* (program.rs:451-566).
THEOREM ClientLoadsEnough == Spec => []LoadSuffices
  <1>1. Init => IInv /\ Cached
    <2>1. ASSUME Init
          PROVE  Cached
      BY <2>1 DEF Init, Cached
    <2> QED
      BY <2>1, InitInvariant
  <1>2. IInv /\ Cached /\ [Next]_vars => IInv' /\ Cached'
    BY StepKept, CachedStep
  <1>3. ASSUME Cached
        PROVE  LoadSuffices
    <2> SUFFICES ASSUME NEW c \in Clients, phase[c] = "execute",
                        mint_signer_of_hot \/ instruction[c] = "Swap",
                        \A a \in get_specs_for_instruction(c, instruction[c]) : hot(a)
                 PROVE  runnable(instruction[c])
      BY DEF LoadSuffices
    <2>1. \A a \in accounts_of(instruction[c]) : specs[c][a] # NoSpec
      BY <1>3 DEF Cached
    <2>2. accounts_of(instruction[c]) \subseteq get_specs_for_instruction(c, instruction[c])
      BY <2>1 DEF accounts_of, get_specs_for_instruction
    <2> QED
      BY <2>2 DEF runnable
  <1> QED
    BY <1>1, <1>2, <1>3, PTL DEF Spec

-----------------------------------------------------------------------------
(* What a client knows as long as nobody overtakes it *)

\* Where the signer of a hot LP mint cannot be read, an update passes it over.
passed_over(a) == a = "lp_mint" /\ hot(a) /\ ~mint_signer_of_hot

\* Between its update and its load a client that is not overtaken knows where each
\* account lies; from its load on all that its instruction needs is hot.
Fresh ==
  \A c \in Clients :
    ~overtaken[c] =>
      /\ phase[c] = "load" =>
           \A a \in get_accounts_to_update(instruction[c]) :
             specs[c][a] = interface(a) \/ passed_over(a)
      /\ phase[c] = "execute" => runnable(instruction[c])

LEMMA FetchedAccounts ==
  ASSUME NEW ix
  PROVE  get_accounts_to_update(ix) \subseteq Accounts
  BY DEF get_accounts_to_update, Accounts, PoolAccounts, Vaults, VaultMints

\* An account that stays where it is keeps its leaf: only what was hot gets one, and
\* only what is loaded loses it.
LEMMA InterfaceKept ==
  ASSUME IInv, Next, NEW a \in Accounts, hot(a)' <=> hot(a)
  PROVE  interface(a)' = interface(a)
  <1>1. ASSUME leaf'[a] = leaf[a] \/ hot(a)
        PROVE  interface(a)' = interface(a)
    BY <1>1 DEF interface
  <1>2. ASSUME Initialize \/ \E ix : Run(ix)
        PROVE  interface(a)' = interface(a)
    BY <1>1, <1>2 DEF Initialize, Run
  <1>3. ASSUME NEW batch \in Batches, Compress(batch)
        PROVE  interface(a)' = interface(a)
    BY <1>1, <1>3 DEF Compress
  <1>4. ASSUME NEW c \in Clients, LoadCold(c)
        PROVE  interface(a)' = interface(a)
    <2>1. /\ leaf' = [b \in Accounts |->
                        IF b \in DOMAIN cold_specs(c) THEN NoLeaf ELSE leaf[b]]
          /\ onchain' = [b \in Accounts |->
                           IF b \in DOMAIN cold_specs(c)
                             THEN cold_specs(c)[b].data ELSE onchain[b]]
      BY <1>4 DEF LoadCold, Load
    <2>2. CASE a \in DOMAIN cold_specs(c)
      <3>1. cold_specs(c)[a].data \in Nat
        BY <2>2, ColdSpecsType DEF Leaves
      <3>2. hot(a)'
        BY <2>1, <2>2, <3>1, ColdAssumption DEF hot
      <3> QED
        BY <1>1, <3>2
    <2> QED
      BY <1>1, <2>1, <2>2
  <1>5. ASSUME UNCHANGED ledger
        PROVE  interface(a)' = interface(a)
    BY <1>1, <1>5 DEF ledger
  <1> QED
    BY <1>2, <1>3, <1>4, <1>5 DEF Next, LedgerStep, ClientStep, FromKeyedAccounts, Update,
       LoadFails, Execute, ExecuteFails

\* Running an instruction moves no account.
LEMMA RunMovesNothing ==
  ASSUME IInv, NEW ix \in Instructions, Run(ix), NEW a \in Accounts
  PROVE  hot(a)' <=> hot(a)
  <1>1. /\ onchain' = [b \in Accounts |->
                         IF b \in writable_of(ix) THEN onchain[b] + 1 ELSE onchain[b]]
        /\ \A b \in writable_of(ix) : hot(b)
    BY DEF Run, runnable, writable_of
  <1>2. CASE a \in writable_of(ix)
    <2>1. onchain[a] \in Nat /\ onchain'[a] = onchain[a] + 1
      BY <1>1, <1>2, PlaceFacts
    <2> QED
      BY <1>1, <1>2, <2>1, ColdAssumption DEF hot
  <1>3. CASE a \notin writable_of(ix)
    BY <1>1, <1>3 DEF hot
  <1> QED
    BY <1>2, <1>3

\* What a client knows outlives the steps of the others that do not overtake it.
LEMMA OthersKeepFresh ==
  ASSUME IInv, Next, NEW c \in Clients, ~overtaken'[c],
         \A a \in get_accounts_to_update(instruction[c]) : hot(a)' <=> hot(a),
         ~overtaken[c], Fresh,
         phase'[c] = phase[c], specs'[c] = specs[c],
         UNCHANGED <<instruction, mint_signer_of_hot>>
  PROVE  /\ phase'[c] = "load" =>
              \A a \in get_accounts_to_update(instruction'[c]) :
                specs'[c][a] = interface(a)' \/ passed_over(a)'
         /\ phase'[c] = "execute" => runnable(instruction[c])'
  <1>1. ASSUME NEW a \in get_accounts_to_update(instruction[c])
        PROVE  interface(a)' = interface(a) /\ (passed_over(a)' <=> passed_over(a))
    BY FetchedAccounts, InterfaceKept DEF passed_over
  <1>2. runnable(instruction[c]) => runnable(instruction[c])'
    <2>1. \A a \in accounts_of(instruction[c]) : hot(a)' <=> hot(a)
      BY UpdateCovers
    <2> QED
      BY <2>1 DEF runnable
  <1> QED
    BY <1>1, <1>2 DEF Fresh

\* What an update leaves in the cache.
LEMMA UpdateFresh ==
  ASSUME IInv, NEW c \in Clients, Update(c),
         NEW a \in get_accounts_to_update(instruction[c])
  PROVE  specs'[c][a] = interface(a)' \/ passed_over(a)'
  <1>1. specs \in [Clients -> [Accounts -> Leaves \cup {NoSpec, Hot}]] /\ a \in Accounts
    BY FetchedAccounts DEF IInv, SdkTypeOK, Leaves
  <1>2. specs'[c][a] = parse_account(c, a)
    BY <1>1 DEF Update
  <1>3. interface(a)' = interface(a) /\ (passed_over(a)' <=> passed_over(a))
    BY DEF Update, ledger, interface, passed_over, hot
  <1>4. recognised(c, a) \/ passed_over(a)
    <2>1. Created
      BY DEF IInv, ClientsStarted, Update
    <2>2. interface(a) = Hot => hot(a)
      <3>1. ~hot(a) => cold(a)
        BY <1>1, <2>1 DEF IInv, Placed
      <3> QED
        BY <1>1, <3>1, PlaceFacts, SdkAssumption DEF interface, Leaves
    <2> QED
      BY <2>2 DEF recognised, passed_over
  <1> QED
    BY <1>2, <1>3, <1>4 DEF parse_account

\* The load brings in all that the cache knows to be cold.
LEMMA LoadFresh ==
  ASSUME IInv, Fresh, NEW c \in Clients, ~overtaken[c], LoadCold(c)
  PROVE  runnable(instruction[c])'
  <1> SUFFICES ASSUME NEW a \in accounts_of(instruction[c])
               PROVE  hot(a)'
    BY DEF runnable, LoadCold
  <1>1. a \in get_accounts_to_update(instruction[c]) /\ a \in Accounts
    BY UpdateCovers
  <1>2. /\ phase[c] = "load"
        /\ onchain' = [b \in Accounts |->
                         IF b \in DOMAIN cold_specs(c)
                           THEN cold_specs(c)[b].data ELSE onchain[b]]
    BY DEF LoadCold, Load
  <1>3. CASE a \in DOMAIN cold_specs(c)
    <2>1. cold_specs(c)[a].data \in Nat
      BY <1>3, ColdSpecsType DEF Leaves
    <2> QED
      BY <1>1, <1>2, <1>3, <2>1, ColdAssumption DEF hot
  <1>4. CASE a \notin DOMAIN cold_specs(c)
    <2>1. hot(a)
      <3> SUFFICES ASSUME ~hot(a)
                   PROVE  FALSE
        OBVIOUS
      <3>1. specs[c][a] = leaf[a]
        BY <1>1, <1>2 DEF Fresh, interface, passed_over
      <3>2. leaf[a] \in Leaves
        <4>1. Created
          BY <1>2 DEF IInv, ClientsStarted
        <4>2. interface(a) \in Leaves \cup {Hot} /\ interface(a) = leaf[a]
          BY <1>1, <4>1, InterfaceType DEF interface
        <4>3. cold(a)
          BY <1>1, <4>1 DEF IInv, Placed
        <4> QED
          BY <1>1, <4>3, PlaceFacts
      <3>3. is_cold(c, a) /\ specs[c][a] # NoSpec
        BY <3>1, <3>2, SdkAssumption DEF is_cold, Leaves
      <3>4. a \in get_specs_for_instruction(c, instruction[c])
        BY <3>3 DEF accounts_of, get_specs_for_instruction
      <3> QED
        BY <1>4, <3>3, <3>4 DEF cold_specs
    <2> QED
      BY <1>1, <1>2, <1>4, <2>1 DEF hot
  <1> QED
    BY <1>3, <1>4

\* One step: of the client itself, of another, or of nobody.
LEMMA FreshStep ==
  ASSUME IInv, Fresh, [Next]_vars
  PROVE  Fresh'
  <1>1. /\ phase \in [Clients -> Phases] /\ overtaken \in [Clients -> BOOLEAN]
        /\ specs \in [Clients -> [Accounts -> Leaves \cup {NoSpec, Hot}]]
        /\ instruction \in [Clients -> Instructions]
    BY DEF IInv, SdkTypeOK, Leaves
  <1>2. CASE UNCHANGED vars
    BY <1>2 DEF vars, ledger, Fresh, interface, passed_over, runnable, hot
  <1>3. CASE Next
    <2> SUFFICES ASSUME NEW c \in Clients, ~overtaken'[c]
                 PROVE  /\ phase'[c] = "load" =>
                             \A a \in get_accounts_to_update(instruction'[c]) :
                               specs'[c][a] = interface(a)' \/ passed_over(a)'
                        /\ phase'[c] = "execute" => runnable(instruction[c])'
      BY DEF Fresh
    <2>1. UNCHANGED <<instruction, mint_signer_of_hot>>
      BY <1>3 DEF Next, LedgerStep, ClientStep, FromKeyedAccounts, Update, LoadCold,
         LoadFails, Execute, ExecuteFails
    <2>2. CASE LedgerStep
      <3>1. UNCHANGED <<phase, specs>> /\ overtakes(Clients)
        BY <2>2 DEF LedgerStep
      <3>2. /\ ~overtaken[c]
            /\ \A a \in get_accounts_to_update(instruction[c]) : hot(a)' <=> hot(a)
        BY <3>1 DEF overtakes
      <3> QED
        BY <1>3, <2>1, <3>1, <3>2, OthersKeepFresh
    <2>3. ASSUME NEW d \in Clients, d # c, ClientStep(d)
          PROVE  /\ phase'[c] = "load" =>
                      \A a \in get_accounts_to_update(instruction'[c]) :
                        specs'[c][a] = interface(a)' \/ passed_over(a)'
                 /\ phase'[c] = "execute" => runnable(instruction[c])'
      <3>1. phase'[c] = phase[c] /\ specs'[c] = specs[c]
        BY <1>1, <2>3 DEF ClientStep, FromKeyedAccounts, Update, LoadCold, LoadFails,
           Execute, ExecuteFails, to
      <3>2. CASE LoadCold(d)
        <4>1. overtakes(Clients \ {d})
          BY <3>2 DEF LoadCold
        <4>2. /\ ~overtaken[c]
              /\ \A a \in get_accounts_to_update(instruction[c]) : hot(a)' <=> hot(a)
          BY <2>3, <4>1 DEF overtakes
        <4> QED
          BY <1>3, <2>1, <3>1, <4>2, OthersKeepFresh
      <3>3. CASE Execute(d)
        <4>1. Run(instruction[d]) /\ overtaken' = overtaken
          BY <3>3 DEF Execute
        <4>2. \A a \in get_accounts_to_update(instruction[c]) : hot(a)' <=> hot(a)
          BY <1>1, <4>1, FetchedAccounts, RunMovesNothing
        <4> QED
          BY <1>3, <2>1, <3>1, <4>1, <4>2, OthersKeepFresh
      <3>4. CASE ~LoadCold(d) /\ ~Execute(d)
        <4>1. UNCHANGED ledger /\ overtaken'[c] = overtaken[c]
          BY <1>1, <2>3, <3>4 DEF ClientStep, FromKeyedAccounts, Update, LoadFails,
             ExecuteFails
        <4>2. \A a \in get_accounts_to_update(instruction[c]) : hot(a)' <=> hot(a)
          BY <4>1 DEF ledger, hot
        <4> QED
          BY <1>3, <2>1, <3>1, <4>1, <4>2, OthersKeepFresh
      <3> QED
        BY <3>2, <3>3, <3>4
    <2>4. CASE ClientStep(c)
      <3>1. CASE Update(c)
        <4>1. phase'[c] = "load"
          BY <1>1, <3>1 DEF Update, to
        <4> QED
          BY <2>1, <3>1, <4>1, UpdateFresh
      <3>2. CASE LoadCold(c)
        <4>1. phase'[c] = "execute"
          BY <1>1, <3>2 DEF LoadCold, to
        <4>2. ~overtaken[c]
          BY <3>2 DEF LoadCold, overtakes
        <4> QED
          BY <3>2, <4>1, <4>2, LoadFresh
      <3>3. CASE ~Update(c) /\ ~LoadCold(c)
        <4>1. phase'[c] \in {"update", "done"}
          BY <1>1, <2>4, <3>3 DEF ClientStep, FromKeyedAccounts, LoadFails, Execute,
             ExecuteFails, to
        <4> QED
          BY <4>1
      <3> QED
        BY <3>1, <3>2, <3>3
    <2> QED
      BY <1>3, <2>2, <2>3, <2>4 DEF Next
  <1> QED
    BY <1>2, <1>3

\* However often accounts become cold and whatever the others load: a client's
\* transaction fails only if somebody moved one of its accounts after its last
\* update, or at a cached LP mint whose signer it cannot read (program.rs:323-366,
\* 451-566).  It is the half of ClientsFinish that needs no fairness.
THEOREM FailureMeansOvertaken == Spec => []FailsOnlyIfOvertaken
  <1>1. Init => IInv /\ Fresh
    <2>1. ASSUME Init
          PROVE  Fresh
      BY <2>1 DEF Init, Fresh
    <2> QED
      BY <2>1, InitInvariant
  <1>2. IInv /\ Fresh /\ [Next]_vars => IInv' /\ Fresh'
    BY StepKept, FreshStep
  <1>3. ASSUME IInv, Fresh
        PROVE  FailsOnlyIfOvertaken
    <2> SUFFICES ASSUME NEW c \in Clients, ~overtaken[c], phase[c] = "load",
                        ~(~mint_signer_of_hot /\ hot("lp_mint") /\ is_cold(c, "lp_mint"))
                 PROVE  loadable(cold_specs(c))
      BY <1>3 DEF Fresh, FailsOnlyIfOvertaken
    <2>1. ASSUME NEW a \in DOMAIN cold_specs(c)
          PROVE  leaf[a] = cold_specs(c)[a]
      <3>1. /\ a \in get_specs_for_instruction(c, instruction[c]) /\ is_cold(c, a)
            /\ cold_specs(c)[a] = specs[c][a]
        BY DEF cold_specs
      <3>2. a \in get_accounts_to_update(instruction[c])
        BY <3>1 DEF get_specs_for_instruction, get_accounts_to_update
      <3>3. specs[c][a] = interface(a)
        BY <1>3, <3>1, <3>2 DEF Fresh, passed_over
      <3> QED
        BY <3>1, <3>3 DEF is_cold, interface
    <2> QED
      BY <2>1 DEF loadable
  <1> QED
    BY <1>1, <1>2, <1>3, PTL DEF Spec
=============================================================================
