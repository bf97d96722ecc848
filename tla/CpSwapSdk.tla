----------------------------- MODULE CpSwapSdk -----------------------------
(***************************************************************************)
(* CpSwapSdk of tests/program.rs, the client library of a pool: a cache of   *)
(* what each account was when it was last fetched, and which of them an      *)
(* instruction needs.  Several clients use it against the same accounts in   *)
(* the phases of tests/program_test.rs; what one loads makes another's cache *)
(* stale.  A client whose transaction fails starts again from update.        *)
(***************************************************************************)
EXTENDS ColdAccounts

CONSTANTS
  Clients,
  NoSpec, Hot        \* an account not cached, or cached as hot

ASSUME SdkAssumption ==
  /\ NoSpec # Hot
  /\ NoSpec \notin [nonce : Nat, data : Nat] /\ Hot \notin [nonce : Nat, data : Nat]

VARIABLES
  phase,             \* of each client
  instruction,       \* the instruction it is to execute
  specs,             \* pda_specs and mint_specs: what it cached of each account
  mint_signer_of_hot, \* whether the client library names the signer of a hot mint
  overtaken          \* history: since a client's last update somebody else moved
                     \* one of the accounts that it fetched

vars == <<ledger, phase, instruction, specs, mint_signer_of_hot, overtaken>>

Phases == {"new", "update", "load", "execute", "done"}

SdkTypeOK ==
  /\ LedgerTypeOK
  /\ phase \in [Clients -> Phases]
  /\ instruction \in [Clients -> Instructions]
  /\ specs \in [Clients -> [Accounts -> [nonce : Nat, data : Nat] \cup {NoSpec, Hot}]]
  /\ mint_signer_of_hot \in BOOLEAN
  /\ overtaken \in [Clients -> BOOLEAN]

Init ==
  /\ LedgerInit
  /\ phase = [c \in Clients |-> "new"]
  /\ instruction \in [Clients -> Instructions]
  /\ specs = [c \in Clients |-> [a \in Accounts |-> NoSpec]]
  /\ mint_signer_of_hot \in BOOLEAN
  /\ overtaken = [c \in Clients |-> FALSE]

-----------------------------------------------------------------------------
\* Mutant: looks for an account among the cold ones only.
interface_cold(a) == leaf[a]

\* AccountInterface: where an account lies now.
interface(a) == IF hot(a) THEN Hot ELSE leaf[a]

to(c, p) == phase' = [phase EXCEPT ![c] = p]

\* Mutant: an account that is cached already is not read again.
recognised_once(c, a) == specs[c][a] = NoSpec

\* parse_account knows the vaults and their mints by key, the states by their
\* discriminator and the LP mint only by its signer.
recognised(c, a) ==
  a = "lp_mint" => interface(a) # Hot \/ mint_signer_of_hot

parse_account(c, a) ==
  IF recognised(c, a) THEN interface(a) ELSE specs[c][a]

\* Mutant: the vaults' mints are left to the caller.
get_accounts_to_update_pool(ix) == accounts_of(ix) \ VaultMints

get_accounts_to_update(ix) ==
  {"pool_state", "observation_state"} \cup Vaults \cup VaultMints
    \cup (IF ix = "Swap" THEN {} ELSE {"lp_mint"})

\* Mutant: an instruction other than a swap is taken not to need the LP mint.
get_specs_for_instruction_swap(c, ix) ==
  { a \in {"pool_state", "observation_state"} \cup Vaults \cup VaultMints :
      specs[c][a] # NoSpec }

get_specs_for_instruction(c, ix) ==
  { a \in {"pool_state", "observation_state"} \cup Vaults \cup VaultMints
            \cup (IF ix = "Swap" THEN {} ELSE {"lp_mint"}) :
      specs[c][a] # NoSpec }

is_cold(c, a) == specs[c][a] \notin {NoSpec, Hot}

\* What create_load_instructions makes instructions of.
cold_specs(c) ==
  [ a \in { b \in get_specs_for_instruction(c, instruction[c]) : is_cold(c, b) }
      |-> specs[c][a] ]

-----------------------------------------------------------------------------
\* The history of the clients that do not take the step: no guard reads it.
overtakes(others) ==
  overtaken' =
    [c \in Clients |->
       \/ overtaken[c]
       \/ /\ c \in others
          /\ \E a \in get_accounts_to_update(instruction[c]) : ~(hot(a)' <=> hot(a))]

FromKeyedAccounts(c) ==
  /\ phase[c] = "new"
  /\ "pool_state" \in addresses
  /\ specs' = [specs EXCEPT ![c]["pool_state"] = interface("pool_state")]
  /\ to(c, "update")
  /\ UNCHANGED <<ledger, instruction, mint_signer_of_hot, overtaken>>

\* get_accounts_to_update, one request for all of them, update.
Update(c) ==
  /\ phase[c] = "update"
  /\ specs' = [specs EXCEPT ![c] =
                 [a \in Accounts |->
                    IF a \in get_accounts_to_update(instruction[c])
                      THEN parse_account(c, a)
                      ELSE specs[c][a]]]
  /\ to(c, "load")
  /\ overtaken' = [overtaken EXCEPT ![c] = FALSE]
  /\ UNCHANGED <<ledger, instruction, mint_signer_of_hot>>

LoadCold(c) ==
  /\ phase[c] = "load"
  /\ Load(cold_specs(c))
  /\ to(c, "execute")
  /\ overtakes(Clients \ {c})
  /\ UNCHANGED <<instruction, specs, mint_signer_of_hot>>

LoadFails(c) ==
  /\ phase[c] = "load"
  /\ ~loadable(cold_specs(c))
  /\ to(c, "update")
  /\ UNCHANGED <<ledger, instruction, specs, mint_signer_of_hot, overtaken>>

Execute(c) ==
  /\ phase[c] = "execute"
  /\ Run(instruction[c])
  /\ to(c, "done")
  /\ UNCHANGED <<instruction, specs, mint_signer_of_hot, overtaken>>

ExecuteFails(c) ==
  /\ phase[c] = "execute"
  /\ ~runnable(instruction[c])
  /\ to(c, "update")
  /\ UNCHANGED <<ledger, instruction, specs, mint_signer_of_hot, overtaken>>

ClientStep(c) ==
  \/ FromKeyedAccounts(c)
  \/ Update(c)
  \/ LoadCold(c) \/ LoadFails(c)
  \/ Execute(c) \/ ExecuteFails(c)

LedgerStep ==
  /\ Initialize \/ \E batch \in Batches : Compress(batch)
  /\ overtakes(Clients)
  /\ UNCHANGED <<phase, instruction, specs, mint_signer_of_hot>>

Next == LedgerStep \/ \E c \in Clients : ClientStep(c)

Spec == Init /\ [][Next]_vars

\* A client runs its program to the end and the pool's creator creates the pool;
\* accounts need not ever become cold.
Fairness ==
  /\ WF_vars(Initialize /\ LedgerStep)
  /\ \A c \in Clients : WF_vars(ClientStep(c))

FairSpec == Spec /\ Fairness

-----------------------------------------------------------------------------
\* When the accounts stop becoming cold every client executes its instruction,
\* though others load the same accounts between its update and its load: nothing
\* stale stays in its cache (program.rs:323-366 and 451-496), as long as either
\* the instruction does without the LP mint or its signer can be read when hot.
ClientsFinish ==
  \A c \in Clients :
    mint_signer_of_hot \/ instruction[c] = "Swap" => <>(phase[c] = "done")

\* What a client fetches, caches and loads is all that its instruction needs
\* (program.rs:451-566 against the accounts of the program's instructions): when
\* everything it was told to load is hot, loaded or never cold, it runs.  An LP mint
\* that is hot and whose signer cannot be read is never cached.
LoadSuffices ==
  \A c \in Clients :
    /\ phase[c] = "execute"
    /\ mint_signer_of_hot \/ instruction[c] = "Swap"
    /\ \A a \in get_specs_for_instruction(c, instruction[c]) : hot(a)
    => runnable(instruction[c])

\* A client fails only because somebody else moved an account after it had looked:
\* its own update leaves nothing stale behind, and its own load brings in all that
\* its instruction needs (program.rs:323-366, 451-566).  The one exception is a LP
\* mint that was cached cold and became hot where its signer cannot be read: that
\* entry is stale for good (program.rs:352).
FailsOnlyIfOvertaken ==
  \A c \in Clients :
    ~overtaken[c] =>
      /\ phase[c] = "load" =>
           \/ loadable(cold_specs(c))
           \/ ~mint_signer_of_hot /\ hot("lp_mint") /\ is_cold(c, "lp_mint")
      /\ phase[c] = "execute" => runnable(instruction[c])
=============================================================================
