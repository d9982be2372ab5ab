-------------------------------- MODULE Store --------------------------------
(***************************************************************************)
(* The gate's persistent store (src/lib/store): challenges by payment hash *)
(* or deposit address, consume-once settlement records and credential root *)
(* keys.  It survives restarts; every operation is one SQL statement or    *)
(* transaction on a single connection and is atomic.                       *)
(*                                                                         *)
(* Abstractions.  A Lightning credential is named by its payment hash and  *)
(* an on-chain one by its deposit address: both are minted over values     *)
(* that are fresh per challenge.  A token id, the account of the ledger,   *)
(* is named by the hash of the Lightning invoice minted with it.  Stored   *)
(* responses are a function of the challenge and are left out.             *)
(***************************************************************************)
EXTENDS Integers

CONSTANTS Hash,          \* payment hashes of the node's invoices
          Addr,          \* deposit addresses of the node's wallet
          TxId,          \* transaction ids
          NoChallenge    \* store.ErrNotFound

\* A proof is keyed by its payment hash, or by the pair (txid, address).
Proof == Hash \cup (TxId \X Addr)

\* Credential identifiers, by the hash or the address they were minted for.
Cred == Hash \cup Addr

ASSUME RailsDisjoint == /\ Hash \cap Addr = {}
                        /\ Hash \cap (TxId \X Addr) = {}

VARIABLES challenge,     \* challenges, by payment hash
          onchain,       \* onchain_challenges, by deposit address
          settled,       \* keys of the settlements table
          rootKey        \* credentials whose root key is stored

storeVars == <<challenge, onchain, settled, rootKey>>

StoreInit ==
  /\ challenge = [h \in Hash |-> NoChallenge]
  /\ onchain = [a \in Addr |-> NoChallenge]
  /\ settled = {}
  /\ rootKey = {}

\* INSERT ... ON CONFLICT DO NOTHING: a stored challenge is never replaced.
PutChallenge(h, rec) ==
  challenge' = IF challenge[h] = NoChallenge
               THEN [challenge EXCEPT ![h] = rec] ELSE challenge

PutOnchainChallenges(as, rec) ==
  onchain' = [a \in Addr |-> IF a \in as /\ onchain[a] = NoChallenge
                             THEN rec ELSE onchain[a]]

PutRootKeys(cs) == rootKey' = rootKey \cup cs

\* A faulty Settle that takes every proof for a new one.
AlwaysUnsettled(k) == FALSE

\* Settle inserts the settlement record, or finds the stored one.
AlreadySettled(k) == k \in settled
StoreSettle(k) == settled' = settled \cup {k}

\* Revocation (annex section 7): deleting a missing key is no error.
DeleteRootKey(c) ==
  /\ rootKey' = rootKey \ {c}
  /\ UNCHANGED <<challenge, onchain, settled>>

=============================================================================
