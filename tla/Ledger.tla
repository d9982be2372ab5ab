------------------------------- MODULE Ledger -------------------------------
(***************************************************************************)
(* The credit ledger (src/lib/ledger): accounts with a balance, credited   *)
(* once per settlement reference and debited by charges.  Each operation   *)
(* is one SQL transaction on a database with a single connection, so it is *)
(* one atomic step here; LedgerSQLite opens the transaction up again.      *)
(*                                                                         *)
(* Abstractions.  Rows of the charges table are kept as what decides later *)
(* steps: the (account, idem_key) pairs of its unique index (keyed) and    *)
(* the sum of amount_atoms per account (charged).  Rails, receipts and     *)
(* timestamps decide nothing and are left out.  A missing accounts row     *)
(* reads as balance 0, as Balance and Charge report it.                    *)
(***************************************************************************)
EXTENDS Integers, FiniteSets

CONSTANTS Account,      \* account ids: hex token ids
          Ref,          \* external_ref values: one per settled payment
          IdemKey,      \* caller idempotency keys
          NoKey,        \* no Idempotency-Key was sent (NULL idem_key)
          NoGrant       \* no row of the grants table

ASSUME NoKeyAssumption == NoKey \notin IdemKey

VARIABLES balance,      \* accounts.balance_atoms
          grants,       \* the grants table, by external_ref
          keyed,        \* the unique index charges(account_id, idem_key)
          charged       \* sum of charges.amount_atoms by account

ledgerVars == <<balance, grants, keyed, charged>>

GrantRow == [account: Account, amount: Nat \ {0}]

ASSUME NoGrantAssumption == NoGrant \notin GrantRow

LedgerTypeOK ==
  /\ balance \in [Account -> Nat]
  /\ grants \in [Ref -> GrantRow \cup {NoGrant}]
  /\ keyed \subseteq Account \X IdemKey
  /\ charged \in [Account -> Nat]

\* The grants rows of an account.
GrantsTo(a) == {x \in Ref : grants[x] # NoGrant /\ grants[x].account = a}

LedgerInit ==
  /\ balance = [a \in Account |-> 0]
  /\ grants = [x \in Ref |-> NoGrant]
  /\ keyed = {}
  /\ charged = [a \in Account |-> 0]

(* A faulty Grant that credits the account on a repeated reference too.    *)
GrantTwice(a, amount, x) ==
  /\ amount > 0
  /\ grants' = IF grants[x] # NoGrant THEN grants
               ELSE [grants EXCEPT ![x] = [account |-> a, amount |-> amount]]
  /\ balance' = [balance EXCEPT ![a] = @ + amount]
  /\ UNCHANGED <<keyed, charged>>

(* Grant: insert the grants row; a repeated reference changes nothing, a   *)
(* new one credits the account in the same transaction.                    *)
Grant(a, amount, x) ==
  /\ amount > 0
  /\ IF grants[x] # NoGrant
     THEN UNCHANGED <<grants, balance>>
     ELSE /\ grants' = [grants EXCEPT ![x] = [account |-> a, amount |-> amount]]
          /\ balance' = [balance EXCEPT ![a] = @ + amount]
  /\ UNCHANGED <<keyed, charged>>

(* A charge whose (account, key) pair is already in the unique index.      *)
Replayed(a, key) == <<a, key>> \in keyed

(* Charge with a key seen before: answered with the balance, no debit.     *)
ChargeReplay(a, key) ==
  /\ Replayed(a, key)
  /\ UNCHANGED <<balance, grants, keyed, charged>>

(* A faulty debit without the condition on the balance.                    *)
ChargeOverdraw(a, amount, key) ==
  /\ amount > 0
  /\ ~Replayed(a, key)
  /\ balance' = [balance EXCEPT ![a] = @ - amount]
  /\ charged' = [charged EXCEPT ![a] = @ + amount]
  /\ keyed' = IF key = NoKey THEN keyed ELSE keyed \cup {<<a, key>>}
  /\ UNCHANGED grants

(* Charge that inserts its row and passes the conditional debit.           *)
ChargeDebit(a, amount, key) ==
  /\ amount > 0
  /\ ~Replayed(a, key)
  /\ balance[a] >= amount
  /\ balance' = [balance EXCEPT ![a] = @ - amount]
  /\ charged' = [charged EXCEPT ![a] = @ + amount]
  /\ keyed' = IF key = NoKey THEN keyed ELSE keyed \cup {<<a, key>>}
  /\ UNCHANGED grants

(* Charge refused with InsufficientBalanceError: the row is rolled back.   *)
ChargeRefused(a, amount, key) ==
  /\ ~Replayed(a, key)
  /\ balance[a] < amount
  /\ UNCHANGED <<balance, grants, keyed, charged>>

=============================================================================
