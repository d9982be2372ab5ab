---------------------------- MODULE LedgerSQLite ----------------------------
(***************************************************************************)
(* The SQLite ledger (src/lib/ledger/sqlite.go), statement by statement.   *)
(* A call waits for the only connection of the handle, opens a             *)
(* transaction, runs its statements on a private view of the tables and    *)
(* commits or rolls back.  It may fail at any statement (a cancelled       *)
(* context, SQLITE_BUSY from the gate store on the same file, an I/O       *)
(* error), and the process may crash at any point.  The variables of       *)
(* Ledger are the committed tables.                                        *)
(***************************************************************************)
EXTENDS Ledger, Functions

CONSTANTS Caller,       \* requests that use the ledger at the same time
          Amount,       \* amounts of grants and charges, in atoms
          Nobody        \* the connection is in the pool

ASSUME SQLiteAssumption ==
  /\ Amount \subseteq Nat \ {0}
  /\ Nobody \notin Caller

VARIABLES tx,           \* the tables as the next statement sees them
          conn,         \* the caller that holds the connection
          call,         \* the call each caller is making
          answered      \* history: tags of the calls whose success was reported

sqliteVars == <<ledgerVars, tx, conn, call, answered>>

Tables == [balance: [Account -> Nat],
           grants: [Ref -> GrantRow \cup {NoGrant}],
           keyed: SUBSET (Account \X IdemKey),
           charged: [Account -> Nat]]

Committed == [balance |-> balance, grants |-> grants,
              keyed |-> keyed, charged |-> charged]

Call == [op: {"grant"}, account: Account, amount: Amount, ref: Ref]
        \cup [op: {"charge"}, account: Account, amount: Amount, key: IdemKey \cup {NoKey}]

\* What later calls recognise a call by.
Tag(c) == IF c.op = "grant" THEN <<c.ref>> ELSE <<c.account, c.key>>

Pc == {"wait", "insert", "credit", "debit", "commit", "reply"}

Running == [what: Call, pc: Pc]

\* A caller that is not in the ledger.
Idle == [pc |-> "idle"]

TypeOK ==
  /\ LedgerTypeOK
  /\ tx \in Tables
  /\ conn \in Caller \cup {Nobody}
  /\ call \in [Caller -> Running \cup {Idle}]
  /\ answered \subseteq {Tag(c) : c \in Call}

Init ==
  /\ LedgerInit
  /\ tx = Committed
  /\ conn = Nobody
  /\ call = [p \in Caller |-> Idle]
  /\ answered = {}

Enter(p, pc) == call' = [call EXCEPT ![p].pc = pc]
Leave(p) == call' = [call EXCEPT ![p] = Idle]

\* The transaction is undone and the connection is back in the pool.
Undo == conn' = Nobody /\ tx' = Committed

\* Grant or Charge is called with a positive amount.
Invoke(p, c) ==
  /\ call[p] = Idle
  /\ call' = [call EXCEPT ![p] = [what |-> c, pc |-> "wait"]]
  /\ UNCHANGED <<ledgerVars, tx, conn, answered>>

\* BeginTx: SetMaxOpenConns(1) makes the callers queue for the connection.
BeginTx(p) ==
  /\ call[p].pc = "wait"
  /\ conn = Nobody
  /\ conn' = p
  /\ Enter(p, "insert")
  /\ UNCHANGED <<ledgerVars, tx, answered>>

(* Grant: INSERT INTO grants ... ON CONFLICT(external_ref) DO NOTHING.     *)
InsertGrant(p) ==
  LET c == call[p].what IN
  /\ call[p].pc = "insert" /\ c.op = "grant"
  /\ IF tx.grants[c.ref] # NoGrant
     THEN Enter(p, "commit") /\ UNCHANGED tx
     ELSE /\ tx' = [tx EXCEPT !.grants[c.ref] =
                      [account |-> c.account, amount |-> c.amount]]
          /\ Enter(p, "credit")
  /\ UNCHANGED <<ledgerVars, conn, answered>>

(* A faulty Grant that answers without a commit.                           *)
CreditUncommitted(p) ==
  /\ call[p].pc = "credit"
  /\ Undo
  /\ Enter(p, "reply")
  /\ UNCHANGED <<ledgerVars, answered>>

(* Grant: the upsert of the account.                                       *)
CreditAccount(p) ==
  LET c == call[p].what IN
  /\ call[p].pc = "credit"
  /\ tx' = [tx EXCEPT !.balance[c.account] = @ + c.amount]
  /\ Enter(p, "commit")
  /\ UNCHANGED <<ledgerVars, conn, answered>>

(* Charge: INSERT INTO charges ... ON CONFLICT(account_id, idem_key) DO    *)
(* NOTHING; a NULL key never conflicts.                                    *)
InsertCharge(p) ==
  LET c == call[p].what IN
  /\ call[p].pc = "insert" /\ c.op = "charge"
  /\ IF <<c.account, c.key>> \in tx.keyed
     THEN Enter(p, "commit") /\ UNCHANGED tx
     ELSE /\ tx' = [tx EXCEPT !.keyed = IF c.key = NoKey THEN @
                                        ELSE @ \cup {<<c.account, c.key>>},
                              !.charged[c.account] = @ + c.amount]
          /\ Enter(p, "debit")
  /\ UNCHANGED <<ledgerVars, conn, answered>>

(* Faulty debits: without the condition on the balance; that commits the   *)
(* charges row of a refused charge, with its amount or voided; that keeps  *)
(* the transaction open.                                                   *)
DebitOverdraw(p) ==
  LET c == call[p].what IN
  /\ call[p].pc = "debit"
  /\ tx' = [tx EXCEPT !.balance[c.account] = @ - c.amount]
  /\ Enter(p, "commit")
  /\ UNCHANGED <<ledgerVars, conn, answered>>
DebitCommitsRefusal(p) ==
  LET c == call[p].what IN
  /\ call[p].pc = "debit"
  /\ tx' = IF tx.balance[c.account] >= c.amount
           THEN [tx EXCEPT !.balance[c.account] = @ - c.amount] ELSE tx
  /\ Enter(p, "commit")
  /\ UNCHANGED <<ledgerVars, conn, answered>>
DebitVoidsRow(p) ==
  LET c == call[p].what IN
  /\ call[p].pc = "debit"
  /\ tx' = IF tx.balance[c.account] >= c.amount
           THEN [tx EXCEPT !.balance[c.account] = @ - c.amount]
           ELSE [tx EXCEPT !.charged[c.account] = @ - c.amount]
  /\ Enter(p, "commit")
  /\ UNCHANGED <<ledgerVars, conn, answered>>
DebitLeaksConnection(p) ==
  LET c == call[p].what IN
  /\ call[p].pc = "debit"
  /\ IF tx.balance[c.account] >= c.amount
     THEN /\ tx' = [tx EXCEPT !.balance[c.account] = @ - c.amount]
          /\ Enter(p, "commit")
     ELSE Leave(p) /\ UNCHANGED tx
  /\ UNCHANGED <<ledgerVars, conn, answered>>

(* Charge: the conditional UPDATE of the balance; no row updated means     *)
(* InsufficientBalanceError and the deferred Rollback of the charges row.  *)
DebitAccount(p) ==
  LET c == call[p].what IN
  /\ call[p].pc = "debit"
  /\ IF tx.balance[c.account] >= c.amount
     THEN /\ tx' = [tx EXCEPT !.balance[c.account] = @ - c.amount]
          /\ Enter(p, "commit")
          /\ UNCHANGED conn
     ELSE Leave(p) /\ Undo
  /\ UNCHANGED <<ledgerVars, answered>>

Commit(p) ==
  /\ call[p].pc = "commit"
  /\ balance' = tx.balance /\ grants' = tx.grants
  /\ keyed' = tx.keyed /\ charged' = tx.charged
  /\ conn' = Nobody
  /\ Enter(p, "reply")
  /\ UNCHANGED <<tx, answered>>

\* The caller learns that its call succeeded.
Reply(p) ==
  /\ call[p].pc = "reply"
  /\ answered' = answered \cup {Tag(call[p].what)}
  /\ Leave(p)
  /\ UNCHANGED <<ledgerVars, tx, conn>>

(* An error before the commit, or a cancelled wait for the connection: the *)
(* deferred Rollback returns the connection.                               *)
Rollback(p) ==
  /\ call[p].pc \in {"wait", "insert", "credit", "debit", "commit"}
  /\ Leave(p)
  /\ IF conn = p THEN Undo ELSE UNCHANGED <<conn, tx>>
  /\ UNCHANGED <<ledgerVars, answered>>

\* The process dies; an uncommitted transaction is gone when it is back.
Crash ==
  /\ call' = [p \in Caller |-> Idle]
  /\ Undo
  /\ UNCHANGED <<ledgerVars, answered>>

Statement(p) ==
  \/ InsertGrant(p) \/ CreditAccount(p)
  \/ InsertCharge(p) \/ DebitAccount(p)
  \/ Commit(p) \/ Reply(p)

Next ==
  \/ \E p \in Caller : \/ \E c \in Call : Invoke(p, c)
                       \/ BeginTx(p) \/ Statement(p) \/ Rollback(p)
  \/ Crash

Spec == Init /\ [][Next]_sqliteVars

(* database/sql hands a returned connection to a waiter, and a statement   *)
(* that was sent returns.                                                  *)
FairSpec ==
  Spec /\ \A p \in Caller : SF_sqliteVars(BeginTx(p)) /\ WF_sqliteVars(Statement(p))

-----------------------------------------------------------------------------
(* Properties *)

AtomicStep ==
  \E a \in Account, n \in Amount :
    \/ \E x \in Ref : Grant(a, n, x)
    \/ \E key \in IdemKey \cup {NoKey} : ChargeDebit(a, n, key)

(* The transactions of Grant and Charge take effect at once or not at all: *)
(* whatever calls overlap and wherever they fail, the committed tables     *)
(* change as if each call were one step of Ledger.                         *)
AtomicLedger == LedgerInit /\ [][AtomicStep]_ledgerVars

(* No atom is created or lost: what is left on an account and what was     *)
(* charged to it add up to its grants.                                     *)
Conserved ==
  \A a \in Account :
    balance[a] + charged[a] = SumFunction([x \in GrantsTo(a) |-> grants[x].amount])

(* What a caller was told outlives crashes and rollbacks of other calls:   *)
(* a grant that was answered has its row, a charge that was answered holds *)
(* its idempotency key, so a retry of either is recognised.                *)
AnswersAreDurable ==
  \A c \in Call : Tag(c) \in answered =>
    IF c.op = "grant" THEN grants[c.ref] # NoGrant
    ELSE c.key # NoKey => Replayed(c.account, c.key)

(* A call ends, with an answer or an error: no path keeps the only         *)
(* connection, an insufficient balance or a failed statement included.     *)
CallsReturn == \A p \in Caller : (call[p] # Idle) ~> (call[p] = Idle)

-----------------------------------------------------------------------------
(* The inductive invariant behind AtomicLedger *)

Open == {"insert", "credit", "debit", "commit"}

OneTransaction ==
  \A p \in Caller : call[p].pc \in Open <=> conn = p

SameTables == /\ tx.balance = balance /\ tx.grants = grants
              /\ tx.keyed = keyed /\ tx.charged = charged

RowInserted(c) ==
  /\ c.op = "grant"
  /\ grants[c.ref] = NoGrant
  /\ tx.grants = [grants EXCEPT ![c.ref] = [account |-> c.account, amount |-> c.amount]]
  /\ tx.keyed = keyed /\ tx.charged = charged

ChargeInserted(c) ==
  /\ c.op = "charge"
  /\ ~Replayed(c.account, c.key)
  /\ tx.keyed = (IF c.key = NoKey THEN keyed ELSE keyed \cup {<<c.account, c.key>>})
  /\ tx.charged = [charged EXCEPT ![c.account] = @ + c.amount]
  /\ tx.grants = grants

Credited(c) ==
  RowInserted(c) /\ tx.balance = [balance EXCEPT ![c.account] = @ + c.amount]
Debited(c) ==
  /\ ChargeInserted(c)
  /\ balance[c.account] >= c.amount
  /\ tx.balance = [balance EXCEPT ![c.account] = @ - c.amount]

\* How far the open transaction has got from the committed tables.
TransactionView ==
  /\ conn = Nobody => SameTables
  /\ \A p \in Caller : LET c == call[p].what IN
       /\ call[p].pc = "insert" => SameTables
       /\ call[p].pc = "credit" => RowInserted(c) /\ tx.balance = balance
       /\ call[p].pc = "debit" => ChargeInserted(c) /\ tx.balance = balance
       /\ call[p].pc = "commit" => SameTables \/ Credited(c) \/ Debited(c)

SQLiteInv == TypeOK /\ OneTransaction /\ TransactionView

\* The tables hold what a retry of the call is recognised by.
Recorded(t, c) ==
  IF c.op = "grant" THEN t.grants[c.ref] # NoGrant
  ELSE c.key # NoKey => <<c.account, c.key>> \in t.keyed

\* A call has its record in the transaction before it commits, and in the
\* committed tables before it is answered.
DurableInv ==
  /\ SQLiteInv
  /\ \A p \in Caller : LET c == call[p].what IN
       /\ call[p].pc \in {"credit", "debit", "commit"} => Recorded(tx, c)
       /\ call[p].pc = "reply" => Recorded(Committed, c)
  /\ AnswersAreDurable

\* What Conserved needs: an account has finitely many grants.
ConservedInv == SQLiteInv /\ Conserved /\ \A a \in Account : IsFiniteSet(GrantsTo(a))

=============================================================================
