---------------------------- MODULE LedgerProofs ----------------------------
(***************************************************************************)
(* The SQLite ledger implements the atomic ledger, for any number of       *)
(* callers, accounts, references and keys.                                 *)
(***************************************************************************)
EXTENDS LedgerSQLite, SumTheorems, TLAPS

USE NoKeyAssumption, NoGrantAssumption, SQLiteAssumption

\* A caller inside the ledger holds a call.
LEMMA RunningCall ==
  ASSUME TypeOK, NEW p \in Caller, call[p].pc \in Pc
  PROVE  /\ call[p] \in Running
         /\ call[p].what \in Call
         /\ call[p].what.account \in Account
         /\ call[p].what.amount \in Nat \ {0}
         /\ call[p].what.amount \in Amount
         /\ call[p].what.op = "grant" => call[p].what.ref \in Ref
         /\ call[p].what.op = "charge" => call[p].what.key \in IdemKey \cup {NoKey}
         /\ call[p].what.op \in {"grant", "charge"}
<1>1. call[p] \in Running
  BY DEF TypeOK, Idle, Pc
<1>2. call[p].what \in Call
  BY <1>1 DEF Running
<1> QED BY <1>1, <1>2 DEF Call

\* Moving a call to another point, or ending it, keeps the calls typed.
LEMMA CallTyped ==
  ASSUME TypeOK, NEW p \in Caller,
         \/ call[p].pc \in Pc /\ \E pc \in Pc : Enter(p, pc)
         \/ Leave(p)
  PROVE  /\ call' \in [Caller -> Running \cup {Idle}]
         /\ \A q \in Caller : q # p => call'[q] = call[q]
<1>1. CASE Leave(p)
  BY <1>1 DEF Leave, TypeOK
<1>2. ASSUME call[p].pc \in Pc, NEW pc \in Pc, Enter(p, pc)
      PROVE  /\ call' \in [Caller -> Running \cup {Idle}]
             /\ \A q \in Caller : q # p => call'[q] = call[q]
  <2>1. [call[p] EXCEPT !.pc = pc] \in Running
    BY <1>2, RunningCall DEF Running
  <2>2. call' = [call EXCEPT ![p] = [call[p] EXCEPT !.pc = pc]]
    BY <1>2 DEF Enter
  <2> QED BY <2>1, <2>2 DEF TypeOK
<1> QED BY <1>1, <1>2

\* Where a caller is after it moved: the call it makes does not change.
LEMMA Moved ==
  ASSUME TypeOK, NEW p \in Caller, call[p].pc \in Pc, NEW pc \in Pc, Enter(p, pc)
  PROVE  call'[p].pc = pc /\ call'[p].what = call[p].what
<1>1. call[p] \in Running
  BY RunningCall
<1> QED BY <1>1 DEF Enter, TypeOK, Running

\* The committed tables are a view of the tables.
LEMMA CommittedTyped ==
  ASSUME LedgerTypeOK
  PROVE  /\ Committed \in Tables
         /\ Committed.balance = balance /\ Committed.grants = grants
         /\ Committed.keyed = keyed /\ Committed.charged = charged
  BY DEF LedgerTypeOK, Committed, Tables

\* The tables a transaction sees, field by field.
LEMMA TxTyped ==
  ASSUME TypeOK
  PROVE  /\ tx.balance \in [Account -> Nat]
         /\ tx.grants \in [Ref -> GrantRow \cup {NoGrant}]
         /\ tx.keyed \subseteq Account \X IdemKey
         /\ tx.charged \in [Account -> Nat]
  BY DEF TypeOK, Tables

\* The first state satisfies the invariant.
LEMMA InitSQLiteInv == Init => SQLiteInv
<1> SUFFICES ASSUME Init PROVE SQLiteInv
  OBVIOUS
<1>1. LedgerTypeOK
  BY DEF Init, LedgerInit, LedgerTypeOK
<1>2. TypeOK /\ SameTables
  BY <1>1, CommittedTyped DEF Init, TypeOK, SameTables
<1>3. \A p \in Caller : call[p].pc = "idle"
  BY DEF Init, Idle
<1> QED BY <1>2, <1>3 DEF SQLiteInv, OneTransaction, TransactionView, Open, Init

\* Ending the open transaction without a commit keeps the invariant.
LEMMA UndoInv ==
  ASSUME SQLiteInv, Undo, UNCHANGED ledgerVars,
         call' \in [Caller -> Running \cup {Idle}], answered' = answered,
         \A p \in Caller : call'[p].pc \notin Open
  PROVE  SQLiteInv'
<1>1. Committed \in Tables /\ SameTables' /\ LedgerTypeOK'
  BY CommittedTyped DEF SQLiteInv, TypeOK, Undo, SameTables, ledgerVars, LedgerTypeOK
<1>2. TypeOK'
  BY <1>1 DEF SQLiteInv, TypeOK, Undo
<1> QED BY <1>1, <1>2 DEF SQLiteInv, OneTransaction, TransactionView, Undo, Open

\* Only the holder of the connection is inside a transaction.
LEMMA Holder ==
  ASSUME SQLiteInv, NEW p \in Caller, call[p].pc \in Open
  PROVE  conn = p /\ \A q \in Caller : q # p => call[q].pc \notin Open
  BY DEF SQLiteInv, OneTransaction

\* A statement of the open transaction keeps the invariant when the tables it
\* leaves are what TransactionView says at the new point.
LEMMA StatementInv ==
  ASSUME SQLiteInv, NEW p \in Caller, call[p].pc \in Open, NEW pc \in Open, Enter(p, pc),
         UNCHANGED <<ledgerVars, conn, answered>>, tx' \in Tables,
         pc # "insert",
         pc = "credit" => RowInserted(call[p].what)' /\ tx'.balance = balance,
         pc = "debit" => ChargeInserted(call[p].what)' /\ tx'.balance = balance,
         pc = "commit" => SameTables' \/ Credited(call[p].what)' \/ Debited(call[p].what)'
  PROVE  SQLiteInv'
<1>t. TypeOK /\ call[p].pc \in Pc /\ pc \in Pc
  BY DEF SQLiteInv, Open, Pc
<1>1. conn = p /\ p # Nobody /\ \A q \in Caller : q # p => call[q].pc \notin Open
  BY Holder
<1>2. call'[p].pc = pc /\ call'[p].what = call[p].what
  BY <1>t, Moved
<1>3. /\ call' \in [Caller -> Running \cup {Idle}]
      /\ \A q \in Caller : q # p => call'[q] = call[q]
  BY <1>t, CallTyped
<1>4. TypeOK'
  BY <1>t, <1>3 DEF TypeOK, LedgerTypeOK, ledgerVars
<1>5. OneTransaction'
  BY <1>1, <1>2, <1>3 DEF OneTransaction
<1>6. TransactionView'
  <2>1. ASSUME NEW q \in Caller, q # p PROVE call'[q].pc \notin Open
    BY <1>1, <1>3, <2>1
  <2>2. balance' = balance
    BY DEF ledgerVars
  <2> QED BY <1>1, <1>2, <2>1, <2>2 DEF TransactionView, Open
<1> QED BY <1>4, <1>5, <1>6 DEF SQLiteInv

\* The statements of Grant keep the invariant.
LEMMA GrantStatements ==
  ASSUME SQLiteInv, NEW p \in Caller, InsertGrant(p) \/ CreditAccount(p)
  PROVE  SQLiteInv'
<1> DEFINE c == call[p].what
<1>t. TypeOK
  BY DEF SQLiteInv
<1>o. call[p].pc \in Open /\ call[p].pc \in Pc
  BY DEF InsertGrant, CreditAccount, Open, Pc
<1>c. /\ c.account \in Account /\ c.amount \in Nat \ {0}
      /\ c.op = "grant" => c.ref \in Ref
  BY <1>t, <1>o, RunningCall
<1>1. CASE InsertGrant(p)
  <2>1. call[p].pc = "insert" /\ c.op = "grant" /\ UNCHANGED <<ledgerVars, conn, answered>>
    BY <1>1 DEF InsertGrant
  <2>2. SameTables
    BY <2>1 DEF SQLiteInv, TransactionView
  <2>3. CASE tx.grants[c.ref] # NoGrant
    <3>1. Enter(p, "commit") /\ tx' = tx
      BY <1>1, <2>3 DEF InsertGrant
    <3>2. SameTables' /\ tx' \in Tables
      BY <1>t, <2>1, <2>2, <3>1 DEF SameTables, ledgerVars, TypeOK
    <3> QED BY <1>o, <2>1, <3>1, <3>2, StatementInv DEF Open
  <2>4. CASE tx.grants[c.ref] = NoGrant
    <3>1. /\ Enter(p, "credit")
          /\ tx' = [tx EXCEPT !.grants[c.ref] = [account |-> c.account, amount |-> c.amount]]
      BY <1>1, <2>4 DEF InsertGrant
    <3>2. /\ tx'.grants = [grants EXCEPT ![c.ref] = [account |-> c.account, amount |-> c.amount]]
          /\ tx'.balance = balance /\ tx'.keyed = keyed /\ tx'.charged = charged
      BY <1>t, <2>2, <3>1 DEF SameTables, TypeOK, Tables
    <3>3. tx' \in Tables
      <4>1. [account |-> c.account, amount |-> c.amount] \in GrantRow
        BY <1>c DEF GrantRow
      <4>2. tx'.grants \in [Ref -> GrantRow \cup {NoGrant}]
        BY <1>t, <3>2, <4>1 DEF TypeOK, LedgerTypeOK
      <4> QED BY <1>t, <3>1, <3>2, <4>2 DEF TypeOK, Tables
    <3>4. call'[p].what = c
      BY <1>t, <1>o, <3>1, Moved DEF Pc
    <3>5. RowInserted(call[p].what)'
      BY <2>1, <2>2, <2>4, <3>2, <3>4 DEF RowInserted, SameTables, ledgerVars
    <3> QED BY <1>o, <2>1, <3>1, <3>2, <3>3, <3>5, StatementInv DEF Open
  <2> QED BY <2>3, <2>4
<1>2. CASE CreditAccount(p)
  <2>1. /\ call[p].pc = "credit"
        /\ tx' = [tx EXCEPT !.balance[c.account] = @ + c.amount]
        /\ Enter(p, "commit")
        /\ UNCHANGED <<ledgerVars, conn, answered>>
    BY <1>2 DEF CreditAccount
  <2>2. RowInserted(c) /\ tx.balance = balance
    BY <2>1 DEF SQLiteInv, TransactionView
  <2>3. /\ tx'.balance = [balance EXCEPT ![c.account] = @ + c.amount]
        /\ tx'.grants = tx.grants /\ tx'.keyed = tx.keyed /\ tx'.charged = tx.charged
    BY <1>t, <2>1, <2>2 DEF TypeOK, Tables
  <2>4. tx' \in Tables
    <3>1. tx'.balance \in [Account -> Nat]
      BY <1>t, <1>c, <2>3 DEF TypeOK, LedgerTypeOK
    <3> QED BY <1>t, <2>1, <2>3, <3>1 DEF TypeOK, Tables
  <2>5. call'[p].what = c
    BY <1>t, <1>o, <2>1, Moved DEF Pc
  <2>6. Credited(call[p].what)'
    BY <2>1, <2>2, <2>3, <2>5 DEF Credited, RowInserted, ledgerVars
  <2> QED BY <1>o, <2>1, <2>4, <2>6, StatementInv DEF Open
<1> QED BY <1>1, <1>2

\* A transaction that its holder abandons keeps the invariant.
LEMMA AbandonInv ==
  ASSUME SQLiteInv, NEW p \in Caller, call[p].pc \in Open, Leave(p), Undo,
         UNCHANGED <<ledgerVars, answered>>
  PROVE  SQLiteInv'
<1>t. TypeOK
  BY DEF SQLiteInv
<1>1. /\ call' \in [Caller -> Running \cup {Idle}]
      /\ \A q \in Caller : q # p => call'[q] = call[q]
  BY <1>t, CallTyped
<1>2. call'[p].pc = "idle"
  BY <1>t DEF Leave, TypeOK, Idle
<1>3. \A q \in Caller : call'[q].pc \notin Open
  BY <1>1, <1>2, Holder DEF Open
<1> QED BY <1>1, <1>3, UndoInv

\* The statements of Charge keep the invariant.
LEMMA ChargeStatements ==
  ASSUME SQLiteInv, NEW p \in Caller, InsertCharge(p) \/ DebitAccount(p)
  PROVE  SQLiteInv'
<1> DEFINE c == call[p].what
<1>t. TypeOK
  BY DEF SQLiteInv
<1>o. call[p].pc \in Open /\ call[p].pc \in Pc
  BY DEF InsertCharge, DebitAccount, Open, Pc
<1>c. /\ c.account \in Account /\ c.amount \in Nat \ {0}
      /\ c.op = "charge" => c.key \in IdemKey \cup {NoKey}
  BY <1>t, <1>o, RunningCall
<1>1. CASE InsertCharge(p)
  <2>1. call[p].pc = "insert" /\ c.op = "charge" /\ UNCHANGED <<ledgerVars, conn, answered>>
    BY <1>1 DEF InsertCharge
  <2>2. SameTables
    BY <2>1 DEF SQLiteInv, TransactionView
  <2>3. CASE <<c.account, c.key>> \in tx.keyed
    <3>1. Enter(p, "commit") /\ tx' = tx
      BY <1>1, <2>3 DEF InsertCharge
    <3>2. SameTables' /\ tx' \in Tables
      BY <1>t, <2>1, <2>2, <3>1 DEF SameTables, ledgerVars, TypeOK
    <3> QED BY <1>o, <2>1, <3>1, <3>2, StatementInv DEF Open
  <2>4. CASE <<c.account, c.key>> \notin tx.keyed
    <3> DEFINE new == IF c.key = NoKey THEN keyed ELSE keyed \cup {<<c.account, c.key>>}
    <3>1. /\ Enter(p, "debit")
          /\ tx' = [tx EXCEPT !.keyed = IF c.key = NoKey THEN @
                                        ELSE @ \cup {<<c.account, c.key>>},
                              !.charged[c.account] = @ + c.amount]
      BY <1>1, <2>4 DEF InsertCharge
    <3>2. /\ tx'.keyed = new
          /\ tx'.charged = [charged EXCEPT ![c.account] = @ + c.amount]
          /\ tx'.balance = balance /\ tx'.grants = grants
      BY <1>t, <2>2, <3>1 DEF SameTables, TypeOK, Tables
    <3>3. tx' \in Tables
      <4>1. new \subseteq Account \X IdemKey
        BY <1>t, <1>c, <2>1 DEF TypeOK, LedgerTypeOK
      <4>2. tx'.charged \in [Account -> Nat]
        BY <1>t, <1>c, <3>2 DEF TypeOK, LedgerTypeOK
      <4>3. tx' = [balance |-> tx'.balance, grants |-> tx'.grants,
                   keyed |-> tx'.keyed, charged |-> tx'.charged]
        BY <1>t, <3>1 DEF TypeOK, Tables
      <4>4. tx'.keyed \in SUBSET (Account \X IdemKey)
        BY <3>2, <4>1
      <4>5. tx'.balance \in [Account -> Nat] /\ tx'.grants \in [Ref -> GrantRow \cup {NoGrant}]
        BY <1>t, <3>2 DEF TypeOK, LedgerTypeOK
      <4> QED BY <4>2, <4>3, <4>4, <4>5 DEF Tables
    <3>4. call'[p].what = c
      BY <1>t, <1>o, <3>1, Moved DEF Pc
    <3>5. ChargeInserted(call[p].what)'
      BY <2>1, <2>2, <2>4, <3>2, <3>4 DEF ChargeInserted, Replayed, SameTables, ledgerVars
    <3> QED BY <1>o, <2>1, <3>1, <3>2, <3>3, <3>5, StatementInv DEF Open
  <2> QED BY <2>3, <2>4
<1>2. CASE DebitAccount(p)
  <2>1. call[p].pc = "debit" /\ UNCHANGED <<ledgerVars, answered>>
    BY <1>2 DEF DebitAccount
  <2>2. ChargeInserted(c) /\ tx.balance = balance
    BY <2>1 DEF SQLiteInv, TransactionView
  <2>3. CASE tx.balance[c.account] >= c.amount
    <3>1. /\ tx' = [tx EXCEPT !.balance[c.account] = @ - c.amount]
          /\ Enter(p, "commit")
          /\ UNCHANGED conn
      BY <1>2, <2>3 DEF DebitAccount
    <3>2. /\ tx'.balance = [balance EXCEPT ![c.account] = @ - c.amount]
          /\ tx'.grants = tx.grants /\ tx'.keyed = tx.keyed /\ tx'.charged = tx.charged
      BY <1>t, <2>2, <3>1 DEF TypeOK, Tables
    <3>3. tx' \in Tables
      <4>1. balance[c.account] - c.amount \in Nat
        BY <1>t, <1>c, <2>2, <2>3 DEF TypeOK, LedgerTypeOK
      <4>2. tx'.balance \in [Account -> Nat]
        BY <1>t, <1>c, <3>2, <4>1 DEF TypeOK, LedgerTypeOK
      <4> QED BY <1>t, <3>1, <3>2, <4>2 DEF TypeOK, Tables
    <3>4. call'[p].what = c
      BY <1>t, <1>o, <3>1, Moved DEF Pc
    <3>5. Debited(call[p].what)'
      BY <2>1, <2>2, <2>3, <3>2, <3>4 DEF Debited, ChargeInserted, Replayed, ledgerVars
    <3> QED BY <1>o, <2>1, <3>1, <3>3, <3>5, StatementInv DEF Open
  <2>4. CASE ~(tx.balance[c.account] >= c.amount)
    <3>1. Leave(p) /\ Undo
      BY <1>2, <2>4 DEF DebitAccount
    <3> QED BY <1>o, <2>1, <3>1, AbandonInv
  <2> QED BY <2>3, <2>4
<1> QED BY <1>1, <1>2

\* A step that moves a caller outside any transaction keeps the invariant.
LEMMA OutsideStep ==
  ASSUME SQLiteInv, NEW p \in Caller, call[p].pc \notin Open, call'[p].pc \notin Open,
         call' \in [Caller -> Running \cup {Idle}],
         \A q \in Caller : q # p => call'[q] = call[q],
         UNCHANGED <<ledgerVars, tx, conn>>,
         answered' \subseteq {Tag(c) : c \in Call}
  PROVE  SQLiteInv'
<1>1. TypeOK'
  BY DEF SQLiteInv, TypeOK, LedgerTypeOK, ledgerVars
<1>2. OneTransaction'
  BY DEF SQLiteInv, OneTransaction
<1>3. TransactionView'
  <2>1. SameTables' <=> SameTables
    BY DEF SameTables, ledgerVars
  <2>2. UNCHANGED <<balance, grants, keyed, charged, tx, conn>>
    BY DEF ledgerVars
  <2>3. ASSUME NEW c PROVE RowInserted(c)' = RowInserted(c)
    BY <2>2 DEF RowInserted
  <2>4. ASSUME NEW c PROVE ChargeInserted(c)' = ChargeInserted(c)
    BY <2>2 DEF ChargeInserted, Replayed
  <2>5. ASSUME NEW c PROVE Credited(c)' = Credited(c)
    BY <2>2, <2>3 DEF Credited
  <2>6. ASSUME NEW c PROVE Debited(c)' = Debited(c)
    BY <2>2, <2>4 DEF Debited
  <2>7. ASSUME NEW q \in Caller, q # p
        PROVE  LET c == call[q].what IN
               /\ call'[q].pc = "insert" => SameTables'
               /\ call'[q].pc = "credit" => RowInserted(c)' /\ tx'.balance = balance'
               /\ call'[q].pc = "debit" => ChargeInserted(c)' /\ tx'.balance = balance'
               /\ call'[q].pc = "commit" => SameTables' \/ Credited(c)' \/ Debited(c)'
    <3>1. call'[q] = call[q]
      BY <2>7
    <3>2. LET c == call[q].what IN
          /\ call[q].pc = "insert" => SameTables
          /\ call[q].pc = "credit" => RowInserted(c) /\ tx.balance = balance
          /\ call[q].pc = "debit" => ChargeInserted(c) /\ tx.balance = balance
          /\ call[q].pc = "commit" => SameTables \/ Credited(c) \/ Debited(c)
      BY DEF SQLiteInv, TransactionView
    <3> QED BY <2>1, <2>2, <2>3, <2>4, <2>5, <2>6, <3>1, <3>2
  <2> QED BY <2>1, <2>2, <2>7 DEF SQLiteInv, TransactionView, Open
<1> QED BY <1>1, <1>2, <1>3 DEF SQLiteInv

\* A new call and the answer to a finished one keep the invariant.
LEMMA EdgeStep ==
  ASSUME SQLiteInv, NEW p \in Caller,
         (\E c \in Call : Invoke(p, c)) \/ Reply(p)
  PROVE  SQLiteInv'
<1>t. TypeOK
  BY DEF SQLiteInv
<1>1. ASSUME NEW c \in Call, Invoke(p, c) PROVE SQLiteInv'
  <2>1. [what |-> c, pc |-> "wait"] \in Running
    BY DEF Running, Pc
  <2>2. /\ call[p].pc \notin Open
        /\ call'[p].pc \notin Open
        /\ call' \in [Caller -> Running \cup {Idle}]
        /\ \A q \in Caller : q # p => call'[q] = call[q]
    BY <1>1, <1>t, <2>1 DEF Invoke, TypeOK, Idle, Open
  <2>3. UNCHANGED <<ledgerVars, tx, conn>> /\ answered' \subseteq {Tag(e) : e \in Call}
    BY <1>1, <1>t DEF Invoke, TypeOK
  <2> QED BY <2>2, <2>3, OutsideStep
<1>2. CASE Reply(p)
  <2>1. call[p].pc = "reply" /\ Leave(p) /\ UNCHANGED <<ledgerVars, tx, conn>>
    BY <1>2 DEF Reply
  <2>2. /\ call' \in [Caller -> Running \cup {Idle}]
        /\ \A q \in Caller : q # p => call'[q] = call[q]
    BY <1>t, <2>1, CallTyped
  <2>3. call[p].pc \notin Open /\ call'[p].pc \notin Open
    BY <1>t, <2>1 DEF Leave, TypeOK, Idle, Open
  <2>4. call[p].what \in Call
    BY <1>t, <2>1, RunningCall DEF Pc
  <2>5. answered' \subseteq {Tag(e) : e \in Call}
    BY <1>2, <1>t, <2>4 DEF Reply, TypeOK
  <2> QED BY <2>1, <2>2, <2>3, <2>5, OutsideStep
<1> QED BY <1>1, <1>2

\* Taking the connection keeps the invariant.
LEMMA BeginInv ==
  ASSUME SQLiteInv, NEW p \in Caller, BeginTx(p)
  PROVE  SQLiteInv'
<1>t. TypeOK /\ call[p].pc \in Pc
  BY DEF SQLiteInv, BeginTx, Pc
<1>1. /\ conn = Nobody /\ conn' = p /\ Enter(p, "insert")
      /\ UNCHANGED <<balance, grants, keyed, charged, tx, answered>>
  BY DEF BeginTx, ledgerVars
<1>2. \A q \in Caller : call[q].pc \notin Open
  BY <1>1 DEF SQLiteInv, OneTransaction
<1>3. /\ call' \in [Caller -> Running \cup {Idle}]
      /\ \A q \in Caller : q # p => call'[q] = call[q]
  BY <1>t, <1>1, CallTyped DEF Pc
<1>4. call'[p].pc = "insert"
  BY <1>t, <1>1, Moved DEF Pc
<1>5. SameTables'
  BY <1>1 DEF SQLiteInv, TransactionView, SameTables
<1>6. TypeOK'
  BY <1>t, <1>1, <1>3 DEF TypeOK, LedgerTypeOK
<1>7. OneTransaction'
  BY <1>1, <1>2, <1>3, <1>4 DEF OneTransaction, Open
<1>8. TransactionView'
  <2>1. \A q \in Caller : q # p => call'[q].pc \notin Open
    BY <1>2, <1>3
  <2> QED BY <1>1, <1>4, <1>5, <2>1 DEF TransactionView, Open
<1> QED BY <1>6, <1>7, <1>8 DEF SQLiteInv

\* A commit publishes one whole grant, one whole charge, or nothing.
LEMMA CommitStep ==
  ASSUME SQLiteInv, NEW p \in Caller, Commit(p)
  PROVE  SQLiteInv' /\ (AtomicStep \/ UNCHANGED ledgerVars)
<1> DEFINE c == call[p].what
<1>t. TypeOK /\ call[p].pc \in Pc /\ call[p].pc \in Open
  BY DEF SQLiteInv, Commit, Pc, Open
<1>c. /\ c.account \in Account /\ c.amount \in Amount /\ c.amount \in Nat \ {0}
      /\ c.op = "grant" => c.ref \in Ref
      /\ c.op = "charge" => c.key \in IdemKey \cup {NoKey}
  BY <1>t, RunningCall
<1>1. /\ balance' = tx.balance /\ grants' = tx.grants
      /\ keyed' = tx.keyed /\ charged' = tx.charged
      /\ conn' = Nobody /\ Enter(p, "reply") /\ tx' = tx /\ answered' = answered
      /\ call[p].pc = "commit"
  BY DEF Commit
<1>2. SQLiteInv'
  <2>1. /\ call' \in [Caller -> Running \cup {Idle}]
        /\ \A q \in Caller : q # p => call'[q] = call[q]
    BY <1>t, <1>1, CallTyped DEF Pc
  <2>2. call'[p].pc = "reply"
    BY <1>t, <1>1, Moved DEF Pc
  <2>3. \A q \in Caller : call'[q].pc \notin Open
    BY <1>t, <2>1, <2>2, Holder DEF Open
  <2>4. TypeOK'
    BY <1>t, <1>1, <2>1, TxTyped DEF TypeOK, LedgerTypeOK
  <2>5. SameTables'
    BY <1>1 DEF SameTables
  <2> QED BY <1>1, <2>3, <2>4, <2>5 DEF SQLiteInv, OneTransaction, TransactionView, Open
<1>3. SameTables \/ Credited(c) \/ Debited(c)
  BY <1>1 DEF SQLiteInv, TransactionView
<1>4. CASE SameTables
  BY <1>1, <1>2, <1>4 DEF SameTables, ledgerVars
<1>5. CASE Credited(c)
  <2>1. Grant(c.account, c.amount, c.ref)
    BY <1>1, <1>5, <1>c DEF Credited, RowInserted, Grant
  <2>2. c.ref \in Ref
    BY <1>5, <1>c DEF Credited, RowInserted
  <2> QED BY <1>2, <1>c, <2>1, <2>2 DEF AtomicStep
<1>6. CASE Debited(c)
  <2>1. ChargeDebit(c.account, c.amount, c.key)
    <3>1. c.amount > 0
      BY <1>c
    <3>2. /\ ~Replayed(c.account, c.key)
          /\ balance[c.account] >= c.amount
          /\ tx.balance = [balance EXCEPT ![c.account] = @ - c.amount]
          /\ tx.charged = [charged EXCEPT ![c.account] = @ + c.amount]
          /\ tx.keyed = (IF c.key = NoKey THEN keyed ELSE keyed \cup {<<c.account, c.key>>})
          /\ tx.grants = grants
      BY ZenonT(30), <1>6 DEF Debited, ChargeInserted
    <3> HIDE DEF c
    <3> QED BY ZenonT(30), <1>1, <3>1, <3>2 DEF ChargeDebit
  <2>2. c.key \in IdemKey \cup {NoKey}
    BY <1>6, <1>c DEF Debited, ChargeInserted
  <2> QED BY <1>2, <1>c, <2>1, <2>2 DEF AtomicStep
<1> QED BY <1>3, <1>4, <1>5, <1>6

\* An error or a cancelled wait keeps the invariant.
LEMMA RollbackInv ==
  ASSUME SQLiteInv, NEW p \in Caller, Rollback(p)
  PROVE  SQLiteInv'
<1>t. TypeOK
  BY DEF SQLiteInv
<1>0. Leave(p) /\ UNCHANGED <<ledgerVars, answered>>
  BY DEF Rollback
<1>1. CASE conn = p
  <2>1. Undo /\ call[p].pc \in Open
    BY <1>1 DEF Rollback, SQLiteInv, OneTransaction
  <2> QED BY <1>0, <2>1, AbandonInv
<1>2. CASE conn # p
  <2>1. call[p].pc \notin Open /\ UNCHANGED <<conn, tx>>
    BY <1>2 DEF Rollback, SQLiteInv, OneTransaction
  <2>2. /\ call' \in [Caller -> Running \cup {Idle}]
        /\ \A q \in Caller : q # p => call'[q] = call[q]
    BY <1>t, <1>0, CallTyped
  <2>3. call'[p].pc \notin Open /\ answered' \subseteq {Tag(c) : c \in Call}
    BY <1>t, <1>0 DEF Leave, TypeOK, Idle, Open
  <2> QED BY <1>0, <2>1, <2>2, <2>3, OutsideStep
<1> QED BY <1>1, <1>2

\* Every step keeps the invariant and changes the committed tables by one
\* whole operation at most.
LEMMA StepSQLiteInv ==
  ASSUME SQLiteInv, [Next]_sqliteVars
  PROVE  SQLiteInv' /\ [AtomicStep]_ledgerVars
<1>1. CASE UNCHANGED sqliteVars
  <2>1. UNCHANGED <<balance, grants, keyed, charged, tx, conn, call, answered>>
    BY <1>1 DEF sqliteVars, ledgerVars
  <2>2. TypeOK' /\ OneTransaction'
    BY <2>1 DEF SQLiteInv, TypeOK, LedgerTypeOK, OneTransaction
  <2>3. TransactionView' = TransactionView
    BY <2>1 DEF TransactionView, SameTables, RowInserted, ChargeInserted, Credited, Debited,
                Replayed
  <2> QED BY <2>1, <2>2, <2>3 DEF SQLiteInv, ledgerVars
<1>2. ASSUME NEW p \in Caller, (\E c \in Call : Invoke(p, c)) \/ Reply(p)
      PROVE  SQLiteInv' /\ UNCHANGED ledgerVars
  BY <1>2, EdgeStep DEF Invoke, Reply
<1>3. ASSUME NEW p \in Caller, BeginTx(p) PROVE SQLiteInv' /\ UNCHANGED ledgerVars
  BY <1>3, BeginInv DEF BeginTx
<1>4. ASSUME NEW p \in Caller, InsertGrant(p) \/ CreditAccount(p)
      PROVE  SQLiteInv' /\ UNCHANGED ledgerVars
  BY <1>4, GrantStatements DEF InsertGrant, CreditAccount
<1>5. ASSUME NEW p \in Caller, InsertCharge(p) \/ DebitAccount(p)
      PROVE  SQLiteInv' /\ UNCHANGED ledgerVars
  BY <1>5, ChargeStatements DEF InsertCharge, DebitAccount
<1>6. ASSUME NEW p \in Caller, Rollback(p) PROVE SQLiteInv' /\ UNCHANGED ledgerVars
  BY <1>6, RollbackInv DEF Rollback
<1>7. CASE Crash
  <2>1. /\ Undo /\ UNCHANGED ledgerVars /\ answered' = answered
        /\ call' = [p \in Caller |-> Idle]
    BY <1>7 DEF Crash
  <2>2. \A p \in Caller : call'[p].pc \notin Open
    BY <2>1 DEF Idle, Open
  <2> QED BY <2>1, <2>2, UndoInv
<1> QED BY <1>1, <1>2, <1>3, <1>4, <1>5, <1>6, <1>7, CommitStep DEF Next, Statement

-----------------------------------------------------------------------------
(* Conservation: a grant adds its row and its credit, a charge moves atoms *)
(* from the balance to what was charged.                                   *)

\* The amounts granted to an account can be summed.
LEMMA GrantsCount ==
  ASSUME LedgerTypeOK, NEW a \in Account, IsFiniteSet(GrantsTo(a))
  PROVE  Counts([x \in GrantsTo(a) |-> grants[x].amount], GrantsTo(a))
  BY DEF LedgerTypeOK, GrantRow, GrantsTo, Counts

\* An operation of the atomic ledger conserves atoms.
LEMMA StepConserves ==
  ASSUME LedgerTypeOK, Conserved, \A a \in Account : IsFiniteSet(GrantsTo(a)), AtomicStep
  PROVE  Conserved' /\ \A a \in Account : IsFiniteSet(GrantsTo(a)')
<1> DEFINE f(a) == [x \in GrantsTo(a) |-> grants[x].amount]
<1>0. \A a \in Account : /\ balance[a] \in Nat /\ charged[a] \in Nat
                         /\ balance[a] + charged[a] = SumFunctionOnSet(f(a), GrantsTo(a))
  BY DEF LedgerTypeOK, Conserved, SumFunction
<1>1. PICK a \in Account, n \in Amount :
        \/ \E x \in Ref : Grant(a, n, x)
        \/ \E key \in IdemKey \cup {NoKey} : ChargeDebit(a, n, key)
  BY DEF AtomicStep
<1>2. CASE grants' = grants
  <2>1. ASSUME NEW b \in Account
        PROVE  GrantsTo(b)' = GrantsTo(b) /\ balance'[b] + charged'[b] = balance[b] + charged[b]
    <3>1. GrantsTo(b)' = GrantsTo(b)
      BY <1>2 DEF GrantsTo
    <3>2. CASE \E x \in Ref : Grant(a, n, x)
      <4>1. PICK x \in Ref : Grant(a, n, x)
        BY <3>2
      <4>2. CASE grants[x] # NoGrant
        BY <3>1, <4>1, <4>2 DEF Grant
      <4>3. CASE grants[x] = NoGrant
        <5>1. grants'[x] = [account |-> a, amount |-> n]
          BY <4>1, <4>3 DEF Grant, LedgerTypeOK
        <5>2. [account |-> a, amount |-> n] \in GrantRow
          BY DEF GrantRow
        <5> QED BY <1>2, <4>3, <5>1, <5>2
      <4> QED BY <4>2, <4>3
    <3>3. CASE \E key \in IdemKey \cup {NoKey} : ChargeDebit(a, n, key)
      BY <1>0, <3>1, <3>3 DEF ChargeDebit, LedgerTypeOK
    <3> QED BY <1>1, <3>1, <3>2, <3>3
  <2>2. \A b \in Account : IsFiniteSet(GrantsTo(b)')
    BY <2>1
  <2>3. ASSUME NEW b \in Account
        PROVE  balance'[b] + charged'[b]
                 = SumFunction([x \in GrantsTo(b)' |-> grants'[x].amount])
    <3>1. [x \in GrantsTo(b)' |-> grants'[x].amount] = f(b)
      BY <1>2, <2>1
    <3> QED BY <1>0, <2>1, <3>1 DEF Conserved
  <2> QED BY <2>2, <2>3 DEF Conserved
<1>3. CASE grants' # grants
  <2>1. PICK x \in Ref :
          /\ grants[x] = NoGrant /\ charged' = charged
          /\ grants' = [grants EXCEPT ![x] = [account |-> a, amount |-> n]]
          /\ balance' = [balance EXCEPT ![a] = @ + n]
    BY <1>1, <1>3 DEF Grant, ChargeDebit
  <2>2. n \in Nat /\ [account |-> a, amount |-> n] # NoGrant
    <3>1. [account |-> a, amount |-> n] \in GrantRow
      BY DEF GrantRow
    <3> QED BY <3>1
  <2>3. ASSUME NEW b \in Account
        PROVE  /\ IsFiniteSet(GrantsTo(b)')
               /\ balance'[b] + charged'[b]
                    = SumFunction([y \in GrantsTo(b)' |-> grants'[y].amount])
    <3> DEFINE g == [y \in GrantsTo(b)' |-> grants'[y].amount]
    <3>1. Counts(f(b), GrantsTo(b))
      BY GrantsCount
    <3>2. x \notin GrantsTo(b)
      BY <2>1 DEF GrantsTo
    <3>3. CASE b = a
      <4>1. GrantsTo(b)' = GrantsTo(b) \cup {x}
        BY <2>1, <2>2, <3>3 DEF GrantsTo, LedgerTypeOK
      <4>2. g[x] = n /\ \A y \in GrantsTo(b) : g[y] = f(b)[y]
        <5>1. \A y \in GrantsTo(b) : y \in Ref /\ y # x
          BY <3>2 DEF GrantsTo
        <5> QED BY <2>1, <4>1, <5>1 DEF LedgerTypeOK
      <4>3. DOMAIN g = GrantsTo(b) \cup {x}
        BY <4>1
      <4> HIDE DEF f, g
      <4>4. Counts(g, GrantsTo(b)) /\ SumFunctionOnSet(g, GrantsTo(b)) = SumFunctionOnSet(f(b), GrantsTo(b))
        BY <3>1, <4>2, SumSame
      <4>5. /\ Counts(g, GrantsTo(b) \cup {x})
            /\ SumFunctionOnSet(g, GrantsTo(b) \cup {x}) = SumFunctionOnSet(g, GrantsTo(b)) + g[x]
        BY <2>2, <3>2, <4>2, <4>4, SumAdd
      <4>6. IsFiniteSet(GrantsTo(b)')
        BY <4>1, <4>5 DEF Counts
      <4>7. SumFunction(g) = SumFunctionOnSet(g, GrantsTo(b) \cup {x})
        BY <4>3 DEF SumFunction
      <4>8. balance'[b] + charged'[b] = balance[b] + charged[b] + n
        BY <1>0, <2>1, <2>2, <3>3 DEF LedgerTypeOK
      <4>9. balance'[b] + charged'[b] = SumFunction(g)
        BY <1>0, <2>2, <4>2, <4>4, <4>5, <4>7, <4>8
      <4> QED BY <4>6, <4>9 DEF g
    <3>4. CASE b # a
      <4>1. GrantsTo(b)' = GrantsTo(b)
        BY <2>1, <2>2, <3>4 DEF GrantsTo, LedgerTypeOK
      <4>2. \A y \in GrantsTo(b) : y \in Ref /\ grants'[y] = grants[y]
        BY <2>1, <3>2 DEF GrantsTo, LedgerTypeOK
      <4>3. g = f(b)
        BY <4>1, <4>2
      <4>4. balance'[b] + charged'[b] = balance[b] + charged[b]
        BY <2>1, <3>4 DEF LedgerTypeOK
      <4> QED BY <1>0, <4>1, <4>3, <4>4 DEF SumFunction
    <3> QED BY <3>3, <3>4
  <2> QED BY <2>3 DEF Conserved
<1> QED BY <1>2, <1>3

\* The first state conserves atoms, and so does every step.
LEMMA ConservedInvariant ==
  /\ Init => ConservedInv
  /\ ConservedInv /\ [Next]_sqliteVars => ConservedInv'
<1>1. ASSUME Init PROVE ConservedInv
  <2>1. \A a \in Account : GrantsTo(a) = {}
    BY <1>1 DEF Init, LedgerInit, GrantsTo
  <2>2. ASSUME NEW a \in Account
        PROVE  /\ balance[a] + charged[a] = SumFunction([x \in GrantsTo(a) |-> grants[x].amount])
               /\ IsFiniteSet(GrantsTo(a))
    <3> DEFINE f == [x \in GrantsTo(a) |-> grants[x].amount]
    <3>1. DOMAIN f = {}
      BY <2>1
    <3> HIDE DEF f
    <3>2. SumFunction(f) = 0
      BY <3>1, SumEmpty DEF SumFunction
    <3>3. balance[a] = 0 /\ charged[a] = 0
      BY <1>1 DEF Init, LedgerInit
    <3> QED BY <2>1, <3>2, <3>3, FS_EmptySet DEF f
  <2> QED BY <1>1, <2>2, InitSQLiteInv DEF ConservedInv, Conserved
<1>2. ASSUME ConservedInv, [Next]_sqliteVars PROVE ConservedInv'
  <2>1. SQLiteInv' /\ [AtomicStep]_ledgerVars
    BY <1>2, StepSQLiteInv DEF ConservedInv
  <2>2. CASE AtomicStep
    BY <1>2, <2>1, <2>2, StepConserves DEF ConservedInv, SQLiteInv, TypeOK
  <2>3. CASE UNCHANGED ledgerVars
    <3>1. UNCHANGED <<balance, grants, keyed, charged>>
      BY <2>3 DEF ledgerVars
    <3>2. \A a \in Account : GrantsTo(a)' = GrantsTo(a)
      BY <3>1 DEF GrantsTo
    <3>3. Conserved' /\ \A a \in Account : IsFiniteSet(GrantsTo(a)')
      BY <1>2, <3>1, <3>2 DEF ConservedInv, Conserved
    <3> QED BY <2>1, <3>3 DEF ConservedInv
  <2> QED BY <2>1, <2>2, <2>3
<1> QED BY <1>1, <1>2

\* An operation of the atomic ledger takes no record back.
LEMMA RecordsStay ==
  ASSUME LedgerTypeOK, [AtomicStep]_ledgerVars, NEW c \in Call, Recorded(Committed, c)
  PROVE  Recorded(Committed', c)
<1>0. /\ Committed.grants = grants /\ Committed.keyed = keyed
      /\ Committed'.grants = grants' /\ Committed'.keyed = keyed'
  BY DEF Committed
<1>1. CASE UNCHANGED ledgerVars
  BY <1>0, <1>1 DEF ledgerVars, Recorded
<1>2. CASE AtomicStep
  <2>1. PICK a \in Account, n \in Amount :
          \/ \E x \in Ref : Grant(a, n, x)
          \/ \E key \in IdemKey \cup {NoKey} : ChargeDebit(a, n, key)
    BY <1>2 DEF AtomicStep
  <2>2. keyed \subseteq keyed'
    BY <2>1 DEF Grant, ChargeDebit
  <2>3. [account |-> a, amount |-> n] # NoGrant
    <3>1. [account |-> a, amount |-> n] \in GrantRow
      BY DEF GrantRow
    <3> QED BY <3>1
  <2>4. \A y \in Ref : grants[y] # NoGrant => grants'[y] # NoGrant
    BY <2>1, <2>3 DEF Grant, ChargeDebit, LedgerTypeOK
  <2>5. c.op = "grant" => c.ref \in Ref
    BY DEF Call
  <2> QED BY <1>0, <2>2, <2>4, <2>5 DEF Recorded
<1> QED BY <1>1, <1>2

\* A call's tag says what its record is.
LEMMA TagRecords ==
  ASSUME NEW t, NEW c \in Call, NEW d \in Call, Tag(c) = Tag(d), Recorded(t, c)
  PROVE  Recorded(t, d)
<1>1. c.op \in {"grant", "charge"} /\ d.op \in {"grant", "charge"}
  BY DEF Call
<1>2. c.op = d.op
  <2>1. ASSUME NEW x, NEW y, NEW z, <<x>> = <<y, z>> PROVE FALSE
    BY <2>1
  <2> QED BY <1>1, <2>1 DEF Tag
<1>3. CASE c.op = "grant"
  BY <1>2, <1>3 DEF Tag, Recorded
<1>4. CASE c.op # "grant"
  BY <1>2, <1>4 DEF Tag, Recorded
<1> QED BY <1>3, <1>4

\* A statement of a transaction leaves the record of the call in the tables
\* the transaction sees.
LEMMA StatementRecords ==
  ASSUME SQLiteInv, NEW p \in Caller,
         InsertGrant(p) \/ CreditAccount(p) \/ InsertCharge(p) \/ DebitAccount(p),
         call[p].pc \in {"credit", "debit", "commit"} => Recorded(tx, call[p].what),
         call'[p].pc \in {"credit", "debit", "commit"}
  PROVE  Recorded(tx', call'[p].what)
<1> DEFINE c == call[p].what
<1>t. TypeOK /\ call[p].pc \in Pc
  BY DEF SQLiteInv, InsertGrant, CreditAccount, InsertCharge, DebitAccount, Pc
<1>c. /\ c.account \in Account /\ c.amount \in Nat \ {0}
      /\ c.op = "grant" => c.ref \in Ref
      /\ [account |-> c.account, amount |-> c.amount] # NoGrant
  <2>1. c.account \in Account /\ c.amount \in Nat \ {0} /\ (c.op = "grant" => c.ref \in Ref)
    BY <1>t, RunningCall
  <2>2. [account |-> c.account, amount |-> c.amount] \in GrantRow
    BY <2>1 DEF GrantRow
  <2> QED BY <2>1, <2>2
<1>w. call'[p].what = c
  <2>1. ~Leave(p)
    BY <1>t DEF Leave, Idle, TypeOK
  <2>2. \E pc \in Pc : Enter(p, pc)
    BY <2>1 DEF InsertGrant, CreditAccount, InsertCharge, DebitAccount, Pc
  <2> QED BY <1>t, <2>2, Moved
<1>f. /\ tx = [balance |-> tx.balance, grants |-> tx.grants, keyed |-> tx.keyed,
               charged |-> tx.charged]
      /\ tx.grants \in [Ref -> GrantRow \cup {NoGrant}]
  BY <1>t DEF TypeOK, Tables
<1>1. CASE InsertGrant(p)
  <2>1. c.op = "grant" /\ tx'.grants[c.ref] # NoGrant
    BY <1>1, <1>c, <1>f DEF InsertGrant
  <2> QED BY <1>w, <2>1 DEF Recorded
<1>2. CASE InsertCharge(p)
  <2>1. c.op = "charge" /\ (c.key # NoKey => <<c.account, c.key>> \in tx'.keyed)
    BY ZenonT(30), <1>2, <1>f DEF InsertCharge
  <2> QED BY <1>w, <2>1 DEF Recorded
<1>3. CASE CreditAccount(p) \/ DebitAccount(p)
  <2>1. call[p].pc \in {"credit", "debit"}
    BY <1>3 DEF CreditAccount, DebitAccount
  <2>2. ~Leave(p)
    BY <1>t DEF Leave, Idle, TypeOK
  <2>3. tx'.grants = tx.grants /\ tx'.keyed = tx.keyed
    BY <1>3, <1>f, <2>2 DEF CreditAccount, DebitAccount
  <2> QED BY <1>w, <2>1, <2>3 DEF Recorded
<1> QED BY <1>1, <1>2, <1>3

\* What was answered, or is about to be, is in the committed tables.
LEMMA DurableInvariant ==
  /\ Init => DurableInv
  /\ DurableInv /\ [Next]_sqliteVars => DurableInv'
<1> USE DEF Committed
<1>1. ASSUME Init PROVE DurableInv
  <2>1. \A p \in Caller : call[p].pc = "idle"
    BY <1>1 DEF Init, Idle
  <2>2. AnswersAreDurable
    BY <1>1 DEF Init, AnswersAreDurable
  <2> QED BY <1>1, <2>1, <2>2, InitSQLiteInv DEF DurableInv
<1> HIDE DEF Committed
<1>2. ASSUME DurableInv, [Next]_sqliteVars PROVE DurableInv'
  <2> DEFINE Here == {"credit", "debit", "commit"}
  <2>0. /\ SQLiteInv /\ TypeOK /\ LedgerTypeOK
        /\ \A q \in Caller : /\ call[q].pc \in Here => Recorded(tx, call[q].what)
                             /\ call[q].pc = "reply" => Recorded(Committed, call[q].what)
        /\ \A c \in Call : Tag(c) \in answered => Recorded(Committed, c)
    <3>1. Committed.grants = grants /\ Committed.keyed = keyed
      BY DEF Committed
    <3> QED BY <1>2, <3>1 DEF DurableInv, SQLiteInv, TypeOK, AnswersAreDurable, Recorded, Replayed
  <2>1. SQLiteInv' /\ TypeOK' /\ [AtomicStep]_ledgerVars
    BY <1>2, <2>0, StepSQLiteInv DEF SQLiteInv
  <2>2. \A c \in Call : Recorded(Committed, c) => Recorded(Committed', c)
    BY <2>0, <2>1, RecordsStay
  <2>3. ASSUME NEW q \in Caller, call'[q].pc \in Here
        PROVE  Recorded(tx', call'[q].what)
    <3>o. call'[q].pc \in Open /\ conn' = q /\ q # Nobody
      BY <2>1, <2>3 DEF SQLiteInv, OneTransaction, Open
    <3>1. CASE UNCHANGED sqliteVars
      BY <2>0, <2>3, <3>1 DEF sqliteVars
    <3>2. CASE Crash
      BY <2>3, <3>2 DEF Crash, Idle
    <3>3. ASSUME NEW p \in Caller,
                 (\E c \in Call : Invoke(p, c)) \/ BeginTx(p) \/ Reply(p) \/ Commit(p) \/ Rollback(p)
          PROVE  Recorded(tx', call'[q].what)
      <4>1. call'[p].pc \notin Here /\ \A r \in Caller : r # p => call'[r] = call[r]
        BY <2>0, <3>3 DEF Invoke, BeginTx, Reply, Commit, Rollback, Enter, Leave, Idle, TypeOK, Running
      <4>2. conn = q /\ conn' = q /\ p # q
        BY <2>0, <2>3, <3>o, <4>1 DEF SQLiteInv, OneTransaction, Open
      <4>3. tx' = tx
        BY <3>3, <3>o, <4>2 DEF Invoke, BeginTx, Reply, Commit, Rollback
      <4> QED BY <2>0, <2>3, <4>1, <4>2, <4>3
    <3>4. ASSUME NEW p \in Caller,
                 InsertGrant(p) \/ CreditAccount(p) \/ InsertCharge(p) \/ DebitAccount(p)
          PROVE  Recorded(tx', call'[q].what)
      <4>1. call[p].pc \in Open
        BY <3>4 DEF InsertGrant, CreditAccount, InsertCharge, DebitAccount, Open
      <4>2. conn = p
        BY <2>0, <4>1 DEF SQLiteInv, OneTransaction
      <4>3. p = q
        BY <3>4, <3>o, <4>2 DEF InsertGrant, CreditAccount, InsertCharge, DebitAccount, Undo
      <4> QED BY <2>0, <2>3, <3>4, <4>3, StatementRecords
    <3> QED BY <1>2, <3>1, <3>2, <3>3, <3>4 DEF Next, Statement
  <2>4. ASSUME NEW q \in Caller, call'[q].pc = "reply"
        PROVE  Recorded(Committed', call'[q].what)
    <3>1. CASE call'[q] = call[q]
      <4>1. call[q].what \in Call
        BY <2>0, <2>4, <3>1, RunningCall DEF Pc
      <4> QED BY <2>0, <2>2, <2>4, <3>1, <4>1
    <3>2. CASE call'[q] # call[q]
      <4>1. Commit(q)
        <5>1. ASSUME NEW p \in Caller,
                     Invoke(p, call'[p].what) \/ BeginTx(p) \/ Reply(p) \/ Rollback(p)
                     \/ InsertGrant(p) \/ CreditAccount(p) \/ InsertCharge(p) \/ DebitAccount(p)
              PROVE  call'[p].pc # "reply" /\ \A r \in Caller : r # p => call'[r] = call[r]
          <6>1. CASE Invoke(p, call'[p].what)
            BY <2>0, <6>1 DEF Invoke, TypeOK
          <6>2. CASE Reply(p) \/ Rollback(p) \/ Leave(p)
            BY <2>0, <6>2 DEF Reply, Rollback, Leave, Idle, TypeOK
          <6>3. ASSUME NEW pc \in Pc, pc # "reply", Enter(p, pc), call[p].pc \in Pc
                PROVE  call'[p].pc # "reply" /\ \A r \in Caller : r # p => call'[r] = call[r]
            BY <2>0, <6>3, Moved, CallTyped
          <6> QED BY <5>1, <6>1, <6>2, <6>3 DEF BeginTx, InsertGrant, CreditAccount,
                                                InsertCharge, DebitAccount, Pc
        <5>2. ASSUME NEW p \in Caller, NEW c \in Call, Invoke(p, c)
              PROVE  Invoke(p, call'[p].what)
          BY <2>0, <5>2 DEF Invoke, TypeOK
        <5>3. ~Crash
          BY <2>4 DEF Crash, Idle
        <5>4. ASSUME NEW p \in Caller, Commit(p) PROVE \A r \in Caller : r # p => call'[r] = call[r]
          BY <2>0, <5>4, CallTyped DEF Commit, Pc
        <5>5. PICK p \in Caller :
                \/ \E c \in Call : Invoke(p, c)
                \/ BeginTx(p) \/ Statement(p) \/ Rollback(p)
          BY <1>2, <3>2, <5>3 DEF Next, sqliteVars
        <5>6. Commit(p)
          BY <2>4, <3>2, <5>1, <5>2, <5>5 DEF Statement
        <5> QED BY <3>2, <5>4, <5>6
      <4>2. call'[q].what = call[q].what
        BY <2>0, <4>1, Moved DEF Commit, Pc
      <4>3. Recorded(tx, call[q].what) /\ tx.grants = grants' /\ tx.keyed = keyed'
        BY <2>0, <4>1 DEF Commit
      <4>4. Committed'.grants = grants' /\ Committed'.keyed = keyed'
        BY DEF Committed
      <4> QED BY <4>2, <4>3, <4>4 DEF Recorded
    <3> QED BY <3>1, <3>2
  <2>5. ASSUME NEW c \in Call, Tag(c) \in answered'
        PROVE  Recorded(Committed', c)
    <3>1. CASE Tag(c) \in answered
      BY <2>0, <2>2, <3>1
    <3>2. CASE Tag(c) \notin answered
      <4>1. PICK p \in Caller : Reply(p)
        BY <1>2, <2>5, <3>2 DEF Next, Statement, sqliteVars, Invoke, BeginTx, InsertGrant, CreditAccount, InsertCharge,
           DebitAccount, Commit, Rollback, Crash
      <4>2. call[p].what \in Call /\ Tag(call[p].what) = Tag(c) /\ Recorded(Committed, call[p].what)
        BY <2>0, <2>5, <3>2, <4>1, RunningCall DEF Reply, Pc
      <4> QED BY <2>2, <4>2, TagRecords
    <3> QED BY <3>1, <3>2
  <2>6. AnswersAreDurable'
    <3>1. Committed'.grants = grants' /\ Committed'.keyed = keyed'
      BY DEF Committed
    <3> QED BY <2>5, <3>1 DEF AnswersAreDurable, Recorded, Replayed
  <2> QED BY <2>1, <2>3, <2>4, <2>6 DEF DurableInv
<1> QED BY <1>1, <1>2

-----------------------------------------------------------------------------
(* The theorems *)

\* Grant and Charge of the SQLite ledger are atomic: their transactions take
\* effect as one step of Ledger each, with any number of concurrent calls,
\* errors, cancellations and crashes.
THEOREM LedgerIsAtomic == Spec => AtomicLedger
<1>1. Init => SQLiteInv /\ LedgerInit
  BY InitSQLiteInv DEF Init
<1>2. SQLiteInv /\ [Next]_sqliteVars => SQLiteInv' /\ [AtomicStep]_ledgerVars
  BY StepSQLiteInv
<1> QED BY <1>1, <1>2, PTL DEF Spec, AtomicLedger

\* Every variable keeps its type: no balance is negative in the committed
\* tables or in an open transaction.
THEOREM LedgerTypes == Spec => []TypeOK
<1>1. Init => SQLiteInv
  BY InitSQLiteInv
<1>2. SQLiteInv /\ [Next]_sqliteVars => SQLiteInv'
  BY StepSQLiteInv
<1>3. SQLiteInv => TypeOK
  BY DEF SQLiteInv
<1> QED BY <1>1, <1>2, <1>3, PTL DEF Spec

\* No atom is created or lost: with any number of overlapping calls, errors
\* and crashes, what is left on an account and what was charged to it add up
\* to its grants.
THEOREM NothingIsLost == Spec => []Conserved
<1>1. ConservedInv => Conserved
  BY DEF ConservedInv
<1> QED BY <1>1, ConservedInvariant, PTL DEF Spec

\* A grant or charge that was answered has its row, and keeps it through the
\* rollbacks of other calls and through crashes, so that a retry of it is
\* recognised.
THEOREM AnswersSurvive == Spec => []AnswersAreDurable
<1>1. DurableInv => AnswersAreDurable
  BY DEF DurableInv
<1> QED BY <1>1, DurableInvariant, PTL DEF Spec


=============================================================================
