-------------------------- MODULE SettlementProofs --------------------------
(***************************************************************************)
(* Proofs about Settlement for any number of threads, packets, accounts,   *)
(* retries, resets and failing statements.                                 *)
(*                                                                         *)
(* Everything rests on Inductive: the mutex is held exactly over the block *)
(* that should be one transaction, and without a transaction nothing is    *)
(* uncommitted (Isolation); the locals of a thread cover the payment it is *)
(* about to write (CheckedLocals), and the open transaction has touched    *)
(* two accounts and at most one new row (OpenTransaction, RowIds).  What a *)
(* step can do to the tables at all is TablesStep.                         *)
(***************************************************************************)
EXTENDS Settlement, TLAPS

USE DEF At, MutexFree, Hash

(***************************************************************************)
(* What the helpers return.                                                *)
(***************************************************************************)

\* AccountRepository::save leaves well-typed tables.
LEMMA WithAccountType ==
  ASSUME NEW tables \in Tables, NEW vpa \in Vpas, NEW account \in Account
  PROVE  WithAccount(tables, vpa, account) \in Tables
  BY DEF WithAccount, Tables

\* TransactionRepository::save leaves well-typed tables.
LEMMA WithRowType ==
  ASSUME NEW tables \in Tables, NEW hash \in Packets,
         NEW status \in {"SETTLED", "REJECTED"}
  PROVE  /\ WithRow(tables, hash, status) \in Tables
         /\ NewRow(tables, hash, status) \in Row
  BY DEF WithRow, NewRow, Tables, Row

\* The locals settle() starts from are well typed.
LEMMA NoCallType ==
  /\ NoCall \in Call
  /\ \A h \in Packets : [NoCall EXCEPT !.hash = h] \in Call
  BY ConstantsAssumption DEF NoCall, Unread, Call, Account

\* So is table accounts after seeding, and when it is empty.
LEMMA SeedAccountsType == 
  /\ SeedAccounts \in [Vpas -> Account \cup {NoAccount}]
  /\ NoAccounts \in [Vpas -> Account \cup {NoAccount}]
  BY ConstantsAssumption DEF SeedAccounts, NoAccounts, Account

\* A failing statement stays within the bound on failures and leaves
\* well-typed tables.
LEMMA FailsType ==
  ASSUME TypeOK, Fails
  PROVE  /\ db' \in Tables /\ committed' \in Tables /\ open' \in BOOLEAN
         /\ used' \in Used
<1>1. used' \in Used
  BY ConstantsAssumption DEF TypeOK, Fails, Fault, Used
<1>2. CASE DropTransaction
  BY <1>1, <1>2 DEF TypeOK, DropTransaction
<1>3. CASE UNCHANGED <<db, committed, open>>
  BY <1>1, <1>3 DEF TypeOK
<1> QED
  BY <1>2, <1>3 DEF Fails

\* So does one that succeeds.
LEMMA WriteType ==
  ASSUME TypeOK, NEW tables \in Tables, Write(tables)
  PROVE  /\ db' \in Tables /\ committed' \in Tables /\ open' \in BOOLEAN
  BY DEF TypeOK, Write

\* Every label a step goes to is a label.
LEMMA GotoType ==
  ASSUME TypeOK, NEW t \in Threads, NEW label \in Labels, Goto(t, label)
  PROVE  pc' \in [Threads -> Labels]
  BY DEF TypeOK, Goto

\* A settle() that returns leaves the thread well typed.
LEMMA ReturnType ==
  ASSUME TypeOK, NEW t \in Threads, NEW answer \in Answer, Return(t, answer)
  PROVE  /\ pc' \in [Threads -> Labels]
         /\ call' \in [Threads -> Call]
         /\ result' \in [Threads -> Answer]
  BY NoCallType DEF TypeOK, Return, Goto, Labels

\* What a throw and a new call record is an answer.
LEMMA ThrownType == Thrown \in Answer /\ NoAnswer \in Answer
  BY DEF Thrown, NoAnswer, Answer

\* A thread inside settle() has a packet, hence accounts and an amount.
LEMMA InCall ==
  ASSUME TypeOK, CheckedLocals, NEW t \in Threads, pc[t] # "idle"
  PROVE  /\ Hash(t) \in Packets
         /\ Sender[Hash(t)] \in Vpas /\ Receiver[Hash(t)] \in Vpas
         /\ Amount[Hash(t)] \in Int
         /\ call[t] \in Call
         /\ call[t].sender \in Account /\ call[t].receiver \in Account
  BY ConstantsAssumption DEF TypeOK, CheckedLocals, Call

\* It writes well-typed tables.
LEMMA SavesType ==
  ASSUME TypeOK, CheckedLocals, NEW t \in Threads, pc[t] # "idle"
  PROVE  Debited(t) \in Tables /\ Credited(t) \in Tables
<1>1. /\ [call[t].sender EXCEPT !.balance = @ - Amount[Hash(t)]] \in Account
      /\ [call[t].receiver EXCEPT !.balance = @ + Amount[Hash(t)]] \in Account
  BY InCall DEF Account
<1> QED
  BY <1>1, InCall, WithAccountType DEF Debited, Credited, TypeOK

-----------------------------------------------------------------------------
(***************************************************************************)
(* One lemma per part of Inductive, one step per action.                   *)
(***************************************************************************)
\* Every step keeps the types.  A thread inside settle() must be known to
\* have a packet, or its amount would be nothing in particular.
LEMMA TypeStep ==
  ASSUME TypeOK, CheckedLocals, [Next]_vars
  PROVE  TypeOK'
<1> USE DEF TypeOK
<1>1. ASSUME NEW t \in Threads, NEW h \in Packets, CallSettle(t, h)
      PROVE  TypeOK'
  <2>1. used' \in Used
    BY <1>1, ConstantsAssumption DEF CallSettle, Used
  <2>2. call' \in [Threads -> Call]
    BY <1>1, NoCallType DEF CallSettle
  <2>3. pc' \in [Threads -> Labels] /\ result' \in [Threads -> Answer]
    BY <1>1, ThrownType DEF CallSettle, Goto, Labels
  <2> QED
    BY <1>1, <2>1, <2>2, <2>3 DEF CallSettle
<1>2. ASSUME NEW t \in Threads, FindSender(t)
      PROVE  TypeOK'
  <2>1. CASE Return(t, Thrown)
    BY <1>2, <2>1, ReturnType, ThrownType, FailsType DEF FindSender
  <2>2. CASE ~Return(t, Thrown)
    <3>1. HasAccount(Sender[Hash(t)])
      BY <1>2, <2>2 DEF FindSender
    <3>2. db.accounts[Sender[Hash(t)]] \in Account
      BY <1>2, <3>1, InCall DEF HasAccount, FindSender, Tables
    <3>3. call' \in [Threads -> Call]
      BY <1>2, <2>2, <3>2 DEF FindSender, Call
    <3>4. pc' \in [Threads -> Labels]
      BY <1>2, <2>2 DEF FindSender, Goto, Labels
    <3> QED
      BY <1>2, <2>2, <3>3, <3>4 DEF FindSender
  <2> QED
    BY <2>1, <2>2
<1>3. ASSUME NEW t \in Threads, FindReceiver(t)
      PROVE  TypeOK'
  <2>1. CASE Return(t, Thrown)
    BY <1>3, <2>1, ReturnType, ThrownType, FailsType DEF FindReceiver
  <2>2. CASE ~Return(t, Thrown)
    <3>1. HasAccount(Receiver[Hash(t)])
      BY <1>3, <2>2 DEF FindReceiver
    <3>2. db.accounts[Receiver[Hash(t)]] \in Account
      BY <1>3, <3>1, InCall DEF HasAccount, FindReceiver, Tables
    <3>3. call' \in [Threads -> Call]
      BY <1>3, <2>2, <3>2 DEF FindReceiver, Call
    <3>4. pc' \in [Threads -> Labels]
      BY <1>3, <2>2 DEF FindReceiver, Goto, Labels
    <3> QED
      BY <1>3, <2>2, <3>3, <3>4 DEF FindReceiver
  <2> QED
    BY <2>1, <2>2
<1>4. ASSUME NEW t \in Threads, RecordRejected(t)
      PROVE  TypeOK'
  <2>1. CASE /\ Return(t, Thrown)
             /\ \/ Fails
                \/ UNCHANGED <<db, committed, open, used>>
    BY <1>4, <2>1, ReturnType, ThrownType, FailsType DEF RecordRejected
  <2>2. CASE /\ Write(WithRow(db, Hash(t), "REJECTED"))
             /\ Return(t, [status |-> "REJECTED", id |-> db'.lastRowId])
             /\ UNCHANGED used
    <3>1. WithRow(db, Hash(t), "REJECTED") \in Tables
      BY <1>4, <2>2, InCall, WithRowType DEF RecordRejected
    <3>2. db' \in Tables /\ committed' \in Tables /\ open' \in BOOLEAN
      BY <2>2, <3>1, WriteType
    <3>3. [status |-> "REJECTED", id |-> db'.lastRowId] \in Answer
      BY <3>2 DEF Answer, Tables
    <3> QED
      BY <1>4, <2>2, <3>2, <3>3, ReturnType DEF RecordRejected
  <2> QED
    BY <1>4, <2>1, <2>2 DEF RecordRejected
<1>5. ASSUME NEW t \in Threads, Begin(t)
      PROVE  TypeOK'
  <2>1. CASE Goto(t, "saveSender") /\ UNCHANGED <<call, result, used>>
    BY <1>5, <2>1, GotoType, FailsType DEF Begin, Labels, InTxn
  <2>2. CASE Return(t, Thrown)
    BY <1>5, <2>2, ReturnType, ThrownType, FailsType DEF Begin
  <2> QED
    BY <1>5, <2>1, <2>2 DEF Begin
<1>6. ASSUME NEW t \in Threads, SaveSender(t)
      PROVE  TypeOK'
  <2>1. Debited(t) \in Tables
    BY <1>6, SavesType DEF SaveSender
  <2>2. /\ db' \in Tables /\ committed' \in Tables /\ open' \in BOOLEAN
        /\ used' \in Used
    BY <1>6, <2>1, WriteType, FailsType DEF SaveSender
  <2>3. pc' \in [Threads -> Labels]
    BY <1>6, GotoType DEF SaveSender, Labels, InTxn
  <2> QED
    BY <1>6, <2>2, <2>3 DEF SaveSender
<1>7. ASSUME NEW t \in Threads, SaveReceiver(t)
      PROVE  TypeOK'
  <2>1. Credited(t) \in Tables
    BY <1>7, SavesType DEF SaveReceiver
  <2>2. /\ db' \in Tables /\ committed' \in Tables /\ open' \in BOOLEAN
        /\ used' \in Used
    BY <1>7, <2>1, WriteType, FailsType DEF SaveReceiver
  <2>3. pc' \in [Threads -> Labels]
    BY <1>7, GotoType DEF SaveReceiver, Labels, InTxn
  <2> QED
    BY <1>7, <2>2, <2>3 DEF SaveReceiver
<1>8. ASSUME NEW t \in Threads, SaveTransaction(t)
      PROVE  TypeOK'
  <2>1. WithRow(db, Hash(t), "SETTLED") \in Tables
    BY <1>8, InCall, WithRowType DEF SaveTransaction
  <2>2. /\ db' \in Tables /\ committed' \in Tables /\ open' \in BOOLEAN
        /\ used' \in Used
    BY <1>8, <2>1, WriteType, FailsType DEF SaveTransaction
  <2>3. pc' \in [Threads -> Labels]
    BY <1>8, GotoType DEF SaveTransaction, Labels, InTxn
  <2> QED
    BY <1>8, <2>2, <2>3 DEF SaveTransaction
<1>9. ASSUME NEW t \in Threads, Commit(t)
      PROVE  TypeOK'
  <2>1. [status |-> "SETTLED", id |-> db.lastRowId] \in Answer
    BY DEF Answer, Tables
  <2>2. CASE /\ Return(t, [status |-> "SETTLED", id |-> db.lastRowId])
             /\ committed' = db /\ dbMutex' = NoThread /\ open' = FALSE
             /\ UNCHANGED <<db, used>>
    BY <1>9, <2>1, <2>2, ReturnType DEF Commit
  <2>3. CASE /\ Goto(t, "rollback") /\ UNCHANGED <<dbMutex, call, result>>
             /\ \/ Fails
                \/ UNCHANGED <<db, committed, open, used>>
    BY <1>9, <2>3, FailsType, GotoType DEF Commit, Labels, InTxn
  <2> QED
    BY <1>9, <2>2, <2>3 DEF Commit
<1>10. ASSUME NEW t \in Threads, Rollback(t)
      PROVE  TypeOK'
  <2>1. /\ db' \in Tables /\ committed' \in Tables /\ open' \in BOOLEAN
        /\ used' \in Used
    BY <1>10, FailsType DEF Rollback, DropTransaction
  <2>2. CASE Return(t, Thrown)
    BY <1>10, <2>1, <2>2, ReturnType, ThrownType DEF Rollback
  <2>3. CASE call[t].attempt < MaxAttempts
             /\ call' = [call EXCEPT ![t].attempt = @ + 1]
             /\ Goto(t, "findSender") /\ UNCHANGED result
    <3>1. call' \in [Threads -> Call]
      BY <2>3, ConstantsAssumption DEF Call
    <3> QED
      BY <1>10, <2>1, <2>3, <3>1, GotoType DEF Rollback, Labels
  <2> QED
    BY <1>10, <2>2, <2>3 DEF Rollback
<1>11. ASSUME NEW t \in Threads, ListAccounts(t) \/ ListTransactions(t)
      PROVE  TypeOK'
  <2>1. \A limit : Newest(db.transactions, limit) \in SUBSET Row
    BY DEF Newest, Tables
  <2>2. /\ db.accounts \in [Vpas -> Account \cup {NoAccount}]
        /\ \A vpas : OnlyRows(vpas) \in [Vpas -> Account \cup {NoAccount}]
    BY DEF Tables, OnlyRows
  <2>3. \/ view' = [view EXCEPT !.accounts = db.accounts]
        \/ \E vpas : view' = [view EXCEPT !.accounts = OnlyRows(vpas)]
        \/ \E limit :
             view' = [view EXCEPT !.transactions = Newest(db.transactions, limit)]
        \/ view' = view
    BY <1>11 DEF ListAccounts, ListTransactions
  <2>4. view' \in [accounts: [Vpas -> Account \cup {NoAccount}],
                   transactions: SUBSET Row]
    BY <2>1, <2>2, <2>3
  <2>5. /\ db' \in Tables /\ committed' \in Tables /\ open' \in BOOLEAN
        /\ used' \in Used
    BY <1>11, FailsType DEF ListAccounts, ListTransactions
  <2> QED
    BY <1>11, <2>4, <2>5 DEF ListAccounts, ListTransactions
<1>12. ASSUME NEW t \in Threads, Reset(t)
      PROVE  TypeOK'
  <2>1. used' \in Used
    BY <1>12, ConstantsAssumption DEF Reset, Used
  <2>2. /\ Emptied(SeedAccounts, {}) \in Tables
        /\ Emptied(db.accounts, {}) \in Tables
        /\ Emptied(NoAccounts, {}) \in Tables
    BY SeedAccountsType DEF Emptied, Tables
  <2>3. db' \in Tables /\ committed' \in Tables /\ open' \in BOOLEAN
    BY <1>12, <2>2, WriteType DEF Reset, DropTransaction
  <2> QED
    BY <1>12, <2>1, <2>3 DEF Reset
<1>13. CASE UNCHANGED vars
  BY <1>13 DEF vars
<1> QED
  BY <1>1, <1>2, <1>3, <1>4, <1>5, <1>6, <1>7, <1>8, <1>9, <1>10, <1>11,
     <1>12, <1>13 DEF Next, SettleStep

\* A failure is counted, changes no committed table, and leaves nothing
\* uncommitted unless the transaction is still open.
LEMMA FailsEffect ==
  ASSUME TypeOK, Isolation, Fails
  PROVE  /\ db' \in {db, committed} /\ committed' = committed
         /\ open' => open /\ db' = db
         /\ ~open' => db' = committed'
         /\ used'.faults # 0 /\ used'.faults > 0
         /\ used'.resets = used.resets
  BY DEF TypeOK, Isolation, Fails, Fault, DropTransaction, Used

\* A success is committed at once unless the transaction is open.
LEMMA WriteEffect ==
  ASSUME NEW tables, Write(tables)
  PROVE  /\ db' = tables /\ committed' \in {db', committed}
         /\ open' = open
         /\ open => committed' = committed
         /\ ~open => committed' = tables
  BY DEF Write

\* The mutex is taken at BEGIN and released at COMMIT, at ROLLBACK or when
\* either throws, and at no other step.
LEMMA IsolationStep ==
  ASSUME TypeOK, Isolation, [Next]_vars
  PROVE  Isolation'
<1> USE ConstantsAssumption DEF TypeOK, Isolation, InTxn
<1>1. ASSUME NEW t \in Threads, NEW h \in Packets, CallSettle(t, h)
      PROVE  Isolation'
  BY <1>1 DEF CallSettle, Goto, Used
<1>2. ASSUME NEW t \in Threads, FindSender(t)
      PROVE  Isolation'
  BY <1>2, FailsEffect, WriteEffect DEF FindSender, Return, Goto
<1>3. ASSUME NEW t \in Threads, FindReceiver(t)
      PROVE  Isolation'
  BY <1>3, FailsEffect, WriteEffect DEF FindReceiver, Return, Goto
<1>4. ASSUME NEW t \in Threads, RecordRejected(t)
      PROVE  Isolation'
  BY <1>4, FailsEffect, WriteEffect DEF RecordRejected, Return, Goto
<1>5. ASSUME NEW t \in Threads, Begin(t)
      PROVE  Isolation'
  BY <1>5, FailsEffect, WriteEffect DEF Begin, Return, Goto
<1>6. ASSUME NEW t \in Threads, SaveSender(t)
      PROVE  Isolation'
  BY <1>6, FailsEffect, WriteEffect DEF SaveSender, Return, Goto
<1>7. ASSUME NEW t \in Threads, SaveReceiver(t)
      PROVE  Isolation'
  BY <1>7, FailsEffect, WriteEffect DEF SaveReceiver, Return, Goto
<1>8. ASSUME NEW t \in Threads, SaveTransaction(t)
      PROVE  Isolation'
  BY <1>8, FailsEffect, WriteEffect DEF SaveTransaction, Return, Goto
<1>9. ASSUME NEW t \in Threads, Commit(t)
      PROVE  Isolation'
  BY <1>9, FailsEffect, WriteEffect DEF Commit, Return, Goto
<1>10. ASSUME NEW t \in Threads, Rollback(t)
      PROVE  Isolation'
  BY <1>10, FailsEffect, WriteEffect DEF Rollback, Return, Goto, DropTransaction
<1>11. ASSUME NEW t \in Threads, ListAccounts(t) \/ ListTransactions(t)
      PROVE  Isolation'
  BY <1>11, FailsEffect DEF ListAccounts, ListTransactions
<1>12. ASSUME NEW t \in Threads, Reset(t)
      PROVE  Isolation'
  BY <1>12, WriteEffect DEF Reset, DropTransaction, Used
<1>13. CASE UNCHANGED vars
  BY <1>13 DEF vars
<1> QED
  BY <1>1, <1>2, <1>3, <1>4, <1>5, <1>6, <1>7,
     <1>8, <1>9, <1>10, <1>11, <1>12, <1>13 DEF Next, SettleStep

\* The locals stay sufficient until they are written: only the thread itself
\* changes them, and FindReceiver checks them on the way to BEGIN.
LEMMA LocalsStep ==
  ASSUME TypeOK, CheckedLocals, SeededAccounts, NonNegativeBalances, [Next]_vars
  PROVE  CheckedLocals'
<1>1. ASSUME NEW t \in Threads, NEW h \in Packets, CallSettle(t, h)
      PROVE  CheckedLocals'
  BY <1>1, ConstantsAssumption
  DEF TypeOK, CheckedLocals, InTxn, CallSettle, NoCall, Goto
<1>2. ASSUME NEW t \in Threads, FindSender(t)
      PROVE  CheckedLocals'
  <2>1. CASE Return(t, Thrown)
    BY <1>2, <2>1 DEF TypeOK, CheckedLocals, InTxn, Return, Goto, NoCall
  <2>2. CASE ~Return(t, Thrown)
    <3>1. Sender[Hash(t)] \in DOMAIN Seed
      BY <1>2, <2>2, InCall DEF FindSender, HasAccount, SeededAccounts
    <3> QED
      BY <1>2, <2>2, <3>1
      DEF FindSender, TypeOK, CheckedLocals, InTxn, Goto, Call
  <2> QED
    BY <2>1, <2>2
<1>3. ASSUME NEW t \in Threads, FindReceiver(t)
      PROVE  CheckedLocals'
  <2>1. CASE Return(t, Thrown)
    BY <1>3, <2>1 DEF TypeOK, CheckedLocals, InTxn, Return, Goto, NoCall
  <2>2. CASE ~Return(t, Thrown)
    <3> DEFINE account == db.accounts[Receiver[Hash(t)]]
    <3>1. account \in Account /\ account.balance >= 0
      BY <1>3, <2>2, InCall
      DEF FindReceiver, NonNegativeBalances, HasAccount, TypeOK, Tables
    <3>2. /\ Amount[Hash(t)] > 0
          /\ call' = [call EXCEPT ![t].receiver = account]
          /\ \/ call[t].sender.balance < Amount[Hash(t)] /\ Goto(t, "reject")
             \/ ~(call[t].sender.balance < Amount[Hash(t)]) /\ Goto(t, "begin")
      BY <1>3, <2>2 DEF FindReceiver
    <3>3. Amount[Hash(t)] \in Int /\ call[t].sender.balance \in Int
      BY <1>3, InCall DEF FindReceiver, Account
    <3>4. Receiver[Hash(t)] \in DOMAIN Seed
      BY <1>3, <2>2, InCall DEF FindReceiver, HasAccount, SeededAccounts
    <3> HIDE DEF account
    <3> QED
      BY <1>3, <3>1, <3>2, <3>3, <3>4
      DEF FindReceiver, TypeOK, CheckedLocals, InTxn, Goto, Call
  <2> QED
    BY <2>1, <2>2
<1>4. ASSUME NEW t \in Threads, RecordRejected(t)
      PROVE  CheckedLocals'
  BY <1>4, ConstantsAssumption
  DEF TypeOK, CheckedLocals, InTxn, RecordRejected, Return, Goto, NoCall
<1>5. ASSUME NEW t \in Threads, Begin(t)
      PROVE  CheckedLocals'
  BY <1>5, ConstantsAssumption
  DEF TypeOK, CheckedLocals, InTxn, Begin, Return, Goto, NoCall
<1>6. ASSUME NEW t \in Threads, SaveSender(t)
      PROVE  CheckedLocals'
  BY <1>6 DEF TypeOK, CheckedLocals, InTxn, SaveSender, Goto
<1>7. ASSUME NEW t \in Threads, SaveReceiver(t)
      PROVE  CheckedLocals'
  BY <1>7, ConstantsAssumption DEF TypeOK, CheckedLocals, InTxn, SaveReceiver, Goto
<1>8. ASSUME NEW t \in Threads, SaveTransaction(t)
      PROVE  CheckedLocals'
  BY <1>8, ConstantsAssumption DEF TypeOK, CheckedLocals, InTxn, SaveTransaction, Goto
<1>9. ASSUME NEW t \in Threads, Commit(t)
      PROVE  CheckedLocals'
  BY <1>9, ConstantsAssumption
  DEF TypeOK, CheckedLocals, InTxn, Commit, Return, Goto, NoCall
<1>10. ASSUME NEW t \in Threads, Rollback(t)
      PROVE  CheckedLocals'
  BY <1>10, ConstantsAssumption
  DEF TypeOK, CheckedLocals, InTxn, Rollback, Return, Goto, NoCall, Call
<1>11. ASSUME NEW t \in Threads, ListAccounts(t) \/ ListTransactions(t)
      PROVE  CheckedLocals'
  BY <1>11, ConstantsAssumption
  DEF TypeOK, CheckedLocals, InTxn, ListAccounts, ListTransactions
<1>12. ASSUME NEW t \in Threads, Reset(t)
      PROVE  CheckedLocals'
  BY <1>12, ConstantsAssumption DEF TypeOK, CheckedLocals, InTxn, Reset
<1>13. CASE UNCHANGED vars
  BY <1>13, ConstantsAssumption DEF TypeOK, CheckedLocals, InTxn, vars
<1> QED
  BY <1>1, <1>2, <1>3, <1>4, <1>5, <1>6, <1>7,
     <1>8, <1>9, <1>10, <1>11, <1>12, <1>13 DEF Next, SettleStep

\* The next row's id is above all ids, so a row for a new hash collides with
\* no row.
LEMMA WithRowFresh ==
  ASSUME NEW tables \in Tables, NEW hash \in Packets, NEW status,
         hash \notin Hashes(tables),
         \A r \in tables.transactions : r.id <= tables.lastRowId,
         \A r, s \in tables.transactions :
           r.hash = s.hash \/ r.id = s.id => r = s
  PROVE  LET with == WithRow(tables, hash, status) IN
         /\ \A r \in with.transactions : r.id <= with.lastRowId
         /\ \A r, s \in with.transactions :
              r.hash = s.hash \/ r.id = s.id => r = s
  BY DEF WithRow, NewRow, Hashes, Tables, Row

\* What a step can do to the tables: nothing new (it may commit them, or drop
\* them for the committed ones), add a row for a hash that has none, save the
\* copy of one account, or reset.
OldTables == {db, committed}

AddsTables(t) ==
  /\ pc[t] \in {"reject", "saveTx"} /\ Hash(t) \notin Hashes(db)
  /\ \E status \in {"SETTLED", "REJECTED"} : db' = WithRow(db, Hash(t), status)

SavesTables(t) ==
  \/ pc[t] = "saveSender" /\ db' = Debited(t)
  \/ pc[t] = "saveReceiver" /\ db' = Credited(t)

ResetsTables ==
  \/ \E accounts \in {db.accounts, SeedAccounts} : db' = Emptied(accounts, {})
  \/ used'.faults # 0 /\ db' = Emptied(NoAccounts, {})

LEMMA TablesStep ==
  ASSUME TypeOK, Isolation, [Next]_vars
  PROVE  /\ committed' \in {db', committed}
         /\ \/ db' \in OldTables
            \/ \E t \in Threads : AddsTables(t) \/ SavesTables(t)
            \/ ResetsTables
<1> USE DEF OldTables
<1>1. ASSUME NEW t \in Threads, NEW h \in Packets, CallSettle(t, h)
      PROVE  db' = db /\ committed' = committed
  BY <1>1 DEF CallSettle
<1>2. ASSUME NEW t \in Threads, FindSender(t) \/ FindReceiver(t) \/ Begin(t)
      PROVE  db' \in OldTables /\ committed' = committed
  BY <1>2, FailsEffect DEF FindSender, FindReceiver, Begin
<1>3. ASSUME NEW t \in Threads, RecordRejected(t) \/ SaveTransaction(t)
      PROVE  /\ committed' \in {db', committed}
             /\ db' \in OldTables \/ AddsTables(t)
  BY <1>3, FailsEffect, WriteEffect
  DEF RecordRejected, SaveTransaction, AddsTables
<1>4. ASSUME NEW t \in Threads, SaveSender(t) \/ SaveReceiver(t)
      PROVE  /\ committed' \in {db', committed}
             /\ db' \in OldTables \/ SavesTables(t)
  BY <1>4, FailsEffect, WriteEffect DEF SaveSender, SaveReceiver, SavesTables
<1>5. ASSUME NEW t \in Threads, Commit(t) \/ Rollback(t)
      PROVE  db' \in OldTables /\ committed' \in {db', committed}
  BY <1>5, FailsEffect DEF Commit, Rollback, DropTransaction
<1>6. ASSUME NEW t \in Threads, ListAccounts(t) \/ ListTransactions(t)
      PROVE  db' \in OldTables /\ committed' = committed
  BY <1>6, FailsEffect DEF ListAccounts, ListTransactions
<1>7. ASSUME NEW t \in Threads, Reset(t)
      PROVE  /\ committed' \in {db', committed}
             /\ db' \in OldTables \/ ResetsTables
  <2>1. used' = [used EXCEPT !.resets = @ + 1] \/ used'.faults # 0
    BY <1>7 DEF Reset, TypeOK, Used
  <2> QED
    BY <1>7, <2>1, WriteEffect DEF Reset, DropTransaction, ResetsTables
<1>8. CASE UNCHANGED vars
  BY <1>8 DEF vars
<1> QED
  BY <1>1, <1>2, <1>3, <1>4, <1>5, <1>6, <1>7, <1>8 DEF Next, SettleStep

\* The same, table by table.
LEMMA SavesFields ==
  ASSUME TypeOK, NEW t \in Threads, SavesTables(t)
  PROVE  /\ db'.transactions = db.transactions
         /\ db'.lastRowId = db.lastRowId
         /\ \/ /\ pc[t] = "saveSender"
               /\ \A vpa \in Vpas : db'.accounts[vpa] =
                    IF vpa = Sender[Hash(t)]
                    THEN [call[t].sender EXCEPT !.balance = @ - Amount[Hash(t)]]
                    ELSE db.accounts[vpa]
            \/ /\ pc[t] = "saveReceiver"
               /\ \A vpa \in Vpas : db'.accounts[vpa] =
                    IF vpa = Receiver[Hash(t)]
                    THEN [call[t].receiver EXCEPT !.balance = @ + Amount[Hash(t)]]
                    ELSE db.accounts[vpa]
<1>1. CASE pc[t] = "saveSender" /\ db' = Debited(t)
  BY <1>1 DEF Debited, WithAccount, TypeOK, Tables
<1>2. CASE pc[t] = "saveReceiver" /\ db' = Credited(t)
  BY <1>2 DEF Credited, WithAccount, TypeOK, Tables
<1> QED
  BY <1>1, <1>2 DEF SavesTables

LEMMA ResetsFields ==
  ASSUME ResetsTables
  PROVE  /\ db'.transactions = {}
         /\ db'.lastRowId = db.lastRowId
         /\ \/ db'.accounts \in {db.accounts, SeedAccounts}
            \/ used'.faults # 0 /\ db'.accounts = NoAccounts
<1>1. \A accounts : /\ Emptied(accounts, {}).accounts = accounts
                    /\ Emptied(accounts, {}).transactions = {}
                    /\ Emptied(accounts, {}).lastRowId = db.lastRowId
  BY DEF Emptied
<1> QED
  BY <1>1 DEF ResetsTables

\* Rows stay unique: both INSERTs are refused when the hash has a row.
LEMMA RowsStep ==
  ASSUME TypeOK, Isolation, CheckedLocals, RowIds, OneRowPerPacket, [Next]_vars
  PROVE  RowIds' /\ OneRowPerPacket'
<1> DEFINE Apart(tables) ==
      /\ \A r \in tables.transactions : r.id <= tables.lastRowId
      /\ \A r, s \in tables.transactions :
           r.hash = s.hash \/ r.id = s.id => r = s
<1>1. Apart(db) /\ Apart(committed)
  BY DEF RowIds, OneRowPerPacket
<1>2. ASSUME NEW t \in Threads, AddsTables(t)
      PROVE  Apart(db')
  <2>1. PICK status \in {"SETTLED", "REJECTED"} :
          db' = WithRow(db, Hash(t), status)
    BY <1>2 DEF AddsTables
  <2>2. db \in Tables /\ Hash(t) \in Packets /\ Hash(t) \notin Hashes(db)
    BY <1>2, InCall DEF AddsTables, TypeOK
  <2> QED
    BY <1>1, <2>1, <2>2, WithRowFresh
<1>3. ASSUME NEW t \in Threads, SavesTables(t)
      PROVE  Apart(db')
  BY <1>1, <1>3, SavesFields
<1>4. ASSUME ResetsTables
      PROVE  Apart(db')
  BY <1>4, ResetsFields
<1> HIDE DEF Apart
<1>5. Apart(db')
  <2>1. CASE db' \in {db, committed}
    BY <1>1, <2>1
  <2> QED
    BY <1>2, <1>3, <1>4, <2>1, TablesStep DEF OldTables
<1>6. Apart(committed')
  BY <1>1, <1>5, TablesStep
<1> USE DEF Apart
<1>7. committed'.lastRowId <= db'.lastRowId
  <2>1. db.lastRowId \in Nat /\ committed.lastRowId <= db.lastRowId
    BY DEF TypeOK, Tables, RowIds
  <2>2. ASSUME NEW t \in Threads, AddsTables(t)
        PROVE  db'.lastRowId = db.lastRowId + 1
    BY <2>2 DEF AddsTables, WithRow
  <2>3. db' = committed \/ db'.lastRowId \in {db.lastRowId, db.lastRowId + 1}
    BY <2>2, TablesStep, SavesFields, ResetsFields DEF OldTables
  <2> QED
    BY <2>1, <2>3, TablesStep DEF TypeOK, Tables
<1> QED
  BY <1>5, <1>6, <1>7 DEF RowIds, OneRowPerPacket

\* The two saves write non-negative balances, whatever other threads wrote
\* since the copies were read.
LEMMA NonNegativeStep ==
  ASSUME TypeOK, Isolation, CheckedLocals, NonNegativeBalances, [Next]_vars
  PROVE  NonNegativeBalances'
<1> DEFINE Covered(tables) ==
      \A vpa \in Vpas : tables.accounts[vpa] # NoAccount
                          => tables.accounts[vpa].balance >= 0
<1>1. Covered(db) /\ Covered(committed)
  BY DEF NonNegativeBalances
<1>2. ASSUME NEW t \in Threads, AddsTables(t)
      PROVE  Covered(db')
  BY <1>1, <1>2 DEF AddsTables, WithRow
<1>3. ASSUME NEW t \in Threads, SavesTables(t)
      PROVE  Covered(db')
  <2>1. /\ call[t].sender.balance - Amount[Hash(t)] >= 0
        /\ call[t].receiver.balance + Amount[Hash(t)] >= 0
    BY <1>3, InCall DEF SavesTables, CheckedLocals, InTxn, Account
  <2>2. /\ [call[t].sender EXCEPT !.balance = @ - Amount[Hash(t)]].balance
             = call[t].sender.balance - Amount[Hash(t)]
        /\ [call[t].receiver EXCEPT !.balance = @ + Amount[Hash(t)]].balance
             = call[t].receiver.balance + Amount[Hash(t)]
    BY <1>3, InCall DEF SavesTables, Account
  <2> QED
    BY <1>1, <1>3, <2>1, <2>2, SavesFields
<1>4. ASSUME ResetsTables
      PROVE  Covered(db')
  BY <1>1, <1>4, ResetsFields, ConstantsAssumption DEF SeedAccounts, NoAccounts
<1> HIDE DEF Covered
<1>5. Covered(db')
  <2>1. CASE db' \in {db, committed}
    BY <1>1, <2>1
  <2> QED
    BY <1>2, <1>3, <1>4, <2>1, TablesStep DEF OldTables
<1>6. Covered(committed')
  BY <1>1, <1>5, TablesStep
<1> USE DEF Covered
<1> QED
  BY <1>5, <1>6 DEF NonNegativeBalances

\* The open transaction changes what its thread has saved so far, and no
\* other thread can write while it is open.
LEMMA OpenTransactionStep ==
  ASSUME TypeOK, Isolation, CheckedLocals, OpenTransaction, [Next]_vars
  PROVE  OpenTransaction'
<1> USE ConstantsAssumption DEF TypeOK, Isolation, OpenTransaction, InTxn
<1>1. ASSUME NEW t \in Threads, NEW h \in Packets, CallSettle(t, h)
      PROVE  OpenTransaction'
  BY <1>1 DEF CallSettle, Goto
<1>2. ASSUME NEW t \in Threads, FindSender(t)
      PROVE  OpenTransaction'
  BY <1>2, FailsEffect, WriteEffect DEF FindSender, Return, Goto
<1>3. ASSUME NEW t \in Threads, FindReceiver(t)
      PROVE  OpenTransaction'
  BY <1>3, FailsEffect, WriteEffect DEF FindReceiver, Return, Goto
<1>4. ASSUME NEW t \in Threads, RecordRejected(t)
      PROVE  OpenTransaction'
  BY <1>4, FailsEffect, WriteEffect DEF RecordRejected, Return, Goto
<1>5. ASSUME NEW t \in Threads, Begin(t)
      PROVE  OpenTransaction'
  BY <1>5, FailsEffect, WriteEffect DEF Begin, Return, Goto
<1>6. ASSUME NEW t \in Threads, SaveSender(t)
      PROVE  OpenTransaction'
  BY <1>6, FailsEffect, WriteEffect DEF SaveSender, Return, Goto, Debited, WithAccount, Tables
<1>7. ASSUME NEW t \in Threads, SaveReceiver(t)
      PROVE  OpenTransaction'
  BY <1>7, FailsEffect, WriteEffect DEF SaveReceiver, Return, Goto, Credited, WithAccount, Tables
<1>8. ASSUME NEW t \in Threads, SaveTransaction(t)
      PROVE  OpenTransaction'
  BY <1>8, FailsEffect, WriteEffect DEF SaveTransaction, Return, Goto, WithRow, AddsRow, NewRow, Hashes, Tables
<1>9. ASSUME NEW t \in Threads, Commit(t)
      PROVE  OpenTransaction'
  BY <1>9, FailsEffect, WriteEffect DEF Commit, Return, Goto
<1>10. ASSUME NEW t \in Threads, Rollback(t)
      PROVE  OpenTransaction'
  BY <1>10, FailsEffect, WriteEffect DEF Rollback, Return, Goto, DropTransaction
<1>11. ASSUME NEW t \in Threads, ListAccounts(t) \/ ListTransactions(t)
      PROVE  OpenTransaction'
  BY <1>11, FailsEffect DEF ListAccounts, ListTransactions
<1>12. ASSUME NEW t \in Threads, Reset(t)
      PROVE  OpenTransaction'
  BY <1>12, WriteEffect DEF Reset, DropTransaction
<1>13. CASE UNCHANGED vars
  BY <1>13 DEF vars
<1> QED
  BY <1>1, <1>2, <1>3, <1>4, <1>5, <1>6, <1>7,
     <1>8, <1>9, <1>10, <1>11, <1>12, <1>13 DEF Next, SettleStep

\* The saves write only to rows that were found.
LEMMA SeededStep ==
  ASSUME TypeOK, Isolation, CheckedLocals, SeededAccounts, [Next]_vars
  PROVE  SeededAccounts'
<1> DEFINE Only(tables) ==
      \A vpa \in Vpas \ DOMAIN Seed : tables.accounts[vpa] = NoAccount
<1>1. Only(db) /\ Only(committed)
  BY DEF SeededAccounts
<1>2. ASSUME NEW t \in Threads, AddsTables(t)
      PROVE  Only(db')
  BY <1>1, <1>2 DEF AddsTables, WithRow
<1>3. ASSUME NEW t \in Threads, SavesTables(t)
      PROVE  Only(db')
  <2>1. Sender[Hash(t)] \in DOMAIN Seed /\ Receiver[Hash(t)] \in DOMAIN Seed
    BY <1>3 DEF SavesTables, CheckedLocals
  <2> QED
    BY <1>1, <1>3, <2>1, SavesFields
<1>4. ASSUME ResetsTables
      PROVE  Only(db')
  BY <1>1, <1>4, ResetsFields DEF SeedAccounts, NoAccounts
<1> HIDE DEF Only
<1>5. Only(db')
  <2>1. CASE db' \in {db, committed}
    BY <1>1, <2>1
  <2> QED
    BY <1>2, <1>3, <1>4, <2>1, TablesStep DEF OldTables
<1>6. Only(committed')
  BY <1>1, <1>5, TablesStep
<1> USE DEF Only
<1> QED
  BY <1>5, <1>6 DEF SeededAccounts

\* A failure is never forgotten by any step.
LEMMA Unfailing ==
  ASSUME TypeOK, Fails
  PROVE  used'.faults # 0
  BY DEF TypeOK, Fails, Fault, Used

LEMMA FailuresStay ==
  ASSUME TypeOK, [Next]_vars, used'.faults = 0
  PROVE  used.faults = 0
<1>1. ~Fails
  BY Unfailing
<1>2. ASSUME NEW t \in Threads, SettleStep(t)
      PROVE  used' = used
  BY <1>1, <1>2
  DEF SettleStep, FindSender, FindReceiver, RecordRejected, Begin,
      SaveSender, SaveReceiver, SaveTransaction, Commit, Rollback
<1>3. ASSUME NEW t \in Threads,
             \/ \E h \in Packets : CallSettle(t, h)
             \/ ListAccounts(t) \/ ListTransactions(t) \/ Reset(t)
      PROVE  used.faults = 0
  BY <1>1, <1>3
  DEF CallSettle, ListAccounts, ListTransactions, Reset, TypeOK, Used
<1> QED
  BY <1>2, <1>3 DEF Next, vars

\* A save writes a row, and only a reset that breaks off leaves none.
LEMMA SeededRowsStep ==
  ASSUME TypeOK, Isolation, CheckedLocals, SeededRows, [Next]_vars
  PROVE  SeededRows'
<1> DEFINE Full(tables) ==
      \A vpa \in DOMAIN Seed : tables.accounts[vpa] # NoAccount
<1> SUFFICES ASSUME used'.faults = 0
             PROVE  Full(db') /\ Full(committed')
  BY DEF SeededRows
<1>1. Full(db) /\ Full(committed)
  BY FailuresStay DEF SeededRows
<1>2. ASSUME NEW t \in Threads, AddsTables(t)
      PROVE  Full(db')
  BY <1>1, <1>2 DEF AddsTables, WithRow
<1>3. ASSUME NEW t \in Threads, SavesTables(t)
      PROVE  Full(db')
  <2>1. /\ [call[t].sender EXCEPT !.balance = @ - Amount[Hash(t)]] \in Account
        /\ [call[t].receiver EXCEPT !.balance = @ + Amount[Hash(t)]] \in Account
    BY <1>3, InCall DEF SavesTables, Account
  <2> QED
    BY <1>1, <1>3, <2>1, SavesFields, ConstantsAssumption
<1>4. ASSUME ResetsTables
      PROVE  Full(db')
  <2>1. \A vpa \in DOMAIN Seed : SeedAccounts[vpa] \in Account
    BY ConstantsAssumption DEF SeedAccounts, Account
  <2> QED
    BY <1>1, <1>4, <2>1, ResetsFields, ConstantsAssumption
<1> HIDE DEF Full
<1>5. Full(db')
  <2>1. CASE db' \in {db, committed}
    BY <1>1, <2>1
  <2> QED
    BY <1>2, <1>3, <1>4, <2>1, TablesStep DEF OldTables
<1>6. Full(committed')
  BY <1>1, <1>5, TablesStep
<1> USE DEF Full
<1> QED
  BY <1>5, <1>6

\* Without a failure each save writes what it computes from the copies, and
\* the two saves do not touch each other's row if there are two.
LEMMA WrittenStep ==
  ASSUME TypeOK, Isolation, CheckedLocals, WrittenCopies, [Next]_vars
  PROVE  WrittenCopies'
<1>1. ASSUME NEW t \in Threads, NEW h \in Packets, CallSettle(t, h)
      PROVE  WrittenCopies'
  BY <1>1, Unfailing, ConstantsAssumption
  DEF TypeOK, Used, Isolation, WrittenCopies, InTxn, CallSettle, Goto
<1>2. ASSUME NEW t \in Threads, FindSender(t)
      PROVE  WrittenCopies'
  BY <1>2, Unfailing, ConstantsAssumption
  DEF TypeOK, Isolation, WrittenCopies, InTxn, FindSender, Return, Goto
<1>3. ASSUME NEW t \in Threads, FindReceiver(t)
      PROVE  WrittenCopies'
  BY <1>3, Unfailing, ConstantsAssumption
  DEF TypeOK, Isolation, WrittenCopies, InTxn, FindReceiver, Return, Goto
<1>4. ASSUME NEW t \in Threads, RecordRejected(t)
      PROVE  WrittenCopies'
  BY <1>4, Unfailing, ConstantsAssumption
  DEF TypeOK, Isolation, WrittenCopies, InTxn, RecordRejected, Return, Goto
<1>5. ASSUME NEW t \in Threads, Begin(t)
      PROVE  WrittenCopies'
  BY <1>5, Unfailing, ConstantsAssumption
  DEF TypeOK, Isolation, WrittenCopies, InTxn, Begin, Return, Goto
<1>6. ASSUME NEW t \in Threads, SaveSender(t)
      PROVE  WrittenCopies'
  <2>1. SUFFICES ASSUME used'.faults = 0
                 PROVE  WrittenCopies'
    BY DEF WrittenCopies
  <2>2. /\ used.faults = 0
        /\ db' = Debited(t)
    BY <1>6, <2>1, Unfailing, WriteEffect DEF SaveSender
  <2>3. \A vpa \in Vpas : db'.accounts[vpa] =
          IF vpa = Sender[Hash(t)]
          THEN [call[t].sender EXCEPT !.balance = @ - Amount[Hash(t)]]
          ELSE db.accounts[vpa]
    BY <2>2 DEF Debited, WithAccount, TypeOK, Tables
  <2>4. Sender[Hash(t)] \in Vpas /\ Receiver[Hash(t)] \in Vpas
    BY <1>6, InCall DEF SaveSender
  <2>5. /\ pc[t] = "saveSender" /\ pc'[t] = "saveReceiver" /\ call' = call
        /\ \A u \in Threads \ {t} : pc'[u] = pc[u] /\ pc[u] \notin InTxn
    BY <1>6 DEF SaveSender, Goto, TypeOK, Isolation, InTxn
  <2>6. ASSUME NEW u \in Threads, pc'[u] \in {"saveReceiver", "saveTx", "commit"}
        PROVE  u = t
    BY <2>5, <2>6 DEF InTxn
  <2> QED
    BY <2>2, <2>3, <2>4, <2>5, <2>6 DEF WrittenCopies
<1>7. ASSUME NEW t \in Threads, SaveReceiver(t)
      PROVE  WrittenCopies'
  <2>1. SUFFICES ASSUME used'.faults = 0
                 PROVE  WrittenCopies'
    BY DEF WrittenCopies
  <2>2. /\ used.faults = 0
        /\ db' = Credited(t)
    BY <1>7, <2>1, Unfailing, WriteEffect DEF SaveReceiver
  <2>3. \A vpa \in Vpas : db'.accounts[vpa] =
          IF vpa = Receiver[Hash(t)]
          THEN [call[t].receiver EXCEPT !.balance = @ + Amount[Hash(t)]]
          ELSE db.accounts[vpa]
    BY <2>2 DEF Credited, WithAccount, TypeOK, Tables
  <2>4. Sender[Hash(t)] \in Vpas /\ Receiver[Hash(t)] \in Vpas
    BY <1>7, InCall DEF SaveReceiver
  <2>5. /\ pc[t] = "saveReceiver" /\ pc'[t] = "saveTx" /\ call' = call
        /\ \A u \in Threads \ {t} : pc'[u] = pc[u] /\ pc[u] \notin InTxn
    BY <1>7 DEF SaveReceiver, Goto, TypeOK, Isolation, InTxn
  <2>6. ASSUME NEW u \in Threads, pc'[u] \in {"saveReceiver", "saveTx", "commit"}
        PROVE  u = t
    BY <2>5, <2>6 DEF InTxn
  <2>7. db'.accounts[Receiver[Hash(t)]] =
          [call[t].receiver EXCEPT !.balance = @ + Amount[Hash(t)]]
    BY <2>3, <2>4
  <2>8. Sender[Hash(t)] # Receiver[Hash(t)] =>
          db'.accounts[Sender[Hash(t)]] =
            [call[t].sender EXCEPT !.balance = @ - Amount[Hash(t)]]
    BY <2>2, <2>3, <2>4, <2>5 DEF WrittenCopies
  <2> QED
    BY <2>5, <2>6, <2>7, <2>8 DEF WrittenCopies
<1>8. ASSUME NEW t \in Threads, SaveTransaction(t)
      PROVE  WrittenCopies'
  <2>1. pc[t] = "saveTx" /\ pc'[t] \in {"commit", "rollback"} /\ call' = call
    BY <1>8 DEF SaveTransaction, Goto, TypeOK
  <2>2. \A u \in Threads \ {t} : pc'[u] = pc[u] /\ pc[u] \notin InTxn
    BY <1>8 DEF SaveTransaction, Goto, TypeOK, Isolation, InTxn
  <2>3. used'.faults = 0 => used.faults = 0 /\ db'.accounts = db.accounts
    BY <1>8, Unfailing, WriteEffect DEF SaveTransaction, WithRow
  <2> QED
    BY <2>1, <2>2, <2>3 DEF WrittenCopies, InTxn
<1>9. ASSUME NEW t \in Threads, Commit(t)
      PROVE  WrittenCopies'
  BY <1>9, Unfailing, ConstantsAssumption
  DEF TypeOK, Isolation, WrittenCopies, InTxn, Commit, Return, Goto
<1>10. ASSUME NEW t \in Threads, Rollback(t)
      PROVE  WrittenCopies'
  BY <1>10, Unfailing, ConstantsAssumption
  DEF TypeOK, Isolation, WrittenCopies, InTxn, Rollback, Return, Goto
<1>11. ASSUME NEW t \in Threads, ListAccounts(t) \/ ListTransactions(t)
      PROVE  WrittenCopies'
  BY <1>11, Unfailing, ConstantsAssumption
  DEF TypeOK, Isolation, WrittenCopies, InTxn, ListAccounts, ListTransactions
<1>12. ASSUME NEW t \in Threads, Reset(t)
      PROVE  WrittenCopies'
  BY <1>12, Unfailing, ConstantsAssumption
  DEF TypeOK, Isolation, WrittenCopies, InTxn, Reset
<1>13. CASE UNCHANGED vars
  BY <1>13, Unfailing, ConstantsAssumption
  DEF TypeOK, Isolation, WrittenCopies, InTxn, vars
<1> QED
  BY <1>1, <1>2, <1>3, <1>4, <1>5, <1>6, <1>7,
     <1>8, <1>9, <1>10, <1>11, <1>12, <1>13 DEF Next, SettleStep

-----------------------------------------------------------------------------
(***************************************************************************)
(* The safety theorems.                                                    *)
(***************************************************************************)
\* The seeded database satisfies the invariant.
LEMMA InitInductive == Init => Inductive
<1> SUFFICES ASSUME Init  PROVE Inductive
  OBVIOUS
<1>1. TypeOK
  <2>1. db \in Tables /\ committed \in Tables
    BY SeedAccountsType DEF Init, Tables
  <2>2. /\ pc \in [Threads -> Labels] /\ call \in [Threads -> Call]
        /\ result \in [Threads -> Answer]
    BY NoCallType, ThrownType DEF Init, Labels
  <2>3. /\ view \in [accounts: [Vpas -> Account \cup {NoAccount}],
                     transactions: SUBSET Row]
        /\ used \in Used
    BY ConstantsAssumption, SeedAccountsType DEF Init, Used
  <2>4. open \in BOOLEAN /\ dbMutex \in Threads \cup {NoThread}
    BY DEF Init
  <2> QED
    BY <2>1, <2>2, <2>3, <2>4 DEF TypeOK
<1>2. Isolation
  BY ConstantsAssumption DEF Init, Isolation, InTxn
<1>3. CheckedLocals /\ OpenTransaction /\ WrittenCopies
  BY ConstantsAssumption
  DEF Init, CheckedLocals, OpenTransaction, WrittenCopies, NoCall, InTxn
<1>4. SeededAccounts /\ SeededRows /\ NonNegativeBalances
  BY ConstantsAssumption
  DEF Init, SeededAccounts, SeededRows, NonNegativeBalances, SeedAccounts,
      Account
<1>5. RowIds /\ OneRowPerPacket
  BY DEF Init, RowIds, OneRowPerPacket
<1> QED
  BY <1>1, <1>2, <1>3, <1>4, <1>5 DEF Inductive

\* Every step preserves it.
LEMMA NextInductive == Inductive /\ [Next]_vars => Inductive'
  BY TypeStep, IsolationStep, LocalsStep, SeededStep, SeededRowsStep,
     RowsStep, NonNegativeStep, OpenTransactionStep, WrittenStep DEF Inductive

\* Inductive holds in every reachable state.
THEOREM Invariance == Spec => []Inductive
  BY InitInductive, NextInductive, PTL DEF Spec

\* The tables, the locals and the answers of settle() always have their types.
THEOREM TypeCorrect == Spec => []TypeOK
<1>1. Inductive => TypeOK
  BY DEF Inductive
<1> QED
  BY <1>1, Invariance, PTL

\* No account is ever overdrawn, however many threads settle concurrently,
\* whatever fails and whenever the database is reset.
THEOREM NoOverdraft == Spec => []NonNegativeBalances
<1>1. Inductive => NonNegativeBalances
  BY DEF Inductive
<1> QED
  BY <1>1, Invariance, PTL

\* No packet hash and no id ever has two rows.
THEOREM RowsAreUnique == Spec => []OneRowPerPacket
<1>1. Inductive => OneRowPerPacket
  BY DEF Inductive
<1> QED
  BY <1>1, Invariance, PTL

\* Only the two GET handlers change the view, and they need the mutex: unless
\* a transaction is stranded, none is open then.
LEMMA ViewIsCommitted ==
  ASSUME Inductive, [Next]_vars, ~Stranded
  PROVE  ReadsCommitted
<1>1. ASSUME NEW t \in Threads,
             \/ \E h \in Packets : CallSettle(t, h)
             \/ SettleStep(t) \/ Reset(t)
      PROVE  view' = view
  BY <1>1
  DEF CallSettle, Reset, SettleStep, FindSender, FindReceiver,
      RecordRejected, Begin, SaveSender, SaveReceiver, SaveTransaction, Commit,
      Rollback
<1>2. ASSUME NEW t \in Threads, ListAccounts(t)
      PROVE  ReadsCommitted
  <2>1. db = committed
    BY <1>2 DEF ListAccounts, Stranded, Inductive, Isolation
  <2>2. \E vpas \in SUBSET Vpas : view' = [view EXCEPT !.accounts = OnlyRows(vpas)]
    <3>1. OnlyRows(Vpas) = db.accounts
      BY DEF OnlyRows, Inductive, TypeOK, Tables
    <3> QED
      BY <1>2, <3>1 DEF ListAccounts
  <2> QED
    BY <2>1, <2>2 DEF ReadsCommitted, OnlyRows, Inductive, TypeOK
<1>3. ASSUME NEW t \in Threads, ListTransactions(t)
      PROVE  ReadsCommitted
  <2>1. db = committed
    BY <1>3 DEF ListTransactions, Stranded, Inductive, Isolation
  <2>2. \/ view' = view
        \/ \E limit \in 0..ListLimit :
             view' = [view EXCEPT !.transactions = Newest(db.transactions, limit)]
    BY <1>3, ConstantsAssumption DEF ListTransactions
  <2> QED
    BY <2>1, <2>2 DEF ReadsCommitted, Inductive, TypeOK
<1> QED
  BY <1>1, <1>2, <1>3 DEF Next, ReadsCommitted, vars

\* GET /api/accounts and GET /api/transactions show an uncommitted transfer
\* only over a transaction that no thread is running any more.
THEOREM ReadersIsolated == Spec => OnlyStrandedReadsDirty
<1>1. Inductive /\ [Next]_vars => [Stranded \/ ReadsCommitted]_vars
  BY ViewIsCommitted
<1> QED
  BY <1>1, Invariance, PTL DEF Spec, OnlyStrandedReadsDirty

\* Committed tables change at COMMIT, about which OpenTransaction says what it
\* makes visible, and at a statement that commits itself.
LEMMA MoneyStep ==
  ASSUME Inductive, [Next]_vars
  PROVE  MovesMoney \/ \E t \in Threads : CreditsAlone(t)
<1> USE DEF Inductive
<1>1. ASSUME NEW t \in Threads,
             \/ \E h \in Packets : CallSettle(t, h)
             \/ FindSender(t) \/ FindReceiver(t) \/ Begin(t) \/ Rollback(t)
             \/ ListAccounts(t) \/ ListTransactions(t)
      PROVE  committed' = committed
  BY <1>1, FailsEffect
  DEF CallSettle, FindSender, FindReceiver, Begin, Rollback, DropTransaction,
      ListAccounts, ListTransactions
<1>2. ASSUME NEW t \in Threads, RecordRejected(t) \/ SaveTransaction(t)
      PROVE  committed'.accounts = committed.accounts
  BY <1>2, FailsEffect, WriteEffect
  DEF RecordRejected, SaveTransaction, WithRow, Isolation
<1>3. ASSUME NEW t \in Threads, SaveSender(t)
      PROVE  committed' = committed
  BY <1>3, FailsEffect, WriteEffect DEF SaveSender, Isolation
<1>4. ASSUME NEW t \in Threads, SaveReceiver(t)
      PROVE  committed' = committed \/ CreditsAlone(t)
  <2>1. CASE open
    BY <1>4, <2>1, FailsEffect, WriteEffect DEF SaveReceiver
  <2>2. CASE ~open
    <3>1. dbMutex = t /\ t # NoThread
      BY <1>4, ConstantsAssumption DEF SaveReceiver, Isolation, InTxn
    <3>2. used.faults > 0
      BY <2>2, <3>1 DEF Isolation, TypeOK, Used
    <3>3. pc[t] = "saveReceiver" /\ pc'[t] = "saveTx"
      BY <1>4 DEF SaveReceiver, Goto, TypeOK
    <3>4. committed' = committed \/ committed' = Credited(t)
      BY <1>4, <2>2, FailsEffect, WriteEffect DEF SaveReceiver
    <3> QED
      BY <2>2, <3>2, <3>3, <3>4 DEF CreditsAlone
  <2> QED
    BY <2>1, <2>2
<1>5. ASSUME NEW t \in Threads, Commit(t)
      PROVE  MovesMoney
  <2>1. CASE committed' = committed
    BY <2>1 DEF MovesMoney
  <2>2. CASE open /\ committed' = db
    <3>1. Hash(t) \in Packets
      BY <1>5, InCall DEF Commit
    <3>2. SettlesOne(Hash(t))
      BY <1>5, <2>2 DEF Commit, OpenTransaction, InTxn, SettlesOne
    <3> QED
      BY <3>1, <3>2 DEF MovesMoney
  <2> QED
    BY <1>5, <2>1, <2>2, FailsEffect DEF Commit
<1>6. ASSUME NEW t \in Threads, Reset(t)
      PROVE  MovesMoney
  <2>1. used'.resets > used.resets
    BY <1>6 DEF Reset, TypeOK, Used
  <2>2. \/ committed' = committed
        \/ committed' = db' /\ db' = db /\ ~open
        \/ committed'.transactions = {}
    BY <1>6, WriteEffect DEF Reset, DropTransaction, Emptied
  <2> QED
    BY <2>1, <2>2 DEF MovesMoney, Isolation
<1>7. CASE UNCHANGED vars
  BY <1>7 DEF MovesMoney, vars
<1> QED
  BY <1>1, <1>2, <1>3, <1>4, <1>5, <1>6, <1>7
  DEF Next, SettleStep, MovesMoney

\* Balances change only together with one new SETTLED row, for its two
\* accounts, or in a reset, or by the lone credit of a settle() whose
\* transaction SQLite has dropped.
THEOREM MoneyMovesOnce == Spec => OnlyLostDebitsSplitPayments
<1>1. Inductive /\ [Next]_vars
        => [MovesMoney \/ \E t \in Threads : CreditsAlone(t)]_vars
  BY MoneyStep
<1> QED
  BY <1>1, Invariance, PTL DEF Spec, OnlyLostDebitsSplitPayments

-----------------------------------------------------------------------------
(***************************************************************************)
(* The refinement of SettleContract.                                       *)
(***************************************************************************)
\* The seeded database is where the contract starts.
LEMMA ContractInit == Init => Contract!Start
  BY DEF Init, Contract!Start, NoAnswer, NoCall, Contract!Unanswered

\* A settle() that throws is a refusal.
LEMMA ThrowRefuses ==
  ASSUME Inductive, NEW t \in Threads, pc[t] # "idle", Return(t, Thrown),
         UNCHANGED committed
  PROVE  Contract!Refuse(t)
<1>1. Hash(t) # NoPacket
  BY InCall, ConstantsAssumption DEF Inductive
<1>2. result' = [result EXCEPT ![t] = Contract!Invalid]
  BY DEF Return, Thrown, Contract!Invalid
<1>3. \A u \in Threads : Hash(u)' = IF u = t THEN NoPacket ELSE Hash(u)
  BY DEF Return, NoCall, Inductive, TypeOK
<1>4. [u \in Threads |-> Hash(u)]'
        = [[u \in Threads |-> Hash(u)] EXCEPT ![t] = NoPacket]
  BY <1>3
<1> QED
  BY <1>1, <1>2, <1>4 DEF Contract!Refuse

\* Every step is a step of the contract or is invisible to callers.
LEMMA ContractStep ==
  ASSUME Inductive, [Next]_vars
  PROVE  [Contract!Step]_(Contract!contractVars)
<1> DEFINE Allowed == [Contract!Step]_(Contract!contractVars)
<1>1. ASSUME NEW t \in Threads, NEW h \in Packets, CallSettle(t, h)
      PROVE  Allowed
  <2>1. Contract!Invoke(t, h)
    BY <1>1, ConstantsAssumption
    DEF CallSettle, Inductive, TypeOK, CheckedLocals, NoCall, NoAnswer,
        Contract!Invoke, Contract!Unanswered
  <2> QED
    BY <2>1 DEF Contract!Step
<1>2. ASSUME NEW t \in Threads, SettleStep(t), Return(t, Thrown),
             committed' = committed
      PROVE  Allowed
  <2>1. pc[t] # "idle"
    BY <1>2
    DEF SettleStep, FindSender, FindReceiver, RecordRejected, Begin,
        SaveSender, SaveReceiver, SaveTransaction, Commit, Rollback
  <2> QED
    BY <1>2, <2>1, ThrowRefuses DEF Contract!Step
<1>3. ASSUME committed' = committed, result' = result,
             \A t \in Threads : call'[t].hash = call[t].hash
      PROVE  Allowed
  BY <1>3 DEF Contract!contractVars
<1>4. ASSUME NEW t \in Threads, FindSender(t) \/ FindReceiver(t)
      PROVE  Allowed
  <2>1. committed' = committed
    BY <1>4, FailsEffect DEF FindSender, FindReceiver, Inductive
  <2>2. CASE Return(t, Thrown)
    BY <1>2, <1>4, <2>1, <2>2 DEF SettleStep
  <2>3. CASE ~Return(t, Thrown)
    BY <1>3, <1>4, <2>1, <2>3
    DEF FindSender, FindReceiver, Inductive, TypeOK, Call
  <2> QED
    BY <2>2, <2>3
<1>5. ASSUME NEW t \in Threads, RecordRejected(t)
      PROVE  Allowed
  <2>1. CASE Return(t, Thrown) /\ committed' = committed
    BY <1>2, <1>5, <2>1 DEF SettleStep
  <2>2. CASE /\ Hash(t) \notin Hashes(db)
             /\ Write(WithRow(db, Hash(t), "REJECTED"))
             /\ Return(t, [status |-> "REJECTED", id |-> db'.lastRowId])
    <3>1. Hash(t) \in Packets /\ Hash(t) # NoPacket
      BY <1>5, InCall, ConstantsAssumption DEF RecordRejected, Inductive
    <3>2. CASE ~open
      <4>1. db = committed /\ committed' = WithRow(committed, Hash(t), "REJECTED")
        BY <2>2, <3>2, WriteEffect DEF Inductive, Isolation
      <4>2. Contract!Record(t, "REJECTED")
        BY <2>2, <3>1, <4>1, WriteEffect
        DEF Inductive, TypeOK, Return, WithRow, NewRow, Hashes, NoCall,
            Contract!Record
      <4> QED
        BY <4>2 DEF Contract!Step
    <3>3. CASE open
      <4>1. used.faults > 0
        <5>1. MutexFree
          BY <1>5 DEF RecordRejected
        <5>2. used.faults # 0
          BY <3>3, <5>1 DEF Inductive, Isolation
        <5> QED
          BY <5>2 DEF Inductive, TypeOK, Used
      <4>2. committed' = committed /\ db'.lastRowId = db.lastRowId + 1
        <5>1. committed' = committed /\ db' = WithRow(db, Hash(t), "REJECTED")
          BY <2>2, <3>3, WriteEffect
        <5> QED
          BY <5>1 DEF WithRow
      <4>3. db'.lastRowId > committed.lastRowId
        BY <4>2 DEF Inductive, RowIds, TypeOK, Tables
      <4>4. result'[t].id = db'.lastRowId
        BY <2>2 DEF Return, Inductive, TypeOK
      <4>5. Contract!Phantom(t, result'[t].id)
        BY <2>2, <3>1, <4>1, <4>2, <4>3, <4>4
        DEF Inductive, TypeOK, Return, NoCall, Contract!Phantom
      <4> QED
        BY <4>5 DEF Contract!Step
    <3> QED
      BY <3>2, <3>3
  <2> QED
    BY <1>5, <2>1, <2>2, FailsEffect DEF RecordRejected, Inductive
<1>6. ASSUME NEW t \in Threads, Begin(t)
      PROVE  Allowed
  <2>1. committed' = committed
    BY <1>6, FailsEffect DEF Begin, Inductive
  <2> QED
    BY <1>2, <1>3, <1>6, <2>1 DEF Begin, SettleStep
<1>7. ASSUME NEW t \in Threads, SaveSender(t) \/ SaveReceiver(t)
      PROVE  Allowed
  BY <1>7, FailsEffect, WriteEffect
  DEF SaveSender, SaveReceiver, Inductive, Isolation, Debited, Credited,
      WithAccount, Contract!contractVars
<1>8. ASSUME NEW t \in Threads, SaveTransaction(t)
      PROVE  Allowed
  <2>1. CASE committed' = committed
    BY <1>3, <1>8, <2>1 DEF SaveTransaction
  <2>2. CASE /\ ~open /\ Hash(t) \notin Hashes(db)
             /\ Write(WithRow(db, Hash(t), "SETTLED"))
    <3>1. Hash(t) \in Packets /\ Hash(t) # NoPacket
      BY <1>8, InCall, ConstantsAssumption DEF SaveTransaction, Inductive
    <3>2. db = committed /\ committed' = WithRow(committed, Hash(t), "SETTLED")
      BY <2>2, WriteEffect DEF Inductive, Isolation
    <3>3. dbMutex = t /\ t # NoThread
      BY <1>8, ConstantsAssumption DEF SaveTransaction, Inductive, Isolation, InTxn
    <3>4. used.faults > 0
      BY <2>2, <3>3 DEF Inductive, Isolation, TypeOK, Used
    <3>5. UNCHANGED <<call, result>>
      BY <1>8 DEF SaveTransaction
    <3>6. Contract!Stray(t)
      BY <2>2, <3>1, <3>2, <3>4, <3>5
      DEF WithRow, NewRow, Hashes, Contract!Stray
    <3> QED
      BY <3>6 DEF Contract!Step
  <2> QED
    BY <1>8, <2>1, <2>2, FailsEffect, WriteEffect DEF SaveTransaction, Inductive
<1>9. ASSUME NEW t \in Threads, Commit(t)
      PROVE  Allowed
  <2>1. CASE committed' = committed /\ UNCHANGED <<call, result>>
    BY <1>3, <2>1
  <2>2. CASE /\ open /\ committed' = db
             /\ Return(t, [status |-> "SETTLED", id |-> db.lastRowId])
    <3>1. Hash(t) \in Packets /\ Hash(t) # NoPacket
      BY <1>9, InCall, ConstantsAssumption DEF Commit, Inductive
    <3>2. /\ Hash(t) \notin Hashes(committed)
          /\ AddsRow(committed, db, Hash(t), "SETTLED")
      BY <1>9, <2>2 DEF Commit, Inductive, OpenTransaction
    <3>3. Contract!Record(t, "SETTLED")
      BY <2>2, <3>1, <3>2
      DEF Inductive, TypeOK, Return, AddsRow, NewRow, Hashes, NoCall,
          Contract!Record
    <3> QED
      BY <3>3 DEF Contract!Step
  <2> QED
    BY <1>9, <2>1, <2>2, FailsEffect DEF Commit, Inductive
<1>10. ASSUME NEW t \in Threads, Rollback(t)
      PROVE  Allowed
  <2>1. committed' = committed
    BY <1>10, FailsEffect DEF Rollback, DropTransaction, Inductive
  <2>2. CASE Return(t, Thrown)
    BY <1>2, <1>10, <2>1, <2>2 DEF SettleStep
  <2>3. CASE call' = [call EXCEPT ![t].attempt = @ + 1] /\ UNCHANGED result
    BY <1>3, <2>1, <2>3 DEF Inductive, TypeOK, Call
  <2> QED
    BY <1>10, <2>2, <2>3 DEF Rollback
<1>11. ASSUME NEW t \in Threads, ListAccounts(t) \/ ListTransactions(t)
      PROVE  Allowed
  BY <1>3, <1>11, FailsEffect DEF ListAccounts, ListTransactions, Inductive
<1>12. ASSUME NEW t \in Threads, Reset(t)
      PROVE  Allowed
  <2>1. committed'.lastRowId = committed.lastRowId
    BY <1>12, WriteEffect
    DEF Reset, DropTransaction, Emptied, Inductive, Isolation
  <2>2. committed'.transactions \in {{}, committed.transactions}
    BY <1>12, WriteEffect
    DEF Reset, DropTransaction, Emptied, Inductive, Isolation
  <2>3. UNCHANGED <<call, result>>
    BY <1>12 DEF Reset
  <2> QED
    BY <2>1, <2>2, <2>3 DEF Contract!Step, Contract!Wipe, Contract!contractVars
<1>13. CASE UNCHANGED vars
  BY <1>13 DEF vars, Contract!contractVars
<1> QED
  BY <1>1, <1>4, <1>5, <1>6, <1>7, <1>8, <1>9, <1>10, <1>11, <1>12, <1>13
  DEF Next, SettleStep

\* settle() implements its contract: concurrent calls take effect one at a
\* time, in the step that answers them, and the answer tells the effect.
\* Once a statement has failed, SettleContract says what is left of that.
THEOREM SettleHonoursContract == Spec => ImplementsContract
  BY ContractInit, ContractStep, Invariance, PTL
  DEF Spec, ImplementsContract, Contract!ContractSpec

-----------------------------------------------------------------------------
(***************************************************************************)
(* settle() ends: how far each of its steps takes it.                      *)
(***************************************************************************)
\* Where a settle() in progress can be, each place with its distance from the
\* end of the attempt.
LEMMA Distances ==
  /\ Labels \ {"idle"} = DOMAIN Ahead
  /\ \A label \in Labels \ {"idle"} : Ahead[label] \in 1..8
  BY DEF Ahead, Labels, InTxn

\* A step of one thread leaves the others where they are.  Its own thread
\* leaves settle(), or goes on with its attempt, or starts the next one.
LEMMA StepGoesOn ==
  ASSUME TypeOK, NEW u \in Threads, SettleStep(u)
  PROVE  /\ pc[u] # "idle" /\ pc'[u] # pc[u]
         /\ \A t \in Threads \ {u} :
              pc'[t] = pc[t] /\ call'[t] = call[t]
         /\ \/ pc'[u] = "idle"
            \/ /\ pc'[u] \in Labels \ {"idle"}
               /\ call'[u].attempt = call[u].attempt
               /\ Ahead[pc'[u]] < Ahead[pc[u]]
            \/ /\ pc[u] = "rollback" /\ pc'[u] = "findSender"
               /\ call[u].attempt < MaxAttempts
               /\ call'[u].attempt = call[u].attempt + 1
<1> USE DEF TypeOK, Labels, InTxn
<1>0. call[u].attempt \in 1..MaxAttempts
  BY DEF Call
<1>1. CASE FindSender(u)
  BY <1>1 DEF FindSender, Return, Goto, Ahead, Call
<1>2. CASE FindReceiver(u)
  BY <1>2 DEF FindReceiver, Return, Goto, Ahead, Call
<1>3. CASE RecordRejected(u)
  BY <1>3 DEF RecordRejected, Return, Goto
<1>4. CASE Begin(u)
  BY <1>4 DEF Begin, Return, Goto, Ahead
<1>5. CASE SaveSender(u)
  BY <1>5 DEF SaveSender, Goto, Ahead
<1>6. CASE SaveReceiver(u)
  BY <1>6 DEF SaveReceiver, Goto, Ahead
<1>7. CASE SaveTransaction(u)
  BY <1>7 DEF SaveTransaction, Goto, Ahead
<1>8. CASE Commit(u)
  BY <1>8 DEF Commit, Return, Goto, Ahead
<1>9. CASE Rollback(u)
  BY <1>9, <1>0 DEF Rollback, Return, Goto, Call
<1> QED
  BY <1>1, <1>2, <1>3, <1>4, <1>5, <1>6, <1>7, <1>8, <1>9 DEF SettleStep

\* Wherever it is, settle() has some steps left, and none once it has left.
LEMMA StepsLeftType ==
  ASSUME TypeOK, NEW t \in Threads
  PROVE  /\ StepsLeft(t) \in Nat
         /\ pc[t] # "idle" => StepsLeft(t) >= 1
<1>1. call[t].attempt \in 1..MaxAttempts /\ MaxAttempts \in Nat
  BY ConstantsAssumption DEF TypeOK, Call
<1>2. CASE pc[t] = "idle"
  BY <1>2 DEF StepsLeft
<1>3. CASE pc[t] # "idle"
  <2>1. Ahead[pc[t]] \in 1..8
    BY <1>3, Distances DEF TypeOK
  <2> QED
    BY <1>1, <1>3, <2>1 DEF StepsLeft
<1> QED
  BY <1>2, <1>3

\* A step of a settle() takes it nearer to its end.
LEMMA ForwardStep ==
  ASSUME TypeOK, TypeOK', NEW u \in Threads, SettleStep(u)
  PROVE  StepsLeft(u)' \in 0..StepsLeft(u) - 1
<1>1. StepsLeft(u) \in Nat /\ StepsLeft(u) >= 1
  BY StepsLeftType, StepGoesOn
<1>2. call[u].attempt \in 1..MaxAttempts /\ call'[u].attempt \in 1..MaxAttempts
  BY DEF TypeOK, Call
<1>3. MaxAttempts \in Nat
  BY ConstantsAssumption
<1>4. StepsLeft(u) = 8 * (MaxAttempts - call[u].attempt) + Ahead[pc[u]]
  BY StepGoesOn DEF StepsLeft
<1>5. Ahead[pc[u]] \in Nat
  BY StepGoesOn, Distances DEF TypeOK
<1>6. CASE pc'[u] = "idle"
  BY <1>1, <1>6 DEF StepsLeft
<1>7. CASE /\ pc'[u] \in Labels \ {"idle"}
           /\ call'[u].attempt = call[u].attempt
           /\ Ahead[pc'[u]] < Ahead[pc[u]]
  <2>1. Ahead[pc'[u]] \in Nat
    BY <1>7, Distances
  <2>2. StepsLeft(u)' =
          8 * (MaxAttempts - call[u].attempt) + Ahead[pc'[u]]
    BY <1>7 DEF StepsLeft, Ahead
  <2> QED
    BY <1>1, <1>2, <1>3, <1>4, <1>5, <1>7, <2>1, <2>2
<1>8. CASE /\ pc[u] = "rollback" /\ pc'[u] = "findSender"
           /\ call'[u].attempt = call[u].attempt + 1
  <2>1. Ahead[pc[u]] = 1 /\ Ahead[pc'[u]] = 8
    BY <1>8 DEF Ahead
  <2>2. StepsLeft(u)' =
          8 * (MaxAttempts - (call[u].attempt + 1)) + 8
    BY <1>8 DEF StepsLeft, Ahead
  <2> QED
    BY <1>1, <1>2, <1>3, <1>4, <1>8, <2>1, <2>2
<1> QED
  BY <1>6, <1>7, <1>8, StepGoesOn

\* So whatever step is taken, each settle() in progress is nearer to its end
\* or where it was.
LEMMA ForwardNext ==
  ASSUME TypeOK, TypeOK', [Next]_vars
  PROVE  GoesForward
<1> SUFFICES ASSUME NEW t \in Threads, pc[t] # "idle"
             PROVE  IF pc'[t] = pc[t]
                    THEN StepsLeft(t)' = StepsLeft(t)
                    ELSE StepsLeft(t)' \in 0..StepsLeft(t) - 1
  BY DEF GoesForward
<1>1. ASSUME pc'[t] = pc[t], call'[t] = call[t]
      PROVE  StepsLeft(t)' = StepsLeft(t)
  BY <1>1 DEF StepsLeft
<1>2. CASE SettleStep(t)
  BY <1>2, ForwardStep, StepGoesOn
<1>3. ASSUME NEW u \in Threads, SettleStep(u), u # t
      PROVE  pc'[t] = pc[t] /\ call'[t] = call[t]
  BY <1>3, StepGoesOn
<1>4. ASSUME NEW u \in Threads, NEW h \in Packets, CallSettle(u, h)
      PROVE  pc'[t] = pc[t] /\ call'[t] = call[t]
  <2>1. u # t
    BY <1>4 DEF CallSettle
  <2> QED
    BY <1>4, <2>1 DEF CallSettle, Goto, TypeOK
<1>5. ASSUME NEW u \in Threads,
             ListAccounts(u) \/ ListTransactions(u) \/ Reset(u)
      PROVE  pc'[t] = pc[t] /\ call'[t] = call[t]
  BY <1>5 DEF ListAccounts, ListTransactions, Reset
<1>6. CASE UNCHANGED vars
  BY <1>1, <1>6 DEF vars
<1> QED
  BY <1>1, <1>2, <1>3, <1>4, <1>5, <1>6 DEF Next

\* A settle() makes at most eight steps for each of its attempts, with any
\* number of threads contending, retries and failing statements, and nothing
\* takes it back: what CallReturns adds is that it does make them.
THEOREM CallsEndInBoundedSteps == Spec => CallsGoForward
<1>1. Inductive /\ Inductive' /\ [Next]_vars => [GoesForward]_vars
  BY ForwardNext DEF Inductive
<1> QED
  BY <1>1, Invariance, PTL DEF Spec, CallsGoForward
=============================================================================
