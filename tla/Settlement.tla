----------------------------- MODULE Settlement -----------------------------
(***************************************************************************)
(* SettlementService::settle run by the server's request threads against   *)
(* the one shared SQLite connection (Database, AccountRepository and       *)
(* TransactionRepository).                                                 *)
(*                                                                         *)
(* Every repository call holds Database's recursive mutex, so one call is  *)
(* one atomic step that needs the mutex free.  settle() reads the two      *)
(* accounts in two such calls and takes the mutex again, for a whole       *)
(* BEGIN..COMMIT block, only when it writes: what it writes is computed    *)
(* from copies that another thread may have made stale.                    *)
(*                                                                         *)
(* All threads share one connection, which sees its own uncommitted        *)
(* writes: "db" is what any statement sees now, "committed" is what a      *)
(* ROLLBACK returns to.  Without an open transaction every statement is    *)
(* committed by itself, whichever code sent it.                            *)
(***************************************************************************)
EXTENDS Integers, FiniteSets

CONSTANTS
  Threads,      \* request threads of the HTTP server (16 in main.cpp)
  NoThread,     \* owner of a free mutex
  Packets,      \* packet hashes; a hash determines the instruction inside
  NoPacket,     \* what a thread outside settle() is settling
  Vpas,         \* payment addresses an instruction may name
  NoAccount,    \* an address that has no row in table accounts
  Sender, Receiver, Amount,   \* the instruction of each packet
  Seed,         \* balance of each seeded account
  MaxAttempts,  \* settle()'s maxAttempts (3)
  ListLimit,    \* LIMIT of findTop20ByOrderByIdDesc (20)
  MaxCalls,     \* bound on the calls of settle()
  MaxResets,    \* bound on the calls of Database::reset()
  MaxFaults     \* bound on the statements that fail

Account == [balance: Int, version: Int]

ASSUME ConstantsAssumption ==
  /\ NoThread \notin Threads
  /\ NoPacket \notin Packets
  /\ NoAccount \notin Account
  /\ DOMAIN Seed \subseteq Vpas /\ IsFiniteSet(DOMAIN Seed)
  /\ Sender \in [Packets -> Vpas]
  /\ Receiver \in [Packets -> Vpas]
  /\ Amount \in [Packets -> Int]
  /\ \A vpa \in DOMAIN Seed : Seed[vpa] \in Nat
  /\ MaxAttempts \in Nat \ {0}
  /\ ListLimit \in Nat
  /\ MaxCalls \in Nat /\ MaxResets \in Nat /\ MaxFaults \in Nat

VARIABLES
  db,         \* the tables as the connection sees them
  committed,  \* the tables as of the last COMMIT or autocommitted statement
  open,       \* the connection is in a transaction (not in autocommit mode)
  dbMutex,    \* owner of Database::connectionMutex_
  pc,         \* where each thread is in settle(); "idle" outside
  call,       \* locals of each thread's settle(): see Call
  result,     \* what each thread's last settle() returned or threw
  view,       \* what the last GET /accounts and GET /transactions returned
  used        \* the bounds used up so far

vars == <<db, committed, open, dbMutex, pc, call, result, view, used>>

Row     == [id: Nat, hash: Packets, status: {"SETTLED", "REJECTED"}]
Tables  == [accounts: [Vpas -> Account \cup {NoAccount}],
            transactions: SUBSET Row,
            lastRowId: Nat]
Call    == [hash: Packets \cup {NoPacket}, attempt: 1..MaxAttempts,
            sender: Account, receiver: Account]
Answer  == [status: {"NONE", "INVALID", "SETTLED", "REJECTED"}, id: Nat]
Used    == [calls: 0..MaxCalls, resets: 0..MaxResets, faults: 0..MaxFaults]

InTxn   == {"saveSender", "saveReceiver", "saveTx", "commit", "rollback"}
Labels  == {"idle", "findSender", "findReceiver", "reject", "begin"} \cup InTxn

\* Locals that settle() has not read yet; no step looks at this value.
Unread  == [balance |-> 0, version |-> 0]
NoAnswer == [status |-> "NONE", id |-> 0]
Thrown   == [status |-> "INVALID", id |-> 0]

-----------------------------------------------------------------------------
\* Database::seedAccounts: one row of version 0 for each demo account.
SeedAccounts == [vpa \in Vpas |-> IF vpa \in DOMAIN Seed
                                  THEN [balance |-> Seed[vpa], version |-> 0]
                                  ELSE NoAccount]

\* Table accounts without a row.
NoAccounts == [vpa \in Vpas |-> NoAccount]

\* The locals of a thread outside settle().
NoCall == [hash |-> NoPacket, attempt |-> 1,
           sender |-> Unread, receiver |-> Unread]

Init ==
  /\ db = [accounts |-> SeedAccounts, transactions |-> {}, lastRowId |-> 0]
  /\ committed = db
  /\ open = FALSE
  /\ dbMutex = NoThread
  /\ pc = [t \in Threads |-> "idle"]
  /\ call = [t \in Threads |-> NoCall]
  /\ result = [t \in Threads |-> NoAnswer]
  /\ view = [accounts |-> SeedAccounts, transactions |-> {}]
  /\ used = [calls |-> 0, resets |-> 0, faults |-> 0]

-----------------------------------------------------------------------------
(***************************************************************************)
(* What a statement does to the connection.                                *)
(***************************************************************************)
\* It succeeds, and is committed unless it is part of a transaction.
Write(tables) ==
  /\ db' = tables
  /\ committed' = IF open THEN committed ELSE tables
  /\ UNCHANGED open

\* ROLLBACK, or what SQLite does by itself.
DropTransaction ==
  /\ db' = committed /\ open' = FALSE
  /\ UNCHANGED committed

\* No memory is left for it: it has no effect, or, if it fails in
\* sqlite3_step, SQLite may roll back the transaction it is part of and return
\* to autocommit mode.
Fault == /\ used.faults < MaxFaults
         /\ used' = [used EXCEPT !.faults = @ + 1]

Fails == Fault /\ (DropTransaction \/ UNCHANGED <<db, committed, open>>)

At(t, label) == pc[t] = label
Goto(t, label) == pc' = [pc EXCEPT ![t] = label]
MutexFree == dbMutex = NoThread

\* settle() leaves with a transaction or an exception.
Return(t, answer) ==
  /\ Goto(t, "idle")
  /\ call' = [call EXCEPT ![t] = NoCall]
  /\ result' = [result EXCEPT ![t] = answer]

Hash(t) == call[t].hash
Hashes(tables) == {r.hash : r \in tables.transactions}
HasAccount(vpa) == db.accounts[vpa] # NoAccount

\* AccountRepository::save, a blind upsert: no version check, no increment.
WithAccount(tables, vpa, account) ==
  [accounts |-> [tables.accounts EXCEPT ![vpa] = account],
   transactions |-> tables.transactions, lastRowId |-> tables.lastRowId]

\* TransactionRepository::save on a hash that has no row yet: the next
\* AUTOINCREMENT id, which a DELETE does not give back and a ROLLBACK does.
NewRow(tables, hash, status) ==
  [id |-> tables.lastRowId + 1, hash |-> hash, status |-> status]

WithRow(tables, hash, status) ==
  [accounts |-> tables.accounts,
   transactions |-> tables.transactions \cup {NewRow(tables, hash, status)},
   lastRowId |-> tables.lastRowId + 1]

-----------------------------------------------------------------------------
(***************************************************************************)
(* settle(), one action per repository call or statement.                  *)
(***************************************************************************)
CallSettle(t, h) ==
  /\ At(t, "idle") /\ used.calls < MaxCalls
  /\ used' = [used EXCEPT !.calls = @ + 1]
  /\ call' = [call EXCEPT ![t] = [NoCall EXCEPT !.hash = h]]
  /\ result' = [result EXCEPT ![t] = NoAnswer]
  /\ Goto(t, "findSender")
  /\ UNCHANGED <<db, committed, open, dbMutex, view>>

\* findById(senderVpa); no row, or a statement that fails, throws.
FindSender(t) ==
  /\ At(t, "findSender") /\ MutexFree
  /\ \/ /\ HasAccount(Sender[Hash(t)])
        /\ call' = [call EXCEPT ![t].sender = db.accounts[Sender[Hash(t)]]]
        /\ Goto(t, "findReceiver")
        /\ UNCHANGED <<db, committed, open, result, used>>
     \/ /\ ~HasAccount(Sender[Hash(t)])
        /\ Return(t, Thrown) /\ UNCHANGED <<db, committed, open, used>>
     \/ Fails /\ Return(t, Thrown)
  /\ UNCHANGED <<dbMutex, view>>

\* Mutants of FindReceiver: the balance check is missing; it rejects a
\* payment of exactly the balance.
FindReceiverUnchecked(t) ==
  /\ At(t, "findReceiver") /\ MutexFree
  /\ HasAccount(Receiver[Hash(t)]) /\ Amount[Hash(t)] > 0
  /\ call' = [call EXCEPT ![t].receiver = db.accounts[Receiver[Hash(t)]]]
  /\ Goto(t, "begin")
  /\ UNCHANGED <<db, committed, open, dbMutex, result, view, used>>

FindReceiverOffByOne(t) ==
  /\ At(t, "findReceiver") /\ MutexFree
  /\ HasAccount(Receiver[Hash(t)]) /\ Amount[Hash(t)] > 0
  /\ call' = [call EXCEPT ![t].receiver = db.accounts[Receiver[Hash(t)]]]
  /\ Goto(t, IF call[t].sender.balance <= Amount[Hash(t)]
             THEN "reject" ELSE "begin")
  /\ UNCHANGED <<db, committed, open, dbMutex, result, view, used>>

\* findById(receiverVpa), then the checks on the copies just read.
FindReceiver(t) ==
  /\ At(t, "findReceiver") /\ MutexFree
  /\ \/ /\ HasAccount(Receiver[Hash(t)]) /\ Amount[Hash(t)] > 0
        /\ call' = [call EXCEPT ![t].receiver = db.accounts[Receiver[Hash(t)]]]
        /\ Goto(t, IF call[t].sender.balance < Amount[Hash(t)]
                   THEN "reject" ELSE "begin")
        /\ UNCHANGED <<db, committed, open, result, used>>
     \/ /\ ~HasAccount(Receiver[Hash(t)]) \/ Amount[Hash(t)] <= 0
        /\ Return(t, Thrown) /\ UNCHANGED <<db, committed, open, used>>
     \/ Fails /\ Return(t, Thrown)
  /\ UNCHANGED <<dbMutex, view>>

\* recordRejected: one INSERT, which the UNIQUE index may refuse.  It commits
\* itself, unless somebody left a transaction open.
RecordRejected(t) ==
  /\ At(t, "reject") /\ MutexFree
  /\ \/ /\ Hash(t) \notin Hashes(db)
        /\ Write(WithRow(db, Hash(t), "REJECTED"))
        /\ Return(t, [status |-> "REJECTED", id |-> db'.lastRowId])
        /\ UNCHANGED used
     \/ /\ Hash(t) \in Hashes(db)
        /\ Return(t, Thrown) /\ UNCHANGED <<db, committed, open, used>>
     \/ Fails /\ Return(t, Thrown)
  /\ UNCHANGED <<dbMutex, view>>

\* Mutant of Begin: the transaction is opened without the mutex.
BeginUnlocked(t) ==
  /\ At(t, "begin") /\ MutexFree
  /\ open' = TRUE
  /\ Goto(t, "saveSender")
  /\ UNCHANGED <<db, committed, dbMutex, call, result, view, used>>

\* Take the mutex and BEGIN.  BEGIN is outside the try block: if it throws,
\* because it fails or a transaction is open already, unwinding releases the
\* mutex and nothing is retried.
Begin(t) ==
  /\ At(t, "begin") /\ MutexFree
  /\ \/ /\ ~open /\ open' = TRUE
        /\ dbMutex' = t /\ Goto(t, "saveSender")
        /\ UNCHANGED <<db, committed, call, result, used>>
     \/ /\ open /\ Return(t, Thrown)
        /\ UNCHANGED <<db, committed, open, dbMutex, used>>
     \/ Fails /\ Return(t, Thrown) /\ UNCHANGED dbMutex
  /\ UNCHANGED view

\* The tables with the debit and with the credit, of the copies t has read.
Debited(t) ==
  WithAccount(db, Sender[Hash(t)],
              [call[t].sender EXCEPT !.balance = @ - Amount[Hash(t)]])
Credited(t) ==
  WithAccount(db, Receiver[Hash(t)],
              [call[t].receiver EXCEPT !.balance = @ + Amount[Hash(t)]])

\* Mutants of SaveSender: the statement autocommits; the locals are static,
\* so that another thread's copy may be written.
SaveSenderAutocommits(t) ==
  /\ At(t, "saveSender")
  /\ db' = Debited(t) /\ committed' = db'
  /\ Goto(t, "saveReceiver")
  /\ UNCHANGED <<open, dbMutex, call, result, view, used>>

SaveSenderSharedLocals(t) ==
  /\ At(t, "saveSender")
  /\ \E u \in Threads :
       /\ At(u, "begin") \/ u = t
       /\ db' = WithAccount(db, Sender[Hash(t)],
                  [call[u].sender EXCEPT !.balance = @ - Amount[Hash(t)]])
  /\ Goto(t, "saveReceiver")
  /\ UNCHANGED <<committed, open, dbMutex, call, result, view, used>>

\* The result of sqlite3_step is ignored: a failed save goes unnoticed, and so
\* does the end of the transaction.
SaveSender(t) ==
  /\ At(t, "saveSender")
  /\ (Write(Debited(t)) /\ UNCHANGED used) \/ Fails
  /\ Goto(t, "saveReceiver")
  /\ UNCHANGED <<dbMutex, call, result, view>>

\* Mutant of SaveReceiver: the credit is not saved.
SaveReceiverForgotten(t) ==
  /\ At(t, "saveReceiver")
  /\ Goto(t, "saveTx")
  /\ UNCHANGED <<db, committed, open, dbMutex, call, result, view, used>>

\* Commits itself if SQLite has dropped the transaction.
SaveReceiver(t) ==
  /\ At(t, "saveReceiver")
  /\ (Write(Credited(t)) /\ UNCHANGED used) \/ Fails
  /\ Goto(t, "saveTx")
  /\ UNCHANGED <<dbMutex, call, result, view>>

\* Mutant of SaveTransaction: column packetHash is not UNIQUE.
SaveTransactionNotUnique(t) ==
  /\ At(t, "saveTx")
  /\ Write(WithRow(db, Hash(t), "SETTLED"))
  /\ Goto(t, "commit")
  /\ UNCHANGED <<dbMutex, call, result, view, used>>

\* So does the row, which the throw below then denies.
SaveTransaction(t) ==
  /\ At(t, "saveTx")
  /\ \/ /\ Hash(t) \notin Hashes(db)
        /\ Write(WithRow(db, Hash(t), "SETTLED"))
        /\ Goto(t, "commit") /\ UNCHANGED used
     \/ /\ Hash(t) \in Hashes(db)
        /\ Goto(t, "rollback") /\ UNCHANGED <<db, committed, open, used>>
     \/ Fails /\ Goto(t, "rollback")
  /\ UNCHANGED <<dbMutex, call, result, view>>

\* COMMIT, return the transaction, release the mutex.  It is an error if there
\* is no transaction any more.
Commit(t) ==
  /\ At(t, "commit")
  /\ \/ /\ open /\ open' = FALSE
        /\ committed' = db /\ dbMutex' = NoThread
        /\ Return(t, [status |-> "SETTLED", id |-> db.lastRowId])
        /\ UNCHANGED <<db, used>>
     \/ /\ ~open /\ Goto(t, "rollback")
        /\ UNCHANGED <<db, committed, open, dbMutex, call, result, used>>
     \/ /\ Fails /\ Goto(t, "rollback")
        /\ UNCHANGED <<dbMutex, call, result>>
  /\ UNCHANGED view

\* Mutants of Rollback: one attempt too many; attempts that are not counted;
\* no ROLLBACK.
RollbackOffByOne(t) ==
  /\ At(t, "rollback")
  /\ DropTransaction /\ dbMutex' = NoThread
  /\ \/ /\ call[t].attempt <= MaxAttempts
        /\ call' = [call EXCEPT ![t].attempt = @ + 1]
        /\ Goto(t, "findSender") /\ UNCHANGED result
     \/ /\ call[t].attempt > MaxAttempts
        /\ Return(t, Thrown)
  /\ UNCHANGED <<view, used>>

RollbackUncounted(t) ==
  /\ At(t, "rollback")
  /\ DropTransaction /\ dbMutex' = NoThread
  /\ Goto(t, "findSender")
  /\ UNCHANGED <<call, result, view, used>>

RollbackForgotten(t) ==
  /\ At(t, "rollback")
  /\ dbMutex' = NoThread
  /\ Return(t, Thrown)
  /\ UNCHANGED <<db, committed, open, view, used>>

\* The catch block: ROLLBACK, release the mutex, try again or rethrow.  If
\* ROLLBACK throws, because it fails or there is no transaction any more, that
\* leaves the catch block: unwinding releases the mutex, nothing is retried,
\* and the transaction may stay open.
Rollback(t) ==
  /\ At(t, "rollback")
  /\ dbMutex' = NoThread
  /\ \/ /\ open /\ DropTransaction /\ UNCHANGED used
        /\ \/ /\ call[t].attempt < MaxAttempts
              /\ call' = [call EXCEPT ![t].attempt = @ + 1]
              /\ Goto(t, "findSender") /\ UNCHANGED result
           \/ /\ call[t].attempt = MaxAttempts
              /\ Return(t, Thrown)
     \/ /\ ~open /\ Return(t, Thrown)
        /\ UNCHANGED <<db, committed, open, used>>
     \/ Fails /\ Return(t, Thrown)
  /\ UNCHANGED view

-----------------------------------------------------------------------------
(***************************************************************************)
(* The other requests that touch the database, each on an idle thread.     *)
(***************************************************************************)
\* Mutant of ListAccounts: the reader does not take the mutex.
ListAccountsUnlocked(t) ==
  /\ At(t, "idle")
  /\ view' = [view EXCEPT !.accounts = db.accounts]
  /\ UNCHANGED <<db, committed, open, dbMutex, pc, call, result, used>>

\* GET /api/accounts: AccountRepository::findAll, which answers the rows it
\* has read so far when its statement fails.
OnlyRows(vpas) == [vpa \in Vpas |-> IF vpa \in vpas THEN db.accounts[vpa]
                                                    ELSE NoAccount]

ListAccounts(t) ==
  /\ At(t, "idle") /\ MutexFree
  /\ \/ /\ view' = [view EXCEPT !.accounts = db.accounts]
        /\ UNCHANGED <<db, committed, open, used>>
     \/ /\ Fails
        /\ \E vpas \in SUBSET Vpas : view' = [view EXCEPT !.accounts = OnlyRows(vpas)]
  /\ UNCHANGED <<dbMutex, pc, call, result>>

\* GET /api/transactions: the newest rows; if the statement fails, an error
\* page or the rows read so far.
Newest(rows, limit) ==
  {r \in rows : Cardinality({s \in rows : s.id > r.id}) < limit}

ListTransactions(t) ==
  /\ At(t, "idle") /\ MutexFree
  /\ \/ /\ view' = [view EXCEPT
                      !.transactions = Newest(db.transactions, ListLimit)]
        /\ UNCHANGED <<db, committed, open, used>>
     \/ /\ Fails
        /\ \/ UNCHANGED view
           \/ \E limit \in 0..ListLimit :
                view' = [view EXCEPT
                           !.transactions = Newest(db.transactions, limit)]
  /\ UNCHANGED <<dbMutex, pc, call, result>>

\* Database::reset, called by POST /api/mesh/reset: three statements under the
\* mutex.  One that fails throws, and the effect of the ones before it stays,
\* unless SQLite drops the transaction somebody has left open.  AUTOINCREMENT
\* goes on counting.
Emptied(accounts, transactions) ==
  [accounts |-> accounts, transactions |-> transactions,
   lastRowId |-> db.lastRowId]

Reset(t) ==
  /\ At(t, "idle") /\ MutexFree /\ used.resets < MaxResets
  /\ \/ /\ Write(Emptied(SeedAccounts, {}))
        /\ used' = [used EXCEPT !.resets = @ + 1]
     \/ /\ used.faults < MaxFaults
        /\ used' = [calls |-> used.calls, resets |-> used.resets + 1,
                    faults |-> used.faults + 1]
        /\ \/ Write(db)
           \/ Write(Emptied(db.accounts, {}))
           \/ Write(Emptied(NoAccounts, {}))
           \/ DropTransaction
  /\ UNCHANGED <<dbMutex, pc, call, result, view>>

SettleStep(t) ==
  \/ FindSender(t) \/ FindReceiver(t) \/ RecordRejected(t)
  \/ Begin(t) \/ SaveSender(t) \/ SaveReceiver(t)
  \/ SaveTransaction(t) \/ Commit(t) \/ Rollback(t)

Next == \E t \in Threads :
          \/ \E h \in Packets : CallSettle(t, h)
          \/ SettleStep(t)
          \/ ListAccounts(t) \/ ListTransactions(t) \/ Reset(t)

Spec == Init /\ [][Next]_vars

\* Every runnable thread runs, and one of finitely many contenders gets a
\* mutex that is free for good: weak fairness on each thread's own steps.
FairSpec == Spec /\ \A t \in Threads : WF_vars(SettleStep(t))

-----------------------------------------------------------------------------
(***************************************************************************)
(* Properties.                                                             *)
(***************************************************************************)
TypeOK ==
  /\ db \in Tables /\ committed \in Tables /\ open \in BOOLEAN
  /\ dbMutex \in Threads \cup {NoThread}
  /\ pc \in [Threads -> Labels]
  /\ call \in [Threads -> Call]
  /\ result \in [Threads -> Answer]
  /\ view \in [accounts: [Vpas -> Account \cup {NoAccount}],
               transactions: SUBSET Row]
  /\ used \in Used

\* settle() checks the balance of a copy it read earlier, without the mutex,
\* and the writes of other threads may pass between: even so no account is
\* ever overdrawn, in the committed tables or in an open transaction.
NonNegativeBalances ==
  \A tables \in {db, committed}, vpa \in Vpas :
    tables.accounts[vpa] # NoAccount => tables.accounts[vpa].balance >= 0

\* Retries, repeated calls for one packet and resets in between never leave
\* two rows for one packet hash or one id, in whatever state a COMMIT, a
\* ROLLBACK or a failure leaves the tables.
OneRowPerPacket ==
  \A tables \in {db, committed} : \A r, s \in tables.transactions :
    r.hash = s.hash \/ r.id = s.id => r = s

\* The balances and rows that GET /api/accounts and GET /api/transactions
\* return were committed when they ran.  (A statement that fails shortens the
\* list.)
ReadsCommitted ==
  /\ view'.accounts # view.accounts => \A vpa \in Vpas :
       view'.accounts[vpa] \in {committed.accounts[vpa], NoAccount}
  /\ view'.transactions # view.transactions =>
       \E limit \in 0..ListLimit :
         view'.transactions = Newest(committed.transactions, limit)

\* A transaction is left open that no thread is running.
Stranded == open /\ MutexFree

\* A reader never sees a half-applied transfer, though it reads over the
\* connection that the open transaction of another thread writes on, and
\* whichever statements have failed or lost their transaction before: unless a
\* ROLLBACK that failed has stranded a transaction, which breaks what the
\* comment above the transaction in settle() promises.
OnlyStrandedReadsDirty == [][Stranded \/ ReadsCommitted]_vars

\* The second tables hold what the first do and the next row.
AddsRow(before, after, hash, status) ==
  /\ after.transactions =
       before.transactions \cup {NewRow(before, hash, status)}
  /\ after.lastRowId = before.lastRowId + 1

\* Committed balances change only together with one new SETTLED row, and then
\* only those of the two accounts of its packet, or in a reset: no retry,
\* refusal or rollback lets part of a transfer through.
SettlesOne(h) ==
  /\ h \notin Hashes(committed)
  /\ AddsRow(committed, committed', h, "SETTLED")
  /\ \A vpa \in Vpas \ {Sender[h], Receiver[h]} :
       committed'.accounts[vpa] = committed.accounts[vpa]

MovesMoney ==
  committed'.accounts # committed.accounts =>
    \/ \E h \in Packets : SettlesOne(h)
    \/ used'.resets > used.resets /\ committed'.transactions = {}

\* What the comment in settle() and the README promise.  A save whose failure
\* makes SQLite drop the transaction breaks it.
MoneyMovesWithItsRow == [][MovesMoney]_vars

\* The credit of a payment whose debit has been lost with its transaction.
CreditsAlone(t) ==
  /\ pc[t] = "saveReceiver" /\ pc'[t] = "saveTx"
  /\ ~open /\ used.faults > 0
  /\ committed' = Credited(t)

\* And nothing else does: whatever fails, balances change with their row, or
\* one account is credited by a settle() whose debit SQLite has dropped.
OnlyLostDebitsSplitPayments ==
  [][MovesMoney \/ \E t \in Threads : CreditsAlone(t)]_vars

\* Settlement implements the contract its callers rely on: every call takes
\* effect in the step that answers it, and its answer tells what it did, up to
\* what the contract grants once a statement has failed.
Contract == INSTANCE SettleContract WITH
  rows <- committed.transactions, lastRowId <- committed.lastRowId,
  pending <- [t \in Threads |-> Hash(t)],
  answer <- result, failed <- used.faults > 0
ImplementsContract == Contract!ContractSpec

\* Every settle() returns or throws: the retry loop ends and nobody waits for
\* the mutex forever.
CallReturns == \A t \in Threads : pc[t] # "idle" ~> pc[t] = "idle"

\* The steps that a settle() in progress can still take, if each attempt left
\* goes all the way to its ROLLBACK: eight to an attempt.
Ahead == [findSender |-> 8, findReceiver |-> 7, reject |-> 1, begin |-> 6,
          saveSender |-> 5, saveReceiver |-> 4, saveTx |-> 3, commit |-> 2,
          rollback |-> 1]
StepsLeft(t) ==
  IF pc[t] = "idle" THEN 0
  ELSE 8 * (MaxAttempts - call[t].attempt) + Ahead[pc[t]]

\* Each step of a settle() brings it nearer to its end, and no step of another
\* thread takes it back: failures, retries and contention cannot make it take
\* more than eight steps for each of its attempts.
GoesForward ==
  \A t \in Threads : pc[t] # "idle" =>
    IF pc'[t] = pc[t] THEN StepsLeft(t)' = StepsLeft(t)
                      ELSE StepsLeft(t)' \in 0..StepsLeft(t) - 1

CallsGoForward == [][GoesForward]_vars

\* Tables read as a ledger: the balance of each seeded account, and what was
\* decided of each packet.
Balances(tables) == [vpa \in DOMAIN Seed |-> tables.accounts[vpa].balance]
Decisions(tables) ==
  [h \in Packets |-> IF h \in Hashes(tables)
                     THEN (CHOOSE r \in tables.transactions : r.hash = h).status
                     ELSE "NONE"]

\* What the committed tables say is what double-entry bookkeeping would have
\* produced.  This needs calls that share an account not to overlap.
Books == INSTANCE Ledger WITH
  Opening <- [vpa \in DOMAIN Seed |-> Seed[vpa]],
  balance <- Balances(committed),
  outcome <- Decisions(committed)
ImplementsLedger == Books!LedgerSpec

\* No money is made or lost: the committed balances add up to what was
\* seeded.  settle() promises it for transfers between different accounts.
TotalConserved == Books!Conserved

\* Only a stale read spoils the books: a settle() that overlaps any number of
\* others, retries and resets makes exactly its entry in the ledger, if the
\* copies it decides on are still what is committed, it pays somebody else
\* and no statement has failed.
Current(t) ==
  /\ committed.accounts[Sender[Hash(t)]] = call[t].sender
  /\ committed.accounts[Receiver[Hash(t)]] = call[t].receiver

EntersBooks ==
  \A t \in Threads :
    /\ pc[t] \in {"commit", "reject"} /\ pc'[t] = "idle"
    /\ committed' # committed
    /\ Current(t) /\ Sender[Hash(t)] # Receiver[Hash(t)] /\ used'.faults = 0
    => IF pc[t] = "commit" THEN Books!Transfer(Hash(t))
                           ELSE Books!Decline(Hash(t))

CurrentCopiesBook == [][EntersBooks]_vars

\* The second save of a payment to oneself overwrites the first: it credits the
\* account and debits nobody.
CreditsHimself(h) ==
  /\ Sender[h] = Receiver[h]
  /\ Balances(committed') =
       [Balances(committed) EXCEPT ![Sender[h]] = @ + Amount[h]]

\* And nothing else makes or loses money: without a failed statement or a
\* reset, the total changes only when a settle() commits that decided on
\* copies no longer current, or by the amount of a payment to oneself.
LeaksWhenStale ==
  /\ committed' # committed
  /\ used'.faults = 0 /\ used'.resets = used.resets
  => \/ Books!Total(Balances(committed')) = Books!Total(Balances(committed))
     \/ \E t \in Threads :
          /\ pc[t] = "commit" /\ pc'[t] = "idle"
          /\ Current(t) => CreditsHimself(Hash(t))

OnlyStaleCopiesLeak == [][LeaksWhenStale]_vars

-----------------------------------------------------------------------------
(***************************************************************************)
(* The inductive invariant behind the safety properties.                   *)
(***************************************************************************)
\* The mutex is held exactly over the BEGIN..COMMIT block.  Outside of a
\* transaction the tables are the committed tables, and unless a statement has
\* failed the block is the transaction.
Isolation ==
  /\ \A t \in Threads : pc[t] \in InTxn <=> dbMutex = t
  /\ ~open => db = committed
  /\ \A t \in Threads : pc[t] = "saveSender" => open
  /\ used.faults = 0 => (open <=> ~MutexFree)

\* What settle() knows of its locals: it is settling a packet between two
\* seeded accounts, and from the balance check on the copies it read cover the
\* payment, or do not.
CheckedLocals ==
  \A t \in Threads :
    /\ pc[t] = "idle" <=> Hash(t) = NoPacket
    /\ pc[t] \notin {"idle", "findSender"} =>
         Sender[Hash(t)] \in DOMAIN Seed
    /\ pc[t] \notin {"idle", "findSender", "findReceiver"} =>
         Receiver[Hash(t)] \in DOMAIN Seed
    /\ pc[t] \in {"begin"} \cup InTxn =>
         /\ call[t].sender.balance >= Amount[Hash(t)]
         /\ call[t].receiver.balance >= 0 /\ Amount[Hash(t)] > 0
    /\ pc[t] = "reject" => call[t].sender.balance < Amount[Hash(t)]

\* Only the seeded accounts have rows.
SeededAccounts ==
  \A tables \in {db, committed} : \A vpa \in Vpas \ DOMAIN Seed :
    tables.accounts[vpa] = NoAccount

\* Unless a reset broke off, all of them do.
SeededRows ==
  used.faults = 0 => \A tables \in {db, committed} : \A vpa \in DOMAIN Seed :
    tables.accounts[vpa] # NoAccount

\* Ids grow, so the id and hash of a new row are new.
RowIds ==
  /\ \A tables \in {db, committed} : \A r \in tables.transactions :
       r.id <= tables.lastRowId
  /\ committed.lastRowId <= db.lastRowId

\* What the open transaction of thread t has done so far (nothing, once SQLite
\* has dropped it).
OpenTransaction ==
  \A t \in Threads :
    /\ pc[t] \in InTxn \ {"rollback"} =>
         \A vpa \in Vpas \ {Sender[Hash(t)], Receiver[Hash(t)]} :
           db.accounts[vpa] = committed.accounts[vpa]
    /\ pc[t] \in {"saveSender", "saveReceiver", "saveTx"} =>
         /\ db.transactions = committed.transactions
         /\ db.lastRowId = committed.lastRowId
    /\ pc[t] = "commit" /\ open =>
         /\ Hash(t) \notin Hashes(committed)
         /\ AddsRow(committed, db, Hash(t), "SETTLED")

\* What it has written, unless a statement failed: the copies thread t read,
\* less and plus the amount.
WrittenCopies ==
  used.faults = 0 => \A t \in Threads :
    /\ pc[t] \in {"saveReceiver", "saveTx", "commit"} /\
       (pc[t] = "saveReceiver" \/ Sender[Hash(t)] # Receiver[Hash(t)]) =>
         db.accounts[Sender[Hash(t)]] =
           [call[t].sender EXCEPT !.balance = @ - Amount[Hash(t)]]
    /\ pc[t] \in {"saveTx", "commit"} =>
         db.accounts[Receiver[Hash(t)]] =
           [call[t].receiver EXCEPT !.balance = @ + Amount[Hash(t)]]

\* The strengthening of the safety invariants that every step of every
\* thread preserves.
Inductive ==
  /\ TypeOK /\ Isolation /\ CheckedLocals /\ SeededAccounts /\ SeededRows
  /\ RowIds /\ OpenTransaction /\ WrittenCopies
  /\ NonNegativeBalances /\ OneRowPerPacket
=============================================================================
