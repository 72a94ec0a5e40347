---------------------------- MODULE LedgerProofs ----------------------------
(***************************************************************************)
(* Proofs that Settlement keeps the books of Ledger where it can: a call   *)
(* that decides on copies that are still current makes exactly its entry,  *)
(* and a run in which calls that share an account never overlap, nobody    *)
(* pays himself, no statement fails and no reset comes in between          *)
(* implements the ledger.                                                  *)
(*                                                                         *)
(* They rest on Inductive of Settlement, above all on WrittenCopies: the   *)
(* two rows of an open transaction are the copies, less and plus the       *)
(* amount.                                                                 *)
(***************************************************************************)
EXTENDS SettlementProofs, FiniteSetTheorems, WellFoundedInduction

USE DEF At, MutexFree, Hash

(***************************************************************************)
(* Reading the tables as a ledger.                                         *)
(***************************************************************************)
\* No two rows of the tables are for one packet.
Unique(tables) ==
  \A r, s \in tables.transactions : r.hash = s.hash => r = s

\* The one row of a packet is its decision.
LEMMA RowDecides ==
  ASSUME NEW tables, Unique(tables), NEW r \in tables.transactions,
         r.hash \in Packets
  PROVE  Decisions(tables)[r.hash] = r.status
<1>1. r.hash \in Hashes(tables)
  BY DEF Hashes
<1>2. (CHOOSE s \in tables.transactions : s.hash = r.hash) = r
  BY DEF Unique
<1> QED
  BY <1>1, <1>2 DEF Decisions

\* A packet without a row is undecided.
LEMMA NoRowNoDecision ==
  ASSUME NEW tables, NEW h \in Packets, h \notin Hashes(tables)
  PROVE  Decisions(tables)[h] = "NONE"
  BY DEF Decisions

\* A new row decides its packet and no other.
LEMMA RowAdded ==
  ASSUME NEW before, NEW after, NEW h \in Packets,
         NEW status \in {"SETTLED", "REJECTED"},
         Unique(before), h \notin Hashes(before),
         AddsRow(before, after, h, status)
  PROVE  Decisions(after) = [Decisions(before) EXCEPT ![h] = status]
<1> DEFINE row == NewRow(before, h, status)
<1>1. /\ after.transactions = before.transactions \cup {row}
      /\ row.hash = h /\ row.status = status
  BY DEF AddsRow, NewRow
<1>2. \A r \in before.transactions : r.hash # h
  BY DEF Hashes
<1> HIDE DEF row
<1>3. Unique(after)
  BY <1>1, <1>2 DEF Unique
<1>4. Decisions(after)[h] = status
  BY <1>1, <1>3, RowDecides
<1>5. ASSUME NEW x \in Packets, x # h
      PROVE  Decisions(after)[x] = Decisions(before)[x]
  <2>1. CASE x \in Hashes(before)
    <3>1. PICK r \in before.transactions : r.hash = x
      BY <2>1 DEF Hashes
    <3>2. Decisions(before)[x] = r.status
      BY <3>1, RowDecides
    <3>3. Decisions(after)[x] = r.status
      BY <1>1, <1>3, <3>1, RowDecides
    <3> QED
      BY <3>2, <3>3
  <2>2. CASE x \notin Hashes(before)
    <3>1. x \notin Hashes(after)
      BY <1>1, <1>5, <2>2 DEF Hashes
    <3> QED
      BY <2>2, <3>1, NoRowNoDecision
  <2> QED
    BY <2>1, <2>2
<1>6. Decisions(after) = [x \in Packets |-> Decisions(after)[x]]
  BY DEF Decisions
<1>7. Decisions(before) = [x \in Packets |-> Decisions(before)[x]]
  BY DEF Decisions
<1> QED
  BY <1>4, <1>5, <1>6, <1>7

-----------------------------------------------------------------------------
(***************************************************************************)
(* The entry of one call.                                                  *)
(***************************************************************************)
\* A call ends a payment or a refusal only with its COMMIT or its INSERT.
LEMMA DecidingStep ==
  ASSUME TypeOK, [Next]_vars, NEW t \in Threads,
         pc[t] \in {"commit", "reject"}, pc'[t] = "idle"
  PROVE  IF pc[t] = "commit" THEN Commit(t) ELSE RecordRejected(t)
<1>1. PICK u \in Threads :
        \/ \E h \in Packets : CallSettle(u, h)
        \/ SettleStep(u)
        \/ ListAccounts(u) \/ ListTransactions(u) \/ Reset(u)
  BY DEF Next, vars
<1>2. u = t
  <2>1. SUFFICES ASSUME u # t
                 PROVE  pc'[t] = pc[t]
    OBVIOUS
  <2>2. CASE \E h \in Packets : CallSettle(u, h)
    BY <2>1, <2>2 DEF CallSettle, Goto, TypeOK
  <2>3. CASE SettleStep(u)
    BY <2>1, <2>3
    DEF SettleStep, FindSender, FindReceiver, RecordRejected, Begin,
        SaveSender, SaveReceiver, SaveTransaction, Commit, Rollback, Return,
        Goto, TypeOK
  <2>4. CASE ListAccounts(u) \/ ListTransactions(u) \/ Reset(u)
    BY <2>4 DEF ListAccounts, ListTransactions, Reset
  <2> QED
    BY <1>1, <2>2, <2>3, <2>4
<1>3. SettleStep(t)
  BY <1>1, <1>2 DEF CallSettle, ListAccounts, ListTransactions, Reset
<1> QED
  BY <1>3
  DEF SettleStep, FindSender, FindReceiver, Begin, SaveSender, SaveReceiver,
      SaveTransaction, Commit, RecordRejected, Rollback

\* A COMMIT enters the payment of current copies.
LEMMA CommitEnters ==
  ASSUME Inductive, NEW t \in Threads, Commit(t), committed' # committed,
         Current(t), Sender[Hash(t)] # Receiver[Hash(t)], used'.faults = 0
  PROVE  Books!Transfer(Hash(t))
<1> DEFINE h == Hash(t)
           amount == Amount[Hash(t)]
<1>1. pc[t] = "commit" /\ open /\ committed' = db /\ used.faults = 0
  BY FailsEffect DEF Commit, Inductive
<1>2. /\ h \in Packets /\ Sender[h] \in DOMAIN Seed
      /\ Receiver[h] \in DOMAIN Seed /\ amount \in Int /\ amount > 0
      /\ call[t].sender.balance >= amount
      /\ call[t].sender \in Account /\ call[t].receiver \in Account
  BY <1>1, InCall DEF Inductive, CheckedLocals, InTxn
<1>3. h \notin Hashes(committed) /\ AddsRow(committed, db, h, "SETTLED")
  BY <1>1 DEF Inductive, OpenTransaction
<1>4. /\ Decisions(committed)[h] = "NONE"
      /\ Decisions(committed')
           = [Decisions(committed) EXCEPT ![h] = "SETTLED"]
  <2>1. Unique(committed)
    BY DEF Inductive, OneRowPerPacket, Unique
  <2>2. Decisions(db) = [Decisions(committed) EXCEPT ![h] = "SETTLED"]
    BY <1>2, <1>3, <2>1, RowAdded
  <2> QED
    BY <1>1, <1>2, <1>3, <2>2, NoRowNoDecision
<1>5. /\ Balances(committed)[Sender[h]] = call[t].sender.balance
      /\ Balances(committed)[Receiver[h]] = call[t].receiver.balance
  BY <1>2 DEF Balances, Current
<1>6. Balances(committed')
        = Books!Entered(Balances(committed), Sender[h], Receiver[h], amount)
  <2>1. /\ db.accounts[Sender[h]].balance = call[t].sender.balance - amount
        /\ db.accounts[Receiver[h]].balance = call[t].receiver.balance + amount
    BY <1>1, <1>2 DEF Inductive, WrittenCopies, Account
  <2>2. \A vpa \in DOMAIN Seed \ {Sender[h], Receiver[h]} :
          db.accounts[vpa] = committed.accounts[vpa]
    BY <1>1, ConstantsAssumption DEF Inductive, OpenTransaction, InTxn
  <2>3. \A vpa \in DOMAIN Seed : Balances(committed')[vpa] =
          IF vpa = Receiver[h] THEN Balances(committed)[vpa] + amount
          ELSE IF vpa = Sender[h] THEN Balances(committed)[vpa] - amount
          ELSE Balances(committed)[vpa]
    BY <1>1, <1>5, <2>1, <2>2 DEF Balances
  <2>4. /\ Balances(committed) = [vpa \in DOMAIN Seed |-> Balances(committed)[vpa]]
        /\ Balances(committed') = [vpa \in DOMAIN Seed |-> Balances(committed')[vpa]]
    BY DEF Balances
  <2> QED
    BY <1>2, <2>3, <2>4 DEF Books!Entered
<1>7. Books!HaveAccounts(h)
  BY <1>2 DEF Books!HaveAccounts, Balances
<1> QED
  BY <1>2, <1>4, <1>5, <1>6, <1>7 DEF Books!Transfer

\* The INSERT of a refusal enters one.
LEMMA RejectEnters ==
  ASSUME Inductive, NEW t \in Threads, RecordRejected(t),
         committed' # committed, Current(t)
  PROVE  Books!Decline(Hash(t))
<1>1. /\ pc[t] = "reject" /\ Hash(t) \notin Hashes(committed)
      /\ committed' = WithRow(committed, Hash(t), "REJECTED")
  BY FailsEffect, WriteEffect DEF RecordRejected, Inductive, Isolation
<1>2. /\ Hash(t) \in Packets /\ Sender[Hash(t)] \in DOMAIN Seed
      /\ Receiver[Hash(t)] \in DOMAIN Seed
      /\ call[t].sender.balance < Amount[Hash(t)]
  BY <1>1, InCall DEF Inductive, CheckedLocals
<1>3. Unique(committed)
  BY DEF Inductive, OneRowPerPacket, Unique
<1>4. /\ AddsRow(committed, committed', Hash(t), "REJECTED")
      /\ committed'.accounts = committed.accounts
  BY <1>1 DEF WithRow, AddsRow
<1>5. /\ Decisions(committed)[Hash(t)] = "NONE"
      /\ Decisions(committed')
           = [Decisions(committed) EXCEPT ![Hash(t)] = "REJECTED"]
  <2>1. PICK after : after = committed'
    OBVIOUS
  <2>2. Decisions(after) = [Decisions(committed) EXCEPT ![Hash(t)] = "REJECTED"]
    BY <1>1, <1>2, <1>3, <1>4, <2>1, RowAdded
  <2> QED
    BY <1>1, <1>2, <2>1, <2>2, NoRowNoDecision
<1>6. Balances(committed)[Sender[Hash(t)]] = call[t].sender.balance
  BY <1>2 DEF Balances, Current
<1>7. Balances(committed') = Balances(committed)
  BY <1>4 DEF Balances
<1>8. Books!HaveAccounts(Hash(t))
  BY <1>2 DEF Books!HaveAccounts, Balances
<1> QED
  BY <1>2, <1>5, <1>6, <1>7, <1>8 DEF Books!Decline

\* Only a stale read spoils the books: whatever else goes on, a call that
\* decides on current copies makes exactly its entry.
LEMMA EntryStep == Inductive /\ [Next]_vars => EntersBooks
<1>1. SUFFICES ASSUME Inductive, [Next]_vars, NEW t \in Threads,
                      pc[t] \in {"commit", "reject"}, pc'[t] = "idle",
                      committed' # committed, Current(t),
                      Sender[Hash(t)] # Receiver[Hash(t)], used'.faults = 0
               PROVE  IF pc[t] = "commit" THEN Books!Transfer(Hash(t))
                                          ELSE Books!Decline(Hash(t))
  BY DEF EntersBooks
<1>2. IF pc[t] = "commit" THEN Commit(t) ELSE RecordRejected(t)
  BY <1>1, DecidingStep DEF Inductive
<1> QED
  BY <1>1, <1>2, CommitEnters, RejectEnters

\* The same of every run.
THEOREM CurrentCopiesAreBooked == Spec => CurrentCopiesBook
  BY Invariance, EntryStep, PTL DEF Spec, CurrentCopiesBook

-----------------------------------------------------------------------------
(***************************************************************************)
(* Runs whose calls keep out of each other's way.                          *)
(***************************************************************************)
Inside(t) == pc[t] # "idle"
Parties(t) == {Sender[Hash(t)], Receiver[Hash(t)]}

\* No statement has failed, nobody pays himself, and two calls in progress
\* have no account in common.
KeepApart ==
  /\ used.faults = 0
  /\ \A t \in Threads : Inside(t) => Sender[Hash(t)] # Receiver[Hash(t)]
  /\ \A t, u \in Threads :
       Inside(t) /\ Inside(u) /\ Parties(t) \cap Parties(u) # {} => t = u

\* A reset finds no call in progress.
ResetsAlone ==
  used'.resets # used.resets => \A t \in Threads : ~Inside(t)

\* The copies a call has read are what is committed.
CurrentCopies ==
  \A t \in Threads :
    /\ pc[t] \notin {"idle", "findSender"} =>
         committed.accounts[Sender[Hash(t)]] = call[t].sender
    /\ pc[t] \notin {"idle", "findSender", "findReceiver"} =>
         committed.accounts[Receiver[Hash(t)]] = call[t].receiver

\* Until a statement fails the saves are in a transaction.
LEMMA SavesUncommitted ==
  ASSUME Inductive, used.faults = 0, NEW t \in Threads,
         SaveSender(t) \/ SaveReceiver(t) \/ SaveTransaction(t)
  PROVE  committed' = committed
<1>1. pc[t] \in InTxn
  BY DEF SaveSender, SaveReceiver, SaveTransaction, InTxn
<1>2. open
  BY <1>1, ConstantsAssumption DEF Inductive, Isolation
<1> QED
  BY <1>2, FailsEffect, WriteEffect
  DEF SaveSender, SaveReceiver, SaveTransaction, Inductive

\* Until a statement fails nothing but a COMMIT, the INSERT of a refusal and a
\* reset is committed.
LEMMA Committing ==
  ASSUME Inductive, [Next]_vars, used.faults = 0
  PROVE  \/ committed' = committed
         \/ \E t \in Threads :
              \/ Commit(t) /\ pc'[t] = "idle"
              \/ RecordRejected(t)
              \/ Reset(t)
<1>2. ASSUME NEW t \in Threads, FindSender(t) \/ FindReceiver(t) \/ Begin(t)
      PROVE  committed' = committed
  BY <1>2, FailsEffect DEF FindSender, FindReceiver, Begin, Inductive
<1>3. ASSUME NEW t \in Threads,
             SaveSender(t) \/ SaveReceiver(t) \/ SaveTransaction(t)
      PROVE  committed' = committed
  BY <1>3, SavesUncommitted
<1>4. ASSUME NEW t \in Threads, Commit(t)
      PROVE  committed' = committed \/ pc'[t] = "idle"
  BY <1>4, FailsEffect DEF Commit, Return, Goto, Inductive, TypeOK
<1>5. ASSUME NEW t \in Threads, Rollback(t)
      PROVE  committed' = committed
  BY <1>5, FailsEffect DEF Rollback, DropTransaction, Inductive
<1>6. ASSUME NEW t \in Threads,
             \/ \E h \in Packets : CallSettle(t, h)
             \/ ListAccounts(t) \/ ListTransactions(t)
      PROVE  committed' = committed
  BY <1>6, FailsEffect
  DEF CallSettle, ListAccounts, ListTransactions, Inductive
<1> QED
  BY <1>2, <1>3, <1>4, <1>5, <1>6 DEF Next, SettleStep, vars

\* Nobody else writes to the accounts of a call in progress.
LEMMA CopiesStep ==
  ASSUME Inductive, KeepApart, CurrentCopies, [ResetsAlone]_vars, [Next]_vars
  PROVE  CurrentCopies'
<1>0. used.faults = 0 /\ (open <=> ~MutexFree) /\ (~open => db = committed)
  BY DEF KeepApart, Inductive, Isolation
<1>1. ASSUME NEW t \in Threads, NEW h \in Packets, CallSettle(t, h)
      PROVE  CurrentCopies'
  BY <1>1 DEF Inductive, TypeOK, CurrentCopies, CallSettle, Goto
<1>2. ASSUME NEW t \in Threads, FindSender(t)
      PROVE  CurrentCopies'
  BY <1>0, <1>2, FailsEffect
  DEF Inductive, TypeOK, Call, CurrentCopies, FindSender, Return,
      Goto
<1>3. ASSUME NEW t \in Threads, FindReceiver(t)
      PROVE  CurrentCopies'
  BY <1>0, <1>3, FailsEffect
  DEF Inductive, TypeOK, Call, CurrentCopies, FindReceiver, Return,
      Goto
<1>4. ASSUME NEW t \in Threads, RecordRejected(t)
      PROVE  CurrentCopies'
  <2>1. committed'.accounts = committed.accounts
    BY <1>4, FailsEffect, WriteEffect
    DEF RecordRejected, WithRow, Inductive, Isolation
  <2>2. pc'[t] = "idle" /\ \A u \in Threads \ {t} : pc'[u] = pc[u] /\ call'[u] = call[u]
    BY <1>4 DEF RecordRejected, Return, Goto, Inductive, TypeOK
  <2> QED
    BY <2>1, <2>2 DEF CurrentCopies
<1>5. ASSUME NEW t \in Threads, Begin(t)
      PROVE  CurrentCopies'
  BY <1>5, FailsEffect
  DEF Inductive, TypeOK, CurrentCopies, Begin, Return, Goto
<1>6. ASSUME NEW t \in Threads, SaveSender(t)
      PROVE  CurrentCopies'
  <2>1. committed' = committed /\ UNCHANGED call
    BY <1>0, <1>6, SavesUncommitted DEF SaveSender
  <2> QED
    BY <1>6, <2>1 DEF Inductive, TypeOK, CurrentCopies, SaveSender, Goto
<1>7. ASSUME NEW t \in Threads, SaveReceiver(t)
      PROVE  CurrentCopies'
  <2>1. committed' = committed /\ UNCHANGED call
    BY <1>0, <1>7, SavesUncommitted DEF SaveReceiver
  <2> QED
    BY <1>7, <2>1 DEF Inductive, TypeOK, CurrentCopies, SaveReceiver, Goto
<1>8. ASSUME NEW t \in Threads, SaveTransaction(t)
      PROVE  CurrentCopies'
  <2>1. committed' = committed /\ UNCHANGED call
    BY <1>0, <1>8, SavesUncommitted DEF SaveTransaction
  <2> QED
    BY <1>8, <2>1 DEF Inductive, TypeOK, CurrentCopies, SaveTransaction, Goto
<1>9. ASSUME NEW t \in Threads, Commit(t)
      PROVE  CurrentCopies'
  <2>1. CASE UNCHANGED <<committed, call>> /\ Goto(t, "rollback")
    BY <1>9, <2>1 DEF Commit, Goto, Inductive, TypeOK, CurrentCopies
  <2>2. CASE committed' = db
             /\ Return(t, [status |-> "SETTLED", id |-> db.lastRowId])
    <3>1. pc[t] = "commit" /\ pc'[t] = "idle"
      BY <1>9, <2>2 DEF Commit, Return, Goto, Inductive, TypeOK
    <3>2. \A vpa \in Vpas \ Parties(t) :
            committed'.accounts[vpa] = committed.accounts[vpa]
      BY <2>2, <3>1 DEF Inductive, OpenTransaction, InTxn, Parties
    <3>3. ASSUME NEW u \in Threads \ {t}, Inside(u)
          PROVE  /\ Parties(u) \subseteq Vpas \ Parties(t)
                 /\ pc'[u] = pc[u] /\ call'[u] = call[u]
      <4>1. Parties(u) \cap Parties(t) = {}
        BY <3>1, <3>3 DEF KeepApart, Inside
      <4>2. Parties(u) \subseteq Vpas
        BY <3>3, InCall DEF Inductive, Inside, Parties
      <4> QED
        BY <2>2, <4>1, <4>2 DEF Return, Goto, Inductive, TypeOK
    <3>4. \A u \in Threads \ {t} : pc'[u] = pc[u]
      BY <2>2 DEF Return, Goto, Inductive, TypeOK
    <3> QED
      BY <3>1, <3>2, <3>3, <3>4 DEF CurrentCopies, Inside, Parties
  <2> QED
    BY <1>9, <2>1, <2>2, FailsEffect DEF Commit, Inductive
<1>10. ASSUME NEW t \in Threads, Rollback(t)
      PROVE  CurrentCopies'
  BY <1>10, FailsEffect
  DEF Inductive, TypeOK, CurrentCopies, Rollback, DropTransaction, Return, Goto
<1>11. ASSUME NEW t \in Threads, ListAccounts(t) \/ ListTransactions(t)
      PROVE  CurrentCopies'
  BY <1>11, FailsEffect
  DEF Inductive, TypeOK, CurrentCopies, ListAccounts, ListTransactions
<1>12. ASSUME NEW t \in Threads, Reset(t)
      PROVE  CurrentCopies'
  <2>1. used'.resets # used.resets
    BY <1>12 DEF Reset, Inductive, TypeOK, Used
  <2>2. \A u \in Threads : pc[u] = "idle"
    BY <2>1 DEF ResetsAlone, Inside, vars
  <2> QED
    BY <1>12, <2>2 DEF Reset, CurrentCopies
<1>13. CASE UNCHANGED vars
  BY <1>13 DEF Inductive, TypeOK, CurrentCopies, vars
<1> QED
  BY <1>1, <1>2, <1>3, <1>4, <1>5, <1>6, <1>7,
     <1>8, <1>9, <1>10, <1>11, <1>12, <1>13 DEF Next, SettleStep

\* Every step is an entry of the ledger, its reopening or none of its business.
LEMMA BookStep ==
  ASSUME Inductive, KeepApart, KeepApart', CurrentCopies, [Next]_vars
  PROVE  [Books!Book]_(Books!ledgerVars)
<1>1. used.faults = 0 /\ used'.faults = 0
  BY DEF KeepApart
<1>2. CASE committed' = committed
  BY <1>2 DEF Books!ledgerVars
<1>3. ASSUME NEW t \in Threads, RecordRejected(t), committed' # committed
      PROVE  Books!Book
  <2>1. Current(t)
    BY <1>3 DEF RecordRejected, CurrentCopies, Current
  <2>2. Books!Decline(Hash(t)) /\ Hash(t) \in Packets
    BY <1>3, <2>1, RejectEnters, InCall DEF RecordRejected, Inductive
  <2> QED
    BY <2>2 DEF Books!Book
<1>4. ASSUME NEW t \in Threads, Commit(t), committed' # committed
      PROVE  Books!Book
  <2>1. Current(t) /\ Sender[Hash(t)] # Receiver[Hash(t)]
    BY <1>4 DEF Commit, CurrentCopies, Current, KeepApart, Inside
  <2>2. Books!Transfer(Hash(t)) /\ Hash(t) \in Packets
    BY <1>1, <1>4, <2>1, CommitEnters, InCall DEF Commit, Inductive
  <2> QED
    BY <2>2 DEF Books!Book
<1>5. ASSUME NEW t \in Threads, Reset(t)
      PROVE  Books!Book
  <2>1. ~open
    BY <1>1, <1>5 DEF Reset, Inductive, Isolation
  <2>2. Write(Emptied(SeedAccounts, {}))
    BY <1>1, <1>5 DEF Reset, Inductive, TypeOK, Used
  <2>3. committed'.accounts = SeedAccounts /\ committed'.transactions = {}
    BY <2>1, <2>2 DEF Write, Emptied
  <2>4. Balances(committed') = [vpa \in DOMAIN Seed |-> Seed[vpa]]
    BY <2>3, ConstantsAssumption DEF SeedAccounts, Balances
  <2>5. Decisions(committed') = [h \in Packets |-> "NONE"]
    BY <2>3 DEF Decisions, Hashes
  <2> QED
    BY <2>4, <2>5 DEF Books!Book, Books!Reopen
<1> QED
  BY <1>1, <1>2, <1>3, <1>4, <1>5, Committing

\* Only a reset is counted as one.
LEMMA UsedResets ==
  ASSUME Inductive, Next, used'.resets # used.resets
  PROVE  \E t \in Threads : Reset(t)
<1>1. Fails => used'.resets = used.resets
  BY FailsEffect DEF Inductive
<1> QED
  BY <1>1
  DEF Next, SettleStep, CallSettle, FindSender, FindReceiver, RecordRejected,
      Begin, SaveSender, SaveReceiver, SaveTransaction, Commit, Rollback,
      ListAccounts, ListTransactions, Inductive, TypeOK, Used

\* The seeded database is the ledger as it is opened.
LEMMA BooksOpen == Init => Books!Open /\ CurrentCopies
<1> SUFFICES ASSUME Init
             PROVE  Books!Open /\ CurrentCopies
  OBVIOUS
<1>1. Balances(committed) = [vpa \in DOMAIN Seed |-> Seed[vpa]]
  BY ConstantsAssumption DEF Init, SeedAccounts, Balances
<1>2. Decisions(committed) = [h \in Packets |-> "NONE"]
  BY DEF Init, Decisions, Hashes
<1>3. CurrentCopies
  BY DEF Init, CurrentCopies
<1> QED
  BY <1>1, <1>2, <1>3 DEF Books!Open

\* Any number of threads keep the books, as long as calls that share an
\* account do not overlap, nobody pays himself, no statement fails and a
\* reset finds no call in progress.
THEOREM SeparateCallsKeepBooks ==
  Spec /\ []KeepApart /\ [][ResetsAlone]_vars => ImplementsLedger
<1>1. Spec /\ []KeepApart /\ [][ResetsAlone]_vars => []CurrentCopies
  <2>1. Inductive /\ KeepApart /\ CurrentCopies /\ [Next]_vars /\ [ResetsAlone]_vars
          => CurrentCopies'
    BY CopiesStep
  <2> QED
    BY <2>1, BooksOpen, Invariance, PTL DEF Spec
<1>2. Inductive /\ KeepApart /\ KeepApart' /\ CurrentCopies /\ [Next]_vars
        => [Books!Book]_(Books!ledgerVars)
  BY BookStep
<1> QED
  BY <1>1, <1>2, BooksOpen, Invariance, PTL
  DEF Spec, ImplementsLedger, Books!LedgerSpec

\* In particular one thread keeps the books by itself.
THEOREM SerialCallsKeepBooks ==
  ASSUME \A t, u \in Threads : t = u,
         \A h \in Packets : Sender[h] # Receiver[h],
         MaxFaults = 0
  PROVE  Spec => ImplementsLedger
<1>1. Inductive => KeepApart
  BY InCall DEF Inductive, TypeOK, Used, KeepApart, Inside
<1>2. Inductive /\ [Next]_vars => [ResetsAlone]_vars
  <2>1. SUFFICES ASSUME Inductive, Next, used'.resets # used.resets
                 PROVE  \A t \in Threads : pc[t] = "idle"
    BY DEF ResetsAlone, Inside
  <2>2. PICK t \in Threads : Reset(t)
    BY <2>1, UsedResets
  <2> QED
    BY <2>2 DEF Reset
<1> QED
  BY <1>1, <1>2, SeparateCallsKeepBooks, Invariance, PTL DEF Spec

-----------------------------------------------------------------------------
(***************************************************************************)
(* The total of the balances.                                              *)
(***************************************************************************)
\* Induction: among the numbers that break a rule one is the least.
LEMMA LeastNumber ==
  ASSUME NEW T \in SUBSET Nat, T # {}
  PROVE  \E m \in T : \A i \in T : m <= i
<1>1. PICK m \in T : \A y \in T : ~(<<y, m>> \in OpToRel(<, Nat))
  BY NatLessThanWellFounded, WFMin
<1>2. \A y \in T : ~(y < m)
  BY <1>1 DEF OpToRel
<1> QED
  BY <1>2

\* The totals of the balances b of the first i accounts on a list, i up to n.
RunningTotal(b, list, n, sum) ==
  sum = [i \in 0..n |-> IF i = 0 THEN 0 ELSE sum[i - 1] + b[list[i]]]

\* Any listed balances have running totals.
LEMMA RunningTotalExists ==
  ASSUME NEW b, NEW list, NEW n \in Nat
  PROVE  \E sum : RunningTotal(b, list, n, sum)
<1> DEFINE T == {k \in Nat : ~ \E sum : RunningTotal(b, list, k, sum)}
<1>1. SUFFICES ASSUME T # {}
               PROVE  FALSE
  OBVIOUS
<1>2. PICK m \in T : \A k \in T : m <= k
  BY <1>1, LeastNumber
<1>3. m # 0
  <2>1. RunningTotal(b, list, 0, [i \in 0..0 |-> 0])
    BY DEF RunningTotal
  <2> QED
    BY <2>1
<1>4. PICK sum : RunningTotal(b, list, m - 1, sum)
  BY <1>2, <1>3
<1> DEFINE next == [i \in 0..m |-> IF i = m THEN sum[m - 1] + b[list[m]]
                                            ELSE sum[i]]
<1>5. RunningTotal(b, list, m, next)
  <2>1. m \in Nat \ {0}
    BY <1>3
  <2>2. \A i \in 0..m : next[i] = IF i = 0 THEN 0 ELSE next[i - 1] + b[list[i]]
    BY <1>4, <2>1 DEF RunningTotal
  <2> QED
    BY <2>2 DEF RunningTotal
<1> QED
  BY <1>5

\* The ledger counts as everybody does.
LEMMA BooksCount ==
  ASSUME NEW S
  PROVE  Books!Cardinality(S) = Cardinality(S)
  BY DEF Books!Cardinality, Cardinality

\* A finite set of addresses is listed, each once.
LEMMA ListingLists ==
  ASSUME NEW S, IsFiniteSet(S)
  PROVE  /\ Cardinality(S) \in Nat
         /\ Books!Listing(S) \in [1..Cardinality(S) -> S]
         /\ \A vpa \in S : \E i \in 1..Cardinality(S) : Books!Listing(S)[i] = vpa
         /\ \A i, j \in 1..Cardinality(S) :
              Books!Listing(S)[i] = Books!Listing(S)[j] => i = j
<1> DEFINE n == Cardinality(S)
<1>1. n \in Nat /\ ExistsBijection(1..n, S)
  BY FS_CardinalityType
<1>2. PICK f \in Bijection(1..n, S) : TRUE
  BY <1>1 DEF ExistsBijection
<1>3. f \in [1..n -> S] /\ \A vpa \in S : \E i \in 1..n : f[i] = vpa
  BY <1>2 DEF Bijection, Surjection, Injection
<1>4. /\ Books!Listing(S) \in [1..n -> S]
      /\ \A vpa \in S : \E i \in 1..n : Books!Listing(S)[i] = vpa
  BY <1>3, BooksCount DEF Books!Listing
<1>5. Books!Listing(S) \in Surjection(1..n, S)
  BY <1>4 DEF Surjection
<1>6. IsFiniteSet(1..n) /\ Cardinality(1..n) = n
  BY <1>1, FS_Interval
<1>7. Books!Listing(S) \in Injection(1..n, S)
  BY <1>5, <1>6, FS_SurjSameCardinalityImpliesInj
<1> QED
  BY <1>1, <1>4, <1>7 DEF Injection, IsInjective

\* The total is the last of the running totals.
LEMMA TotalRuns ==
  ASSUME NEW b, IsFiniteSet(DOMAIN b)
  PROVE  \E sum :
           /\ RunningTotal(b, Books!Listing(DOMAIN b),
                           Cardinality(DOMAIN b), sum)
           /\ Books!Total(b) = sum[Cardinality(DOMAIN b)]
<1> DEFINE n == Cardinality(DOMAIN b)
           list == Books!Listing(DOMAIN b)
           sum == CHOOSE f : RunningTotal(b, list, n, f)
<1>1. RunningTotal(b, list, n, sum)
  BY RunningTotalExists, FS_CardinalityType
<1>2. Books!Total(b) = sum[n]
  BY BooksCount DEF Books!Total, RunningTotal
<1> QED
  BY <1>1, <1>2

\* What a transfer takes from one account it puts into another: the running
\* totals differ by the amount only between the places of the two in the list.
LEMMA TransferKeepsTotal ==
  ASSUME NEW b, IsFiniteSet(DOMAIN b), b \in [DOMAIN b -> Int],
         NEW from \in DOMAIN b, NEW to \in DOMAIN b, NEW amount \in Int
  PROVE  Books!Total(Books!Entered(b, from, to, amount)) = Books!Total(b)
<1> DEFINE n == Cardinality(DOMAIN b)
           list == Books!Listing(DOMAIN b)
           after == Books!Entered(b, from, to, amount)
<1>1. /\ n \in Nat
      /\ list \in [1..n -> DOMAIN b]
      /\ \A i, j \in 1..n : list[i] = list[j] => i = j
  BY ListingLists
<1>2. PICK p \in 1..n, q \in 1..n : list[p] = from /\ list[q] = to
  BY ListingLists
<1>3. DOMAIN after = DOMAIN b
  BY DEF Books!Entered
<1>4. PICK f : RunningTotal(b, list, n, f) /\ Books!Total(b) = f[n]
  BY TotalRuns
<1>5. PICK g : RunningTotal(after, list, n, g) /\ Books!Total(after) = g[n]
  BY <1>3, TotalRuns
<1> DEFINE moved(i) == (IF p <= i THEN -amount ELSE 0)
                         + (IF q <= i THEN amount ELSE 0)
           Moved(i) == f[i] \in Int /\ g[i] = f[i] + moved(i)
           T == {i \in 0..n : ~Moved(i)}
<1>6. \A i \in 1..n : /\ b[list[i]] \in Int
                      /\ after[list[i]] =
                           b[list[i]] + (IF i = p THEN -amount ELSE 0)
                                      + (IF i = q THEN amount ELSE 0)
  <2>1. TAKE i \in 1..n
  <2>2. list[i] \in DOMAIN b /\ b[list[i]] \in Int
    BY <1>1
  <2>3. (list[i] = from <=> i = p) /\ (list[i] = to <=> i = q)
    BY <1>1, <1>2
  <2> HIDE DEF list, n
  <2>4. after[list[i]] = b[list[i]] + (IF list[i] = from THEN -amount ELSE 0)
                                    + (IF list[i] = to THEN amount ELSE 0)
    BY <2>2 DEF Books!Entered
  <2> QED
    BY <2>2, <2>3, <2>4
<1> HIDE DEF list, after, n
<1>7. T = {}
  <2>1. SUFFICES ASSUME T # {}
                 PROVE  FALSE
    OBVIOUS
  <2>2. PICK m \in T : \A i \in T : m <= i
    <3>1. T \in SUBSET Nat
      BY <1>1
    <3> QED
      BY <2>1, <3>1, LeastNumber
  <2>3. m # 0
    <3>1. f[0] = 0 /\ g[0] = 0 /\ moved(0) = 0
      BY <1>1, <1>2, <1>4, <1>5 DEF RunningTotal
    <3> QED
      BY <3>1
  <2>4. m \in 1..n /\ m - 1 \in 0..n
    BY <1>1, <2>3
  <2>5. Moved(m - 1)
    <3>1. m - 1 \notin T
      BY <2>2, <2>4
    <3> QED
      BY <2>4, <3>1
  <2>6. /\ f[m] = f[m - 1] + b[list[m]]
        /\ g[m] = g[m - 1] + after[list[m]]
    <3>1. /\ f = [i \in 0..n |-> IF i = 0 THEN 0 ELSE f[i - 1] + b[list[i]]]
          /\ g = [i \in 0..n |-> IF i = 0 THEN 0
                                           ELSE g[i - 1] + after[list[i]]]
      BY <1>4, <1>5 DEF RunningTotal
    <3>2. m \in 0..n /\ m # 0
      BY <2>3, <2>4
    <3> QED
      BY <3>1, <3>2
  <2>7. moved(m) = moved(m - 1) + (IF m = p THEN -amount ELSE 0)
                                + (IF m = q THEN amount ELSE 0)
    BY <1>1, <2>4
  <2>8. /\ b[list[m]] \in Int
        /\ after[list[m]] = b[list[m]] + (IF m = p THEN -amount ELSE 0)
                                       + (IF m = q THEN amount ELSE 0)
    BY <1>6, <2>4
  <2>9. Moved(m)
    BY <2>5, <2>6, <2>7, <2>8
  <2> QED
    BY <2>9
<1>8. Moved(n) /\ moved(n) = 0
  BY <1>1, <1>7
<1> QED
  BY <1>4, <1>5, <1>8 DEF after

\* The balances are numbers that add up to what was seeded.
BooksBalance == Balances(committed) \in [DOMAIN Seed -> Int] /\ TotalConserved

LEMMA OpeningBalances ==
  [vpa \in DOMAIN Seed |-> Seed[vpa]] \in [DOMAIN Seed -> Int]
  BY ConstantsAssumption

\* No entry of the ledger changes its total.
LEMMA EntryKeepsTotal ==
  ASSUME Balances(committed) \in [DOMAIN Seed -> Int],
         NEW h \in Packets, Books!Transfer(h)
  PROVE  /\ Balances(committed') \in [DOMAIN Seed -> Int]
         /\ Books!Total(Balances(committed')) = Books!Total(Balances(committed))
<1>1. PICK before : before = Balances(committed)
  OBVIOUS
<1>2. /\ before \in [DOMAIN Seed -> Int] /\ IsFiniteSet(DOMAIN before)
      /\ DOMAIN before = DOMAIN Seed
  BY <1>1, ConstantsAssumption
<1>3. /\ Sender[h] \in DOMAIN before /\ Receiver[h] \in DOMAIN before
      /\ Amount[h] \in Int
      /\ Balances(committed')
           = Books!Entered(before, Sender[h], Receiver[h], Amount[h])
  BY <1>1, ConstantsAssumption DEF Books!Transfer, Books!HaveAccounts
<1>4. Books!Entered(before, Sender[h], Receiver[h], Amount[h])
        \in [DOMAIN Seed -> Int]
  BY <1>2, <1>3 DEF Books!Entered
<1>5. Books!Total(Books!Entered(before, Sender[h], Receiver[h], Amount[h]))
        = Books!Total(before)
  BY <1>2, <1>3, TransferKeepsTotal
<1> QED
  BY <1>1, <1>3, <1>4, <1>5

\* Double-entry bookkeeping conserves money.
THEOREM BooksConserveMoney == ImplementsLedger => []TotalConserved
<1>1. Books!Open => BooksBalance
  BY OpeningBalances
  DEF Books!Open, BooksBalance, TotalConserved, Books!Conserved
<1>2. ASSUME BooksBalance, [Books!Book]_(Books!ledgerVars)
      PROVE  BooksBalance'
  <2>1. CASE \E h \in Packets : Books!Transfer(h)
    BY <1>2, <2>1, EntryKeepsTotal
    DEF BooksBalance, TotalConserved, Books!Conserved
  <2>2. CASE Balances(committed') = Balances(committed)
    BY <1>2, <2>2 DEF BooksBalance, TotalConserved, Books!Conserved
  <2>3. CASE Books!Reopen
    BY <2>3, OpeningBalances
    DEF Books!Reopen, BooksBalance, TotalConserved, Books!Conserved
  <2> QED
    BY <1>2, <2>1, <2>2, <2>3
    DEF Books!Book, Books!Decline, Books!ledgerVars
<1>3. BooksBalance => TotalConserved
  BY DEF BooksBalance
<1> QED
  BY <1>1, <1>2, <1>3, PTL DEF ImplementsLedger, Books!LedgerSpec

\* No money is made or lost by any number of threads, as long as calls that
\* share an account do not overlap, nobody pays himself, no statement fails
\* and a reset finds no call in progress.
THEOREM SeparateCallsConserveMoney ==
  Spec /\ []KeepApart /\ [][ResetsAlone]_vars => []TotalConserved
  BY SeparateCallsKeepBooks, BooksConserveMoney

\* In particular none is made or lost by one thread.
THEOREM SerialCallsConserveMoney ==
  ASSUME \A t, u \in Threads : t = u,
         \A h \in Packets : Sender[h] # Receiver[h],
         MaxFaults = 0
  PROVE  Spec => []TotalConserved
  BY SerialCallsKeepBooks, BooksConserveMoney

\* A commit of a payment to oneself, on a copy that is current, credits it.
LEMMA SelfCredit ==
  ASSUME Inductive, used.faults = 0, NEW t \in Threads,
         Commit(t), pc'[t] = "idle", Current(t),
         Sender[Hash(t)] = Receiver[Hash(t)]
  PROVE  CreditsHimself(Hash(t))
<1> DEFINE vpa == Sender[Hash(t)]
<1>1. /\ pc[t] = "commit"
      /\ committed' = db
  BY FailuresStay DEF Commit, Inductive, TypeOK, Goto, Fails
<1>2. /\ db.accounts[vpa] =
           [call[t].receiver EXCEPT !.balance = @ + Amount[Hash(t)]]
      /\ \A other \in Vpas \ {vpa} :
           db.accounts[other] = committed.accounts[other]
  BY <1>1 DEF Inductive, WrittenCopies, OpenTransaction, InTxn
<1>3. call[t].receiver = committed.accounts[vpa] /\ call[t].receiver \in Account
  BY <1>1 DEF Current, Inductive, TypeOK, Call
<1>4. db.accounts[vpa].balance =
        committed.accounts[vpa].balance + Amount[Hash(t)]
  BY <1>2, <1>3 DEF Account
<1>5. DOMAIN Seed \subseteq Vpas
  BY ConstantsAssumption
<1> QED
  BY <1>1, <1>2, <1>4, <1>5 DEF CreditsHimself, Balances

\* A refusal leaves the balances, and a commit on current copies is an entry.
LEMMA LeakStep == Inductive /\ [Next]_vars => LeaksWhenStale
<1> SUFFICES ASSUME Inductive, [Next]_vars, committed' # committed,
                    used'.faults = 0, used'.resets = used.resets,
                    \A t \in Threads : pc[t] = "commit" /\ pc'[t] = "idle" =>
                      Current(t) /\ ~CreditsHimself(Hash(t))
             PROVE  Books!Total(Balances(committed'))
                      = Books!Total(Balances(committed))
  BY DEF LeaksWhenStale
<1>1. PICK t \in Threads : \/ Commit(t) /\ pc'[t] = "idle"
                           \/ RecordRejected(t)
  <2>1. used.faults = 0
    BY FailuresStay DEF Inductive
  <2>2. \A t \in Threads : ~Reset(t)
    BY DEF Reset, Inductive, TypeOK, Used
  <2> QED
    BY <2>1, <2>2, Committing
<1>2. CASE Commit(t) /\ pc'[t] = "idle"
  <2>1. Current(t) /\ ~CreditsHimself(Hash(t))
    BY <1>2 DEF Commit
  <2>2. used.faults = 0
    BY FailuresStay DEF Inductive
  <2>3. Sender[Hash(t)] # Receiver[Hash(t)]
    BY <1>2, <2>1, <2>2, SelfCredit
  <2>4. Books!Transfer(Hash(t)) /\ Hash(t) \in Packets
    BY <1>2, <2>1, <2>2, <2>3, CommitEnters, InCall DEF Commit, Inductive
  <2>5. Balances(committed) \in [DOMAIN Seed -> Int]
    <3>1. \A vpa \in DOMAIN Seed : committed.accounts[vpa] \in Account
      BY FailuresStay, ConstantsAssumption
      DEF Inductive, SeededRows, TypeOK, Tables
    <3> QED
      BY <3>1 DEF Balances, Account
  <2> QED
    BY <2>4, <2>5, EntryKeepsTotal
<1>3. CASE RecordRejected(t)
  <2>1. committed'.accounts = committed.accounts
    BY <1>3, FailsEffect, WriteEffect
    DEF RecordRejected, WithRow, Inductive, Isolation
  <2> QED
    BY <2>1 DEF Balances
<1> QED
  BY <1>1, <1>2, <1>3

\* In any run at all, with any number of threads, money is made or lost only
\* by a call that commits what it computed from stale copies, by exactly the
\* amount of a payment to oneself, by a failed statement or by a reset.
THEOREM MoneyLeaksWhenStale == Spec => OnlyStaleCopiesLeak
  BY Invariance, LeakStep, PTL DEF Spec, OnlyStaleCopiesLeak
=============================================================================
