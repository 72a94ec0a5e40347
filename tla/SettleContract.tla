--------------------------- MODULE SettleContract ---------------------------
(***************************************************************************)
(* What SettlementService::settle promises the request threads that call   *)
(* it concurrently: each call takes effect in one step, at the step that   *)
(* answers it.  It answers SETTLED or REJECTED with the id of the one row  *)
(* it added for its packet hash, or throws (INVALID) and has added nothing.*)
(* Only a reset deletes rows, and an id is never used twice.               *)
(*                                                                         *)
(* Once a statement has failed it promises less.  A call whose transaction *)
(* SQLite has dropped may add its row before it throws (Stray), and a      *)
(* rejection recorded in a transaction that a failed ROLLBACK left open    *)
(* has an answer but no row (Phantom).  A SETTLED always has its row.      *)
(*                                                                         *)
(* The contract says nothing of balances: see Ledger.                      *)
(***************************************************************************)
EXTENDS Naturals

CONSTANTS Threads, Packets,
          NoPacket     \* what a thread outside settle() is settling

VARIABLES rows,        \* table transactions
          lastRowId,   \* the AUTOINCREMENT counter of its ids
          pending,     \* the packet each thread is settling
          answer,      \* what each thread's last settle() answered
          failed       \* a statement of the database has failed

contractVars == <<rows, lastRowId, pending, answer>>

Unanswered == [status |-> "NONE", id |-> 0]
Invalid    == [status |-> "INVALID", id |-> 0]

Start ==
  /\ rows = {} /\ lastRowId = 0
  /\ pending = [t \in Threads |-> NoPacket]
  /\ answer = [t \in Threads |-> Unanswered]

Invoke(t, h) ==
  /\ pending[t] = NoPacket
  /\ pending' = [pending EXCEPT ![t] = h]
  /\ answer' = [answer EXCEPT ![t] = Unanswered]
  /\ UNCHANGED <<rows, lastRowId>>

\* The transaction committed, or the rejection was recorded.
Record(t, status) ==
  /\ pending[t] # NoPacket
  /\ \A r \in rows : r.hash # pending[t]
  /\ lastRowId' = lastRowId + 1
  /\ rows' = rows \cup {[id |-> lastRowId', hash |-> pending[t],
                         status |-> status]}
  /\ answer' = [answer EXCEPT ![t] = [status |-> status, id |-> lastRowId']]
  /\ pending' = [pending EXCEPT ![t] = NoPacket]

\* settle() threw.
Refuse(t) ==
  /\ pending[t] # NoPacket
  /\ answer' = [answer EXCEPT ![t] = Invalid]
  /\ pending' = [pending EXCEPT ![t] = NoPacket]
  /\ UNCHANGED <<rows, lastRowId>>

\* The row of a call that will throw.
Stray(t) ==
  /\ failed
  /\ pending[t] # NoPacket
  /\ \A r \in rows : r.hash # pending[t]
  /\ lastRowId' = lastRowId + 1
  /\ rows' = rows \cup {[id |-> lastRowId', hash |-> pending[t],
                         status |-> "SETTLED"]}
  /\ UNCHANGED <<pending, answer>>

\* A rejection without a row; its id may be given again.
Phantom(t, id) ==
  /\ failed
  /\ pending[t] # NoPacket
  /\ id > lastRowId
  /\ answer' = [answer EXCEPT ![t] = [status |-> "REJECTED", id |-> id]]
  /\ pending' = [pending EXCEPT ![t] = NoPacket]
  /\ UNCHANGED <<rows, lastRowId>>

\* Database::reset.
Wipe ==
  /\ rows' = {}
  /\ UNCHANGED <<lastRowId, pending, answer>>

Step ==
  \/ \E t \in Threads :
       \/ \E h \in Packets : Invoke(t, h)
       \/ \E status \in {"SETTLED", "REJECTED"} : Record(t, status)
       \/ Refuse(t)
       \/ Stray(t)
       \/ Phantom(t, answer'[t].id)
  \/ Wipe

ContractSpec == Start /\ [][Step]_contractVars

\* What its callers can rely on: however their calls and the resets interleave,
\* no two rows share a packet hash or an id.
RowsApart == \A r, s \in rows : r.hash = s.hash \/ r.id = s.id => r = s
=============================================================================
