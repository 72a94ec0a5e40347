------------------------------ MODULE Ingestion ------------------------------
(***************************************************************************)
(* BridgeIngestionService::ingest run by concurrent requests, with the     *)
(* idempotency cache, its evictor thread, the wall clock and resets.       *)
(*                                                                         *)
(* settle() is its contract, which Settlement implements: the packet is    *)
(* pending from the step that calls settle() to the step that answers.     *)
(*                                                                         *)
(* The process may run out of memory at any time (MayFail), in a call of   *)
(* OpenSSL, in a statement of the database or in an allocation of its own. *)
(***************************************************************************)
EXTENDS Idempotency, FiniteSets

CONSTANTS
  Threads, Packets, NoPacket,   \* SettleContract
  Readable,       \* packets that decrypt to a complete instruction
  SignedAt,       \* when each was signed, by the clock of the sender's phone
  MaxAgeSeconds,  \* a packet older than this is stale (86400)
  SkewSeconds,    \* one dated further ahead than this is refused (300)
  MayFail,        \* whether memory may run out
  MaxClock,       \* bound on the time of a run
  MaxCalls,       \* bound on the calls of ingest()
  MaxResets       \* bound on the calls of meshReset()

ASSUME IngestionAssumption ==
  /\ NoPacket \notin Packets /\ MayFail \in BOOLEAN
  /\ Readable \subseteq Packets
  /\ SignedAt \in [Packets -> Int]
  /\ TtlSeconds \in Nat /\ MaxAgeSeconds \in Nat /\ SkewSeconds \in Nat
  /\ Second \in Nat \ {0}
  /\ MaxAgeSeconds <= TtlSeconds
  /\ MaxClock \in Nat /\ MaxCalls \in Nat /\ MaxResets \in Nat

VARIABLES
  rows, lastRowId, pending, answer,   \* SettleContract
  clock,     \* system_clock::now() in milliseconds
  stage,     \* where each request is in ingest() or meshReset()
  job,       \* the packet of each request and the time claim() stamps it with
  outcome,   \* what each thread's last ingest() returned
  calls,     \* ingest() calls so far
  resets,    \* meshReset() calls so far
  epoch,     \* history: how often the cache was cleared
  admitted   \* history: the calls that got as far as settle()

vars == <<rows, lastRowId, pending, answer, seen, clock, stage, job, outcome,
          calls, resets, epoch, admitted>>
history == <<epoch, admitted>>
settlement == <<rows, lastRowId, pending, answer>>

INSTANCE SettleContract WITH failed <- MayFail

\* "number" tells calls apart and "epoch" is the cache they claimed in.
Job == [hash: Packets, stamp: Nat, number: 1..MaxCalls, epoch: 0..MaxResets]
NoJob == [hash |-> NoPacket, stamp |-> 0, number |-> 0, epoch |-> 0]
Stages == {"idle", "claim", "validate", "settle", "clearCache", "resetDb"}
Outcomes == {"NONE", "DUPLICATE_DROPPED", "INVALID", "SETTLED", "REJECTED"}

Init ==
  /\ Start
  /\ seen = NothingSeen
  /\ clock = 0
  /\ stage = [t \in Threads |-> "idle"]
  /\ job = [t \in Threads |-> NoJob]
  /\ outcome = [t \in Threads |-> "NONE"]
  /\ calls = 0 /\ resets = 0 /\ epoch = 0 /\ admitted = {}

At(t, label) == stage[t] = label
Goto(t, label) == stage' = [stage EXCEPT ![t] = label]
Hash(t) == job[t].hash

\* ingest() returns.
Return(t, result) ==
  /\ Goto(t, "idle")
  /\ job' = [job EXCEPT ![t] = NoJob]
  /\ outcome' = [outcome EXCEPT ![t] = result]

-----------------------------------------------------------------------------
\* Division of int64_t truncates towards zero.
TruncDiv(a, b) == IF a >= 0 THEN a \div b ELSE -((-a) \div b)
AgeSeconds(h) == TruncDiv(clock - SignedAt[h], Second)

\* Mutant of TooOld: the tolerance for clock skew is granted on both sides.
TooOldWithSkew(h) == AgeSeconds(h) > MaxAgeSeconds + SkewSeconds

\* Mutant of FutureDated: the sign of the tolerance is lost.
FutureDatedUnsigned(h) == AgeSeconds(h) < SkewSeconds

TooOld(h)      == AgeSeconds(h) > MaxAgeSeconds
FutureDated(h) == AgeSeconds(h) < -SkewSeconds
Fresh(h)       == ~TooOld(h) /\ ~FutureDated(h)

-----------------------------------------------------------------------------
\* Mutant of Ingest: the packet was moved away before it is used.
IngestMoved(t, h) ==
  /\ At(t, "idle") /\ calls < MaxCalls
  /\ calls' = calls + 1
  /\ job' = [job EXCEPT ![t] = [NoJob EXCEPT !.stamp = clock, !.number = calls']]
  /\ outcome' = [outcome EXCEPT ![t] = "NONE"]
  /\ Goto(t, "claim")
  /\ UNCHANGED <<settlement, seen, clock, resets, history>>

\* A request enters ingest(), hashes the ciphertext, enters claim() and reads
\* the clock there, before it takes the cache's lock.
Ingest(t, h) ==
  /\ At(t, "idle") /\ calls < MaxCalls
  /\ calls' = calls + 1
  /\ job' = [job EXCEPT ![t] = [hash |-> h, stamp |-> clock,
                                number |-> calls', epoch |-> 0]]
  /\ outcome' = [outcome EXCEPT ![t] = "NONE"]
  /\ Goto(t, "claim")
  /\ UNCHANGED <<settlement, seen, clock, resets, history>>

\* The idempotency gate: the first to claim the hash goes on.  If the hash
\* cannot be computed or the claim not be made, ingest() has done nothing.
Gate(t) ==
  /\ At(t, "claim")
  /\ \/ /\ Claim(Hash(t), job[t].stamp)
        /\ IsFirst(Hash(t))
        /\ job' = [job EXCEPT ![t].epoch = epoch]
        /\ Goto(t, "validate") /\ UNCHANGED outcome
     \/ /\ Claim(Hash(t), job[t].stamp)
        /\ ~IsFirst(Hash(t))
        /\ Return(t, "DUPLICATE_DROPPED")
     \/ /\ MayFail
        /\ Return(t, "INVALID")
        /\ UNCHANGED seen
  /\ UNCHANGED <<settlement, clock, calls, resets, history>>

\* Decrypt and check the age.  A packet that fails keeps its claim, also when
\* it is the decryption that has failed.
Validate(t) ==
  /\ At(t, "validate")
  /\ \/ /\ Hash(t) \in Readable /\ Fresh(Hash(t))
        /\ Invoke(t, Hash(t))
        /\ Goto(t, "settle")
        /\ admitted' = admitted \cup {job[t]}
        /\ UNCHANGED <<job, outcome>>
     \/ /\ Hash(t) \notin Readable \/ ~Fresh(Hash(t)) \/ MayFail
        /\ Return(t, "INVALID")
        /\ UNCHANGED <<settlement, admitted>>
  /\ UNCHANGED <<seen, clock, calls, resets, epoch>>

\* settle() returns a transaction, whose status is the outcome, or throws.  To
\* build the result may fail as well, for a packet that has its row.  (Which
\* unused id a REJECTED without a row has makes no difference here.)
Settle(t) ==
  /\ At(t, "settle")
  /\ \/ \E status \in {"SETTLED", "REJECTED"} :
          /\ Record(t, status)
          /\ \/ Return(t, status)
             \/ MayFail /\ Return(t, "INVALID")
     \/ Refuse(t) /\ Return(t, "INVALID")
     \/ Phantom(t, lastRowId + 1) /\ Return(t, "REJECTED")
  /\ UNCHANGED <<seen, clock, calls, resets, history>>

\* settle() leaves a row behind, and will throw.
SettleStrays(t) ==
  /\ At(t, "settle")
  /\ Stray(t)
  /\ UNCHANGED <<seen, clock, stage, job, outcome, calls, resets, history>>

-----------------------------------------------------------------------------
(***************************************************************************)
(* ApiController::meshReset: the mesh, the cache and the database are      *)
(* cleared one after the other.                                            *)
(***************************************************************************)
ResetMesh(t) ==
  /\ At(t, "idle") /\ resets < MaxResets
  /\ resets' = resets + 1
  /\ Goto(t, "clearCache")
  /\ UNCHANGED <<settlement, seen, clock, job, outcome, calls, history>>

ClearCache(t) ==
  /\ At(t, "clearCache")
  /\ Clear
  /\ epoch' = epoch + 1
  /\ Goto(t, "resetDb")
  /\ UNCHANGED <<settlement, clock, job, outcome, calls, resets, admitted>>

\* Database::reset, which may throw before it has deleted the rows.
ResetDb(t) ==
  /\ At(t, "resetDb")
  /\ Wipe \/ UNCHANGED settlement
  /\ Goto(t, "idle")
  /\ UNCHANGED <<seen, clock, job, outcome, calls, resets, history>>

\* The evictor thread wakes up once a minute, whenever that is.
EvictExpired ==
  /\ Evict(clock)
  /\ UNCHANGED <<settlement, clock, stage, job, outcome, calls, resets, history>>

\* Nobody sets the server's clock back: a system_clock may go back, and this
\* one is taken not to.
Tick ==
  /\ clock < MaxClock
  /\ clock' = clock + 1
  /\ UNCHANGED <<settlement, seen, stage, job, outcome, calls, resets, history>>

RequestStep(t) ==
  \/ Gate(t) \/ Validate(t) \/ Settle(t) \/ SettleStrays(t)
  \/ ClearCache(t) \/ ResetDb(t)

Next ==
  \/ \E t \in Threads :
       \/ \E h \in Packets : Ingest(t, h)
       \/ RequestStep(t)
       \/ ResetMesh(t)
  \/ EvictExpired
  \/ Tick

Spec == Init /\ [][Next]_vars

-----------------------------------------------------------------------------
(***************************************************************************)
(* Properties.                                                             *)
(***************************************************************************)
TypeOK ==
  /\ seen \in Caches(Packets, 0..MaxClock)
  /\ clock \in 0..MaxClock
  /\ stage \in [Threads -> Stages]
  /\ job \in [Threads -> Job \cup {NoJob}]
  /\ outcome \in [Threads -> Outcomes]
  /\ calls \in 0..MaxCalls /\ resets \in 0..MaxResets /\ epoch \in 0..resets
  /\ admitted \subseteq Job
  /\ \A t \in Threads : pending[t] = IF At(t, "settle") THEN Hash(t) ELSE NoPacket

InFlight(t) == stage[t] \in {"validate", "settle"}

\* Two requests never work on one packet at a time, however often it is
\* uploaded, unless the cache was cleared in between or one of them takes
\* longer than a claim is kept.
NoTwinInFlight ==
  \A t, u \in Threads :
    /\ t # u /\ InFlight(t) /\ InFlight(u)
    /\ Hash(t) = Hash(u) /\ job[t].epoch = job[u].epoch
    => \E v \in {t, u} : clock - job[v].stamp > TtlSeconds * Second

\* Eviction opens no way for a replay: a packet that was a second old when it
\* was claimed is stale by the time its claim can be evicted, so that it gets
\* to settle() once.  This couples the cache's time to live with ingest()'s
\* limit on the age, and takes the truncated division into account.
SeasonedPacketsSettleOnce ==
  \A a, b \in admitted :
    /\ a.hash = b.hash /\ a.epoch = b.epoch
    /\ \A c \in {a, b} : c.stamp - SignedAt[c.hash] >= Second
    => a = b

\* A packet that is dropped as a duplicate while it could still settle has
\* been decided, or another request is deciding it, or settle() refused it.
DropsDuplicates ==
  \A t \in Threads :
    At(t, "claim") /\ outcome'[t] = "DUPLICATE_DROPPED" =>
      \/ Hash(t) \notin Readable \/ ~Fresh(Hash(t))
      \/ \E r \in rows : r.hash = Hash(t)
      \/ \E u \in Threads : InFlight(u) /\ Hash(u) = Hash(t)
      \/ \E u \in Threads : answer[u] = Invalid

OnlyDuplicatesAreDropped == [][DropsDuplicates]_vars
=============================================================================
