--------------------------- MODULE IngestionProofs ---------------------------
(***************************************************************************)
(* Proofs about Ingestion for any number of request threads, packets,      *)
(* uploads, resets and milliseconds.                                       *)
(*                                                                         *)
(* Everything rests on one idea: whoever got past the idempotency gate     *)
(* since the cache was last cleared still has its claim in the cache, with *)
(* its own time stamp, or has outlived the time to live (Stands).  This    *)
(* holds of the requests in flight (ClaimsStand) and of the calls that got *)
(* as far as settle() (AdmissionsStand).                                   *)
(***************************************************************************)
EXTENDS Ingestion, IdempotencyProofs, FiniteSetTheorems

(***************************************************************************)
(* The invariants the properties rest on.                                  *)
(***************************************************************************)
Claiming == {"claim", "validate", "settle"}

\* A request that claims a hash at a time is out of its time to live.
Outlived(j) == clock - j.stamp > TtlSeconds * Second
Stands(j) == Outlived(j) \/ (j.hash \in Claimed /\ seen[j.hash] = j.stamp)

\* A thread has a job exactly while it is in ingest(), stamped in the past.
Locals ==
  /\ pending \in [Threads -> Packets \cup {NoPacket}] /\ DOMAIN answer = Threads
  /\ \A t \in Threads :
       IF stage[t] \in Claiming
       THEN job[t] \in Job /\ job[t].stamp <= clock /\ job[t].epoch <= epoch
       ELSE job[t] = NoJob

\* The resets that have not cleared the cache yet.
Clearing == {t \in Threads : At(t, "clearCache")}
ResetsCounted ==
  /\ IsFiniteSet(Clearing)
  /\ epoch + Cardinality(Clearing) <= resets

ClaimsStand ==
  \A t \in Threads : InFlight(t) /\ job[t].epoch = epoch => Stands(job[t])

AdmissionsStand ==
  \A a \in admitted : a.epoch <= epoch /\ (a.epoch = epoch => Stands(a))

\* A request that passed the gate behind an admitted twin found the twin's
\* claim evicted, unless it is itself that old.
SecondComers ==
  \A t \in Threads, a \in admitted :
    At(t, "validate") /\ a.hash = Hash(t) /\ a.epoch = job[t].epoch =>
      Outlived(a) \/ Outlived(job[t])

Inductive ==
  /\ TypeOK /\ Locals /\ ResetsCounted
  /\ ClaimsStand /\ AdmissionsStand /\ SecondComers
  /\ NoTwinInFlight /\ SeasonedPacketsSettleOnce

-----------------------------------------------------------------------------
USE DEF At, Hash, InFlight

(***************************************************************************)
(* What a step may change.                                                 *)
(***************************************************************************)
\* The time to live in milliseconds is a number.
LEMMA TtlType == TtlSeconds * Second \in Nat
  BY IngestionAssumption

\* Time does not run backwards.
LEMMA TimePasses ==
  ASSUME TypeOK, [Next]_vars
  PROVE  clock \in Nat /\ clock' \in Nat /\ clock <= clock'
<1>1. clock' = clock \/ clock' = clock + 1
  BY DEF Next, RequestStep, Ingest, Gate, Validate, Settle, SettleStrays,
         ResetMesh, ClearCache, ResetDb, EvictExpired, Tick, vars
<1> QED
  BY <1>1, IngestionAssumption DEF TypeOK

\* Only ClearCache begins a new epoch.
LEMMA EpochStep ==
  ASSUME [Next]_vars
  PROVE  \/ epoch' = epoch
         \/ \E t \in Threads : ClearCache(t)
  BY DEF Next, RequestStep, Ingest, Gate, Validate, Settle, SettleStrays,
         ResetMesh, ResetDb, EvictExpired, Tick, vars, history

\* Within an epoch a claim is neither dropped before its time nor stamped
\* anew.
LEMMA StandsPersists ==
  ASSUME TypeOK, [Next]_vars, epoch' = epoch, NEW j \in Job,
         \/ clock - j.stamp > TtlSeconds * Second
         \/ j.hash \in Claimed /\ seen[j.hash] = j.stamp
  PROVE  \/ clock' - j.stamp > TtlSeconds * Second
         \/ j.hash \in Claimed' /\ seen'[j.hash] = j.stamp
<1>0. j.stamp \in Nat /\ TtlSeconds * Second \in Nat
  BY TtlType DEF Job
<1>1. CASE clock - j.stamp > TtlSeconds * Second
  <2> DEFINE ttl == TtlSeconds * Second
  <2>1. ttl \in Nat /\ clock - j.stamp > ttl
    BY <1>0, <1>1
  <2> HIDE DEF ttl
  <2>2. clock' - j.stamp > ttl
    BY <1>0, <2>1, TimePasses
  <2> QED
    BY <2>2 DEF ttl
<1>2. CASE /\ ~(clock - j.stamp > TtlSeconds * Second)
           /\ j.hash \in Claimed /\ seen[j.hash] = j.stamp
  <2>1. CASE UNCHANGED seen
    BY <1>2, <2>1 DEF Claimed
  <2>2. ASSUME NEW t \in Threads, Gate(t)
        PROVE  j.hash \in Claimed' /\ seen'[j.hash] = j.stamp
    BY <1>2, <2>2, ClaimKeepsFirst DEF Gate, Claimed
  <2>3. CASE EvictExpired
    <3>1. clock - seen[j.hash] <= TtlSeconds * Second
      BY <1>0, <1>2, TimePasses
    <3> QED
      BY <1>0, <1>2, <2>3, <3>1, TimePasses, EvictKeepsYoung DEF EvictExpired
  <2>4. ASSUME NEW t \in Threads, ClearCache(t)
        PROVE  FALSE
    <3>1. epoch \in Int
      BY IngestionAssumption DEF TypeOK
    <3> QED
      BY <2>4, <3>1 DEF ClearCache
  <2> QED
    BY <2>1, <2>2, <2>3, <2>4
    DEF Next, RequestStep, Ingest, Validate, Settle, SettleStrays, ResetMesh,
        ResetDb, Tick, vars
<1> QED
  BY <1>1, <1>2

\* A request gets past the gate only by its own step there, and keeps its job
\* until it is answered.
LEMMA OnlyGateAdmits ==
  ASSUME TypeOK, [Next]_vars, NEW u \in Threads, InFlight(u)', ~Gate(u)
  PROVE  InFlight(u) /\ job'[u] = job[u] /\ (At(u, "validate")' => At(u, "validate"))
<1> USE DEF TypeOK, Goto
<1>1. ASSUME NEW t \in Threads, NEW h \in Packets, Ingest(t, h)
      PROVE  InFlight(u) /\ job'[u] = job[u] /\ stage'[u] = stage[u]
  BY <1>1 DEF Ingest
<1>2. ASSUME NEW t \in Threads, Gate(t)
      PROVE  InFlight(u) /\ job'[u] = job[u] /\ stage'[u] = stage[u]
  BY <1>2 DEF Gate, Return
<1>3. ASSUME NEW t \in Threads, Validate(t)
      PROVE  InFlight(u) /\ job'[u] = job[u]
             /\ (stage'[u] = "validate" => stage[u] = "validate")
  BY <1>3 DEF Validate, Return
<1>4. ASSUME NEW t \in Threads, Settle(t) \/ SettleStrays(t)
      PROVE  InFlight(u) /\ job'[u] = job[u] /\ stage'[u] = stage[u]
  BY <1>4 DEF Settle, SettleStrays, Return
<1>5. ASSUME NEW t \in Threads, ResetMesh(t) \/ ClearCache(t) \/ ResetDb(t)
      PROVE  InFlight(u) /\ job'[u] = job[u] /\ stage'[u] = stage[u]
  BY <1>5 DEF ResetMesh, ClearCache, ResetDb
<1>6. CASE EvictExpired \/ Tick \/ UNCHANGED vars
  BY <1>6 DEF EvictExpired, Tick, vars
<1> QED
  BY <1>1, <1>2, <1>3, <1>4, <1>5, <1>6 DEF Next, RequestStep

\* Only Validate lets a call get as far as settle(), and only with a packet
\* that is fresh.
LEMMA OnlyValidateAdmits ==
  ASSUME [Next]_vars
  PROVE  \/ admitted' = admitted
         \/ \E t \in Threads :
              /\ Validate(t) /\ Fresh(Hash(t))
              /\ admitted' = admitted \cup {job[t]}
<1>1. ASSUME NEW t \in Threads, Validate(t)
      PROVE  \/ admitted' = admitted
             \/ Fresh(Hash(t)) /\ admitted' = admitted \cup {job[t]}
  BY <1>1 DEF Validate
<1> QED
  BY <1>1
  DEF Next, RequestStep, Ingest, Gate, Settle, SettleStrays, ResetMesh,
      ClearCache, ResetDb, EvictExpired, Tick, vars, history

-----------------------------------------------------------------------------
(***************************************************************************)
(* One lemma per part of Inductive, one step per action.                   *)
(***************************************************************************)
\* Every step keeps the types.  A request's own thread must be known to have
\* a job, and the epochs to be no more than the resets that began.
LEMMA TypeStep ==
  ASSUME TypeOK, Locals, ResetsCounted, [Next]_vars
  PROVE  TypeOK'
<1> USE DEF TypeOK, Goto, Stages, Outcomes, settlement, history
<1>0. NoPacket \notin Packets
  BY IngestionAssumption
<1>1. ASSUME NEW t \in Threads, NEW h \in Packets, Ingest(t, h)
      PROVE  TypeOK'
  <2>1. calls' \in 1..MaxCalls /\ clock \in Nat
    BY <1>1, IngestionAssumption DEF Ingest
  <2>2. [hash |-> h, stamp |-> clock, number |-> calls', epoch |-> 0] \in Job
    BY <2>1, IngestionAssumption DEF Job
  <2>3. job' \in [Threads -> Job \cup {NoJob}]
    BY <1>1, <2>2 DEF Ingest
  <2>4. stage' \in [Threads -> Stages] /\ outcome' \in [Threads -> Outcomes]
    BY <1>1 DEF Ingest
  <2>5. calls' \in 0..MaxCalls
    BY <2>1
  <2>6. \A u \in Threads :
          pending'[u] = IF stage'[u] = "settle" THEN job'[u].hash ELSE NoPacket
    BY <1>1 DEF Ingest
  <2> QED
    BY <1>1, <2>3, <2>4, <2>5, <2>6 DEF Ingest
<1>2. ASSUME NEW t \in Threads, Gate(t)
      PROVE  TypeOK'
  <2>1. job[t] \in Job /\ job[t].stamp \in 0..MaxClock /\ Hash(t) \in Packets
    BY <1>2, IngestionAssumption DEF Gate, Locals, Claiming, Job
  <2>2. seen' \in Caches(Packets, 0..MaxClock)
    BY <1>2, <2>1, ClaimType DEF Gate
  <2>3. epoch \in 0..MaxResets
    BY IngestionAssumption
  <2>4. job' \in [Threads -> Job \cup {NoJob}]
    BY <1>2, <2>1, <2>3 DEF Gate, Return, Job
  <2>5. stage' \in [Threads -> Stages] /\ outcome' \in [Threads -> Outcomes]
    BY <1>2 DEF Gate, Return
  <2>6. \A u \in Threads :
          pending'[u] = IF stage'[u] = "settle" THEN job'[u].hash ELSE NoPacket
    BY <1>2 DEF Gate, Return
  <2> QED
    BY <1>2, <2>2, <2>4, <2>5, <2>6 DEF Gate
<1>3. ASSUME NEW t \in Threads, Validate(t)
      PROVE  TypeOK'
  <2>1. job[t] \in Job
    BY <1>3 DEF Validate, Locals, Claiming
  <2>2. job' \in [Threads -> Job \cup {NoJob}] /\ admitted' \subseteq Job
    BY <1>3, <2>1 DEF Validate, Return
  <2>3. stage' \in [Threads -> Stages] /\ outcome' \in [Threads -> Outcomes]
    BY <1>3 DEF Validate, Return
  <2>4. \A u \in Threads :
          pending'[u] = IF stage'[u] = "settle" THEN job'[u].hash ELSE NoPacket
    BY <1>3 DEF Validate, Return, Invoke, Locals
  <2> QED
    BY <1>3, <2>2, <2>3, <2>4 DEF Validate
<1>4. ASSUME NEW t \in Threads, Settle(t)
      PROVE  TypeOK'
  <2>1. pending' = [pending EXCEPT ![t] = NoPacket]
    BY <1>4 DEF Settle, Record, Refuse, Phantom
  <2>2. job' \in [Threads -> Job \cup {NoJob}]
    BY <1>4 DEF Settle, Return
  <2>3. stage' \in [Threads -> Stages] /\ outcome' \in [Threads -> Outcomes]
    BY <1>4 DEF Settle, Return
  <2>4. \A u \in Threads :
          pending'[u] = IF stage'[u] = "settle" THEN job'[u].hash ELSE NoPacket
    BY <1>4, <2>1 DEF Settle, Return, Locals
  <2> QED
    BY <1>4, <2>2, <2>3, <2>4 DEF Settle
<1>5. ASSUME NEW t \in Threads, ResetMesh(t)
      PROVE  TypeOK'
  <2>1. resets' \in 0..MaxResets /\ epoch' \in 0..resets'
    BY <1>5, IngestionAssumption DEF ResetMesh
  <2> QED
    BY <1>5, <2>1 DEF ResetMesh
<1>6. ASSUME NEW t \in Threads, ClearCache(t)
      PROVE  TypeOK'
  <2>1. t \in Clearing
    BY <1>6 DEF ClearCache, Clearing
  <2>2. Cardinality(Clearing) \in Nat /\ Cardinality(Clearing) # 0
    BY <2>1, FS_CardinalityType, FS_EmptySet DEF ResetsCounted
  <2>3. epoch' \in 0..resets'
    BY <1>6, <2>2, IngestionAssumption DEF ClearCache, ResetsCounted
  <2>4. seen' \in Caches(Packets, 0..MaxClock)
    BY <1>6, NothingSeenType DEF ClearCache, Clear
  <2> QED
    BY <1>6, <2>3, <2>4 DEF ClearCache
<1>7. ASSUME NEW t \in Threads, ResetDb(t)
      PROVE  TypeOK'
  <2>1. UNCHANGED pending
    BY <1>7 DEF ResetDb, Wipe
  <2> QED
    BY <1>7, <2>1 DEF ResetDb
<1>8. CASE EvictExpired
  <2>1. seen' \in Caches(Packets, 0..MaxClock)
    BY <1>8, EvictType DEF EvictExpired
  <2> QED
    BY <1>8, <2>1 DEF EvictExpired
<1>9. CASE Tick
  <2>1. clock' \in 0..MaxClock
    BY <1>9, IngestionAssumption DEF Tick
  <2> QED
    BY <1>9, <2>1 DEF Tick
<1>10. CASE UNCHANGED vars
  BY <1>10 DEF vars
<1>11. ASSUME NEW t \in Threads, SettleStrays(t)
      PROVE  TypeOK'
  BY <1>11 DEF SettleStrays, Stray
<1> QED
  BY <1>1, <1>2, <1>3, <1>4, <1>5, <1>6, <1>7, <1>8, <1>9, <1>10, <1>11
  DEF Next, RequestStep

\* A job is made in one step by the thread itself, from the clock of then,
\* and dropped when its request is answered.
LEMMA LocalsStep ==
  ASSUME TypeOK, TypeOK', Locals, [Next]_vars
  PROVE  Locals'
<1> USE DEF TypeOK, Locals, Claiming, Goto, settlement, history
<1>0. clock \in Nat /\ clock' \in Nat /\ clock <= clock'
  BY TimePasses
<1>1. ASSUME NEW t \in Threads, NEW h \in Packets, Ingest(t, h)
      PROVE  Locals'
  <2>1. calls' \in 1..MaxCalls
    BY <1>1, IngestionAssumption DEF Ingest
  <2>2. [hash |-> h, stamp |-> clock, number |-> calls', epoch |-> 0] \in Job
    BY <1>0, <2>1, IngestionAssumption DEF Job
  <2>3. job'[t] \in Job /\ job'[t].stamp <= clock' /\ job'[t].epoch <= epoch'
    BY <1>0, <1>1, <2>2, IngestionAssumption DEF Ingest
  <2> QED
    BY <1>1, <2>3 DEF Ingest
<1>2. ASSUME NEW t \in Threads, Gate(t)
      PROVE  Locals'
  <2>1. job[t] \in Job
    BY <1>2 DEF Gate
  <2>2. CASE job' = [job EXCEPT ![t].epoch = epoch] /\ Goto(t, "validate")
    <3>1. epoch \in 0..MaxResets
      BY IngestionAssumption
    <3>2. job'[t] \in Job /\ job'[t].stamp <= clock' /\ job'[t].epoch <= epoch'
      BY <1>0, <1>2, <2>1, <2>2, <3>1 DEF Gate, Job
    <3> QED
      BY <1>2, <2>2, <3>2 DEF Gate
  <2>3. CASE Return(t, "DUPLICATE_DROPPED")
    BY <1>2, <2>3 DEF Gate, Return
  <2>4. CASE Return(t, "INVALID")
    BY <1>2, <2>4 DEF Gate, Return
  <2> QED
    BY <1>2, <2>2, <2>3, <2>4 DEF Gate
<1>3. ASSUME NEW t \in Threads, Validate(t)
      PROVE  Locals'
  <2>1. job[t] \in Job
    BY <1>3 DEF Validate
  <2>2. /\ pending' \in [Threads -> Packets \cup {NoPacket}]
        /\ DOMAIN answer' = Threads
    BY <1>3, <2>1 DEF Validate, Invoke, Job
  <2> QED
    BY <1>3, <2>2 DEF Validate, Return
<1>4. ASSUME NEW t \in Threads, Settle(t)
      PROVE  Locals'
  <2>1. /\ pending' = [pending EXCEPT ![t] = NoPacket]
        /\ DOMAIN answer' = Threads
    BY <1>4 DEF Settle, Record, Refuse, Phantom
  <2> QED
    BY <1>4, <2>1 DEF Settle, Return
<1>5. ASSUME NEW t \in Threads, ResetMesh(t)
      PROVE  Locals'
  BY <1>5 DEF ResetMesh
<1>6. ASSUME NEW t \in Threads, ClearCache(t)
      PROVE  Locals'
  <2>1. epoch \in Int /\ epoch' = epoch + 1
    BY <1>6, IngestionAssumption DEF ClearCache
  <2>2. \A u \in Threads : job[u] \in Job => job[u].epoch \in Int
    BY DEF Job
  <2> QED
    BY <1>6, <2>1, <2>2 DEF ClearCache
<1>7. ASSUME NEW t \in Threads, ResetDb(t)
      PROVE  Locals'
  <2>1. UNCHANGED <<pending, answer>>
    BY <1>7 DEF ResetDb, Wipe
  <2> QED
    BY <1>7, <2>1 DEF ResetDb
<1>8. ASSUME \/ \E t \in Threads : SettleStrays(t)
             \/ EvictExpired \/ UNCHANGED vars
      PROVE  Locals'
  BY <1>8 DEF SettleStrays, Stray, EvictExpired, vars
<1>9. CASE Tick
  <2>1. \A u \in Threads : job[u] \in Job => job[u].stamp \in Nat
    BY DEF Job
  <2> QED
    BY <1>0, <1>9, <2>1 DEF Tick
<1> QED
  BY <1>1, <1>2, <1>3, <1>4, <1>5, <1>6, <1>7, <1>8, <1>9 DEF Next, RequestStep

\* Each meshReset() clears the cache at most once.
LEMMA ResetsStep ==
  ASSUME TypeOK, ResetsCounted, [Next]_vars
  PROVE  ResetsCounted'
<1> USE DEF TypeOK, Goto, history
<1>0. epoch \in Int /\ resets \in Int /\ Cardinality(Clearing) \in Nat
  BY FS_CardinalityType, IngestionAssumption DEF ResetsCounted
<1>1. ASSUME NEW t \in Threads, ResetMesh(t)
      PROVE  ResetsCounted'
  <2>1. Clearing' = Clearing \cup {t} /\ t \notin Clearing
    BY <1>1 DEF ResetMesh, Clearing
  <2>2. IsFiniteSet(Clearing')
        /\ Cardinality(Clearing') = Cardinality(Clearing) + 1
    BY <2>1, FS_AddElement DEF ResetsCounted
  <2> QED
    BY <1>0, <1>1, <2>2 DEF ResetMesh, ResetsCounted
<1>2. ASSUME NEW t \in Threads, ClearCache(t)
      PROVE  ResetsCounted'
  <2>1. Clearing' = Clearing \ {t} /\ t \in Clearing
    BY <1>2 DEF ClearCache, Clearing
  <2>2. IsFiniteSet(Clearing')
        /\ Cardinality(Clearing') = Cardinality(Clearing) - 1
    BY <2>1, FS_RemoveElement DEF ResetsCounted
  <2> QED
    BY <1>0, <1>2, <2>2 DEF ClearCache, ResetsCounted
<1>3. ASSUME Clearing' = Clearing, UNCHANGED <<resets, epoch>>
      PROVE  ResetsCounted'
  BY <1>3 DEF ResetsCounted
<1>4. ASSUME NEW t \in Threads, NEW h \in Packets, Ingest(t, h)
      PROVE  Clearing' = Clearing /\ UNCHANGED <<resets, epoch>>
  BY <1>4 DEF Ingest, Clearing
<1>5. ASSUME NEW t \in Threads, Gate(t)
      PROVE  Clearing' = Clearing /\ UNCHANGED <<resets, epoch>>
  BY <1>5 DEF Gate, Return, Clearing
<1>6. ASSUME NEW t \in Threads, Validate(t)
      PROVE  Clearing' = Clearing /\ UNCHANGED <<resets, epoch>>
  BY <1>6 DEF Validate, Return, Clearing
<1>7. ASSUME NEW t \in Threads, Settle(t) \/ SettleStrays(t)
      PROVE  Clearing' = Clearing /\ UNCHANGED <<resets, epoch>>
  BY <1>7 DEF Settle, SettleStrays, Return, Clearing
<1>8. ASSUME NEW t \in Threads, ResetDb(t)
      PROVE  Clearing' = Clearing /\ UNCHANGED <<resets, epoch>>
  BY <1>8 DEF ResetDb, Clearing
<1>9. ASSUME EvictExpired \/ Tick \/ UNCHANGED vars
      PROVE  Clearing' = Clearing /\ UNCHANGED <<resets, epoch>>
  BY <1>9 DEF EvictExpired, Tick, vars, Clearing
<1> QED
  BY <1>1, <1>2, <1>3, <1>4, <1>5, <1>6, <1>7, <1>8, <1>9 DEF Next, RequestStep

\* The gate lets a request through with its claim in the cache; a later epoch
\* is nobody's.
LEMMA ClaimsStandStep ==
  ASSUME TypeOK, Locals, ClaimsStand, [Next]_vars
  PROVE  ClaimsStand'
<1> SUFFICES ASSUME NEW u \in Threads, InFlight(u)', job'[u].epoch = epoch'
             PROVE  Stands(job[u])'
  BY DEF ClaimsStand
<1>1. CASE Gate(u)
  <2>1. /\ Claim(Hash(u), job[u].stamp) /\ IsFirst(Hash(u))
        /\ job' = [job EXCEPT ![u].epoch = epoch]
    BY <1>1 DEF Gate, Return, Goto, TypeOK
  <2>2. job[u] \in Job
    BY <1>1 DEF Gate, Locals, Claiming
  <2>3. job'[u].hash = Hash(u) /\ job'[u].stamp = job[u].stamp
    BY <2>1, <2>2 DEF TypeOK, Job
  <2>4. Hash(u) \in Claimed' /\ seen'[Hash(u)] = job[u].stamp
    BY <1>1, <2>1, ClaimKeepsFirst DEF Gate
  <2> QED
    BY <2>3, <2>4 DEF Stands
<1>2. CASE ~Gate(u)
  <2>1. InFlight(u) /\ job'[u] = job[u]
    BY <1>2, OnlyGateAdmits
  <2>2. job[u] \in Job /\ job[u].epoch <= epoch
    BY <2>1 DEF Locals, Claiming
  <2>3. epoch' = epoch
    <3>1. epoch \in Int
      BY IngestionAssumption DEF TypeOK
    <3>2. job[u].epoch \in Int
      BY <2>2 DEF Job
    <3> QED
      BY <2>1, <2>2, <3>1, <3>2, EpochStep DEF ClearCache
  <2>4. Stands(job[u])
    BY <2>1, <2>3 DEF ClaimsStand
  <2> QED
    BY <2>1, <2>2, <2>3, <2>4, StandsPersists DEF Stands, Outlived
<1> QED
  BY <1>1, <1>2

\* What is admitted was in flight a step before.
LEMMA AdmissionsStandStep ==
  ASSUME TypeOK, Locals, ClaimsStand, AdmissionsStand, [Next]_vars
  PROVE  AdmissionsStand'
<1> SUFFICES ASSUME NEW a \in admitted'
             PROVE  a.epoch <= epoch' /\ (a.epoch = epoch' => Stands(a)')
  BY DEF AdmissionsStand
<1>1. a \in Job /\ a.epoch <= epoch /\ (a.epoch = epoch => Stands(a))
  <2>1. CASE a \in admitted
    BY <2>1 DEF AdmissionsStand, TypeOK
  <2>2. ASSUME NEW t \in Threads, Validate(t), a = job[t]
        PROVE  a \in Job /\ a.epoch <= epoch /\ (a.epoch = epoch => Stands(a))
    BY <2>2 DEF Validate, Locals, Claiming, ClaimsStand
  <2> QED
    BY <2>1, <2>2, OnlyValidateAdmits
<1>2. epoch \in Int /\ a.epoch \in Int /\ epoch' \in {epoch, epoch + 1}
  BY <1>1, EpochStep, IngestionAssumption DEF TypeOK, Job, ClearCache
<1>3. CASE epoch' = epoch
  BY <1>1, <1>2, <1>3, StandsPersists DEF Stands, Outlived
<1>4. CASE epoch' = epoch + 1
  BY <1>1, <1>2, <1>4
<1> QED
  BY <1>2, <1>3, <1>4

\* Who has outlived its time to live stays so.
LEMMA OutlivedStays ==
  ASSUME TypeOK, [Next]_vars, NEW j \in Job,
         clock - j.stamp > TtlSeconds * Second
  PROVE  clock' - j.stamp > TtlSeconds * Second
<1> DEFINE ttl == TtlSeconds * Second
<1>1. ttl \in Nat /\ clock - j.stamp > ttl /\ j.stamp \in Nat
  BY TtlType DEF Job
<1> HIDE DEF ttl
<1>2. clock' - j.stamp > ttl
  BY <1>1, TimePasses
<1> QED
  BY <1>2 DEF ttl

\* A request that passes the gate finds no standing claim on its hash, so a
\* twin in flight has outlived its own.
LEMMA NoTwinStep ==
  ASSUME TypeOK, Locals, ClaimsStand, NoTwinInFlight, [Next]_vars
  PROVE  NoTwinInFlight'
<1> USE DEF Claiming
<1>1. SUFFICES ASSUME NEW t \in Threads, NEW u \in Threads, t # u,
                      InFlight(t)', InFlight(u)', ~Gate(u),
                      job'[t].hash = job'[u].hash,
                      job'[t].epoch = job'[u].epoch
               PROVE  \E v \in {t, u} :
                        clock' - job'[v].stamp > TtlSeconds * Second
  <2>1. ASSUME NEW t \in Threads, NEW u \in Threads, Gate(t), Gate(u)
        PROVE  t = u
    <3>1. stage[t] = "claim" /\ stage'[t] # "claim"
      BY <2>1 DEF Gate, Return, Goto, TypeOK
    <3>2. t # u => stage'[t] = stage[t]
      BY <2>1 DEF Gate, Return, Goto, TypeOK
    <3> QED
      BY <3>1, <3>2
  <2>2. ASSUME NEW t \in Threads, NEW u \in Threads, t # u,
               InFlight(t)', InFlight(u)',
               job'[t].hash = job'[u].hash, job'[t].epoch = job'[u].epoch
        PROVE  \E v \in {t, u} : clock' - job'[v].stamp > TtlSeconds * Second
    <3>1. CASE ~Gate(u)
      BY <1>1, <2>2, <3>1
    <3>2. CASE ~Gate(t)
      <4>1. \E v \in {u, t} : clock' - job'[v].stamp > TtlSeconds * Second
        BY <1>1, <2>2, <3>2
      <4> QED
        BY <4>1
    <3> QED
      BY <2>1, <2>2, <3>1, <3>2
  <2> QED
    BY <2>2 DEF NoTwinInFlight
<1>2. InFlight(u) /\ job'[u] = job[u] /\ job[u] \in Job
  BY <1>1, OnlyGateAdmits DEF Locals
<1>3. CASE Gate(t)
  <2>1. IsFirst(Hash(t)) /\ job' = [job EXCEPT ![t].epoch = epoch]
    BY <1>1, <1>3 DEF Gate, Return, Goto, TypeOK
  <2>2. job[t] \in Job
    BY <1>3 DEF Gate, Locals
  <2>3. Hash(u) = Hash(t) /\ job[u].epoch = epoch
    BY <1>1, <1>2, <2>1, <2>2 DEF TypeOK, Job
  <2>4. clock - job[u].stamp > TtlSeconds * Second
    BY <1>2, <2>1, <2>3 DEF ClaimsStand, Stands, Outlived, IsFirst
  <2> QED
    BY <1>2, <2>4, OutlivedStays
<1>4. CASE ~Gate(t)
  <2>1. InFlight(t) /\ job'[t] = job[t] /\ job[t] \in Job
    BY <1>1, <1>4, OnlyGateAdmits DEF Locals
  <2>2. PICK v \in {t, u} : clock - job[v].stamp > TtlSeconds * Second
    BY <1>1, <1>2, <2>1 DEF NoTwinInFlight
  <2>3. job'[v] = job[v] /\ job[v] \in Job
    BY <1>2, <2>1
  <2>4. clock' - job'[v].stamp > TtlSeconds * Second
    BY <2>2, <2>3, OutlivedStays
  <2> QED
    BY <2>4
<1> QED
  BY <1>3, <1>4

\* A request that comes to the gate after an admitted twin finds its claim
\* gone; twins beyond the gate have settled between them who is too old.
LEMMA SecondComersStep ==
  ASSUME TypeOK, Locals, AdmissionsStand, NoTwinInFlight, SecondComers,
         [Next]_vars
  PROVE  SecondComers'
<1> USE DEF Claiming
<1>1. SUFFICES ASSUME NEW t \in Threads, NEW a \in admitted',
                      stage'[t] = "validate", a.hash = job'[t].hash,
                      a.epoch = job'[t].epoch
               PROVE  \/ clock' - a.stamp > TtlSeconds * Second
                      \/ clock' - job'[t].stamp > TtlSeconds * Second
  BY DEF SecondComers, Outlived
<1>2. CASE Gate(t)
  <2>1. IsFirst(Hash(t)) /\ job' = [job EXCEPT ![t].epoch = epoch]
    BY <1>1, <1>2 DEF Gate, Return, Goto, TypeOK
  <2>2. job[t] \in Job
    BY <1>2 DEF Gate, Locals
  <2>3. a \in admitted
    BY <1>2 DEF Gate, history
  <2>4. a.hash = Hash(t) /\ a.epoch = epoch /\ a \in Job
    BY <1>1, <2>1, <2>2, <2>3 DEF TypeOK, Job
  <2>5. clock - a.stamp > TtlSeconds * Second
    BY <2>1, <2>3, <2>4 DEF AdmissionsStand, Stands, Outlived, IsFirst
  <2> QED
    BY <2>4, <2>5, OutlivedStays
<1>3. CASE ~Gate(t)
  <2>1. At(t, "validate") /\ job'[t] = job[t] /\ job[t] \in Job
    BY <1>1, <1>3, OnlyGateAdmits DEF Locals
  <2>2. CASE a \in admitted
    <3>1. a \in Job
      BY <2>2 DEF TypeOK
    <3>2. \/ clock - a.stamp > TtlSeconds * Second
          \/ clock - job[t].stamp > TtlSeconds * Second
      BY <1>1, <2>1, <2>2 DEF SecondComers, Outlived
    <3> QED
      BY <2>1, <3>1, <3>2, OutlivedStays
  <2>3. CASE a \notin admitted
    <3>1. PICK u \in Threads : Validate(u) /\ a = job[u]
      BY <1>1, <2>3, OnlyValidateAdmits
    <3>2. At(u, "validate") /\ stage'[u] # "validate"
      BY <3>1 DEF Validate, Return, Goto, TypeOK
    <3>3. t # u /\ InFlight(t) /\ InFlight(u)
      BY <1>1, <2>1, <3>2
    <3>4. job[u] \in Job
      BY <3>2 DEF Locals
    <3>5. \E v \in {t, u} : clock - job[v].stamp > TtlSeconds * Second
      BY <1>1, <2>1, <3>1, <3>3 DEF NoTwinInFlight
    <3> QED
      BY <2>1, <3>1, <3>4, <3>5, OutlivedStays
  <2> QED
    BY <2>2, <2>3
<1> QED
  BY <1>2, <1>3

-----------------------------------------------------------------------------
(***************************************************************************)
(* The age of a packet.                                                    *)
(***************************************************************************)
\* A smaller factor gives a product that is no larger.
LEMMA TimesMonotone ==
  ASSUME NEW a \in Nat, NEW b \in Int, NEW s \in Nat \ {0}, b <= a
  PROVE  b * s <= a * s
  OBVIOUS

\* What rounds down to k units is less than k + 1 of them.
LEMMA DivisionBound ==
  ASSUME NEW d \in Nat, NEW s \in Nat \ {0}, NEW k \in Nat, (k + 1) * s <= d
  PROVE  d \div s > k
<1>1. /\ d \div s \in Int /\ d % s \in 0..(s - 1)
      /\ d = (d \div s) * s + (d % s)
  OBVIOUS
<1>2. SUFFICES ASSUME d \div s <= k
               PROVE  FALSE
  BY <1>1
<1>3. (d \div s) * s <= k * s
  BY <1>1, <1>2, TimesMonotone
<1>4. (k + 1) * s = k * s + s
  OBVIOUS
<1> QED
  BY <1>1, <1>3, <1>4

\* A packet that was a second old when it was claimed is stale once its claim
\* has outlived the time to live.
LEMMA OutlivedIsTooOld ==
  ASSUME TypeOK, NEW j \in Job,
         clock - j.stamp > TtlSeconds * Second,
         j.stamp - SignedAt[j.hash] >= Second
  PROVE  TooOld(j.hash)
<1> DEFINE d == clock - SignedAt[j.hash]
<1>1. /\ clock \in Nat /\ j.stamp \in Nat /\ SignedAt[j.hash] \in Int
      /\ TtlSeconds \in Nat /\ Second \in Nat \ {0} /\ MaxAgeSeconds \in Nat
      /\ MaxAgeSeconds <= TtlSeconds /\ TtlSeconds * Second \in Nat
  BY IngestionAssumption, TtlType DEF TypeOK, Job
<1>2. (TtlSeconds + 1) * Second = TtlSeconds * Second + Second
  BY <1>1
<1>3. d >= (TtlSeconds + 1) * Second
  <2> DEFINE ttl == TtlSeconds * Second
  <2>1. ttl \in Nat /\ clock - j.stamp > ttl
    BY <1>1
  <2> HIDE DEF ttl
  <2>2. d >= ttl + Second
    BY <1>1, <2>1
  <2> QED
    BY <1>2, <2>2 DEF ttl
<1>4. d \in Nat
  <2>1. (TtlSeconds + 1) * Second \in Nat
    BY <1>1
  <2> QED
    BY <1>1, <1>3, <2>1
<1>5. d \div Second > TtlSeconds /\ d \div Second \in Int
  BY <1>1, <1>3, <1>4, DivisionBound
<1>6. AgeSeconds(j.hash) = d \div Second
  BY <1>4 DEF AgeSeconds, TruncDiv
<1> QED
  BY <1>1, <1>5, <1>6 DEF TooOld

\* So the second of two calls for one packet is not let through.
LEMMA SettleOnceStep ==
  ASSUME TypeOK, Locals, SecondComers, SeasonedPacketsSettleOnce, [Next]_vars
  PROVE  SeasonedPacketsSettleOnce'
<1>1. ASSUME NEW t \in Threads, Validate(t), Fresh(Hash(t)),
             NEW a \in admitted, a.hash = Hash(t), a.epoch = job[t].epoch,
             a.stamp - SignedAt[a.hash] >= Second,
             job[t].stamp - SignedAt[Hash(t)] >= Second
      PROVE  FALSE
  <2>1. At(t, "validate") /\ job[t] \in Job /\ a \in Job
    BY <1>1 DEF Validate, Locals, Claiming, TypeOK
  <2>2. \/ clock - a.stamp > TtlSeconds * Second
        \/ clock - job[t].stamp > TtlSeconds * Second
    BY <1>1, <2>1 DEF SecondComers, Outlived
  <2>3. TooOld(Hash(t))
    BY <1>1, <2>1, <2>2, OutlivedIsTooOld
  <2> QED
    BY <1>1, <2>3 DEF Fresh
<1>2. SUFFICES ASSUME NEW a \in admitted', NEW b \in admitted',
                      a.hash = b.hash, a.epoch = b.epoch,
                      a.stamp - SignedAt[a.hash] >= Second,
                      b.stamp - SignedAt[b.hash] >= Second
               PROVE  a = b
  BY DEF SeasonedPacketsSettleOnce
<1>3. CASE a \in admitted /\ b \in admitted
  BY <1>2, <1>3 DEF SeasonedPacketsSettleOnce
<1>4. CASE a \notin admitted /\ b \in admitted
  BY <1>1, <1>2, <1>4, OnlyValidateAdmits
<1>5. CASE a \in admitted /\ b \notin admitted
  BY <1>1, <1>2, <1>5, OnlyValidateAdmits
<1>6. CASE a \notin admitted /\ b \notin admitted
  BY <1>2, <1>6, OnlyValidateAdmits
<1> QED
  BY <1>3, <1>4, <1>5, <1>6

-----------------------------------------------------------------------------
(***************************************************************************)
(* The theorems.                                                           *)
(***************************************************************************)
\* The service as it starts.
LEMMA InitInductive == Init => Inductive
<1> SUFFICES ASSUME Init
             PROVE  Inductive
  OBVIOUS
<1> USE DEF Init, Start
<1>1. TypeOK
  BY NothingSeenType, IngestionAssumption
  DEF TypeOK, Stages, Outcomes
<1>2. Locals
  BY DEF Locals, Claiming
<1>3. ResetsCounted
  <2>1. Clearing = {}
    BY DEF Clearing
  <2> QED
    BY <2>1, FS_EmptySet DEF ResetsCounted
<1> QED
  BY <1>1, <1>2, <1>3
  DEF Inductive, ClaimsStand, AdmissionsStand, SecondComers, NoTwinInFlight,
      SeasonedPacketsSettleOnce

\* Every step of the requests, the resets, the evictor and the clock
\* preserves it.
LEMMA NextInductive == Inductive /\ [Next]_vars => Inductive'
<1> SUFFICES ASSUME Inductive, [Next]_vars
             PROVE  Inductive'
  OBVIOUS
<1>1. TypeOK' /\ ResetsCounted'
  BY TypeStep, ResetsStep DEF Inductive
<1>2. Locals' /\ ClaimsStand' /\ AdmissionsStand'
  BY <1>1, LocalsStep, ClaimsStandStep, AdmissionsStandStep DEF Inductive
<1>3. NoTwinInFlight' /\ SecondComers' /\ SeasonedPacketsSettleOnce'
  BY NoTwinStep, SecondComersStep, SettleOnceStep DEF Inductive
<1> QED
  BY <1>1, <1>2, <1>3 DEF Inductive

\* The inductive invariant of ingest(), its cache and the resets.
THEOREM Invariance == Spec => []Inductive
  BY InitInductive, NextInductive, PTL DEF Spec

\* The cache, the requests' locals and the settle() calls stay in their types.
THEOREM TypeCorrect == Spec => []TypeOK
<1>1. Inductive => TypeOK
  BY DEF Inductive
<1> QED
  BY Invariance, <1>1, PTL

\* The idempotency gate keeps concurrent uploads of one packet apart.
THEOREM GateKeepsTwinsApart == Spec => []NoTwinInFlight
<1>1. Inductive => NoTwinInFlight
  BY DEF Inductive
<1> QED
  BY Invariance, <1>1, PTL

\* evictExpired() and the limit on the age leave no gap between them, because
\* the limit is no more than the time to live.
THEOREM EvictionOpensNoReplay == Spec => []SeasonedPacketsSettleOnce
<1>1. Inductive => SeasonedPacketsSettleOnce
  BY DEF Inductive
<1> QED
  BY Invariance, <1>1, PTL

-----------------------------------------------------------------------------
(***************************************************************************)
(* Ingestion and settle().                                                 *)
(***************************************************************************)
\* Whoever keeps to the contract of settle() has rows with ids up to the last
\* one given out, because only a new row is given one.
RowsNumbered ==
  lastRowId \in Nat /\ \A r \in rows : r.id \in Nat /\ r.id <= lastRowId

\* No two rows share a hash or an id, as long as settle() is called and the
\* tables are wiped the way the contract says.
LEMMA ContractKeepsRowsApart == ContractSpec => []RowsApart
<1>1. Start => RowsNumbered /\ RowsApart
  BY DEF Start, RowsNumbered, RowsApart
<1>2. RowsNumbered /\ RowsApart /\ [Step]_contractVars
        => RowsNumbered' /\ RowsApart'
  <2> SUFFICES ASSUME RowsNumbered, RowsApart, [Step]_contractVars
               PROVE  RowsNumbered' /\ RowsApart'
    OBVIOUS
  <2> USE DEF RowsNumbered, RowsApart
  <2>1. ASSUME NEW t \in Threads, NEW status \in {"SETTLED", "REJECTED"},
               Record(t, status) \/ (Stray(t) /\ status = "SETTLED")
        PROVE  RowsNumbered' /\ RowsApart'
    <3> DEFINE row == [id |-> lastRowId + 1, hash |-> pending[t],
                       status |-> status]
    <3>1. lastRowId' = lastRowId + 1 /\ rows' = rows \cup {row}
      BY <2>1 DEF Record, Stray
    <3>2. \A r \in rows : r.hash # row.hash /\ r.id # row.id
      BY <2>1 DEF Record, Stray
    <3>3. row.id = lastRowId + 1
      OBVIOUS
    <3> HIDE DEF row
    <3> QED
      BY <3>1, <3>2, <3>3
  <2>2. ASSUME NEW t \in Threads,
               \/ \E h \in Packets : Invoke(t, h)
               \/ Refuse(t) \/ Phantom(t, answer'[t].id)
        PROVE  RowsNumbered' /\ RowsApart'
    BY <2>2 DEF Invoke, Refuse, Phantom
  <2>3. CASE Wipe
    BY <2>3 DEF Wipe
  <2>4. CASE UNCHANGED contractVars
    BY <2>4 DEF contractVars
  <2> QED
    BY <2>1, <2>2, <2>3, <2>4 DEF Step
<1> QED
  BY <1>1, <1>2, PTL DEF ContractSpec

\* A step of ingest(), of a reset or of the evictor does to the tables what one
\* call of settle() or of Database::reset() may do, or nothing.
LEMMA StepKeepsToContract == Locals /\ [Next]_vars => [Step]_contractVars
<1> SUFFICES ASSUME Locals, [Next]_vars
             PROVE  Step \/ UNCHANGED contractVars
  OBVIOUS
<1> USE DEF contractVars, settlement, Step
<1>1. ASSUME NEW t \in Threads, Validate(t)
      PROVE  Step \/ UNCHANGED contractVars
  <2>1. CASE \E h \in Packets : Invoke(t, h)
    BY <2>1
  <2>2. CASE UNCHANGED settlement
    BY <2>2
  <2>3. Readable \subseteq Packets
    BY IngestionAssumption
  <2> QED
    BY <1>1, <2>1, <2>2, <2>3 DEF Validate
<1>2. ASSUME NEW t \in Threads, Settle(t)
      PROVE  Step \/ UNCHANGED contractVars
  <2>1. ASSUME Phantom(t, lastRowId + 1)
        PROVE  Phantom(t, answer'[t].id)
    <3>1. answer'[t].id = lastRowId + 1
      BY <2>1 DEF Phantom, Locals
    <3> QED
      BY <2>1, <3>1
  <2> QED
    BY <1>2, <2>1 DEF Settle
<1>3. ASSUME NEW t \in Threads, ResetDb(t)
      PROVE  Step \/ UNCHANGED contractVars
  BY <1>3 DEF ResetDb
<1>4. ASSUME NEW t \in Threads,
             \/ \E h \in Packets : Ingest(t, h)
             \/ Gate(t) \/ ClearCache(t) \/ ResetMesh(t)
      PROVE  UNCHANGED contractVars
  BY <1>4 DEF Ingest, Gate, ClearCache, ResetMesh
<1>5. CASE EvictExpired \/ Tick
  BY <1>5 DEF EvictExpired, Tick
<1>6. CASE UNCHANGED vars
  BY <1>6 DEF vars
<1>7. ASSUME NEW t \in Threads, SettleStrays(t)
      PROVE  Step
  BY <1>7 DEF SettleStrays
<1> QED
  BY <1>1, <1>2, <1>3, <1>4, <1>5, <1>6, <1>7 DEF Next, RequestStep

\* Ingestion uses settle() within its contract: a thread calls it for one
\* packet at a time and waits for the answer.  With SettleHonoursContract, that
\* settle() is what the contract says, the two fit together.
THEOREM KeepsToContract == Spec => ContractSpec
<1>1. Init => Start
  BY DEF Init
<1>2. Inductive => Locals
  BY DEF Inductive
<1> QED
  BY <1>1, <1>2, Invariance, StepKeepsToContract, PTL DEF Spec, ContractSpec
=============================================================================
