---------------------------- MODULE EvictorProofs ----------------------------
(***************************************************************************)
(* Proofs about Evictor for any number of request threads, packet hashes   *)
(* and milliseconds: the type invariant, the shutdown of the evictor's     *)
(* thread and the life of a claim.                                         *)
(*                                                                         *)
(* A claim is kept because the evictor only drops what the history of      *)
(* first claims also calls expired; this needs every claimed hash to be in *)
(* that history (Remembered).  At most one wait runs to its end after the  *)
(* stop flag was set because the thread then finds the flag set and never  *)
(* waits again (LastWait).                                                 *)
(***************************************************************************)
EXTENDS Evictor, IdempotencyProofs

\* The time to live in milliseconds is a number.
LEMMA TtlType == TtlSeconds * Second \in Nat
  BY EvictorAssumption

\* A thread inside claim() has a hash and a time stamp.
LEMMA JobType ==
  ASSUME TypeOK, NEW t \in Threads, job[t] # NoJob
  PROVE  job[t].hash \in Hashes /\ job[t].stamp \in 0..MaxClock
  BY DEF TypeOK

-----------------------------------------------------------------------------
(***************************************************************************)
(* The invariants the properties rest on.                                  *)
(***************************************************************************)
\* Every claimed hash is in the history of first claims.
Remembered == Claimed \subseteq DOMAIN kept

\* A wait that ran to its end after the flag was set was the last one.
LastWait ==
  /\ ~stopFlag => timeouts = 0
  /\ timeouts > 0 => evictor \in {"timedOut", "recheck", "done"}

Inductive ==
  /\ TypeOK
  /\ OneTimeoutAtMost /\ LastWait
  /\ ClaimsAreKept /\ Remembered

-----------------------------------------------------------------------------
(***************************************************************************)
(* One lemma per part of Inductive, one step per action.                   *)
(***************************************************************************)
USE DEF Claimed, IsFirst, Move, Quiet, StopRequested

\* Every step keeps the types.  The history must know each claimed hash, or
\* a claim that is not the first would read it where it has no entry.
LEMMA TypeStep ==
  ASSUME TypeOK, Remembered, [Next]_vars
  PROVE  TypeOK'
<1> USE DEF TypeOK, EvictorStages, Holding, OwnerStages
<1>1. CASE Test \/ Lock \/ Predicate \/ Block \/ Spurious \/ Recheck
  <2>1. CASE Test
    BY <2>1 DEF Test
  <2>2. CASE Lock
    BY <2>2 DEF Lock
  <2>3. CASE Predicate
    BY <2>3 DEF Predicate
  <2>4. CASE Block
    BY <2>4 DEF Block
  <2>5. CASE Spurious
    BY <2>5 DEF Spurious
  <2>6. CASE Recheck
    BY <2>6 DEF Recheck
  <2> QED
    BY <1>1, <2>1, <2>2, <2>3, <2>4, <2>5, <2>6
<1>2. CASE Timeout
  BY <1>2 DEF Timeout
<1>3. CASE Sweep
  <2>1. seen' \in Caches(Hashes, 0..MaxClock)
    BY <1>3, EvictType DEF Sweep
  <2> QED
    BY <1>3, <2>1 DEF Sweep
<1>4. ASSUME NEW t \in Threads, NEW h \in Hashes, EnterClaim(t, h)
      PROVE  TypeOK'
  <2>1. [hash |-> h, stamp |-> clock] \in [hash: Hashes, stamp: 0..MaxClock]
    OBVIOUS
  <2> QED
    BY <1>4, <2>1 DEF EnterClaim
<1>5. ASSUME NEW t \in Threads, LeaveClaim(t)
      PROVE  TypeOK'
  <2>1. job[t].hash \in Hashes /\ job[t].stamp \in 0..MaxClock
    BY <1>5, JobType DEF LeaveClaim
  <2>2. seen' \in Caches(Hashes, 0..MaxClock)
    BY <1>5, <2>1, ClaimType DEF LeaveClaim
  <2>3. kept' \in [DOMAIN kept \cup {job[t].hash} -> 0..MaxClock]
    BY <1>5, <2>1, CachesElim DEF LeaveClaim, Remembered
  <2>4. kept' \in Caches(Hashes, 0..MaxClock)
    <3>1. DOMAIN kept \cup {job[t].hash} \in SUBSET Hashes
      BY <2>1, CachesElim
    <3> QED
      BY <2>3, <3>1, CachesIntro
  <2> QED
    BY <1>5, <2>2, <2>4 DEF LeaveClaim
<1>6. CASE ClearAll
  BY <1>6, NothingSeenType DEF ClearAll, Clear
<1>7. CASE SetStopFlag \/ OwnerStep
  <2>1. CASE SetStopFlag
    BY <2>1 DEF SetStopFlag
  <2>2. CASE NotifyAll
    BY <2>2 DEF NotifyAll
  <2>3. CASE Join
    BY <2>3 DEF Join
  <2> QED
    BY <1>7, <2>1, <2>2, <2>3 DEF OwnerStep
<1>8. CASE Tick
  BY <1>8, EvictorAssumption DEF Tick
<1>9. CASE Exited \/ UNCHANGED vars
  BY <1>9 DEF Exited, vars
<1> QED
  BY <1>1, <1>2, <1>3, <1>4, <1>5, <1>6, <1>7, <1>8, <1>9
  DEF Next, EvictorStep

\* The thread that comes out of a wait with the flag set tests it under the
\* mutex and ends, and a notification only moves a thread that waits.
LEMMA LastWaitStep ==
  ASSUME TypeOK, LastWait, OneTimeoutAtMost, [Next]_vars
  PROVE  LastWait' /\ OneTimeoutAtMost'
<1> USE DEF TypeOK, LastWait, OneTimeoutAtMost
<1>1. CASE Test \/ Lock \/ Predicate \/ Block \/ Spurious \/ Recheck \/ Sweep
  BY <1>1 DEF Test, Lock, Predicate, Block, Spurious, Recheck, Sweep
<1>2. CASE Timeout
  <2>1. timeouts = 0
    BY <1>2 DEF Timeout
  <2> QED
    BY <1>2, <2>1 DEF Timeout
<1>3. CASE \E t \in Threads : LeaveClaim(t) \/ \E h \in Hashes : EnterClaim(t, h)
  BY <1>3 DEF LeaveClaim, EnterClaim
<1>4. CASE ClearAll \/ Tick \/ Exited \/ UNCHANGED vars
  BY <1>4 DEF ClearAll, Tick, Exited, vars
<1>5. CASE SetStopFlag \/ OwnerStep
  BY <1>5 DEF SetStopFlag, OwnerStep, NotifyAll, Join
<1> QED
  BY <1>1, <1>2, <1>3, <1>4, <1>5 DEF Next, EvictorStep

\* A hash enters the cache and the history together, and leaves the history
\* only when everything is cleared.
LEMMA RememberedStep ==
  ASSUME Remembered, [Next]_vars
  PROVE  Remembered'
<1> USE DEF Remembered
<1>1. CASE Test \/ Lock \/ Predicate \/ Block \/ Spurious \/ Timeout \/ Recheck
  BY <1>1 DEF Test, Lock, Predicate, Block, Spurious, Timeout, Recheck
<1>2. CASE Sweep
  BY <1>2 DEF Sweep, Evict
<1>3. ASSUME NEW t \in Threads, LeaveClaim(t)
      PROVE  Remembered'
  BY <1>3 DEF LeaveClaim, Claim
<1>4. ASSUME NEW t \in Threads, NEW h \in Hashes, EnterClaim(t, h)
      PROVE  Remembered'
  BY <1>4 DEF EnterClaim
<1>5. CASE ClearAll
  BY <1>5 DEF ClearAll, Clear, NothingSeen
<1>6. CASE SetStopFlag \/ OwnerStep
  BY <1>6 DEF SetStopFlag, OwnerStep, NotifyAll, Join
<1>7. CASE Tick \/ Exited \/ UNCHANGED vars
  BY <1>7 DEF Tick, Exited, vars
<1> QED
  BY <1>1, <1>2, <1>3, <1>4, <1>5, <1>6, <1>7 DEF Next, EvictorStep

\* A sweep drops only claims that are too old by the very clock it reads, a
\* claim that is not the first leaves the stamp of the first, and time only
\* makes claims older.
LEMMA KeptStep ==
  ASSUME TypeOK, Remembered, ClaimsAreKept, [Next]_vars
  PROVE  ClaimsAreKept'
<1> DEFINE Ttl == TtlSeconds * Second
<1>0. /\ Ttl \in Nat /\ clock \in Int
      /\ \A h \in DOMAIN kept : kept[h] \in Int
  <2>1. kept \in Caches(Hashes, 0..MaxClock) /\ clock \in 0..MaxClock
    BY DEF TypeOK
  <2>2. \A h \in DOMAIN kept : kept[h] \in 0..MaxClock
    BY <2>1, CachesElim
  <2> QED
    BY <2>1, <2>2, TtlType
<1>1. \A h \in DOMAIN kept :
        clock - kept[h] <= Ttl => h \in DOMAIN seen /\ seen[h] = kept[h]
  BY DEF ClaimsAreKept
<1>2. SUFFICES \A h \in DOMAIN kept' :
                 clock' - kept'[h] <= Ttl =>
                   h \in DOMAIN seen' /\ seen'[h] = kept'[h]
  BY DEF ClaimsAreKept
<1>3. Expired(clock) = {h \in DOMAIN seen : seen[h] < clock - Ttl}
  BY DEF Expired
<1> HIDE DEF Ttl
<1>4. CASE Sweep
  <2>1. SUFFICES ASSUME NEW h \in DOMAIN kept, clock - kept[h] <= Ttl
                 PROVE  h \in DOMAIN seen' /\ seen'[h] = kept[h]
    BY <1>4 DEF Sweep
  <2>2. h \in DOMAIN seen /\ seen[h] = kept[h] /\ h \notin Expired(clock)
    BY <1>0, <1>1, <1>3, <2>1
  <2> QED
    BY <1>4, <2>2 DEF Sweep, Evict
<1>5. ASSUME NEW t \in Threads, LeaveClaim(t)
      PROVE  \A h \in DOMAIN kept' :
                clock' - kept'[h] <= Ttl =>
                  h \in DOMAIN seen' /\ seen'[h] = kept'[h]
  <2> DEFINE hash == job[t].hash
             stamp == job[t].stamp
  <2>1. /\ clock' = clock
        /\ DOMAIN seen' = DOMAIN seen \cup {hash}
        /\ DOMAIN kept' = DOMAIN kept \cup {hash}
        /\ \A h \in DOMAIN seen' :
             seen'[h] = IF h \in DOMAIN seen THEN seen[h] ELSE stamp
        /\ \A h \in DOMAIN kept' :
             kept'[h] = IF h = hash /\ h \notin DOMAIN seen THEN stamp
                                                            ELSE kept[h]
    BY <1>5 DEF LeaveClaim, Claim
  <2>2. hash \in DOMAIN seen => hash \in DOMAIN kept
    BY DEF Remembered
  <2> HIDE DEF hash, stamp
  <2> QED
    BY <1>1, <2>1, <2>2
<1>6. CASE ClearAll
  BY <1>6 DEF ClearAll, Clear, NothingSeen
<1>7. CASE Tick
  BY <1>0, <1>1, <1>7 DEF Tick
<1>8. CASE UNCHANGED <<seen, kept, clock>>
  BY <1>1, <1>8
<1> QED
  BY <1>4, <1>5, <1>6, <1>7, <1>8
  DEF Next, EvictorStep, OwnerStep, Test, Lock, Predicate, Block, Spurious,
      Timeout, Recheck, EnterClaim, SetStopFlag, NotifyAll, Join, Exited, vars

-----------------------------------------------------------------------------
(***************************************************************************)
(* The theorems.                                                           *)
(***************************************************************************)
\* The service as its constructor leaves it.
LEMMA InitInductive == Init => Inductive
<1>1. Init => TypeOK
  <2>1. ASSUME Init
        PROVE  job \in [Threads -> [hash: Hashes, stamp: 0..MaxClock] \cup {NoJob}]
    BY <2>1 DEF Init
  <2>2. ASSUME Init
        PROVE  clock \in 0..MaxClock /\ timeouts \in Nat
    BY <2>2, EvictorAssumption DEF Init
  <2> QED
    BY <2>1, <2>2, NothingSeenType
    DEF Init, TypeOK, EvictorStages, Holding, OwnerStages
<1> QED
  BY <1>1
  DEF Init, Inductive, OneTimeoutAtMost, LastWait,
      ClaimsAreKept, Remembered, NothingSeen

\* Every step of the evictor, the owner and the requests preserves it.
LEMMA NextInductive == Inductive /\ [Next]_vars => Inductive'
  BY TypeStep, LastWaitStep, RememberedStep, KeptStep
  DEF Inductive

\* The inductive invariant of the eviction thread and its shutdown.
THEOREM Invariance == Spec => []Inductive
  BY InitInductive, NextInductive, PTL DEF Spec

\* The variables of the service stay in their types; the mutex is held
\* exactly where wait_for() and the sweep hold it.
THEOREM TypeCorrect == Spec => []TypeOK
<1>1. Inductive => TypeOK
  BY DEF Inductive
<1> QED
  BY Invariance, <1>1, PTL

\* A notification lost between the test of stopFlag_ and the wait costs one
\* wait of 60 seconds and no second one.
THEOREM LostNotificationCostsOneWait == Spec => []OneTimeoutAtMost
<1>1. Inductive => OneTimeoutAtMost
  BY DEF Inductive
<1> QED
  BY Invariance, <1>1, PTL

\* evictExpired() never drops a claim within its time to live.
THEOREM ClaimsLive == Spec => []ClaimsAreKept
<1>1. Inductive => ClaimsAreKept
  BY DEF Inductive
<1> QED
  BY Invariance, <1>1, PTL
=============================================================================
