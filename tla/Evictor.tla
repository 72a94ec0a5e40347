------------------------------- MODULE Evictor -------------------------------
(***************************************************************************)
(* The thread of IdempotencyService that evicts old claims, at the level   *)
(* of its mutex and condition variable, beside requests that claim and     *)
(* the destructor that stops it.                                           *)
(*                                                                         *)
(* wait_for() with a predicate tests it, blocks until it is notified,      *)
(* times out or wakes up for no reason, takes the mutex again and tests    *)
(* again.  The destructor sets the stop flag without the mutex, so that    *)
(* its notification can fall between the test and the block.               *)
(***************************************************************************)
EXTENDS Idempotency

CONSTANTS
  Threads,    \* request threads
  Hashes,     \* packet hashes
  NoHash,     \* of a thread outside claim()
  MaxClock    \* bound on the time of a run

ASSUME EvictorAssumption ==
  /\ TtlSeconds \in Nat /\ Second \in Nat \ {0} /\ MaxClock \in Nat
  /\ NoHash \notin Hashes

VARIABLES
  clock,      \* system_clock::now() in milliseconds, never set back
  evictor,    \* where the evictor thread is
  mutex,      \* mutex_ is held, by the evictor: others hold it for one step
  stopFlag,   \* stopFlag_
  owner,      \* where the program is with the destructor
  job,        \* the hash and the time stamp each thread is claiming
  kept,       \* history: when each hash was first claimed, until a clear()
  timeouts    \* history: waits that ran to their end since stopFlag was set

vars == <<seen, clock, evictor, mutex, stopFlag, owner, job, kept, timeouts>>

EvictorStages == {"test", "lock", "predicate", "block", "wait", "woken",
                  "timedOut", "recheck", "sweep", "done"}
Holding == {"predicate", "block", "recheck", "sweep"}
OwnerStages == {"serving", "notify", "join", "destroyed"}
NoJob == [hash |-> NoHash, stamp |-> 0]

\* The constructor starts the thread.
Init ==
  /\ seen = NothingSeen /\ kept = NothingSeen
  /\ clock = 0
  /\ evictor = "test" /\ mutex = FALSE
  /\ stopFlag = FALSE /\ owner = "serving"
  /\ job = [t \in Threads |-> NoJob]
  /\ timeouts = 0

-----------------------------------------------------------------------------
\* Mutant of StopRequested: the flag is read once, before the loop.
StopUnnoticed == FALSE

StopRequested == stopFlag

\* Steps of the evictor that only move it along.
Move(from, to) == evictor = from /\ evictor' = to
Quiet == UNCHANGED <<seen, clock, stopFlag, owner, job, kept, timeouts>>

\* while (!stopFlag_.load()).
Test ==
  /\ Move("test", IF StopRequested THEN "done" ELSE "lock")
  /\ Quiet /\ UNCHANGED mutex

\* The mutex is taken: at first, and by wait_for() after it was notified or
\* ran out of time.
Lock ==
  /\ ~mutex /\ mutex' = TRUE
  /\ \/ Move("lock", "predicate")
     \/ Move("woken", "predicate")
     \/ Move("timedOut", "recheck")
  /\ Quiet

\* The predicate is tested under the mutex.  If it holds, wait_for() returns
\* true and the loop is left, which gives the mutex back.
Predicate ==
  /\ \/ StopRequested /\ Move("predicate", "done") /\ mutex' = FALSE
     \/ ~StopRequested /\ Move("predicate", "block") /\ UNCHANGED mutex
  /\ Quiet

\* Mutant of Block: the thread sleeps with the mutex in its hands.
BlockHolding ==
  /\ Move("block", "wait")
  /\ Quiet /\ UNCHANGED mutex

\* In one step the mutex is released and the thread waits for notifications.
Block ==
  /\ Move("block", "wait") /\ mutex' = FALSE
  /\ Quiet

\* A wake-up for no reason.
Spurious ==
  /\ Move("wait", "woken")
  /\ Quiet /\ UNCHANGED mutex

\* Mutant of Timeout: wait() instead of wait_for().
TimeoutNever ==
  /\ FALSE
  /\ UNCHANGED vars

\* The 60 seconds are over.
Timeout ==
  /\ Move("wait", "timedOut")
  /\ timeouts' = IF stopFlag THEN timeouts + 1 ELSE timeouts
  /\ UNCHANGED <<seen, clock, mutex, stopFlag, owner, job, kept>>

\* After the time is up wait_for() returns what the predicate says then.
Recheck ==
  /\ \/ StopRequested /\ Move("recheck", "done") /\ mutex' = FALSE
     \/ ~StopRequested /\ Move("recheck", "sweep") /\ UNCHANGED mutex
  /\ Quiet

\* The round of eviction, still under the mutex.
Sweep ==
  /\ Move("sweep", "test") /\ mutex' = FALSE
  /\ Evict(clock)
  /\ UNCHANGED <<clock, stopFlag, owner, job, kept, timeouts>>

EvictorStep ==
  Test \/ Lock \/ Predicate \/ Block \/ Timeout \/ Recheck \/ Sweep

-----------------------------------------------------------------------------
\* claim() reads the clock, and takes the mutex in another step.
EnterClaim(t, h) ==
  /\ owner = "serving" /\ job[t] = NoJob
  /\ job' = [job EXCEPT ![t] = [hash |-> h, stamp |-> clock]]
  /\ UNCHANGED <<seen, clock, evictor, mutex, stopFlag, owner, kept, timeouts>>

LeaveClaim(t) ==
  /\ job[t] # NoJob /\ ~mutex
  /\ Claim(job[t].hash, job[t].stamp)
  /\ kept' = [h \in DOMAIN kept \cup {job[t].hash} |->
                IF h = job[t].hash /\ IsFirst(h) THEN job[t].stamp ELSE kept[h]]
  /\ job' = [job EXCEPT ![t] = NoJob]
  /\ UNCHANGED <<clock, evictor, mutex, stopFlag, owner, timeouts>>

ClearAll ==
  /\ owner = "serving" /\ ~mutex
  /\ Clear /\ kept' = NothingSeen
  /\ UNCHANGED <<clock, evictor, mutex, stopFlag, owner, job, timeouts>>

-----------------------------------------------------------------------------
\* The destructor, in AppContext's, after the server's threads have ended.
SetStopFlag ==
  /\ owner = "serving" /\ \A t \in Threads : job[t] = NoJob
  /\ stopFlag' = TRUE /\ owner' = "notify"
  /\ UNCHANGED <<seen, clock, evictor, mutex, job, kept, timeouts>>

\* notify_all() reaches the evictor only if it is waiting.
NotifyAll ==
  /\ owner = "notify" /\ owner' = "join"
  /\ evictor' = IF evictor = "wait" THEN "woken" ELSE evictor
  /\ UNCHANGED <<seen, clock, mutex, stopFlag, job, kept, timeouts>>

\* join() returns when the thread has ended; then the members are destroyed.
Join ==
  /\ owner = "join" /\ evictor = "done" /\ owner' = "destroyed"
  /\ UNCHANGED <<seen, clock, evictor, mutex, stopFlag, job, kept, timeouts>>

OwnerStep == NotifyAll \/ Join

Tick ==
  /\ clock < MaxClock /\ clock' = clock + 1
  /\ UNCHANGED <<seen, evictor, mutex, stopFlag, owner, job, kept, timeouts>>

\* The process exits; this is no deadlock.
Exited == owner = "destroyed" /\ UNCHANGED vars

Next ==
  \/ EvictorStep \/ Spurious
  \/ \E t \in Threads : LeaveClaim(t) \/ \E h \in Hashes : EnterClaim(t, h)
  \/ ClearAll
  \/ SetStopFlag \/ OwnerStep
  \/ Tick \/ Exited

\* The threads run and a wait ends with its time; when the server stops, and
\* whether a thread wakes up for no reason, is open.
Spec == Init /\ [][Next]_vars /\ WF_vars(EvictorStep) /\ WF_vars(OwnerStep)

-----------------------------------------------------------------------------
(***************************************************************************)
(* Properties.                                                             *)
(***************************************************************************)
TypeOK ==
  /\ seen \in Caches(Hashes, 0..MaxClock)
  /\ kept \in Caches(Hashes, 0..MaxClock)
  /\ clock \in 0..MaxClock
  /\ evictor \in EvictorStages /\ owner \in OwnerStages
  /\ mutex \in BOOLEAN /\ (mutex <=> evictor \in Holding)
  /\ stopFlag \in BOOLEAN /\ (stopFlag <=> owner # "serving")
  /\ job \in [Threads -> [hash: Hashes, stamp: 0..MaxClock] \cup {NoJob}]
  /\ timeouts \in Nat

\* A notification that falls between the test of the flag and the wait is
\* lost, but costs no more than the rest of one wait: at most one wait runs
\* to its end after the flag was set.
OneTimeoutAtMost == timeouts <= 1

\* A claim is in the cache for its whole time to live after the stamp of the
\* first to claim it, however stale that stamp was when it was stored and
\* whenever the evictor woke up.
ClaimsAreKept ==
  \A h \in DOMAIN kept :
    clock - kept[h] <= TtlSeconds * Second => h \in Claimed /\ seen[h] = kept[h]

\* The destructor returns, lost notification or not.
DestructorReturns == stopFlag ~> owner = "destroyed"
=============================================================================
