----------------------------- MODULE Idempotency -----------------------------
(***************************************************************************)
(* IdempotencyService: the cache of packet hashes that were claimed, each  *)
(* with the time its claimer read before it took the lock.  Every          *)
(* operation runs under the service's mutex and is one step.               *)
(***************************************************************************)
EXTENDS Integers

CONSTANTS TtlSeconds,  \* how long a claim is kept (86400)
          Second       \* milliseconds in a second (1000)

VARIABLE seen          \* from each claimed hash to its time stamp

NothingSeen == [h \in {} |-> 0]

\* The caches of some of the hashes.
Caches(hashes, times) == UNION {[S -> times] : S \in SUBSET hashes}

Claimed == DOMAIN seen

\* claim(): insert() keeps the entry of a hash that is already there; the
\* caller is the first if it was not.
IsFirst(h) == h \notin Claimed
Claim(h, stamp) ==
  seen' = [x \in Claimed \cup {h} |-> IF x \in Claimed THEN seen[x] ELSE stamp]

\* Mutant of Expired: the time to live is taken for milliseconds.
ExpiredInMillis(now) == {h \in Claimed : seen[h] < now - TtlSeconds}

\* One round of evictExpired().
Expired(now) == {h \in Claimed : seen[h] < now - TtlSeconds * Second}
Evict(now) == seen' = [h \in Claimed \ Expired(now) |-> seen[h]]

\* clear().
Clear == seen' = NothingSeen
=============================================================================
