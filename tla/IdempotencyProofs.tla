-------------------------- MODULE IdempotencyProofs --------------------------
(***************************************************************************)
(* What the operations of IdempotencyService return and preserve, for any  *)
(* set of hashes and any times.                                            *)
(***************************************************************************)
EXTENDS Idempotency, TLAPS

\* What it takes to be a cache: some of the hashes mapped to times.
LEMMA CachesIntro ==
  ASSUME NEW hashes, NEW times, NEW S \in SUBSET hashes, NEW f \in [S -> times]
  PROVE  f \in Caches(hashes, times)
  BY DEF Caches

\* What a cache is made of.
LEMMA CachesElim ==
  ASSUME NEW hashes, NEW times, NEW f \in Caches(hashes, times)
  PROVE  /\ DOMAIN f \in SUBSET hashes
         /\ f \in [DOMAIN f -> times]
         /\ \A h \in DOMAIN f : f[h] \in times
<1>1. PICK S \in SUBSET hashes : f \in [S -> times]
  BY DEF Caches
<1> QED
  BY <1>1

\* clear() leaves a cache.
LEMMA NothingSeenType ==
  ASSUME NEW hashes, NEW times
  PROVE  NothingSeen \in Caches(hashes, times)
<1>1. NothingSeen \in [{} -> times]
  BY DEF NothingSeen
<1> QED
  BY <1>1, CachesIntro

\* So does claim().
LEMMA ClaimType ==
  ASSUME NEW hashes, NEW times, seen \in Caches(hashes, times),
         NEW h \in hashes, NEW stamp \in times, Claim(h, stamp)
  PROVE  seen' \in Caches(hashes, times)
<1>1. Claimed \cup {h} \in SUBSET hashes
  BY CachesElim DEF Claimed
<1>2. seen' \in [Claimed \cup {h} -> times]
  BY CachesElim DEF Claim, Claimed
<1> QED
  BY <1>1, <1>2, CachesIntro

\* So does a round of eviction.
LEMMA EvictType ==
  ASSUME NEW hashes, NEW times, seen \in Caches(hashes, times),
         NEW now, Evict(now)
  PROVE  seen' \in Caches(hashes, times)
<1>1. Claimed \ Expired(now) \in SUBSET hashes
  BY CachesElim DEF Claimed
<1>2. seen' \in [Claimed \ Expired(now) -> times]
  BY CachesElim DEF Evict, Claimed
<1> QED
  BY <1>1, <1>2, CachesIntro

\* claim() leaves the time stamp of whoever was first.
LEMMA ClaimKeepsFirst ==
  ASSUME NEW h, NEW stamp, Claim(h, stamp)
  PROVE  /\ Claimed' = Claimed \cup {h}
         /\ \A x \in Claimed : seen'[x] = seen[x]
         /\ IsFirst(h) => seen'[h] = stamp
  BY DEF Claim, Claimed, IsFirst

\* A round of eviction leaves every claim within its time to live.
LEMMA EvictKeepsYoung ==
  ASSUME NEW now \in Int, NEW h \in Claimed, seen[h] \in Int,
         TtlSeconds * Second \in Int,
         now - seen[h] <= TtlSeconds * Second, Evict(now)
  PROVE  h \in Claimed' /\ seen'[h] = seen[h]
<1> DEFINE ttl == TtlSeconds * Second
<1>1. Expired(now) = {x \in Claimed : seen[x] < now - ttl}
  BY DEF Expired
<1> HIDE DEF ttl
<1>2. now - seen[h] <= ttl /\ ttl \in Int
  BY DEF ttl
<1>3. h \notin Expired(now)
  BY <1>1, <1>2
<1> QED
  BY <1>3 DEF Evict, Claimed
=============================================================================
