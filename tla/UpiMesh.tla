------------------------------- MODULE UpiMesh -------------------------------
(***************************************************************************)
(* The backend as its HTTP handlers put it together (ApiController): the   *)
(* mesh that carries packets to the bridge, meshFlush, which uploads what  *)
(* the bridge holds, ingestion, and meshReset, which clears the mesh, the  *)
(* cache and the database in turn.  Any number of request threads run the  *)
(* handlers at once.  A packet is named by the hash of its ciphertext.     *)
(***************************************************************************)
EXTENDS Integers, FiniteSets

CONSTANTS
  Threads, Packets, NoPacket,
  Devices, Strangers, Ttls, MaxRounds,                          \* Mesh
  Readable, SignedAt, TtlSeconds, Second, MaxAgeSeconds,        \* Ingestion
  SkewSeconds, MayFail, MaxClock, MaxCalls,
  MaxResets,
  Foreign,     \* packets that phones made by themselves, whatever their clock
  Bridge,      \* the one seeded device with internet
  DefaultTtl,  \* ttl of a packet sent without one (5)
  MaxRequests  \* bound on the requests of a run

\* What Mesh and Ingestion assume, and that the bound of Ingestion, MaxCalls,
\* does not cut a flush short.
ASSUME UpiMeshAssumption ==
  /\ Bridge \in Devices /\ Devices \cap Strangers = {}
  /\ Ttls \subseteq Int /\ DefaultTtl \in Nat
  /\ NoPacket \notin Packets /\ MayFail \in BOOLEAN
  /\ Readable \subseteq Packets /\ Foreign \subseteq Packets
  /\ SignedAt \in [Packets -> Int]
  /\ {TtlSeconds, MaxAgeSeconds, SkewSeconds, MaxClock, MaxCalls, MaxRounds,
      MaxResets, MaxRequests} \subseteq Nat
  /\ Second \in Nat \ {0} /\ MaxAgeSeconds <= TtlSeconds
  /\ MaxCalls >= MaxRequests * Cardinality(Packets)

VARIABLES
  held, meshStage, round, injected, rounds, meshResets, clears, gone,
  rows, lastRowId, pending, answer, seen, clock, stage, job, outcome, calls,
  resets, epoch, admitted,
  flush,     \* the locals of each meshFlush(): see NoFlush
  requests,  \* requests so far
  torn,      \* history: packets that were claimed when the database was wiped
  refused,   \* history: packets that ingest() gave up: see GivesUp
  recorded   \* history: the hop count of each row that a flush added

meshVars == <<held, meshStage, round, injected, rounds, meshResets, clears,
              gone>>
ingestVars == <<rows, lastRowId, pending, answer, seen, clock, stage, job,
                outcome, calls, resets, epoch, admitted>>
history == <<torn, refused, recorded>>
vars == <<meshVars, ingestVars, flush, requests, history>>

M == INSTANCE Mesh WITH Ids <- Packets, stage <- meshStage, resets <- meshResets
I == INSTANCE Ingestion

\* What a flush keeps: it is "on"; the copies "todo", as the bridge held them,
\* are still to be uploaded; "hops" is the hop count of the last one uploaded.
\* History: "got" are the packets it collected, and it is "calm" while no reset
\* touches the cache or the database.
Copy == [id: Packets, ttl: Int]
Flush == [on: BOOLEAN, todo: SUBSET Copy, hops: Int, got: SUBSET Packets,
          calm: BOOLEAN]
NoFlush == [on |-> FALSE, todo |-> {}, hops |-> 0, got |-> {}, calm |-> TRUE]

Init ==
  /\ M!Init /\ I!Init
  /\ flush = [t \in Threads |-> NoFlush]
  /\ requests = 0 /\ torn = {} /\ refused = {} /\ recorded = {}

\* Between two calls of a handler, and between two requests.
Returned(t) == meshStage[t] = "idle" /\ stage[t] = "idle"
Free(t) == Returned(t) /\ ~flush[t].on

\* A thread takes the next request.
Accept(t) == Free(t) /\ requests < MaxRequests /\ requests' = requests + 1

-----------------------------------------------------------------------------
\* demoSend: the packet is signed with the time of the request.
DemoSend(t, d, h, ttl) ==
  /\ Accept(t) /\ h \notin Foreign /\ clock = SignedAt[h]
  /\ M!DemoSend(t, d, h, ttl)
  /\ UNCHANGED <<ingestVars, flush, history>>

MeshGossip(t) ==
  /\ Accept(t) /\ M!Gossip(t)
  /\ UNCHANGED <<ingestVars, flush, history>>

\* bridgeIngest: a phone uploads, on its own, a packet that demoSend made (not
\* before it is made: its ciphertext is random) or one of its own.
BridgeIngest(t, h) ==
  /\ Accept(t)
  /\ h \in DOMAIN injected \cup Foreign
  /\ I!Ingest(t, h)
  /\ UNCHANGED <<meshVars, flush, history>>

\* meshReset begins with the devices.
MeshReset(t) ==
  /\ Accept(t)
  /\ M!Reset(t) /\ I!ResetMesh(t)
  /\ UNCHANGED <<flush, history>>

-----------------------------------------------------------------------------
\* Mutant of Collected: the devices without internet upload as well.
CollectedAnywhere ==
  UNION {{[id |-> x, ttl |-> held[d][x]] : x \in DOMAIN held[d]} : d \in Devices}

\* collectBridgeUploads().
Collected == {[id |-> x, ttl |-> held[Bridge][x]] : x \in DOMAIN held[Bridge]}

\* meshFlush begins: all it uploads is what the bridge holds now.
MeshFlush(t) ==
  /\ Accept(t)
  /\ flush' = [flush EXCEPT ![t] = [NoFlush EXCEPT
                 !.on = TRUE, !.todo = Collected, !.got = {c.id : c \in Collected}]]
  /\ UNCHANGED <<meshVars, ingestVars, history>>

\* Mutant of Upload: the loop ends after the first copy.
UploadOnce(t) ==
  /\ flush[t].on /\ Returned(t)
  /\ \E c \in flush[t].todo :
       /\ I!Ingest(t, c.id)
       /\ flush' = [flush EXCEPT ![t].todo = {},
                                 ![t].hops = DefaultTtl - c.ttl]
  /\ UNCHANGED <<meshVars, requests, history>>

\* The next copy goes to ingest(); the one before has been answered.
Upload(t) ==
  /\ flush[t].on /\ Returned(t)
  /\ \E c \in flush[t].todo :
       /\ I!Ingest(t, c.id)
       /\ flush' = [flush EXCEPT ![t].todo = @ \ {c},
                                 ![t].hops = DefaultTtl - c.ttl]
  /\ UNCHANGED <<meshVars, requests, history>>

FlushDone(t) == flush[t].on /\ Returned(t) /\ flush[t].todo = {}

FlushReturns(t) ==
  /\ FlushDone(t)
  /\ flush' = [flush EXCEPT ![t] = NoFlush]
  /\ UNCHANGED <<meshVars, ingestVars, requests, history>>

-----------------------------------------------------------------------------
\* The handler is in one of the mesh's operations.
MeshStep(t) ==
  /\ M!RequestStep(t)
  /\ UNCHANGED <<ingestVars, flush, requests, history>>

\* Mutant of MeshDone: the handler does not wait for resetMesh().
MeshDoneAnyway(t) == stage[t] # "idle"

\* meshReset calls resetMesh() first and the rest when it has returned.
MeshDone(t) == meshStage[t] = "idle"

\* ingest() answers without a row a packet that it has not judged by its date:
\* memory ran out, the packet cannot be read, or settle() added no row.
GivesUp(t) ==
  /\ stage'[t] = "idle" /\ rows' = rows
  /\ \/ stage[t] = "claim" /\ outcome'[t] = "INVALID"
     \/ stage[t] = "validate" /\ I!Fresh(job[t].hash)
     \/ stage[t] = "settle"

\* The handler is in ingest(), or in the cache or the database of a reset.
ServiceStep(t) ==
  /\ MeshDone(t)
  /\ I!RequestStep(t)
  /\ flush' = IF stage[t] \in {"clearCache", "resetDb"}
              THEN [u \in Threads |-> [flush[u] EXCEPT !.calm = ~flush[u].on]]
              ELSE flush
  /\ torn' = CASE stage[t] = "clearCache" -> {}
               [] stage[t] = "resetDb" -> torn \cup DOMAIN seen
               [] OTHER -> torn
  /\ refused' = IF GivesUp(t) THEN refused \cup {job[t].hash} ELSE refused
  /\ recorded' = IF flush[t].on
                 THEN recorded \cup {[hash |-> r.hash, hops |-> flush[t].hops] :
                                       r \in rows' \ rows}
                 ELSE recorded
  /\ UNCHANGED <<meshVars, requests>>

HandlerStep(t) ==
  MeshStep(t) \/ ServiceStep(t) \/ Upload(t) \/ FlushReturns(t)

Background ==
  /\ I!EvictExpired \/ I!Tick
  /\ UNCHANGED <<meshVars, flush, requests, history>>

Next ==
  \/ \E t \in Threads :
       \/ \E d \in Devices \cup Strangers, h \in Packets, ttl \in Ttls :
            DemoSend(t, d, h, ttl)
       \/ \E h \in Packets : BridgeIngest(t, h)
       \/ MeshGossip(t) \/ MeshReset(t) \/ MeshFlush(t)
       \/ HandlerStep(t)
  \/ Background

Spec == Init /\ [][Next]_vars

-----------------------------------------------------------------------------
(***************************************************************************)
(* Properties.                                                             *)
(***************************************************************************)
TypeOK ==
  /\ M!TypeOK /\ I!TypeOK
  /\ flush \in [Threads -> Flush]
  /\ \A t \in Threads : meshStage[t] # "idle" =>
       ~flush[t].on /\ stage[t] = IF meshStage[t] = "clear" THEN "clearCache"
                                                          ELSE "idle"
  /\ requests \in 0..MaxRequests
  /\ torn \subseteq Packets /\ refused \subseteq Packets

\* Packet h is decided: it has a row, or another request is at it, or an
\* ingest() has answered that it failed, or it will never be of use.
Decided(h) ==
  \/ \E r \in rows : r.hash = h
  \/ \E u \in Threads : stage[u] \in {"validate", "settle"} /\ job[u].hash = h
  \/ h \in refused \/ h \notin Readable \/ I!TooOld(h)

\* A flush leaves nothing undone: when it returns, every packet that the
\* bridge held when it began is decided, though uploads of the same packets,
\* gossip, eviction and resets of the mesh went on beside it; except for
\* packets whose row a reset wiped after their claim.
FlushDecides ==
  \A t \in Threads : FlushDone(t) /\ flush[t].calm =>
    \A h \in flush[t].got \ torn : Decided(h)

\* The same without the exception: meshReset leaves the cache and the
\* database in agreement, both without the packets of the past.
ResetLeavesSeedState ==
  \A t \in Threads : FlushDone(t) /\ flush[t].calm =>
    \A h \in flush[t].got : Decided(h)

\* ingest() drops an upload as a duplicate only if its packet is decided, or a
\* reset wiped its row, or else a phone had dated it ahead of the server, by
\* more than the tolerance, when the claim was made that it is dropped for:
\* that claim is kept, and the packet is lost though it is fresh by now.
DatedAheadWhenClaimed(h) ==
  h \in Foreign /\ SignedAt[h] - seen[h] > SkewSeconds * Second

DropsDue ==
  \A t \in Threads :
    stage[t] = "claim" /\ stage'[t] = "idle" /\ outcome'[t] = "DUPLICATE_DROPPED" =>
      LET h == job[t].hash IN
      Decided(h) \/ h \in torn \/ DatedAheadWhenClaimed(h)

OnlyDueAreDropped == [][DropsDue]_vars

\* What meshFlush derives from the ttl is a number of hops, for a packet sent
\* with the default ttl, whatever rounds and resets overlapped: none only if
\* it was sent at the bridge, and never more than its ttl allows.
HopCountsAreHops ==
  \A x \in recorded : injected[x.hash].ttl = DefaultTtl =>
    \/ x.hops \in 1..DefaultTtl
    \/ x.hops = 0 /\ injected[x.hash].start = Bridge
=============================================================================
