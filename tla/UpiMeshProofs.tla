---------------------------- MODULE UpiMeshProofs ----------------------------
(***************************************************************************)
(* Proofs about UpiMesh for any number of threads, devices, packets and    *)
(* requests.                                                               *)
(*                                                                         *)
(* Every run of UpiMesh is a run of Mesh and a run of Ingestion, so what   *)
(* is proved of the two holds in it (RunsMesh, RunsIngestion).  The rest   *)
(* is about their meeting: only packets that were sent are in a flush, the *)
(* hop count travels with the upload it belongs to, and a packet in the    *)
(* cache is decided, or was torn from its row, or was dated ahead (Due).   *)
(***************************************************************************)
EXTENDS UpiMesh, TLAPS

MP == INSTANCE MeshProofs
        WITH Ids <- Packets, stage <- meshStage, resets <- meshResets
IP == INSTANCE IngestionProofs

Sent == DOMAIN injected
Uploading(t) == stage[t] \in {"claim", "validate", "settle"}

(***************************************************************************)
(* The invariants the properties rest on.                                  *)
(***************************************************************************)
FlushTyped == flush \in [Threads -> Flush]

\* A thread is in one handler at a time; the rest of TypeOK.
Handlers ==
  /\ \A t \in Threads : meshStage[t] # "idle" =>
       ~flush[t].on /\ stage[t] = IF meshStage[t] = "clear" THEN "clearCache"
                                                          ELSE "idle"
  /\ requests \in 0..MaxRequests
  /\ torn \subseteq Packets /\ refused \subseteq Packets

\* Only packets that demoSend sent, which are not dated ahead, are in a flush,
\* and only those and foreign packets are uploaded.
OnlySent ==
  /\ \A h \in Sent : SignedAt[h] <= clock /\ h \notin Foreign
  /\ DOMAIN seen \subseteq Sent \cup Foreign
  /\ \A t \in Threads :
       /\ Uploading(t) => job[t].hash \in Sent \cup Foreign
       /\ Uploading(t) /\ flush[t].on => job[t].hash \in Sent
       /\ flush[t].got \subseteq Sent
       /\ \A c \in flush[t].todo : c.id \in flush[t].got
  /\ \A x \in recorded : x.hash \in Sent

\* n is a hop count of packet h, if that has the default ttl.
Hops(h, n) ==
  injected[h].ttl = DefaultTtl =>
    n \in 1..DefaultTtl \/ (n = 0 /\ injected[h].start = Bridge)

\* So is what a flush will make of its copies, and has made of the one that
\* is being ingested.
HopsAhead ==
  \A t \in Threads :
    /\ \A c \in flush[t].todo : Hops(c.id, DefaultTtl - c.ttl)
    /\ flush[t].on /\ Uploading(t) => Hops(job[t].hash, flush[t].hops)

\* A packet that was claimed is decided, or its row was wiped after that, or a
\* phone had dated it ahead.
Due(h) == Decided(h) \/ h \in torn
ClaimsAreDue == \A h \in DOMAIN seen : Due(h) \/ DatedAheadWhenClaimed(h)

\* A claim was made in the past.
ClaimsArePast == \A h \in DOMAIN seen : seen[h] \in Nat /\ seen[h] <= clock

\* What a flush collected is still to be uploaded, is being uploaded or is due.
FlushGoesOn ==
  \A t \in Threads : flush[t].on /\ flush[t].calm =>
    \A h \in flush[t].got :
      \/ \E c \in flush[t].todo : c.id = h
      \/ stage[t] = "claim" /\ job[t].hash = h
      \/ Due(h)

Inductive ==
  /\ FlushTyped /\ Handlers /\ OnlySent /\ HopsAhead /\ HopCountsAreHops
  /\ ClaimsArePast /\ ClaimsAreDue /\ FlushGoesOn

-----------------------------------------------------------------------------
(***************************************************************************)
(* A run of UpiMesh is a run of its parts.                                 *)
(***************************************************************************)
\* The parts as UpiMesh and as the proofs about them see them.
LEMMA SameMesh ==
  /\ M!Init <=> MP!Init
  /\ M!Next <=> MP!Next
  /\ M!TypeOK <=> MP!TypeOK
  BY
  DEF M!TypeOK, MP!TypeOK, M!Init, MP!Init, M!Next, MP!Next, M!vars,
      MP!vars, M!NothingHeld, MP!NothingHeld, M!NoRound, MP!NoRound,
      M!Stages, MP!Stages, M!Round, MP!Round, M!Transfer, MP!Transfer,
      M!Sent, MP!Sent, M!DemoSend, MP!DemoSend, M!Gossip, MP!Gossip,
      M!Reset, MP!Reset, M!RequestStep, MP!RequestStep, M!Snapshot,
      MP!Snapshot, M!Check, MP!Check, M!Deliver, MP!Deliver, M!Finish,
      MP!Finish, M!ClearDevice, MP!ClearDevice, M!At, MP!At, M!Goto,
      MP!Goto, M!Hold, MP!Hold, M!Holds, MP!Holds, M!Offers,
      MP!Offers, M!Gossiping, MP!Gossiping, M!Inject, MP!Inject

LEMMA SameIngestion ==
  /\ I!Init <=> IP!Init
  /\ I!Next <=> IP!Next
  /\ I!TypeOK <=> IP!TypeOK
  BY
  DEF I!TypeOK, IP!TypeOK, I!Init, IP!Init, I!Next, IP!Next, I!vars,
      IP!vars, I!settlement, IP!settlement, I!history, IP!history,
      I!Job, IP!Job, I!NoJob, IP!NoJob, I!Stages, IP!Stages,
      I!Outcomes, IP!Outcomes, I!At, IP!At, I!Goto, IP!Goto, I!Hash,
      IP!Hash, I!Return, IP!Return, I!TruncDiv, IP!TruncDiv,
      I!AgeSeconds, IP!AgeSeconds, I!TooOld, IP!TooOld, I!FutureDated,
      IP!FutureDated, I!Fresh, IP!Fresh, I!Ingest, IP!Ingest, I!Gate,
      IP!Gate, I!Validate, IP!Validate, I!Settle, IP!Settle,
      I!ResetMesh, IP!ResetMesh, I!ClearCache, IP!ClearCache,
      I!ResetDb, IP!ResetDb, I!EvictExpired, IP!EvictExpired, I!Tick,
      IP!Tick, I!RequestStep, IP!RequestStep, I!Start, IP!Start,
      I!Invoke, IP!Invoke, I!Record, IP!Record, I!Refuse, IP!Refuse,
      I!Stray, IP!Stray, I!Phantom, IP!Phantom, I!SettleStrays,
      IP!SettleStrays, I!Wipe, IP!Wipe, I!Unanswered, IP!Unanswered, I!Invalid,
      IP!Invalid, I!NothingSeen, IP!NothingSeen, I!Caches, IP!Caches,
      I!Claimed, IP!Claimed, I!IsFirst, IP!IsFirst, I!Claim, IP!Claim,
      I!Expired, IP!Expired, I!Evict, IP!Evict, I!Clear, IP!Clear

\* Every step of a handler is one step of the mesh at most.
LEMMA StepsMesh ==
  ASSUME [Next]_vars
  PROVE  M!Next \/ UNCHANGED meshVars
<1> USE DEF M!Next, meshVars
<1>1. ASSUME NEW t \in Threads, NEW d \in Devices \cup Strangers,
             NEW h \in Packets, NEW ttl \in Ttls, DemoSend(t, d, h, ttl)
      PROVE  M!Next
  BY <1>1 DEF DemoSend
<1>2. ASSUME NEW t \in Threads, MeshGossip(t) \/ MeshReset(t) \/ MeshStep(t)
      PROVE  M!Next
  BY <1>2 DEF MeshGossip, MeshReset, MeshStep
<1>3. ASSUME NEW t \in Threads,
             \/ \E h \in Packets : BridgeIngest(t, h)
             \/ MeshFlush(t) \/ ServiceStep(t) \/ Upload(t) \/ FlushReturns(t)
      PROVE  UNCHANGED meshVars
  BY <1>3 DEF BridgeIngest, MeshFlush, ServiceStep, Upload, FlushReturns
<1>4. CASE Background \/ UNCHANGED vars
  BY <1>4 DEF Background, vars
<1> QED
  BY <1>1, <1>2, <1>3, <1>4 DEF Next, HandlerStep

\* And one of ingestion at most.
LEMMA StepsIngestion ==
  ASSUME FlushTyped, [Next]_vars
  PROVE  I!Next \/ UNCHANGED ingestVars
<1> USE DEF I!Next, ingestVars
<1>1. ASSUME NEW t \in Threads, NEW h \in Packets, BridgeIngest(t, h)
      PROVE  I!Next
  BY <1>1 DEF BridgeIngest
<1>2. ASSUME NEW t \in Threads, Upload(t)
      PROVE  I!Next
  BY <1>2 DEF Upload, FlushTyped, Flush, Copy
<1>3. ASSUME NEW t \in Threads, MeshReset(t) \/ ServiceStep(t)
      PROVE  I!Next
  BY <1>3 DEF MeshReset, ServiceStep
<1>4. ASSUME NEW t \in Threads,
             \/ \E d \in Devices \cup Strangers, h \in Packets, ttl \in Ttls :
                  DemoSend(t, d, h, ttl)
             \/ MeshGossip(t) \/ MeshFlush(t) \/ MeshStep(t) \/ FlushReturns(t)
      PROVE  UNCHANGED ingestVars
  BY <1>4 DEF DemoSend, MeshGossip, MeshFlush, MeshStep, FlushReturns
<1>5. CASE Background
  BY <1>5 DEF Background
<1>6. CASE UNCHANGED vars
  BY <1>6 DEF vars
<1> QED
  BY <1>1, <1>2, <1>3, <1>4, <1>5, <1>6 DEF Next, HandlerStep

\* The mesh of UpiMesh is Mesh, and what is proved of that holds of it.
THEOREM RunsMesh == Spec => M!Spec
<1>1. Init => M!Init
  BY DEF Init
<1>2. [Next]_vars => [M!Next]_(M!vars)
  BY StepsMesh DEF M!vars, meshVars
<1> QED
  BY <1>1, <1>2, PTL DEF Spec, M!Spec

LEMMA MeshInvariant == Spec => []MP!Inductive
<1>1. Init => MP!Init
  BY SameMesh DEF Init
<1>2. [Next]_vars => [MP!Next]_(MP!vars)
  BY StepsMesh, SameMesh DEF MP!vars, meshVars
<1>3. MP!Spec => []MP!Inductive
  BY MP!Invariance, UpiMeshAssumption
<1> QED
  BY <1>1, <1>2, <1>3, PTL DEF Spec, MP!Spec

\* What the bridge holds was sent, and its ttl tells its hops.
LEMMA CollectedWasSent ==
  ASSUME MP!Inductive, NEW c \in Collected
  PROVE  c \in Copy /\ c.id \in Sent /\ Hops(c.id, DefaultTtl - c.ttl)
<1>1. PICK h \in DOMAIN held[Bridge] : c = [id |-> h, ttl |-> held[Bridge][h]]
  BY DEF Collected
<1>2. /\ h \in Sent /\ h \in Packets /\ held[Bridge][h] \in Int
      /\ injected[h].ttl \in Int
      /\ \/ held[Bridge][h] = injected[h].ttl /\ Bridge = injected[h].start
         \/ held[Bridge][h] \in 0..(injected[h].ttl - 1)
  BY UpiMeshAssumption DEF MP!Inductive, MP!TypeOK, MP!TtlIsSpent, MP!Sent, Sent
<1> QED
  BY <1>1, <1>2, UpiMeshAssumption DEF Copy, Hops

\* The locals of the flushes keep their types.
LEMMA FlushTypedStep ==
  ASSUME MP!Inductive, FlushTyped, [Next]_vars
  PROVE  FlushTyped'
<1>1. NoFlush \in Flush
  BY DEF NoFlush, Flush
<1>2. ASSUME NEW t \in Threads, MeshFlush(t)
      PROVE  FlushTyped'
  <2>1. Collected \subseteq Copy /\ {c.id : c \in Collected} \subseteq Packets
    BY CollectedWasSent DEF Copy
  <2> DEFINE got == {c.id : c \in Collected}
  <2>2. flush' = [flush EXCEPT ![t] = [NoFlush EXCEPT
                   !.on = TRUE, !.todo = Collected, !.got = got]]
    BY <1>2 DEF MeshFlush
  <2> HIDE DEF got
  <2>3. [NoFlush EXCEPT !.on = TRUE, !.todo = Collected, !.got = got] \in Flush
    BY <1>1, <2>1 DEF Flush, got
  <2> QED
    BY <2>2, <2>3 DEF FlushTyped
<1>3. ASSUME NEW t \in Threads, Upload(t)
      PROVE  FlushTyped'
  <2>1. PICK c \in flush[t].todo :
          flush' = [flush EXCEPT ![t].todo = @ \ {c},
                                 ![t].hops = DefaultTtl - c.ttl]
    BY <1>3 DEF Upload
  <2>2. c.ttl \in Int /\ DefaultTtl - c.ttl \in Int
    BY UpiMeshAssumption DEF FlushTyped, Flush, Copy
  <2>3. flush[t].todo \ {c} \in SUBSET Copy
    BY DEF FlushTyped, Flush
  <2> QED
    BY <2>1, <2>2, <2>3 DEF FlushTyped, Flush
<1>4. ASSUME NEW t \in Threads, FlushReturns(t)
      PROVE  FlushTyped'
  BY <1>1, <1>4 DEF FlushReturns, FlushTyped
<1>5. ASSUME NEW t \in Threads, ServiceStep(t)
      PROVE  FlushTyped'
  <2>1. CASE flush' = flush
    BY <2>1 DEF FlushTyped
  <2>2. CASE flush' = [u \in Threads |-> [flush[u] EXCEPT !.calm = ~flush[u].on]]
    BY <2>2 DEF FlushTyped, Flush
  <2> QED
    BY <1>5, <2>1, <2>2 DEF ServiceStep
<1>6. ASSUME NEW t \in Threads,
             \/ \E d \in Devices \cup Strangers, h \in Packets, ttl \in Ttls :
                  DemoSend(t, d, h, ttl)
             \/ \E h \in Packets : BridgeIngest(t, h)
             \/ MeshGossip(t) \/ MeshReset(t) \/ MeshStep(t)
      PROVE  FlushTyped'
  BY <1>6
  DEF DemoSend, BridgeIngest, MeshGossip, MeshReset, MeshStep, FlushTyped
<1>7. CASE Background \/ UNCHANGED vars
  BY <1>7 DEF Background, vars, FlushTyped
<1> QED
  BY <1>2, <1>3, <1>4, <1>5, <1>6, <1>7 DEF Next, HandlerStep

LEMMA FlushesAreTyped == Spec => []FlushTyped
<1>1. Init => FlushTyped
  BY DEF Init, FlushTyped, NoFlush, Flush
<1> QED
  BY <1>1, FlushTypedStep, MeshInvariant, PTL DEF Spec

\* The ingestion of UpiMesh is Ingestion.
THEOREM RunsIngestion == Spec => I!Spec
<1>1. Init => I!Init
  BY DEF Init
<1>2. FlushTyped /\ [Next]_vars => [I!Next]_(I!vars)
  BY StepsIngestion DEF I!vars, ingestVars
<1> QED
  BY <1>1, <1>2, FlushesAreTyped, PTL DEF Spec, I!Spec

LEMMA IngestionInvariant == Spec => []IP!Inductive
<1>1. Init => IP!Init
  BY SameIngestion DEF Init
<1>2. FlushTyped /\ [Next]_vars => [IP!Next]_(IP!vars)
  BY StepsIngestion, SameIngestion DEF IP!vars, ingestVars
<1>3. IP!Spec => []IP!Inductive
  BY IP!Invariance, UpiMeshAssumption
<1> QED
  BY <1>1, <1>2, <1>3, FlushesAreTyped, PTL DEF Spec, IP!Spec

-----------------------------------------------------------------------------
(***************************************************************************)
(* What a step may change.                                                 *)
(***************************************************************************)
\* What the invariants of the parts say here.
LEMMA Parts ==
  ASSUME MP!Inductive, IP!Inductive
  PROVE  /\ meshStage \in [Threads -> M!Stages] /\ stage \in [Threads -> I!Stages]
         /\ Sent \subseteq Packets /\ DOMAIN seen \subseteq Packets
         /\ clock \in Nat /\ DOMAIN job = Threads
         /\ DOMAIN outcome = Threads
         /\ \A t \in Threads : Uploading(t) => job[t].hash \in Packets
         /\ \A t \in Threads : stage[t] = "settle" => pending[t] = job[t].hash
<1>1. meshStage \in [Threads -> M!Stages] /\ Sent \subseteq Packets
  BY DEF MP!Inductive, MP!TypeOK, MP!Stages, M!Stages, MP!Sent, Sent
<1>2. /\ stage \in [Threads -> I!Stages] /\ clock \in Nat /\ DOMAIN job = Threads
      /\ DOMAIN outcome = Threads
      /\ \A t \in Threads : stage[t] = "settle" => pending[t] = job[t].hash
  BY UpiMeshAssumption
  DEF IP!Inductive, IP!TypeOK, IP!Stages, I!Stages, IP!At, IP!Hash
<1>3. ASSUME NEW t \in Threads, Uploading(t)
      PROVE  job[t].hash \in Packets
  BY <1>3 DEF IP!Inductive, IP!Locals, IP!Claiming, IP!Job, Uploading
<1>4. DOMAIN seen \subseteq Packets
  BY DEF IP!Inductive, IP!TypeOK, IP!Caches
<1> QED
  BY <1>1, <1>2, <1>3, <1>4

\* What was sent stays as it was sent.
LEMMA SentStays ==
  ASSUME [Next]_vars
  PROVE  Sent \subseteq Sent' /\ \A h \in Sent : injected'[h] = injected[h]
<1>1. CASE UNCHANGED meshVars
  BY <1>1 DEF meshVars, Sent
<1>2. CASE M!Next
  <2>1. ASSUME NEW t \in Threads, NEW d \in Devices \cup Strangers,
               NEW h \in Packets, NEW ttl \in Ttls, M!DemoSend(t, d, h, ttl)
        PROVE  Sent \subseteq Sent' /\ \A x \in Sent : injected'[x] = injected[x]
    BY <2>1 DEF M!DemoSend, M!Sent, Sent
  <2>2. ASSUME NEW t \in Threads, M!Gossip(t) \/ M!Reset(t) \/ M!RequestStep(t)
        PROVE  injected' = injected
    BY <2>2
    DEF M!Gossip, M!Reset, M!RequestStep, M!Snapshot, M!Check, M!Deliver,
        M!Finish, M!ClearDevice
  <2> QED
    BY <1>2, <2>1, <2>2 DEF M!Next, Sent
<1> QED
  BY <1>1, <1>2, StepsMesh

\* So do the hop counts of it.
LEMMA HopsStay ==
  ASSUME [Next]_vars, NEW h \in Sent, NEW n, Hops(h, n)
  PROVE  Hops(h, n)'
  BY SentStays DEF Hops

\* The steps within ingest() and within the services of a reset, each with
\* what UpiMesh records of it.
LEMMA ServiceEffect ==
  ASSUME IP!Inductive, MP!Inductive, FlushTyped, NEW t \in Threads, ServiceStep(t)
  PROVE  /\ meshStage[t] = "idle" /\ UNCHANGED <<meshVars, requests, clock>>
         /\ \A u \in Threads \ {t} : stage'[u] = stage[u] /\ job'[u] = job[u]
         /\ stage'[t] \in I!Stages
         /\ \/ I!Gate(t) \/ I!Validate(t) \/ I!Settle(t) \/ I!SettleStrays(t)
            \/ I!ClearCache(t) \/ I!ResetDb(t)
  BY Parts
  DEF ServiceStep, MeshDone, meshVars, I!RequestStep, I!Gate, I!Validate,
      I!Settle, I!SettleStrays, I!ClearCache, I!ResetDb, I!At, I!Goto, I!Return,
      I!Stages

LEMMA GateEffect ==
  ASSUME IP!Inductive, MP!Inductive, NEW t \in Threads, ServiceStep(t), I!Gate(t)
  PROVE  /\ stage[t] = "claim" /\ UNCHANGED <<rows, flush, torn, recorded>>
         /\ refused \subseteq refused'
         /\ DOMAIN seen' \subseteq DOMAIN seen \cup {job[t].hash}
         /\ \A h \in DOMAIN seen : h \in DOMAIN seen' /\ seen'[h] = seen[h]
         /\ job[t].hash \in DOMAIN seen' \ DOMAIN seen =>
              seen'[job[t].hash] = job[t].stamp /\ stage'[t] = "validate"
         /\ \/ stage'[t] = "validate" /\ job'[t].hash = job[t].hash
            \/ stage'[t] = "idle" /\ job[t].hash \in DOMAIN seen
            \/ /\ stage'[t] = "idle" /\ job[t].hash \in refused'
               /\ outcome'[t] = "INVALID"
<1>1. stage[t] = "claim" /\ rows' = rows
  BY DEF I!Gate, I!At, I!settlement
<1>2. UNCHANGED <<flush, torn, recorded>> /\ refused \subseteq refused'
  BY <1>1 DEF ServiceStep
<1>3. CASE /\ I!Claim(job[t].hash, job[t].stamp) /\ I!IsFirst(job[t].hash)
           /\ job' = [job EXCEPT ![t].epoch = epoch] /\ I!Goto(t, "validate")
  <2>1. job[t] \in IP!Job
    BY <1>1 DEF IP!Inductive, IP!Locals, IP!Claiming
  <2>2. job'[t] = [job[t] EXCEPT !.epoch = epoch]
    BY <1>3, Parts
  <2>3. stage'[t] = "validate" /\ job'[t].hash = job[t].hash
    BY <1>3, <2>1, <2>2, Parts DEF I!Goto, IP!Job
  <2> QED
    BY <1>1, <1>2, <1>3, <2>3 DEF I!Claim, I!Claimed
<1>4. CASE /\ I!Claim(job[t].hash, job[t].stamp) /\ ~I!IsFirst(job[t].hash)
           /\ I!Return(t, "DUPLICATE_DROPPED")
  <2>1. stage'[t] = "idle" /\ job[t].hash \in DOMAIN seen
    BY <1>4, Parts DEF I!Return, I!Goto, I!IsFirst, I!Claimed
  <2> QED
    BY <1>1, <1>2, <1>4, <2>1 DEF I!Claim, I!Claimed
<1>5. CASE I!Return(t, "INVALID") /\ UNCHANGED seen
  <2>1. stage'[t] = "idle" /\ outcome'[t] = "INVALID"
    BY <1>5, Parts DEF I!Return, I!Goto
  <2>2. job[t].hash \in refused'
    BY <1>1, <2>1 DEF ServiceStep, GivesUp
  <2> QED
    BY <1>1, <1>2, <1>5, <2>1, <2>2
<1> QED
  BY <1>3, <1>4, <1>5 DEF I!Gate, I!Hash

LEMMA ValidateEffect ==
  ASSUME IP!Inductive, MP!Inductive, NEW t \in Threads, ServiceStep(t), I!Validate(t)
  PROVE  /\ stage[t] = "validate"
         /\ UNCHANGED <<rows, seen, flush, torn, recorded>>
         /\ refused \subseteq refused'
         /\ \/ stage'[t] = "settle" /\ job'[t].hash = job[t].hash
            \/ /\ stage'[t] = "idle"
               /\ ~I!Fresh(job[t].hash) \/ job[t].hash \in refused'
<1>1. stage[t] = "validate" /\ UNCHANGED <<rows, seen>>
  BY DEF I!Validate, I!At, I!Invoke, I!settlement
<1>2. \/ stage'[t] = "settle" /\ job'[t].hash = job[t].hash
      \/ stage'[t] = "idle"
  BY Parts DEF I!Validate, I!Goto, I!Return
<1>3. UNCHANGED <<flush, torn, recorded>> /\ refused \subseteq refused'
  BY <1>1 DEF ServiceStep
<1>4. stage'[t] = "idle" /\ I!Fresh(job[t].hash) => job[t].hash \in refused'
  BY <1>1 DEF ServiceStep, GivesUp
<1> QED
  BY <1>1, <1>2, <1>3, <1>4

LEMMA SettleEffect ==
  ASSUME IP!Inductive, MP!Inductive, NEW t \in Threads, ServiceStep(t), I!Settle(t)
  PROVE  /\ stage[t] = "settle" /\ stage'[t] = "idle"
         /\ UNCHANGED <<seen, flush, torn>>
         /\ \/ \E r : r.hash = job[t].hash /\ rows' = rows \cup {r}
            \/ rows' = rows
         /\ refused' = IF rows' = rows THEN refused \cup {job[t].hash} ELSE refused
<1>1. stage[t] = "settle" /\ pending[t] = job[t].hash
  BY Parts DEF I!Settle, I!At
<1>2. \/ \E r : r.hash = job[t].hash /\ rows' = rows \cup {r}
      \/ rows' = rows
  BY <1>1 DEF I!Settle, I!Record, I!Refuse, I!Phantom
<1>3. stage'[t] = "idle"
  BY Parts DEF I!Settle, I!Return, I!Goto
<1> QED
  BY <1>1, <1>2, <1>3 DEF ServiceStep, I!Settle, GivesUp

LEMMA StraysEffect ==
  ASSUME IP!Inductive, MP!Inductive, NEW t \in Threads, ServiceStep(t),
         I!SettleStrays(t)
  PROVE  /\ stage[t] = "settle"
         /\ UNCHANGED <<seen, flush, torn, refused, stage, job>>
         /\ \E r : r.hash = job[t].hash /\ rows' = rows \cup {r}
<1>1. stage[t] = "settle" /\ pending[t] = job[t].hash /\ UNCHANGED <<stage, job, seen>>
  BY Parts DEF I!SettleStrays, I!At
<1>2. \E r : r.hash = job[t].hash /\ rows' = rows \cup {r}
  BY <1>1 DEF I!SettleStrays, I!Stray
<1> QED
  BY <1>1, <1>2 DEF ServiceStep, GivesUp

LEMMA ClearCacheEffect ==
  ASSUME IP!Inductive, MP!Inductive, NEW t \in Threads, ServiceStep(t), I!ClearCache(t)
  PROVE  /\ stage[t] = "clearCache" /\ stage'[t] = "resetDb"
         /\ DOMAIN seen' = {} /\ UNCHANGED <<rows, refused, recorded>>
         /\ torn' = {}
         /\ flush' = [u \in Threads |-> [flush[u] EXCEPT !.calm = ~flush[u].on]]
  BY Parts
  DEF ServiceStep, GivesUp, I!ClearCache, I!At, I!Goto, I!Clear, I!NothingSeen,
      I!settlement

LEMMA ResetDbEffect ==
  ASSUME IP!Inductive, MP!Inductive, NEW t \in Threads, ServiceStep(t), I!ResetDb(t)
  PROVE  /\ stage[t] = "resetDb" /\ stage'[t] = "idle"
         /\ UNCHANGED <<seen, refused>> /\ rows' \subseteq rows
         /\ recorded' = recorded
         /\ torn' = torn \cup DOMAIN seen
         /\ flush' = [u \in Threads |-> [flush[u] EXCEPT !.calm = ~flush[u].on]]
<1>1. stage[t] = "resetDb" /\ stage'[t] = "idle" /\ rows' \subseteq rows
  BY Parts DEF I!ResetDb, I!At, I!Goto, I!Wipe, I!settlement
<1>2. rows' \ rows = {}
  BY <1>1
<1>3. recorded' = recorded
  BY <1>2 DEF ServiceStep
<1> QED
  BY <1>1, <1>3 DEF ServiceStep, GivesUp, I!ResetDb

-----------------------------------------------------------------------------
(***************************************************************************)
(* One lemma per invariant.                                                *)
(***************************************************************************)
\* How far gossipOnce() and resetMesh() get in a step.
LEMMA MeshStepEffect ==
  ASSUME MP!Inductive, IP!Inductive, NEW t \in Threads, MeshStep(t)
  PROVE  /\ meshStage[t] # "idle"
         /\ \A u \in Threads \ {t} : meshStage'[u] = meshStage[u]
         /\ \/ meshStage[t] = "clear" /\ meshStage'[t] \in {"clear", "idle"}
            \/ /\ meshStage[t] # "clear"
               /\ meshStage'[t] \in {"snapshot", "check", "hold", "idle"}
<1> USE DEF M!At, M!Goto, M!Stages
<1>1. CASE M!Snapshot(t)
  BY <1>1, Parts DEF M!Snapshot
<1>2. CASE M!Check(t)
  BY <1>2, Parts DEF M!Check
<1>3. CASE M!Deliver(t) \/ M!Finish(t)
  BY <1>3, Parts DEF M!Deliver, M!Finish
<1>4. CASE M!ClearDevice(t)
  BY <1>4, Parts DEF M!ClearDevice
<1> QED
  BY <1>1, <1>2, <1>3, <1>4 DEF MeshStep, M!RequestStep

\* A handler enters its services only when resetMesh() has returned.
LEMMA HandlersStep ==
  ASSUME MP!Inductive, IP!Inductive, FlushTyped, Handlers, [Next]_vars
  PROVE  Handlers'
<1>1. ASSUME NEW t \in Threads, Accept(t)
      PROVE  requests' \in 0..MaxRequests
  BY <1>1, UpiMeshAssumption DEF Accept, Handlers
<1>2. ASSUME NEW t \in Threads,
             \E d \in Devices \cup Strangers, h \in Packets, ttl \in Ttls :
               DemoSend(t, d, h, ttl)
      PROVE  Handlers'
  BY <1>1, <1>2 DEF DemoSend, M!DemoSend, ingestVars, history, Handlers
<1>3. ASSUME NEW t \in Threads, NEW h \in Packets, BridgeIngest(t, h)
      PROVE  Handlers'
  BY <1>1, <1>3, Parts
  DEF BridgeIngest, Accept, Free, Returned, I!Ingest, I!Goto, meshVars, history,
      Handlers
<1>4. ASSUME NEW t \in Threads, MeshGossip(t)
      PROVE  Handlers'
  BY <1>1, <1>4, Parts
  DEF MeshGossip, Accept, Free, Returned, M!Gossip, M!Goto, ingestVars, history,
      Handlers
<1>5. ASSUME NEW t \in Threads, MeshReset(t)
      PROVE  Handlers'
  BY <1>1, <1>5, Parts
  DEF MeshReset, Accept, Free, Returned, M!Reset, M!Goto, I!ResetMesh, I!Goto,
      history, Handlers
<1>6. ASSUME NEW t \in Threads, MeshFlush(t)
      PROVE  Handlers'
  BY <1>1, <1>6
  DEF MeshFlush, Accept, Free, Returned, meshVars, ingestVars, history,
      FlushTyped, Handlers
<1>7. ASSUME NEW t \in Threads, MeshStep(t)
      PROVE  Handlers'
  <2>1. UNCHANGED <<stage, flush, requests, torn, refused>>
    BY <1>7 DEF MeshStep, ingestVars, history
  <2> QED
    BY <1>7, <2>1, MeshStepEffect DEF Handlers
<1>8. ASSUME NEW t \in Threads, ServiceStep(t)
      PROVE  Handlers'
  <2>1. /\ meshStage[t] = "idle" /\ UNCHANGED <<meshStage, requests>>
        /\ \A u \in Threads \ {t} : stage'[u] = stage[u]
    BY <1>8, ServiceEffect DEF meshVars
  <2>2. \A u \in Threads : flush'[u].on = flush[u].on
    <3>1. CASE flush' = flush
      BY <3>1
    <3>2. CASE flush' = [u \in Threads |-> [flush[u] EXCEPT !.calm = ~flush[u].on]]
      BY <3>2 DEF FlushTyped, Flush
    <3> QED
      BY <1>8, <3>1, <3>2 DEF ServiceStep
  <2>3. torn' \subseteq Packets
    BY <1>8, Parts DEF ServiceStep, Handlers
  <2>4. refused' \subseteq Packets
    BY <1>8, Parts DEF ServiceStep, GivesUp, Handlers, Uploading
  <2> QED
    BY <2>1, <2>2, <2>3, <2>4 DEF Handlers
<1>9. ASSUME NEW t \in Threads, Upload(t)
      PROVE  Handlers'
  BY <1>9, Parts
  DEF Upload, Returned, I!Ingest, I!Goto, meshVars, history, FlushTyped, Handlers
<1>10. ASSUME NEW t \in Threads, FlushReturns(t)
      PROVE  Handlers'
  BY <1>10
  DEF FlushReturns, NoFlush, meshVars, ingestVars, history, FlushTyped, Handlers
<1>11. CASE Background
  BY <1>11
  DEF Background, I!EvictExpired, I!Tick, meshVars, history, Handlers
<1>12. CASE UNCHANGED vars
  BY <1>12 DEF vars, meshVars, ingestVars, history, Handlers
<1> QED
  BY <1>2, <1>3, <1>4, <1>5, <1>6, <1>7, <1>8, <1>9, <1>10, <1>11, <1>12
  DEF Next, HandlerStep

\* Time does not run backwards.
LEMMA TimePasses ==
  ASSUME MP!Inductive, IP!Inductive, FlushTyped, [Next]_vars
  PROVE  clock' = clock \/ (clock' = clock + 1 /\ UNCHANGED <<injected, seen>>)
<1>1. ASSUME NEW t \in Threads, ServiceStep(t)
      PROVE  clock' = clock
  BY <1>1, ServiceEffect
<1>2. ASSUME NEW t \in Threads,
             \/ \E d \in Devices \cup Strangers, h \in Packets, ttl \in Ttls :
                  DemoSend(t, d, h, ttl)
             \/ \E h \in Packets : BridgeIngest(t, h)
             \/ MeshGossip(t) \/ MeshReset(t) \/ MeshFlush(t)
             \/ MeshStep(t) \/ Upload(t) \/ FlushReturns(t)
      PROVE  clock' = clock
  BY <1>2
  DEF DemoSend, BridgeIngest, MeshGossip, MeshReset, MeshFlush, MeshStep, Upload,
      FlushReturns, I!Ingest, I!ResetMesh, ingestVars
<1>3. CASE Background
  BY <1>3 DEF Background, I!EvictExpired, I!Tick, meshVars
<1>4. CASE UNCHANGED vars
  BY <1>4 DEF vars, ingestVars
<1> QED
  BY <1>1, <1>2, <1>3, <1>4 DEF Next, HandlerStep

\* The locals of a flush, step by step.
LEMMA MeshFlushEffect ==
  ASSUME FlushTyped, NEW t \in Threads, MeshFlush(t)
  PROVE  /\ \A u \in Threads \ {t} : flush'[u] = flush[u]
         /\ flush'[t].todo = Collected
         /\ flush'[t].got = {c.id : c \in Collected}
         /\ UNCHANGED <<injected, seen, stage, job, rows, clock>>
         /\ UNCHANGED <<torn, refused, recorded>>
         /\ stage[t] = "idle"
<1> DEFINE got == {c.id : c \in Collected}
<1>1. flush' = [flush EXCEPT ![t] = [NoFlush EXCEPT
                 !.on = TRUE, !.todo = Collected, !.got = got]]
  BY DEF MeshFlush
<1> HIDE DEF got
<1>2. /\ \A u \in Threads \ {t} : flush'[u] = flush[u]
      /\ flush'[t].todo = Collected /\ flush'[t].got = got
  BY <1>1 DEF FlushTyped, NoFlush
<1> QED
  BY <1>2
  DEF MeshFlush, Accept, Free, Returned, meshVars, ingestVars, history, got

LEMMA UploadEffect ==
  ASSUME IP!Inductive, MP!Inductive, FlushTyped, NEW t \in Threads, Upload(t)
  PROVE  \E c \in flush[t].todo :
           /\ \A u \in Threads \ {t} :
                flush'[u] = flush[u] /\ stage'[u] = stage[u] /\ job'[u] = job[u]
           /\ flush'[t].todo = flush[t].todo \ {c}
           /\ flush'[t].hops = DefaultTtl - c.ttl
           /\ flush'[t].got = flush[t].got /\ flush'[t].on = flush[t].on
           /\ flush'[t].calm = flush[t].calm
           /\ stage[t] = "idle" /\ stage'[t] = "claim" /\ job'[t].hash = c.id
           /\ UNCHANGED <<injected, seen, rows, clock>>
           /\ UNCHANGED <<torn, refused, recorded>>
<1>1. PICK c \in flush[t].todo :
        /\ I!Ingest(t, c.id)
        /\ flush' = [flush EXCEPT ![t].todo = @ \ {c},
                                  ![t].hops = DefaultTtl - c.ttl]
  BY DEF Upload
<1>2. /\ \A u \in Threads \ {t} : flush'[u] = flush[u]
      /\ flush'[t].todo = flush[t].todo \ {c}
      /\ flush'[t].hops = DefaultTtl - c.ttl
      /\ flush'[t].got = flush[t].got /\ flush'[t].on = flush[t].on
      /\ flush'[t].calm = flush[t].calm
  BY <1>1 DEF FlushTyped, Flush
<1>3. /\ \A u \in Threads \ {t} : stage'[u] = stage[u] /\ job'[u] = job[u]
      /\ stage[t] = "idle" /\ stage'[t] = "claim" /\ job'[t].hash = c.id
      /\ UNCHANGED <<seen, rows, clock>>
  BY <1>1, Parts DEF I!Ingest, I!At, I!Goto, I!settlement
<1> QED
  BY <1>2, <1>3 DEF Upload, meshVars, history

\* A reset of the services takes the calm of every flush; no other service
\* step touches the locals of a flush.
LEMMA ServiceFlush ==
  ASSUME FlushTyped, NEW t \in Threads, ServiceStep(t), NEW u \in Threads
  PROVE  /\ flush'[u].on = flush[u].on /\ flush'[u].todo = flush[u].todo
         /\ flush'[u].got = flush[u].got /\ flush'[u].hops = flush[u].hops
         /\ \/ flush'[u].calm = flush[u].calm
            \/ flush'[u].calm = ~flush[u].on
<1>1. CASE flush' = flush
  BY <1>1
<1>2. CASE flush' = [v \in Threads |-> [flush[v] EXCEPT !.calm = ~flush[v].on]]
  BY <1>2 DEF FlushTyped, Flush
<1> QED
  BY <1>1, <1>2 DEF ServiceStep

\* A row that a flush adds is recorded with the hops of its own upload.
LEMMA RecordedEffect ==
  ASSUME MP!Inductive, IP!Inductive, FlushTyped, NEW t \in Threads, ServiceStep(t)
  PROVE  \/ recorded' = recorded
         \/ /\ flush[t].on /\ Uploading(t)
            /\ \A x \in recorded' \ recorded :
                 x.hash = job[t].hash /\ x.hops = flush[t].hops
<1>1. CASE I!Gate(t) \/ I!Validate(t) \/ I!ClearCache(t) \/ I!ResetDb(t)
  BY <1>1, GateEffect, ValidateEffect, ClearCacheEffect, ResetDbEffect
<1>2. CASE (I!Settle(t) \/ I!SettleStrays(t)) /\ flush[t].on
  <2>1. \A r \in rows' \ rows : r.hash = job[t].hash
    BY <1>2, SettleEffect, StraysEffect
  <2>2. recorded' = recorded \cup {[hash |-> r.hash, hops |-> flush[t].hops] :
                                     r \in rows' \ rows}
    BY <1>2 DEF ServiceStep
  <2>3. Uploading(t)
    BY <1>2, SettleEffect, StraysEffect DEF Uploading
  <2> QED
    BY <1>2, <2>1, <2>2, <2>3
<1>3. CASE ~flush[t].on
  BY <1>3 DEF ServiceStep
<1> QED
  BY <1>1, <1>2, <1>3, ServiceEffect

\* Only the services' steps touch what is recorded of them.
LEMMA OtherSteps ==
  ASSUME MP!Inductive, IP!Inductive, FlushTyped, NEW t \in Threads,
         \/ \E d \in Devices \cup Strangers, h \in Packets, ttl \in Ttls :
              DemoSend(t, d, h, ttl)
         \/ MeshGossip(t) \/ MeshReset(t) \/ MeshStep(t)
  PROVE  /\ UNCHANGED <<flush, torn, refused, recorded, seen, rows, job, clock>>
         /\ \/ UNCHANGED stage
            \/ /\ stage[t] = "idle" /\ stage'[t] = "clearCache" /\ ~flush[t].on
               /\ \A u \in Threads \ {t} : stage'[u] = stage[u]
         /\ \A h \in Sent' \ Sent : SignedAt[h] = clock /\ h \notin Foreign
<1>1. CASE MeshGossip(t) \/ MeshStep(t)
  BY <1>1
  DEF MeshGossip, MeshStep, M!Gossip, M!RequestStep, M!Snapshot, M!Check,
      M!Deliver, M!Finish, M!ClearDevice, ingestVars, history, Sent
<1>2. CASE MeshReset(t)
  BY <1>2, Parts
  DEF MeshReset, Accept, Free, Returned, M!Reset, I!ResetMesh, I!Goto,
      I!settlement, history, Sent
<1>3. ASSUME NEW d \in Devices \cup Strangers, NEW h \in Packets, NEW ttl \in Ttls,
             DemoSend(t, d, h, ttl)
      PROVE  /\ UNCHANGED <<flush, torn, refused, recorded, seen, rows, job, clock>>
             /\ UNCHANGED stage
             /\ \A x \in Sent' \ Sent : SignedAt[x] = clock /\ x \notin Foreign
  BY <1>3 DEF DemoSend, M!DemoSend, M!Sent, ingestVars, history, Sent
<1> QED
  BY <1>1, <1>2, <1>3

\* A flush uploads what it collected, a phone what was sent or its own, and
\* nothing is in the cache that was not uploaded.
LEMMA OnlySentStep ==
  ASSUME MP!Inductive, IP!Inductive, FlushTyped, OnlySent, [Next]_vars
  PROVE  OnlySent'
<1>1. /\ Sent \subseteq Sent' /\ clock \in Nat
      /\ \A h \in Sent : SignedAt[h] \in Int
  BY SentStays, Parts, UpiMeshAssumption
<1>2. ASSUME NEW t \in Threads,
             \/ \E d \in Devices \cup Strangers, h \in Packets, ttl \in Ttls :
                  DemoSend(t, d, h, ttl)
             \/ MeshGossip(t) \/ MeshReset(t) \/ MeshStep(t)
      PROVE  OnlySent'
  <2>1. \A h \in Sent' : SignedAt[h] <= clock /\ h \notin Foreign
    BY <1>1, <1>2, OtherSteps DEF OnlySent
  <2> QED
    BY <1>1, <1>2, <2>1, OtherSteps DEF OnlySent, Uploading
<1>3. ASSUME NEW t \in Threads, NEW h \in Packets, BridgeIngest(t, h)
      PROVE  OnlySent'
  <2>1. /\ UNCHANGED <<injected, seen, clock, flush, recorded>>
        /\ h \in Sent \cup Foreign /\ ~flush[t].on
    BY <1>3
    DEF BridgeIngest, Accept, Free, I!Ingest, meshVars, history, Sent
  <2>2. /\ \A u \in Threads \ {t} : stage'[u] = stage[u] /\ job'[u] = job[u]
        /\ job'[t].hash = h
    BY <1>3, Parts DEF BridgeIngest, I!Ingest, I!Goto
  <2> QED
    BY <2>1, <2>2 DEF OnlySent, Uploading, Sent
<1>4. ASSUME NEW t \in Threads, MeshFlush(t)
      PROVE  OnlySent'
  BY <1>4, MeshFlushEffect, CollectedWasSent DEF OnlySent, Uploading, Sent
<1>5. ASSUME NEW t \in Threads, Upload(t)
      PROVE  OnlySent'
  BY <1>5, UploadEffect DEF OnlySent, Uploading, Sent
<1>6. ASSUME NEW t \in Threads, ServiceStep(t)
      PROVE  OnlySent'
  <2>1. UNCHANGED <<injected, clock>>
    BY <1>6, ServiceEffect DEF meshVars
  <2>2. ASSUME NEW u \in Threads
        PROVE  /\ flush'[u].got \subseteq Sent
               /\ \A c \in flush'[u].todo : c.id \in flush'[u].got
    BY <1>6, ServiceFlush DEF OnlySent
  <2>3. \A x \in recorded' : x.hash \in Sent
    BY <1>6, RecordedEffect DEF OnlySent
  <2>4. DOMAIN seen' \subseteq Sent \cup Foreign
    BY <1>6, ServiceEffect, GateEffect, ValidateEffect, SettleEffect,
       StraysEffect, ClearCacheEffect, ResetDbEffect DEF OnlySent, Uploading
  <2>5. ASSUME NEW u \in Threads, Uploading(u)'
        PROVE  /\ job'[u].hash \in Sent \cup Foreign
               /\ flush'[u].on => job'[u].hash \in Sent
    <3>1. Uploading(u) /\ job'[u].hash = job[u].hash
      BY <1>6, <2>5, ServiceEffect, GateEffect, ValidateEffect, SettleEffect,
         StraysEffect, ClearCacheEffect, ResetDbEffect DEF Uploading
    <3> QED
      BY <1>6, <3>1, ServiceFlush DEF OnlySent
  <2> QED
    BY <2>1, <2>2, <2>3, <2>4, <2>5 DEF OnlySent, Sent
<1>7. ASSUME NEW t \in Threads, FlushReturns(t)
      PROVE  OnlySent'
  BY <1>7
  DEF FlushReturns, NoFlush, meshVars, ingestVars, history, FlushTyped, OnlySent,
      Uploading, Sent
<1>8. CASE Background
  <2>1. UNCHANGED <<injected, stage, job, flush, recorded>>
    BY <1>8 DEF Background, I!EvictExpired, I!Tick, meshVars, history
  <2>2. DOMAIN seen' \subseteq DOMAIN seen
    BY <1>8
    DEF Background, I!EvictExpired, I!Tick, I!Evict, I!Claimed
  <2>3. clock <= clock' /\ clock' \in Nat
    BY <1>1, <1>8 DEF Background, I!EvictExpired, I!Tick
  <2>4. \A h \in Sent : SignedAt[h] <= clock' /\ h \notin Foreign
    BY <1>1, <2>3 DEF OnlySent
  <2> QED
    BY <2>1, <2>2, <2>4 DEF OnlySent, Uploading, Sent
<1>9. CASE UNCHANGED vars
  BY <1>9 DEF vars, meshVars, ingestVars, history, OnlySent, Uploading, Sent
<1> QED
  BY <1>2, <1>3, <1>4, <1>5, <1>6, <1>7, <1>8, <1>9 DEF Next, HandlerStep

\* The hop count is computed from the copy whose upload it belongs to, and is
\* still that of the upload when its row is added.
LEMMA HopsStep ==
  ASSUME MP!Inductive, IP!Inductive, FlushTyped, OnlySent, HopsAhead,
         HopCountsAreHops, [Next]_vars
  PROVE  HopsAhead' /\ HopCountsAreHops'
<1>1. ASSUME NEW h \in Sent, NEW n, Hops(h, n)
      PROVE  Hops(h, n)'
  BY <1>1, HopsStay
<1>2. \A x \in recorded : x.hash \in Sent /\ Hops(x.hash, x.hops)
  BY DEF HopCountsAreHops, Hops, OnlySent
<1>3. \A x \in recorded : Hops(x.hash, x.hops)'
  BY <1>2, SentStays DEF Hops
<1>4. \A t \in Threads : \A c \in flush[t].todo :
        c.id \in Sent /\ Hops(c.id, DefaultTtl - c.ttl)
  BY DEF HopsAhead, OnlySent
<1>5. \A t \in Threads : \A c \in flush[t].todo :
        Hops(c.id, DefaultTtl - c.ttl)'
  BY <1>4, SentStays DEF Hops
<1>6. \A t \in Threads : flush[t].on /\ Uploading(t) =>
        job[t].hash \in Sent /\ Hops(job[t].hash, flush[t].hops)
  BY DEF HopsAhead, OnlySent
<1>7. \A t \in Threads : flush[t].on /\ Uploading(t) =>
        LET h == job[t].hash  n == flush[t].hops IN
        injected'[h].ttl = DefaultTtl =>
          n \in 1..DefaultTtl \/ (n = 0 /\ injected'[h].start = Bridge)
  BY <1>6, SentStays DEF Hops
<1>8. recorded' = recorded => HopCountsAreHops'
  BY <1>3 DEF HopCountsAreHops, Hops
<1>9. ASSUME NEW t \in Threads,
             \/ \E d \in Devices \cup Strangers, h \in Packets, ttl \in Ttls :
                  DemoSend(t, d, h, ttl)
             \/ MeshGossip(t) \/ MeshReset(t) \/ MeshStep(t)
      PROVE  HopsAhead' /\ HopCountsAreHops'
  BY <1>5, <1>7, <1>8, <1>9, OtherSteps DEF HopsAhead, Hops, Uploading
<1>10. ASSUME NEW t \in Threads, NEW h \in Packets, BridgeIngest(t, h)
       PROVE  HopsAhead' /\ HopCountsAreHops'
  <2>1. /\ UNCHANGED <<flush, recorded>> /\ ~flush[t].on
        /\ \A u \in Threads \ {t} : stage'[u] = stage[u] /\ job'[u] = job[u]
    BY <1>10, Parts
    DEF BridgeIngest, Accept, Free, I!Ingest, I!Goto, meshVars, history
  <2> QED
    BY <1>5, <1>7, <1>8, <2>1 DEF HopsAhead, Hops, Uploading
<1>11. ASSUME NEW t \in Threads, MeshFlush(t)
       PROVE  HopsAhead' /\ HopCountsAreHops'
  <2>1. \A c \in Collected : Hops(c.id, DefaultTtl - c.ttl)'
    BY <1>1, CollectedWasSent
  <2> QED
    BY <1>5, <1>7, <1>8, <1>11, <2>1, MeshFlushEffect
    DEF HopsAhead, Hops, Uploading
<1>12. ASSUME NEW t \in Threads, Upload(t)
       PROVE  HopsAhead' /\ HopCountsAreHops'
  BY <1>5, <1>7, <1>8, <1>12, UploadEffect DEF HopsAhead, Hops, Uploading
<1>13. ASSUME NEW t \in Threads, ServiceStep(t)
       PROVE  HopsAhead' /\ HopCountsAreHops'
  <2>1. HopCountsAreHops'
    BY <1>3, <1>7, <1>13, RecordedEffect DEF HopCountsAreHops, Hops
  <2>2. \A u \in Threads : Uploading(u)' =>
          Uploading(u) /\ job'[u].hash = job[u].hash
    BY <1>13, ServiceEffect, GateEffect, ValidateEffect, SettleEffect,
       StraysEffect, ClearCacheEffect, ResetDbEffect DEF Uploading
  <2> QED
    BY <1>5, <1>7, <1>13, <2>1, <2>2, ServiceFlush DEF HopsAhead, Hops
<1>14. ASSUME NEW t \in Threads, FlushReturns(t)
       PROVE  HopsAhead' /\ HopCountsAreHops'
  BY <1>5, <1>7, <1>8, <1>14
  DEF FlushReturns, NoFlush, ingestVars, history, FlushTyped, HopsAhead, Hops,
      Uploading
<1>15. CASE Background
  BY <1>5, <1>7, <1>8, <1>15
  DEF Background, I!EvictExpired, I!Tick, history, HopsAhead, Hops, Uploading
<1>16. CASE UNCHANGED vars
  BY <1>5, <1>7, <1>8, <1>16
  DEF vars, ingestVars, history, HopsAhead, Hops, Uploading
<1> QED
  BY <1>9, <1>10, <1>11, <1>12, <1>13, <1>14, <1>15, <1>16 DEF Next, HandlerStep

-----------------------------------------------------------------------------
(***************************************************************************)
(* What is decided stays decided, so that no packet is lost between the    *)
(* cache, the flush and the rows.                                          *)
(***************************************************************************)
\* A packet that is too old stays so.
LEMMA TooOldStays ==
  ASSUME MP!Inductive, IP!Inductive, FlushTyped, [Next]_vars,
         NEW h \in Packets, I!TooOld(h)
  PROVE  I!TooOld(h)'
<1> DEFINE d == clock - SignedAt[h]  e == clock' - SignedAt[h]
<1>1. /\ d \in Int /\ e \in Int /\ e >= d /\ clock \in Nat /\ clock' \in Nat
      /\ Second \in Nat \ {0} /\ MaxAgeSeconds \in Nat
  BY TimePasses, Parts, UpiMeshAssumption
<1>2. /\ I!AgeSeconds(h) = IF d >= 0 THEN d \div Second ELSE -((-d) \div Second)
      /\ I!AgeSeconds(h)' = IF e >= 0 THEN e \div Second ELSE -((-e) \div Second)
  BY DEF I!AgeSeconds, I!TruncDiv
<1>3. I!AgeSeconds(h) > MaxAgeSeconds
  BY DEF I!TooOld
<1> HIDE DEF d, e
<1>4. d >= 0
  <2>1. CASE ~(d >= 0)
    <3>1. -d \in Nat /\ (-d) \div Second \in Nat
      BY <1>1, <2>1
    <3> QED
      BY <1>1, <1>2, <1>3, <2>1, <3>1
  <2> QED
    BY <2>1
<1>5. d \in Nat /\ e \in Nat /\ d \div Second \in Nat /\ e \div Second \in Nat
  BY <1>1, <1>4
<1>6. e \div Second > MaxAgeSeconds
  <2> DEFINE q == d \div Second
  <2>1. q * Second <= d /\ q \in Nat /\ q > MaxAgeSeconds
    BY <1>1, <1>2, <1>3, <1>4, <1>5
  <2> HIDE DEF q
  <2>2. (MaxAgeSeconds + 1) * Second <= q * Second
    BY <1>1, <2>1, IP!TimesMonotone, UpiMeshAssumption
  <2>3. (MaxAgeSeconds + 1) * Second <= e
    <3>1. (MaxAgeSeconds + 1) * Second \in Int /\ q * Second \in Int
      BY <1>1, <2>1
    <3> QED
      BY <1>1, <2>1, <2>2, <3>1
  <2> QED
    BY <1>1, <1>5, <2>3, IP!DivisionBound, UpiMeshAssumption
<1> QED
  BY <1>1, <1>2, <1>5, <1>6 DEF I!TooOld

\* A packet that is refused for its date is dated ahead by more than the
\* tolerance.
LEMMA FutureDatedIsAhead ==
  ASSUME IP!Inductive, MP!Inductive, NEW h \in Packets, I!FutureDated(h)
  PROVE  SignedAt[h] - clock > SkewSeconds * Second
<1> DEFINE d == SignedAt[h] - clock
<1>1. /\ d \in Int /\ Second \in Nat \ {0} /\ SkewSeconds \in Nat
      /\ clock - SignedAt[h] = -d /\ clock \in Nat /\ SignedAt[h] \in Int
  BY Parts, UpiMeshAssumption
<1>2. I!AgeSeconds(h) = IF -d >= 0 THEN (-d) \div Second
                                   ELSE -((-(-d)) \div Second)
  BY <1>1 DEF I!AgeSeconds, I!TruncDiv
<1>3. I!AgeSeconds(h) < -SkewSeconds
  BY DEF I!FutureDated
<1> HIDE DEF d
<1>4. -(-d) = d
  BY <1>1
<1>5. d > 0
  <2>1. CASE -d >= 0
    <3>1. -d \in Nat /\ (-d) \div Second \in Nat
      BY <1>1, <2>1
    <3> QED
      BY <1>1, <1>2, <1>3, <2>1, <3>1
  <2> QED
    BY <1>1, <2>1
<1> DEFINE q == d \div Second
<1>6. q \in Nat /\ q * Second <= d /\ q > SkewSeconds
  BY <1>1, <1>2, <1>3, <1>4, <1>5
<1> HIDE DEF q
<1>7. (SkewSeconds + 1) * Second <= q * Second
  BY <1>1, <1>6, IP!TimesMonotone, UpiMeshAssumption
<1>8. SkewSeconds * Second \in Int /\ q * Second \in Int
      /\ (SkewSeconds + 1) * Second = SkewSeconds * Second + Second
  BY <1>1, <1>6
<1>9. d > SkewSeconds * Second
  BY <1>1, <1>6, <1>7, <1>8
<1> QED
  BY <1>9 DEF d

\* A packet of demoSend is not.
LEMMA SentNotAhead ==
  ASSUME IP!Inductive, MP!Inductive, OnlySent, NEW h \in Sent
  PROVE  ~I!FutureDated(h)
<1> SUFFICES ASSUME I!FutureDated(h)
             PROVE  FALSE
  OBVIOUS
<1>1. SignedAt[h] - clock > SkewSeconds * Second
  BY FutureDatedIsAhead, Parts
<1>2. /\ SignedAt[h] \in Int /\ clock \in Nat /\ SignedAt[h] <= clock
      /\ SkewSeconds * Second \in Nat
  BY Parts, UpiMeshAssumption DEF OnlySent
<1> QED
  BY <1>1, <1>2

Working(h) == \E u \in Threads :
                stage[u] \in {"validate", "settle"} /\ job[u].hash = h

\* The request that is at a packet leaves it to none before it has decided it.
LEMMA WorkEnds ==
  ASSUME MP!Inductive, IP!Inductive, FlushTyped, [Next]_vars,
         NEW h, Working(h)
  PROVE  \/ Working(h)'
         \/ \E r \in rows' : r.hash = h
         \/ h \in refused' \/ ~I!Fresh(h)
<1>1. ASSUME NEW t \in Threads, \A u \in Threads \ {t} :
               stage'[u] = stage[u] /\ job'[u] = job[u],
             stage[t] \notin {"validate", "settle"}
      PROVE  Working(h)'
  BY <1>1 DEF Working
<1>2. UNCHANGED <<stage, job>> => Working(h)'
  BY DEF Working
<1>3. ASSUME NEW t \in Threads,
             \/ \E d \in Devices \cup Strangers, x \in Packets, ttl \in Ttls :
                  DemoSend(t, d, x, ttl)
             \/ MeshGossip(t) \/ MeshReset(t) \/ MeshStep(t)
      PROVE  Working(h)'
  BY <1>1, <1>2, <1>3, OtherSteps
<1>4. ASSUME NEW t \in Threads,
             \E x \in Packets : BridgeIngest(t, x)
      PROVE  Working(h)'
  BY <1>1, <1>4, Parts DEF BridgeIngest, Accept, Free, Returned, I!Ingest, I!Goto
<1>5. ASSUME NEW t \in Threads, MeshFlush(t) \/ Upload(t) \/ FlushReturns(t)
      PROVE  Working(h)'
  BY <1>1, <1>2, <1>5, MeshFlushEffect, UploadEffect DEF FlushReturns, ingestVars
<1>6. ASSUME NEW t \in Threads, ServiceStep(t)
      PROVE  \/ Working(h)'
             \/ \E r \in rows' : r.hash = h
             \/ h \in refused' \/ ~I!Fresh(h)
  <2>1. PICK u \in Threads :
          stage[u] \in {"validate", "settle"} /\ job[u].hash = h
    BY DEF Working
  <2>2. CASE u # t
    BY <1>6, <2>1, <2>2, ServiceEffect DEF Working
  <2>3. CASE u = t
    BY <1>6, <2>1, <2>3, ServiceEffect, GateEffect, ValidateEffect,
       SettleEffect, StraysEffect, ClearCacheEffect, ResetDbEffect DEF Working
  <2> QED
    BY <2>2, <2>3
<1>7. CASE Background \/ UNCHANGED vars
  BY <1>2, <1>7 DEF Background, I!EvictExpired, I!Tick, vars, ingestVars
<1> QED
  BY <1>3, <1>4, <1>5, <1>6, <1>7 DEF Next, HandlerStep

\* ingest() has given up a packet that is refused.
LEMMA RefusedStays ==
  ASSUME [Next]_vars
  PROVE  refused \subseteq refused'
<1>1. ASSUME NEW t \in Threads, HandlerStep(t)
      PROVE  refused \subseteq refused'
  BY <1>1 DEF HandlerStep, MeshStep, ServiceStep, Upload, FlushReturns, history
<1>2. ASSUME NEW t \in Threads,
             \/ \E d \in Devices \cup Strangers, h \in Packets, ttl \in Ttls :
                  DemoSend(t, d, h, ttl)
             \/ \E h \in Packets : BridgeIngest(t, h)
             \/ MeshGossip(t) \/ MeshReset(t) \/ MeshFlush(t)
      PROVE  refused \subseteq refused'
  BY <1>2
  DEF DemoSend, BridgeIngest, MeshGossip, MeshReset, MeshFlush, history
<1> QED
  BY <1>1, <1>2 DEF Next, Background, vars, history

\* Only a reset of the database undoes a decision, unless it is that the
\* packet is dated ahead.
LEMMA DecidedStays ==
  ASSUME MP!Inductive, IP!Inductive, FlushTyped, [Next]_vars,
         rows \subseteq rows', NEW h \in Packets, Decided(h)
  PROVE  Decided(h)' \/ I!FutureDated(h)
<1>1. CASE \E r \in rows : r.hash = h
  BY <1>1 DEF Decided
<1>2. CASE Working(h)
  BY <1>2, WorkEnds, TooOldStays DEF Decided, Working, I!Fresh
<1>3. CASE h \in refused \/ h \notin Readable \/ I!TooOld(h)
  BY <1>3, RefusedStays, TooOldStays DEF Decided
<1> QED
  BY <1>1, <1>2, <1>3 DEF Decided, Working

LEMMA DueStays ==
  ASSUME MP!Inductive, IP!Inductive, FlushTyped, OnlySent, [Next]_vars,
         rows \subseteq rows', torn \subseteq torn', NEW h \in Sent, Due(h)
  PROVE  Due(h)'
  BY DecidedStays, SentNotAhead, Parts DEF Due

\* A claim that is not dropped stays due, or else its packet was dated ahead
\* when it was claimed.
LEMMA ClaimStaysDue ==
  ASSUME MP!Inductive, IP!Inductive, FlushTyped, OnlySent, ClaimsArePast,
         ClaimsAreDue, [Next]_vars, rows \subseteq rows', torn \subseteq torn',
         NEW h \in DOMAIN seen, h \in DOMAIN seen', seen'[h] = seen[h]
  PROVE  Due(h)' \/ DatedAheadWhenClaimed(h)'
<1>1. CASE Due(h)
  <2>1. h \in Packets /\ h \in Sent \cup Foreign
    BY Parts DEF OnlySent
  <2>2. CASE I!FutureDated(h)
    <3>1. h \in Foreign
      BY <2>1, <2>2, SentNotAhead DEF OnlySent
    <3>2. SignedAt[h] - clock > SkewSeconds * Second
      BY <2>1, <2>2, FutureDatedIsAhead
    <3>3. /\ SignedAt[h] \in Int /\ clock \in Nat /\ seen[h] \in Nat
          /\ seen[h] <= clock /\ SkewSeconds * Second \in Nat
      BY <2>1, Parts, UpiMeshAssumption DEF ClaimsArePast
    <3>4. SignedAt[h] - seen[h] > SkewSeconds * Second
      BY <3>2, <3>3
    <3> QED
      BY <3>1, <3>4 DEF DatedAheadWhenClaimed
  <2> QED
    BY <1>1, <2>1, <2>2, DecidedStays DEF Due
<1>2. CASE DatedAheadWhenClaimed(h)
  BY <1>2 DEF DatedAheadWhenClaimed
<1> QED
  BY <1>1, <1>2 DEF ClaimsAreDue

\* Until it is reset, the database loses nothing and nothing is torn.
LEMMA Kept ==
  ASSUME MP!Inductive, IP!Inductive, FlushTyped, [Next]_vars
  PROVE  \/ /\ rows \subseteq rows' /\ torn = torn'
            /\ DOMAIN seen' \subseteq DOMAIN seen
            /\ \A h \in DOMAIN seen' : seen'[h] = seen[h]
         \/ \E t \in Threads : ServiceStep(t)
<1>1. ASSUME NEW t \in Threads,
             \/ \E d \in Devices \cup Strangers, x \in Packets, ttl \in Ttls :
                  DemoSend(t, d, x, ttl)
             \/ MeshGossip(t) \/ MeshReset(t) \/ MeshStep(t)
      PROVE  UNCHANGED <<rows, torn, seen>>
  BY <1>1, OtherSteps
<1>2. ASSUME NEW t \in Threads,
             \/ \E x \in Packets : BridgeIngest(t, x)
             \/ MeshFlush(t) \/ Upload(t) \/ FlushReturns(t)
      PROVE  UNCHANGED <<rows, torn, seen>>
  BY <1>2, MeshFlushEffect, UploadEffect
  DEF BridgeIngest, I!Ingest, I!settlement, FlushReturns, ingestVars, history
<1>3. CASE Background
  BY <1>3
  DEF Background, I!EvictExpired, I!Evict, I!Claimed, I!Tick, I!settlement, history
<1>4. CASE UNCHANGED vars
  BY <1>4 DEF vars, ingestVars, history
<1> QED
  BY <1>1, <1>2, <1>3, <1>4 DEF Next, HandlerStep

\* A claim is stamped with a time that its request read before.
LEMMA PastStep ==
  ASSUME MP!Inductive, IP!Inductive, FlushTyped, ClaimsArePast, [Next]_vars
  PROVE  ClaimsArePast'
<1>1. clock \in Nat /\ clock' \in Nat /\ clock <= clock'
  BY TimePasses, Parts
<1>2. ASSUME NEW h \in DOMAIN seen', h \in DOMAIN seen, seen'[h] = seen[h]
      PROVE  seen'[h] \in Nat /\ seen'[h] <= clock'
  BY <1>1, <1>2 DEF ClaimsArePast
<1>3. ASSUME NEW t \in Threads, ServiceStep(t), I!Gate(t)
      PROVE  ClaimsArePast'
  <2>1. job[t].stamp \in Nat /\ job[t].stamp <= clock
    BY <1>3, GateEffect DEF IP!Inductive, IP!Locals, IP!Claiming, IP!Job
  <2> QED
    BY <1>1, <1>2, <1>3, <2>1, GateEffect DEF ClaimsArePast
<1>4. ASSUME NEW t \in Threads, ServiceStep(t),
             \/ I!Validate(t) \/ I!Settle(t) \/ I!SettleStrays(t)
             \/ I!ClearCache(t) \/ I!ResetDb(t)
      PROVE  ClaimsArePast'
  <2>1. seen' = seen \/ DOMAIN seen' = {}
    BY <1>4, ValidateEffect, SettleEffect, StraysEffect, ClearCacheEffect,
       ResetDbEffect
  <2> QED
    BY <1>2, <2>1 DEF ClaimsArePast
<1> QED
  BY <1>2, <1>3, <1>4, Kept, ServiceEffect DEF ClaimsArePast

\* A claim is made before the packet is decided, and undone with the cache
\* only; the database forgets decisions and tears what is claimed.
LEMMA ClaimsStep ==
  ASSUME MP!Inductive, IP!Inductive, FlushTyped, OnlySent, ClaimsArePast,
         ClaimsAreDue, [Next]_vars
  PROVE  ClaimsAreDue'
<1>1. ASSUME rows \subseteq rows', torn = torn', DOMAIN seen' \subseteq DOMAIN seen,
             \A h \in DOMAIN seen' : seen'[h] = seen[h]
      PROVE  ClaimsAreDue'
  BY <1>1, ClaimStaysDue DEF ClaimsAreDue
<1>2. ASSUME NEW t \in Threads, ServiceStep(t), I!Gate(t)
      PROVE  ClaimsAreDue'
  <2>1. \A h \in DOMAIN seen : Due(h)' \/ DatedAheadWhenClaimed(h)'
    BY <1>2, ClaimStaysDue, GateEffect
  <2>2. job[t].hash \in DOMAIN seen' \ DOMAIN seen => Decided(job[t].hash)'
    BY <1>2, GateEffect DEF Decided
  <2> QED
    BY <1>2, <2>1, <2>2, GateEffect DEF ClaimsAreDue, Due
<1>3. ASSUME NEW t \in Threads, ServiceStep(t),
             I!Validate(t) \/ I!Settle(t) \/ I!SettleStrays(t)
      PROVE  ClaimsAreDue'
  BY <1>1, <1>3, ValidateEffect, SettleEffect, StraysEffect
<1>4. ASSUME NEW t \in Threads, ServiceStep(t), I!ClearCache(t) \/ I!ResetDb(t)
      PROVE  ClaimsAreDue'
  BY <1>4, ClearCacheEffect, ResetDbEffect DEF ClaimsAreDue, Due
<1> QED
  BY <1>1, <1>2, <1>3, <1>4, Kept, ServiceEffect

\* What one flush may say of a packet that it collected.
Underway(t, h) ==
  \/ \E c \in flush[t].todo : c.id = h
  \/ stage[t] = "claim" /\ job[t].hash = h
  \/ Due(h)

\* A packet leaves the hands of a flush when it is claimed or found claimed.
LEMMA FlushStep ==
  ASSUME MP!Inductive, IP!Inductive, FlushTyped, OnlySent, ClaimsAreDue,
         FlushGoesOn, [Next]_vars
  PROVE  FlushGoesOn'
<1>1. \A t \in Threads : flush[t].on /\ flush[t].calm =>
        \A h \in flush[t].got : h \in Sent /\ Underway(t, h)
  BY DEF FlushGoesOn, Underway, OnlySent
<1>2. ASSUME NEW t \in Threads,
             \/ \E d \in Devices \cup Strangers, x \in Packets, ttl \in Ttls :
                  DemoSend(t, d, x, ttl)
             \/ MeshGossip(t) \/ MeshReset(t) \/ MeshStep(t)
      PROVE  FlushGoesOn'
  <2>1. \A h \in Sent : Due(h) => Due(h)'
    BY <1>2, OtherSteps, DueStays
  <2>2. UNCHANGED <<flush, job>> /\ \A u \in Threads :
          stage[u] = "claim" => stage'[u] = "claim"
    BY <1>2, OtherSteps
  <2> QED
    BY <1>1, <2>1, <2>2 DEF FlushGoesOn, Underway
<1>3. ASSUME NEW t \in Threads, NEW x \in Packets, BridgeIngest(t, x)
      PROVE  FlushGoesOn'
  <2>1. UNCHANGED <<flush, rows, torn>> /\ ~flush[t].on
    BY <1>3
    DEF BridgeIngest, Accept, Free, I!Ingest, I!settlement, history
  <2>2. \A u \in Threads \ {t} : stage'[u] = stage[u] /\ job'[u] = job[u]
    BY <1>3, Parts DEF BridgeIngest, I!Ingest, I!Goto
  <2>3. \A h \in Sent : Due(h) => Due(h)'
    BY <2>1, DueStays
  <2> QED
    BY <1>1, <2>1, <2>2, <2>3 DEF FlushGoesOn, Underway
<1>4. ASSUME NEW t \in Threads, MeshFlush(t)
      PROVE  FlushGoesOn'
  <2>1. \A h \in Sent : Due(h) => Due(h)'
    BY <1>4, MeshFlushEffect, DueStays
  <2>2. \A h \in flush'[t].got : \E c \in flush'[t].todo : c.id = h
    BY <1>4, MeshFlushEffect
  <2> QED
    BY <1>1, <1>4, <2>1, <2>2, MeshFlushEffect DEF FlushGoesOn, Underway
<1>5. ASSUME NEW t \in Threads, Upload(t)
      PROVE  FlushGoesOn'
  <2>1. \A h \in Sent : Due(h) => Due(h)'
    BY <1>5, UploadEffect, DueStays
  <2>2. PICK c \in flush[t].todo :
           /\ \A u \in Threads \ {t} :
                flush'[u] = flush[u] /\ stage'[u] = stage[u] /\ job'[u] = job[u]
           /\ flush'[t].todo = flush[t].todo \ {c}
           /\ flush'[t].got = flush[t].got /\ flush'[t].on = flush[t].on
           /\ flush'[t].calm = flush[t].calm
           /\ stage[t] = "idle" /\ stage'[t] = "claim" /\ job'[t].hash = c.id
    BY <1>5, UploadEffect
  <2> QED
    BY <1>1, <2>1, <2>2 DEF FlushGoesOn, Underway
<1>6. ASSUME NEW t \in Threads, FlushReturns(t)
      PROVE  FlushGoesOn'
  <2>1. /\ UNCHANGED <<rows, torn, stage, job>> /\ ~flush'[t].on
        /\ \A u \in Threads \ {t} : flush'[u] = flush[u]
    BY <1>6 DEF FlushReturns, NoFlush, FlushTyped, ingestVars, history
  <2>2. \A h \in Sent : Due(h) => Due(h)'
    BY <2>1, DueStays
  <2> QED
    BY <1>1, <2>1, <2>2 DEF FlushGoesOn, Underway
<1>7. ASSUME NEW t \in Threads, ServiceStep(t), I!Gate(t)
      PROVE  FlushGoesOn'
  <2>1. \A h \in Sent : Due(h) => Due(h)'
    BY <1>7, GateEffect, DueStays
  <2>2. ASSUME NEW h \in Sent, h = job[t].hash
        PROVE  Due(h)'
    <3>1. CASE h \in DOMAIN seen
      <4>1. ~DatedAheadWhenClaimed(h)
        BY <2>2 DEF OnlySent, DatedAheadWhenClaimed
      <4> QED
        BY <2>1, <2>2, <3>1, <4>1 DEF ClaimsAreDue
    <3>2. CASE stage'[t] = "validate" /\ job'[t].hash = h
      BY <3>2 DEF Due, Decided
    <3>3. CASE h \in refused'
      BY <3>3 DEF Due, Decided
    <3> QED
      BY <1>7, <2>2, <3>1, <3>2, <3>3, GateEffect
  <2>3. /\ flush' = flush
        /\ \A u \in Threads \ {t} : stage'[u] = stage[u] /\ job'[u] = job[u]
    BY <1>7, GateEffect, ServiceEffect
  <2>4. ASSUME NEW u \in Threads, flush[u].on, flush[u].calm,
               NEW h \in flush[u].got
        PROVE  Underway(u, h)'
    <3>1. h \in Sent /\ Underway(u, h)
      BY <1>1, <2>4
    <3>2. CASE stage[u] = "claim" /\ job[u].hash = h
      BY <2>2, <2>3, <3>1, <3>2 DEF Underway
    <3>3. CASE (\E c \in flush[u].todo : c.id = h) \/ Due(h)
      BY <2>1, <2>3, <3>1, <3>3 DEF Underway
    <3> QED
      BY <3>1, <3>2, <3>3 DEF Underway
  <2> QED
    BY <2>3, <2>4 DEF FlushGoesOn, Underway
<1>8. ASSUME NEW t \in Threads, ServiceStep(t),
             I!Validate(t) \/ I!Settle(t) \/ I!SettleStrays(t)
      PROVE  FlushGoesOn'
  <2>1. /\ flush' = flush /\ stage[t] # "claim"
        /\ rows \subseteq rows' /\ torn \subseteq torn'
    BY <1>8, ValidateEffect, SettleEffect, StraysEffect
  <2>2. \A h \in Sent : Due(h) => Due(h)'
    BY <2>1, DueStays
  <2> QED
    BY <1>1, <1>8, <2>1, <2>2, ServiceEffect DEF FlushGoesOn, Underway
<1>9. ASSUME NEW t \in Threads, ServiceStep(t), I!ClearCache(t) \/ I!ResetDb(t)
      PROVE  FlushGoesOn'
  <2>1. flush' = [u \in Threads |-> [flush[u] EXCEPT !.calm = ~flush[u].on]]
    BY <1>9, ClearCacheEffect, ResetDbEffect
  <2>2. \A u \in Threads : ~(flush'[u].on /\ flush'[u].calm)
    BY <2>1 DEF FlushTyped, Flush
  <2> QED
    BY <2>2 DEF FlushGoesOn
<1>10. CASE Background \/ UNCHANGED vars
  <2>1. UNCHANGED <<flush, rows, torn, stage, job>>
    BY <1>10
    DEF Background, I!EvictExpired, I!Tick, I!settlement, vars, ingestVars, history
  <2>2. \A h \in Sent : Due(h) => Due(h)'
    BY <2>1, DueStays
  <2> QED
    BY <1>1, <2>1, <2>2 DEF FlushGoesOn, Underway
<1> QED
  BY <1>2, <1>3, <1>4, <1>5, <1>6, <1>7, <1>8, <1>9, <1>10, ServiceEffect
  DEF Next, HandlerStep

-----------------------------------------------------------------------------
LEMMA InitInductive == Init => Inductive
<1> SUFFICES ASSUME Init
             PROVE  Inductive
  OBVIOUS
<1>1. /\ FlushTyped /\ \A t \in Threads : flush[t] = NoFlush
      /\ requests = 0 /\ torn = {} /\ refused = {} /\ recorded = {}
  BY DEF Init, FlushTyped, NoFlush, Flush
<1>2. /\ meshStage = [t \in Threads |-> "idle"] /\ Sent = {}
      /\ stage = [t \in Threads |-> "idle"] /\ DOMAIN seen = {}
  BY DEF Init, M!Init, I!Init, I!NothingSeen, Sent
<1> QED
  BY <1>1, <1>2, UpiMeshAssumption
  DEF Inductive, Handlers, OnlySent, HopsAhead, HopCountsAreHops, ClaimsArePast,
      ClaimsAreDue, FlushGoesOn, NoFlush, Uploading

LEMMA NextInductive ==
  MP!Inductive /\ IP!Inductive /\ Inductive /\ [Next]_vars => Inductive'
  BY FlushTypedStep, HandlersStep, OnlySentStep, HopsStep, PastStep, ClaimsStep,
     FlushStep
  DEF Inductive

THEOREM Invariance == Spec => []Inductive
<1> QED
  BY InitInductive, NextInductive, MeshInvariant, IngestionInvariant, PTL DEF Spec

\* TypeOK: the mesh and ingestion keep the types of their variables when they
\* are put together, and a thread is in one handler of ApiController at a time.
THEOREM TypeCorrect == Spec => []TypeOK
<1>1. MP!Inductive /\ IP!Inductive /\ Inductive => TypeOK
  BY SameMesh, SameIngestion
  DEF MP!Inductive, IP!Inductive, Inductive, FlushTyped, Handlers, TypeOK
<1> QED
  BY <1>1, Invariance, MeshInvariant, IngestionInvariant, PTL

\* FlushDecides: when meshFlush returns, every packet that collectBridgeUploads
\* gave it is decided, whatever ran beside it.
THEOREM FlushLeavesNothing == Spec => []FlushDecides
<1>1. Inductive => FlushDecides
  BY DEF Inductive, FlushGoesOn, FlushDecides, FlushDone, Returned, Due
<1> QED
  BY <1>1, Invariance, PTL

\* HopCountsAreHops: the hop count that meshFlush stores with a row is one the
\* packet can have travelled.
THEOREM HopsAreCounted == Spec => []HopCountsAreHops
<1>1. Inductive => HopCountsAreHops
  BY DEF Inductive
<1> QED
  BY <1>1, Invariance, PTL

\* The HTTP handlers never make settle() or Database::reset() write two rows
\* for one packet hash or one id: not when flushes upload the same packets at
\* once, phones upload them again, the evictor forgets their claims and resets
\* wipe the rows in between.
THEOREM HandlersKeepRowsApart == Spec => []I!RowsApart
<1>1. Init => IP!Init
  BY SameIngestion DEF Init
<1>2. FlushTyped /\ [Next]_vars => [IP!Next]_(IP!vars)
  BY StepsIngestion, SameIngestion DEF IP!vars, ingestVars
<1>3. IP!Spec => IP!ContractSpec
  BY IP!KeepsToContract, UpiMeshAssumption
<1>4. IP!ContractSpec => []IP!RowsApart
  BY IP!ContractKeepsRowsApart, UpiMeshAssumption
<1>5. IP!RowsApart => I!RowsApart
  BY DEF IP!RowsApart, I!RowsApart
<1> QED
  BY <1>1, <1>2, <1>3, <1>4, <1>5, FlushesAreTyped, PTL DEF Spec, IP!Spec

\* OnlyDueAreDropped: ingest() drops an upload as a duplicate only if its
\* packet is decided by then or was torn from its row, or a phone had dated it
\* ahead by more than the tolerance when it was claimed.  The packets of
\* demoSend never are; kept_claim shows what becomes of the others.
THEOREM DroppedUploadsAreDue == Spec => OnlyDueAreDropped
<1>1. MP!Inductive /\ IP!Inductive /\ Inductive /\ [Next]_vars => DropsDue
  <2> SUFFICES ASSUME MP!Inductive, IP!Inductive, Inductive, [Next]_vars,
                      NEW t \in Threads, stage[t] = "claim", stage'[t] = "idle",
                      outcome'[t] = "DUPLICATE_DROPPED"
               PROVE  Due(job[t].hash) \/ DatedAheadWhenClaimed(job[t].hash)
    BY DEF DropsDue, Due
  <2> USE DEF Inductive
  <2>1. ASSUME NEW u \in Threads, ServiceStep(u)
        PROVE  Due(job[t].hash) \/ DatedAheadWhenClaimed(job[t].hash)
    <3>1. u = t
      BY <2>1, ServiceEffect
    <3>2. I!Gate(t)
      BY <2>1, <3>1, ServiceEffect, ValidateEffect, SettleEffect,
         StraysEffect, ClearCacheEffect, ResetDbEffect
    <3>3. job[t].hash \in DOMAIN seen
      BY <2>1, <3>1, <3>2, GateEffect
    <3> QED
      BY <3>3 DEF ClaimsAreDue
  <2>2. ASSUME NEW u \in Threads,
               \/ \E d \in Devices \cup Strangers, h \in Packets, ttl \in Ttls :
                    DemoSend(u, d, h, ttl)
               \/ MeshGossip(u) \/ MeshReset(u) \/ MeshStep(u)
        PROVE  FALSE
    BY <2>2, OtherSteps
  <2>3. ASSUME NEW u \in Threads, \E h \in Packets : BridgeIngest(u, h)
        PROVE  FALSE
    BY <2>3, Parts DEF BridgeIngest, I!Ingest, I!Goto
  <2>4. ASSUME NEW u \in Threads, MeshFlush(u)
        PROVE  FALSE
    BY <2>4, MeshFlushEffect
  <2>5. ASSUME NEW u \in Threads, Upload(u)
        PROVE  FALSE
    BY <2>5, UploadEffect
  <2>6. ASSUME NEW u \in Threads, FlushReturns(u)
        PROVE  FALSE
    BY <2>6 DEF FlushReturns, ingestVars
  <2>7. CASE Background
    BY <2>7 DEF Background, I!EvictExpired, I!Tick
  <2>8. CASE UNCHANGED vars
    BY <2>8 DEF vars, ingestVars
  <2> QED
    BY <2>1, <2>2, <2>3, <2>4, <2>5, <2>6, <2>7, <2>8 DEF Next, HandlerStep
<1> QED
  BY <1>1, Invariance, MeshInvariant, IngestionInvariant, PTL
  DEF Spec, OnlyDueAreDropped

-----------------------------------------------------------------------------
(***************************************************************************)
(* meshReset, when nobody uploads between its two steps.                   *)
(***************************************************************************)
\* No request is about to claim a packet while a meshReset has cleared the
\* cache and not yet the database.  The code does not see to it; it depends on
\* the schedule.
ResetsUninterrupted ==
  \A t, u \in Threads : stage[t] = "resetDb" => stage[u] # "claim"

\* Then a reset finds the cache as empty as it left it, and tears nothing.
NothingTorn ==
  /\ torn = {}
  /\ \A t \in Threads : stage[t] = "resetDb" => DOMAIN seen = {}

LEMMA NothingTornStep ==
  ASSUME MP!Inductive, IP!Inductive, FlushTyped, ResetsUninterrupted,
         NothingTorn, [Next]_vars
  PROVE  NothingTorn'
<1> USE DEF NothingTorn
<1>1. ASSUME UNCHANGED torn, DOMAIN seen' \subseteq DOMAIN seen,
             \A u \in Threads : stage'[u] = "resetDb" => stage[u] = "resetDb"
      PROVE  NothingTorn'
  BY <1>1
<1>2. ASSUME NEW t \in Threads,
             \/ \E d \in Devices \cup Strangers, h \in Packets, ttl \in Ttls :
                  DemoSend(t, d, h, ttl)
             \/ MeshGossip(t) \/ MeshReset(t) \/ MeshStep(t)
      PROVE  NothingTorn'
  BY <1>2, OtherSteps
<1>3. ASSUME NEW t \in Threads, \E h \in Packets : BridgeIngest(t, h)
      PROVE  NothingTorn'
  BY <1>3, Parts DEF BridgeIngest, I!Ingest, I!Goto, history
<1>4. ASSUME NEW t \in Threads, MeshFlush(t)
      PROVE  NothingTorn'
  BY <1>4, MeshFlushEffect
<1>5. ASSUME NEW t \in Threads, Upload(t)
      PROVE  NothingTorn'
  BY <1>5, UploadEffect
<1>6. ASSUME NEW t \in Threads, FlushReturns(t)
      PROVE  NothingTorn'
  BY <1>6 DEF FlushReturns, ingestVars, history
<1>7. ASSUME NEW t \in Threads, ServiceStep(t)
      PROVE  NothingTorn'
  <2>1. \A u \in Threads \ {t} : stage'[u] = stage[u]
    BY <1>7, ServiceEffect
  <2>2. CASE I!Gate(t)
    <3>1. /\ stage[t] = "claim" /\ torn' = torn
          /\ stage'[t] \in {"validate", "idle"}
      BY <1>7, <2>2, GateEffect
    <3>2. \A u \in Threads : stage[u] # "resetDb"
      BY <3>1 DEF ResetsUninterrupted
    <3> QED
      BY <2>1, <3>1, <3>2
  <2>3. CASE I!Validate(t)
    <3>1. /\ torn' = torn /\ seen' = seen
          /\ stage'[t] \in {"settle", "idle"}
      BY <1>7, <2>3, ValidateEffect
    <3> QED
      BY <1>1, <2>1, <3>1
  <2>4. CASE I!Settle(t) \/ I!SettleStrays(t)
    <3>1. torn' = torn /\ seen' = seen /\ stage'[t] \in {"settle", "idle"}
      BY <1>7, <2>4, SettleEffect, StraysEffect
    <3> QED
      BY <1>1, <2>1, <3>1
  <2>5. CASE I!ClearCache(t)
    BY <1>7, <2>5, ClearCacheEffect
  <2>6. CASE I!ResetDb(t)
    <3>1. /\ stage[t] = "resetDb" /\ stage'[t] = "idle"
          /\ seen' = seen /\ torn' = torn \cup DOMAIN seen
      BY <1>7, <2>6, ResetDbEffect
    <3>2. torn' = torn
      BY <3>1
    <3> QED
      BY <1>1, <2>1, <3>1, <3>2
  <2> QED
    BY <1>7, <2>2, <2>3, <2>4, <2>5, <2>6, ServiceEffect
<1>8. CASE Background
  <2>1. DOMAIN seen' \subseteq DOMAIN seen
    BY <1>8 DEF Background, I!EvictExpired, I!Tick, I!Evict, I!Claimed
  <2>2. torn' = torn /\ stage' = stage
    BY <1>8 DEF Background, I!EvictExpired, I!Tick, history
  <2> QED
    BY <1>1, <2>1, <2>2
<1>9. CASE UNCHANGED vars
  BY <1>9 DEF vars, ingestVars, history
<1> QED
  BY <1>2, <1>3, <1>4, <1>5, <1>6, <1>7, <1>8, <1>9 DEF Next, HandlerStep

\* ResetLeavesSeedState: only an upload that claims its packet between the two
\* steps of a meshReset can lose its row to it.  Without one a flush leaves
\* nothing undecided, whatever resets came before.
THEOREM UninterruptedResetsAreClean ==
  Spec /\ []ResetsUninterrupted => []ResetLeavesSeedState
<1>1. Init => NothingTorn
  BY DEF Init, I!Init, NothingTorn
<1>2. MP!Inductive /\ IP!Inductive /\ Inductive /\ ResetsUninterrupted
        /\ NothingTorn /\ [Next]_vars => NothingTorn'
  BY NothingTornStep DEF Inductive
<1>3. FlushDecides /\ NothingTorn => ResetLeavesSeedState
  BY DEF FlushDecides, NothingTorn, ResetLeavesSeedState
<1> QED
  BY <1>1, <1>2, <1>3, Invariance, MeshInvariant, IngestionInvariant,
     FlushLeavesNothing, PTL DEF Spec

\* A single thread meets the condition by itself, and so resets clean.
THEOREM SerialResetsAreClean ==
  ASSUME \A t, u \in Threads : t = u
  PROVE  Spec => []ResetLeavesSeedState
<1>1. ResetsUninterrupted
  BY DEF ResetsUninterrupted
<1> QED
  BY <1>1, UninterruptedResetsAreClean, PTL

=============================================================================
