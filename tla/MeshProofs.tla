----------------------------- MODULE MeshProofs -----------------------------
(***************************************************************************)
(* Proofs about Mesh for any number of request threads, devices, packets,  *)
(* rounds and resets, and for any times to live.                           *)
(*                                                                         *)
(* A gossip round works from copies: what it will hand over was read from  *)
(* a device earlier.  The invariants say what such a transfer still tells: *)
(* its packet was sent, its ttl is one the packet once had (Forwarded),    *)
(* every receiver holds the packet or has a transfer to come (Reaching),   *)
(* and a reset under which no round runs leaves none behind (Cleaning).    *)
(***************************************************************************)
EXTENDS Mesh, TLAPS

\* The transfers a request has yet to make.
Ahead(t) == round[t].todo \cup round[t].next

\* Only a gossip round has transfers, and the one it is about to make only
\* while it makes it.
Locals ==
  \A t \in Threads :
    /\ stage[t] \in {"idle", "clear"} => Ahead(t) = {}
    /\ stage[t] # "hold" => round[t].next = {}
    /\ \A x, y \in round[t].next : x = y
    /\ stage[t] \in {"snapshot", "check", "hold"} => round[t].mark <= clears
    /\ At(t, "clear") => round[t].mark <= rounds
    /\ round[t].sent \subseteq Sent

\* A transfer is of a packet that was sent and not reset away, at a ttl it
\* may still spend.
Forwarded ==
  \A t \in Threads : \A x \in Ahead(t) :
    x.id \in Sent \ gone /\ x.ttl \in 1..injected[x.id].ttl

\* A packet that a round found with ttl left is at each device or on its way.
Reaching ==
  \A t \in Gossiping :
    round[t].mark = clears =>
      \A id \in round[t].sent, d \in Devices :
        Holds(d, id) \/ \E x \in Ahead(t) : x.id = id /\ x.dst = d

\* A reset that no round overlapped so far has cleared the devices it is
\* through with for good.
Cleaning ==
  \A t \in Threads :
    At(t, "clear") /\ round[t].mark = rounds /\ round[t].sent # {} =>
      /\ Gossiping = {}
      /\ \A d \in Devices \ round[t].unread :
           DOMAIN held[d] \cap round[t].sent = {}

Inductive ==
  /\ TypeOK /\ Locals /\ Forwarded /\ Reaching /\ Cleaning
  /\ TtlIsSpent /\ RoundReachesAll /\ ResetIsFinal

-----------------------------------------------------------------------------
(***************************************************************************)
(* What the operations return and change.                                  *)
(***************************************************************************)
USE DEF At, Sent, Ahead

\* VirtualDevice::hold changes one device, and there one packet.
LEMMA HoldEffect ==
  ASSUME DOMAIN held = Devices, NEW d \in Devices, NEW id, NEW ttl,
         Hold(d, id, ttl)
  PROVE  /\ DOMAIN held' = Devices
         /\ \A e \in Devices : e # d => held'[e] = held[e]
         /\ DOMAIN held'[d] = DOMAIN held[d] \cup {id}
         /\ \A x \in DOMAIN held'[d] :
              held'[d][x] = IF x = id THEN ttl ELSE held[d][x]
  BY DEF Hold

\* A new packet is recorded beside the old ones.
LEMMA DemoSendEffect ==
  ASSUME TypeOK, NEW t \in Threads, NEW d \in Devices \cup Strangers,
         NEW id \in Ids, NEW ttl \in Ttls, DemoSend(t, d, id, ttl)
  PROVE  /\ UNCHANGED <<stage, round, rounds, resets, clears, gone>>
         /\ \/ UNCHANGED <<held, injected>>
            \/ /\ d \in Devices /\ id \notin Sent /\ Hold(d, id, ttl)
               /\ Sent' = Sent \cup {id}
               /\ injected'[id] = [ttl |-> ttl, start |-> d]
               /\ \A x \in Sent : injected'[x] = injected[x]
  BY DEF DemoSend, Inject

\* An offer is of a packet with ttl left, to another device.
LEMMA OffersType ==
  ASSUME TypeOK, NEW d \in Devices
  PROVE  /\ Offers(d) \subseteq Transfer
         /\ \A x \in Offers(d) : /\ x.id \in DOMAIN held[d] /\ x.id \in Sent
                                 /\ x.ttl = held[d][x.id] /\ x.ttl > 0
  BY DEF TypeOK, Offers, Transfer

\* And every other device is offered it.
LEMMA OffersReach ==
  ASSUME NEW d \in Devices, NEW x \in Offers(d), NEW e \in Devices \ {d}
  PROVE  \E y \in Offers(d) : y.id = x.id /\ y.dst = e
<1> DEFINE y == [src |-> d, id |-> x.id, ttl |-> held[d][x.id], dst |-> e]
<1>1. x.id \in {z \in DOMAIN held[d] : held[d][z] > 0}
  BY DEF Offers
<1>2. y \in Offers(d)
  BY <1>1 DEF Offers
<1> QED
  BY <1>2

\* The fields of a round.
LEMMA RoundType ==
  ASSUME TypeOK, NEW t \in Threads
  PROVE  /\ round[t] \in Round
         /\ round[t].unread \subseteq Devices
         /\ round[t].todo \subseteq Transfer /\ round[t].next \subseteq Transfer
         /\ round[t].mark \in Nat /\ round[t].sent \subseteq Ids
  BY DEF TypeOK, Round

\* A step changes the locals of its own thread only.
LEMMA OwnLocals ==
  ASSUME TypeOK, NEW t \in Threads, Gossip(t) \/ Reset(t) \/ RequestStep(t)
  PROVE  /\ stage' = [stage EXCEPT ![t] = stage'[t]]
         /\ round' = [round EXCEPT ![t] = round'[t]]
<1> USE DEF TypeOK, Goto
<1>1. CASE Gossip(t) \/ Reset(t)
  BY <1>1 DEF Gossip, Reset
<1>2. CASE Snapshot(t)
  BY <1>2 DEF Snapshot
<1>3. CASE Check(t)
  BY <1>3 DEF Check
<1>4. CASE Deliver(t) \/ Finish(t)
  BY <1>4 DEF Deliver, Finish
<1>5. CASE ClearDevice(t)
  BY <1>5 DEF ClearDevice
<1> QED
  BY <1>1, <1>2, <1>3, <1>4, <1>5 DEF RequestStep

\* So it keeps the types of all if it keeps those of its own.
LEMMA LocalsType ==
  ASSUME TypeOK, NEW t \in Threads, Gossip(t) \/ Reset(t) \/ RequestStep(t)
  PROVE  /\ \A u \in Threads \ {t} : round'[u] = round[u] /\ stage'[u] = stage[u]
         /\ stage'[t] \in Stages /\ round'[t] \in Round =>
              stage' \in [Threads -> Stages] /\ round' \in [Threads -> Round]
<1>1. stage \in [Threads -> Stages] /\ round \in [Threads -> Round]
  BY DEF TypeOK
<1> QED
  BY <1>1, OwnLocals

\* gossipOnce() begins with no packet read.
LEMMA GossipEffect ==
  ASSUME TypeOK, NEW t \in Threads, Gossip(t)
  PROVE  /\ stage[t] = "idle" /\ stage'[t] = "snapshot"
         /\ round'[t] \in Round
         /\ round'[t].todo = {} /\ round'[t].next = {}
         /\ round'[t].mark = clears /\ round'[t].sent = {}
         /\ rounds' = rounds + 1 /\ rounds < MaxRounds
         /\ UNCHANGED <<held, injected, resets, clears, gone>>
<1>1. round'[t] = [unread |-> Devices, todo |-> {}, next |-> {},
                   mark |-> clears, sent |-> {}]
  BY DEF TypeOK, Gossip, NoRound
<1>2. round'[t] \in Round
  BY <1>1 DEF TypeOK, Round
<1> QED
  BY <1>1, <1>2 DEF TypeOK, Gossip, Goto

\* It reads one device and has the offers of that device ahead.
LEMMA SnapshotEffect ==
  ASSUME TypeOK, NEW t \in Threads, Snapshot(t)
  PROVE  /\ stage[t] = "snapshot" /\ stage'[t] \in {"snapshot", "check"}
         /\ round'[t] \in Round
         /\ round'[t].next = round[t].next /\ round'[t].mark = round[t].mark
         /\ \E d \in Devices :
              /\ round'[t].todo = round[t].todo \cup Offers(d)
              /\ round'[t].sent = round[t].sent \cup
                                    {x.id : x \in Offers(d)}
         /\ UNCHANGED <<held, injected, rounds, resets, clears, gone>>
<1>1. PICK d \in round[t].unread :
        /\ round' = [round EXCEPT ![t].unread = @ \ {d},
                                  ![t].todo = @ \cup Offers(d),
                                  ![t].sent = @ \cup {x.id : x \in Offers(d)}]
        /\ Goto(t, IF round[t].unread = {d} THEN "check" ELSE "snapshot")
  BY DEF Snapshot
<1>2. d \in Devices /\ round[t] \in Round
  BY RoundType
<1> DEFINE ids == {x.id : x \in Offers(d)}
           r == round[t]
<1>3. round'[t] = [r EXCEPT !.unread = @ \ {d}, !.todo = @ \cup Offers(d),
                            !.sent = @ \cup ids]
  BY <1>1 DEF TypeOK
<1>4. ids \subseteq Ids /\ Offers(d) \subseteq Transfer /\ r \in Round
  BY <1>2, OffersType DEF TypeOK
<1> HIDE DEF ids, r
<1>5. /\ round'[t] \in Round
      /\ round'[t].next = r.next /\ round'[t].mark = r.mark
      /\ round'[t].todo = r.todo \cup Offers(d)
      /\ round'[t].sent = r.sent \cup ids
  BY <1>3, <1>4 DEF Round
<1>6. stage'[t] \in {"snapshot", "check"}
  BY <1>1 DEF Goto, TypeOK
<1> QED
  BY <1>2, <1>5, <1>6 DEF Snapshot, ids, r

\* It looks at one transfer and drops it or makes it the next.
LEMMA CheckEffect ==
  ASSUME TypeOK, NEW t \in Threads, Check(t)
  PROVE  /\ stage[t] = "check" /\ round'[t] \in Round
         /\ round'[t].mark = round[t].mark /\ round'[t].sent = round[t].sent
         /\ \E x \in round[t].todo :
              /\ round'[t].todo = round[t].todo \ {x}
              /\ \/ /\ Holds(x.dst, x.id) /\ stage'[t] = "check"
                    /\ round'[t].next = round[t].next
                 \/ /\ stage'[t] = "hold" /\ round'[t].next = {x}
         /\ UNCHANGED <<held, injected, rounds, resets, clears, gone>>
<1> DEFINE r == round[t]
<1>1. r \in Round
  BY RoundType
<1>2. PICK x \in r.todo :
        \/ /\ Holds(x.dst, x.id) /\ stage'[t] = "check"
           /\ round'[t] = [r EXCEPT !.todo = @ \ {x}]
        \/ /\ stage'[t] = "hold"
           /\ round'[t] = [r EXCEPT !.todo = @ \ {x}, !.next = {x}]
  BY DEF TypeOK, Check, Goto
<1>0. {x} \in SUBSET Transfer
  BY RoundType
<1> HIDE DEF r
<1>3. /\ round'[t] \in Round /\ round'[t].todo = r.todo \ {x}
      /\ round'[t].mark = r.mark /\ round'[t].sent = r.sent
      /\ \/ /\ Holds(x.dst, x.id) /\ stage'[t] = "check"
            /\ round'[t].next = r.next
         \/ stage'[t] = "hold" /\ round'[t].next = {x}
  <2>1. CASE /\ Holds(x.dst, x.id) /\ stage'[t] = "check"
             /\ round'[t] = [r EXCEPT !.todo = @ \ {x}]
    BY <1>1, <2>1 DEF Round
  <2>2. CASE /\ stage'[t] = "hold"
             /\ round'[t] = [r EXCEPT !.todo = @ \ {x}, !.next = {x}]
    <3>1. r.todo \ {x} \in SUBSET Transfer
      BY <1>1 DEF Round
    <3>2. round'[t] \in Round
      BY <1>0, <1>1, <2>2, <3>1 DEF Round
    <3>3. /\ round'[t].todo = r.todo \ {x} /\ round'[t].next = {x}
          /\ round'[t].mark = r.mark /\ round'[t].sent = r.sent
      BY <1>1, <2>2 DEF Round
    <3> QED
      BY <2>2, <3>2, <3>3
  <2> QED
    BY <1>2, <2>1, <2>2
<1>4. stage[t] = "check" /\ UNCHANGED <<held, injected, rounds, resets, clears, gone>>
  BY DEF Check
<1> QED
  BY <1>2, <1>3, <1>4 DEF r

\* It hands the next packet over, at one less ttl.
LEMMA DeliverEffect ==
  ASSUME TypeOK, NEW t \in Threads, Deliver(t)
  PROVE  /\ stage[t] = "hold" /\ stage'[t] = "check"
         /\ \E x \in round[t].next : Hold(x.dst, x.id, x.ttl - 1)
         /\ round'[t] \in Round
         /\ round'[t].todo = round[t].todo /\ round'[t].next = {}
         /\ round'[t].mark = round[t].mark /\ round'[t].sent = round[t].sent
         /\ UNCHANGED <<injected, rounds, resets, clears, gone>>
<1> DEFINE r == round[t]
<1>1. r \in Round
  BY RoundType
<1>2. round'[t] = [r EXCEPT !.next = {}]
  BY DEF TypeOK, Deliver
<1> HIDE DEF r
<1>3. /\ round'[t] \in Round /\ round'[t].todo = r.todo /\ round'[t].next = {}
      /\ round'[t].mark = r.mark /\ round'[t].sent = r.sent
  BY <1>1, <1>2 DEF Round
<1> QED
  BY <1>3 DEF TypeOK, Deliver, Goto, r

\* It ends.
LEMMA FinishEffect ==
  ASSUME TypeOK, NEW t \in Threads, Finish(t)
  PROVE  /\ stage[t] = "check" /\ stage'[t] = "idle"
         /\ round'[t] = NoRound /\ NoRound \in Round
         /\ UNCHANGED <<held, injected, rounds, resets, clears, gone>>
  BY DEF TypeOK, Finish, Goto, NoRound, Round

\* resetMesh() begins with every device to be cleared.
LEMMA ResetEffect ==
  ASSUME TypeOK, NEW t \in Threads, Reset(t)
  PROVE  /\ stage[t] = "idle" /\ stage'[t] = "clear"
         /\ round'[t] \in Round
         /\ round'[t].unread = Devices
         /\ round'[t].todo = {} /\ round'[t].next = {}
         /\ round'[t].mark = rounds
         /\ \/ Gossiping = {} /\ round'[t].sent = Sent
            \/ round'[t].sent = {}
         /\ resets' = resets + 1 /\ resets < MaxResets
         /\ UNCHANGED <<held, injected, rounds, clears, gone>>
<1> DEFINE sent == IF Gossiping = {} THEN Sent ELSE {}
<1>1. /\ round' = [round EXCEPT ![t] = [NoRound EXCEPT !.unread = Devices,
                                          !.mark = rounds, !.sent = sent]]
      /\ \/ Gossiping = {} /\ sent = Sent
         \/ sent = {}
  BY DEF Reset
<1>0. sent \in SUBSET Ids /\ rounds \in Nat
  BY MeshAssumption DEF TypeOK
<1> HIDE DEF sent
<1>2. round'[t] = [unread |-> Devices, todo |-> {}, next |-> {},
                   mark |-> rounds, sent |-> sent]
  BY <1>1 DEF TypeOK, NoRound
<1>3. round'[t] \in Round
  BY <1>0, <1>2 DEF Round
<1>4. /\ round'[t].unread = Devices /\ round'[t].todo = {}
      /\ round'[t].next = {} /\ round'[t].mark = rounds
      /\ round'[t].sent = sent
  BY <1>2
<1> QED
  BY <1>1, <1>3, <1>4 DEF TypeOK, Reset, Goto

\* It clears one device, and ends with the last.
LEMMA ClearEffect ==
  ASSUME TypeOK, NEW t \in Threads, ClearDevice(t)
  PROVE  /\ stage[t] = "clear" /\ round'[t] \in Round
         /\ \E d \in Devices :
              /\ held' = [held EXCEPT ![d] = NothingHeld]
              /\ \/ /\ round[t].unread = {d} /\ round'[t] = NoRound
                    /\ \/ round[t].mark = rounds
                          /\ gone' = gone \cup round[t].sent
                       \/ gone' = gone
                    /\ stage'[t] = "idle"
                 \/ /\ round'[t].unread = round[t].unread \ {d}
                    /\ round'[t].todo = round[t].todo
                    /\ round'[t].next = round[t].next
                    /\ round'[t].mark = round[t].mark
                    /\ round'[t].sent = round[t].sent
                    /\ gone' = gone /\ stage'[t] = "clear"
         /\ clears' = clears + 1
         /\ UNCHANGED <<injected, rounds, resets>>
<1> DEFINE r == round[t]
<1>1. r \in Round
  BY RoundType
<1>2. PICK d \in r.unread :
        /\ held' = [held EXCEPT ![d] = NothingHeld]
        /\ \/ /\ r.unread = {d} /\ round'[t] = NoRound
              /\ \/ r.mark = rounds /\ gone' = gone \cup r.sent
                 \/ gone' = gone
              /\ stage'[t] = "idle"
           \/ /\ round'[t] = [r EXCEPT !.unread = @ \ {d}]
              /\ gone' = gone /\ stage'[t] = "clear"
  BY DEF TypeOK, ClearDevice, Goto
<1>3. d \in Devices
  BY RoundType
<1>4. /\ stage[t] = "clear" /\ clears' = clears + 1
      /\ UNCHANGED <<injected, rounds, resets>>
  BY DEF ClearDevice
<1>5. CASE round'[t] = [r EXCEPT !.unread = @ \ {d}]
           /\ gone' = gone /\ stage'[t] = "clear"
  <2> HIDE DEF r
  <2>1. /\ round'[t] \in Round
        /\ round'[t].unread = r.unread \ {d} /\ round'[t].todo = r.todo
        /\ round'[t].next = r.next /\ round'[t].mark = r.mark
        /\ round'[t].sent = r.sent
    BY <1>1, <1>5 DEF Round
  <2> QED
    BY <1>2, <1>3, <1>4, <1>5, <2>1 DEF r
<1>6. CASE /\ r.unread = {d} /\ round'[t] = NoRound /\ stage'[t] = "idle"
           /\ \/ r.mark = rounds /\ gone' = gone \cup r.sent
              \/ gone' = gone
  <2>1. NoRound \in Round
    BY DEF NoRound, Round
  <2> QED
    BY <1>2, <1>3, <1>4, <1>6, <2>1
<1> QED
  BY <1>2, <1>5, <1>6

-----------------------------------------------------------------------------
(***************************************************************************)
(* One lemma per part of Inductive, one step per action.                   *)
(***************************************************************************)
\* Every step keeps the types; a delivery must be known to be of a packet
\* that was sent.
LEMMA TypeStep ==
  ASSUME TypeOK, Locals, Forwarded, [Next]_vars
  PROVE  TypeOK'
<1> USE DEF Stages
<1>1. ASSUME NEW t \in Threads, NEW d \in Devices \cup Strangers,
             NEW id \in Ids, NEW ttl \in Ttls, DemoSend(t, d, id, ttl)
      PROVE  TypeOK'
  <2>1. CASE UNCHANGED <<held, injected>>
    BY <1>1, <2>1, DemoSendEffect DEF TypeOK
  <2>2. CASE /\ d \in Devices /\ id \notin Sent /\ Hold(d, id, ttl)
             /\ Sent' = Sent \cup {id}
             /\ injected'[id] = [ttl |-> ttl, start |-> d]
             /\ \A x \in Sent : injected'[x] = injected[x]
    <3>1. ttl \in Int
      BY MeshAssumption
    <3>2. /\ DOMAIN held' = Devices
          /\ \A e \in Devices :
               /\ DOMAIN held'[e] \subseteq Sent'
               /\ \A x \in DOMAIN held'[e] : held'[e][x] \in Int
      BY <2>2, <3>1, HoldEffect DEF TypeOK
    <3>3. \A x \in Sent' : injected'[x] \in [ttl: Ttls, start: Devices]
      BY <2>2 DEF TypeOK
    <3>4. Sent' \subseteq Ids /\ gone' \subseteq Sent'
      BY <1>1, <2>2, DemoSendEffect DEF TypeOK
    <3> QED
      BY <1>1, <3>2, <3>3, <3>4, DemoSendEffect DEF TypeOK
  <2> QED
    BY <1>1, <2>1, <2>2, DemoSendEffect
<1>2. ASSUME NEW t \in Threads, Gossip(t)
      PROVE  TypeOK'
  <2>1. rounds' \in 0..MaxRounds
    <3>1. rounds' = rounds + 1 /\ rounds < MaxRounds
      BY <1>2, GossipEffect
    <3> QED
      BY <3>1, MeshAssumption DEF TypeOK
  <2> QED
    BY <1>2, <2>1, GossipEffect, LocalsType DEF TypeOK
<1>3. ASSUME NEW t \in Threads, Snapshot(t)
      PROVE  TypeOK'
  BY <1>3, SnapshotEffect, LocalsType DEF TypeOK, RequestStep
<1>4. ASSUME NEW t \in Threads, Check(t)
      PROVE  TypeOK'
  BY <1>4, CheckEffect, LocalsType DEF TypeOK, RequestStep
<1>5. ASSUME NEW t \in Threads, Deliver(t)
      PROVE  TypeOK'
  <2>1. PICK x \in round[t].next : Hold(x.dst, x.id, x.ttl - 1)
    BY <1>5, DeliverEffect
  <2>2. x.dst \in Devices /\ x.id \in Sent /\ x.ttl - 1 \in Int
    <3>1. x \in Transfer
      BY RoundType
    <3>2. x.id \in Sent
      BY DEF Forwarded
    <3> QED
      BY <3>1, <3>2 DEF Transfer
  <2>3. /\ DOMAIN held' = Devices
        /\ \A e \in Devices :
             /\ DOMAIN held'[e] \subseteq Sent
             /\ \A y \in DOMAIN held'[e] : held'[e][y] \in Int
    BY <2>1, <2>2, HoldEffect DEF TypeOK
  <2> QED
    BY <1>5, <2>3, DeliverEffect, LocalsType DEF TypeOK, RequestStep
<1>6. ASSUME NEW t \in Threads, Finish(t)
      PROVE  TypeOK'
  BY <1>6, FinishEffect, LocalsType DEF TypeOK, RequestStep
<1>7. ASSUME NEW t \in Threads, Reset(t)
      PROVE  TypeOK'
  <2>1. resets' \in 0..MaxResets
    <3>1. resets' = resets + 1 /\ resets < MaxResets
      BY <1>7, ResetEffect
    <3> QED
      BY <3>1, MeshAssumption DEF TypeOK
  <2> QED
    BY <1>7, <2>1, ResetEffect, LocalsType DEF TypeOK
<1>8. ASSUME NEW t \in Threads, ClearDevice(t)
      PROVE  TypeOK'
  <2>1. PICK d \in Devices : held' = [held EXCEPT ![d] = NothingHeld]
    BY <1>8, ClearEffect
  <2>2. gone' \subseteq Sent
    BY <1>8, ClearEffect DEF TypeOK, Locals
  <2>3. clears' \in Nat
    BY <1>8, ClearEffect DEF TypeOK
  <2>4. /\ DOMAIN held' = Devices
        /\ \A e \in Devices :
             /\ DOMAIN held'[e] \subseteq Sent
             /\ \A y \in DOMAIN held'[e] : held'[e][y] \in Int
    BY <2>1 DEF TypeOK, NothingHeld
  <2>5. stage'[t] \in Stages /\ round'[t] \in Round
    BY <1>8, ClearEffect
  <2> QED
    BY <1>8, <2>2, <2>3, <2>4, <2>5, ClearEffect, LocalsType
    DEF TypeOK, RequestStep
<1>9. CASE UNCHANGED vars
  BY <1>9 DEF vars, TypeOK
<1> QED
  BY <1>1, <1>2, <1>3, <1>4, <1>5, <1>6, <1>7, <1>8, <1>9 DEF Next, RequestStep

\* A thread makes its transfers itself.
LEMMA LocalsStep ==
  ASSUME TypeOK, Locals, [Next]_vars
  PROVE  Locals'
<1>0. clears \in Nat /\ rounds \in Nat
  BY MeshAssumption DEF TypeOK
<1>1. ASSUME NEW t \in Threads, NEW d \in Devices \cup Strangers,
             NEW id \in Ids, NEW ttl \in Ttls, DemoSend(t, d, id, ttl)
      PROVE  Locals'
  <2>1. Sent \subseteq Sent' /\ UNCHANGED <<stage, round, rounds, clears>>
    BY <1>1, DemoSendEffect
  <2> QED
    BY <2>1 DEF Locals
<1>2. ASSUME NEW t \in Threads, Gossip(t)
      PROVE  Locals'
  <2>1. \A u \in Threads : round[u].mark \in Nat
    BY RoundType
  <2> QED
    BY <1>0, <1>2, <2>1, GossipEffect, LocalsType DEF Locals
<1>3. ASSUME NEW t \in Threads, Snapshot(t)
      PROVE  Locals'
  <2>1. PICK d \in Devices :
          round'[t].sent = round[t].sent \cup {x.id : x \in Offers(d)}
    BY <1>3, SnapshotEffect
  <2>2. {x.id : x \in Offers(d)} \subseteq Sent
    BY OffersType
  <2>3. round'[t].sent \subseteq Sent
    BY <2>1, <2>2 DEF Locals
  <2> QED
    BY <1>3, <2>3, SnapshotEffect, LocalsType DEF Locals, RequestStep
<1>4. ASSUME NEW t \in Threads, Check(t)
      PROVE  Locals'
  BY <1>4, CheckEffect, LocalsType DEF Locals, RequestStep
<1>5. ASSUME NEW t \in Threads, Deliver(t)
      PROVE  Locals'
  BY <1>5, DeliverEffect, LocalsType DEF Locals, RequestStep
<1>6. ASSUME NEW t \in Threads, Finish(t)
      PROVE  Locals'
  BY <1>6, FinishEffect, LocalsType DEF Locals, NoRound, RequestStep
<1>7. ASSUME NEW t \in Threads, Reset(t)
      PROVE  Locals'
  BY <1>0, <1>7, ResetEffect, LocalsType DEF Locals
<1>8. ASSUME NEW t \in Threads, ClearDevice(t)
      PROVE  Locals'
  <2>1. /\ round'[t].todo = {} /\ round'[t].next = {}
        /\ round'[t].sent \subseteq Sent
        /\ stage'[t] = "clear" => round'[t].mark <= rounds
        /\ stage'[t] \in {"clear", "idle"}
    BY <1>8, ClearEffect DEF Locals, NoRound
  <2>2. clears' = clears + 1 /\ UNCHANGED <<injected, rounds>>
    BY <1>8, ClearEffect
  <2>3. \A u \in Threads : round[u].mark \in Nat
    BY RoundType
  <2>4. RequestStep(t)
    BY <1>8 DEF RequestStep
  <2> QED
    BY <1>0, <2>1, <2>2, <2>3, <2>4, LocalsType DEF Locals
<1>9. CASE UNCHANGED vars
  BY <1>9 DEF vars, Locals
<1> QED
  BY <1>1, <1>2, <1>3, <1>4, <1>5, <1>6, <1>7, <1>8, <1>9 DEF Next, RequestStep

\* A round offers what a device holds, at the ttl it holds it with; while a
\* reset that counts returns, no round has transfers.
LEMMA ForwardedStep ==
  ASSUME TypeOK, Locals, Forwarded, Cleaning, TtlIsSpent, ResetIsFinal,
         [Next]_vars
  PROVE  Forwarded'
<1>1. ASSUME NEW t \in Threads, NEW d \in Devices \cup Strangers,
             NEW id \in Ids, NEW ttl \in Ttls, DemoSend(t, d, id, ttl)
      PROVE  Forwarded'
  <2>1. /\ UNCHANGED <<round, gone>> /\ Sent \subseteq Sent'
        /\ \A x \in Sent : injected'[x] = injected[x]
    BY <1>1, DemoSendEffect
  <2> QED
    BY <2>1 DEF Forwarded
<1>2. ASSUME NEW t \in Threads, Gossip(t)
      PROVE  Forwarded'
  BY <1>2, GossipEffect, LocalsType DEF Forwarded
<1>3. ASSUME NEW t \in Threads, Snapshot(t)
      PROVE  Forwarded'
  <2>1. PICK d \in Devices : round'[t].todo = round[t].todo \cup Offers(d)
    BY <1>3, SnapshotEffect
  <2>2. ASSUME NEW x \in Offers(d)
        PROVE  x.id \in Sent \ gone /\ x.ttl \in 1..injected[x.id].ttl
    <3>1. /\ x.id \in DOMAIN held[d] /\ x.id \in Sent
          /\ x.ttl = held[d][x.id] /\ x.ttl > 0
      BY OffersType
    <3>2. x.id \notin gone
      BY <3>1 DEF ResetIsFinal
    <3>3. injected[x.id].ttl \in Int
      BY <3>1, MeshAssumption DEF TypeOK
    <3> QED
      BY <3>1, <3>2, <3>3 DEF TtlIsSpent
  <2>3. Ahead(t)' = Ahead(t) \cup Offers(d)
    BY <1>3, <2>1, SnapshotEffect
  <2>4. RequestStep(t) /\ UNCHANGED <<injected, gone>>
    BY <1>3, SnapshotEffect DEF RequestStep
  <2> QED
    BY <2>2, <2>3, <2>4, LocalsType DEF Forwarded
<1>4. ASSUME NEW t \in Threads, Check(t)
      PROVE  Forwarded'
  <2>1. Ahead(t)' \subseteq Ahead(t)
    BY <1>4, CheckEffect
  <2>2. RequestStep(t) /\ UNCHANGED <<injected, gone>>
    BY <1>4, CheckEffect DEF RequestStep
  <2> QED
    BY <2>1, <2>2, LocalsType DEF Forwarded
<1>5. ASSUME NEW t \in Threads, Deliver(t)
      PROVE  Forwarded'
  <2>1. Ahead(t)' \subseteq Ahead(t)
    BY <1>5, DeliverEffect
  <2>2. RequestStep(t) /\ UNCHANGED <<injected, gone>>
    BY <1>5, DeliverEffect DEF RequestStep
  <2> QED
    BY <2>1, <2>2, LocalsType DEF Forwarded
<1>6. ASSUME NEW t \in Threads, Finish(t)
      PROVE  Forwarded'
  BY <1>6, FinishEffect, LocalsType DEF Forwarded, NoRound, RequestStep
<1>7. ASSUME NEW t \in Threads, Reset(t)
      PROVE  Forwarded'
  BY <1>7, ResetEffect, LocalsType DEF Forwarded
<1>8. ASSUME NEW t \in Threads, ClearDevice(t)
      PROVE  Forwarded'
  <2>1. Ahead(t)' = {}
    BY <1>8, ClearEffect DEF Locals, NoRound
  <2>2. gone' # gone => Gossiping = {}
    BY <1>8, ClearEffect DEF Cleaning
  <2>3. gone' # gone => \A u \in Threads : Ahead(u) = {}
    BY <2>2 DEF Gossiping, Locals, TypeOK, Stages
  <2>4. /\ \A u \in Threads \ {t} : Ahead(u)' = Ahead(u)
        /\ UNCHANGED injected
    BY <1>8, ClearEffect, LocalsType DEF RequestStep
  <2> QED
    BY <2>1, <2>3, <2>4 DEF Forwarded
<1>9. CASE UNCHANGED vars
  BY <1>9 DEF vars, Forwarded
<1> QED
  BY <1>1, <1>2, <1>3, <1>4, <1>5, <1>6, <1>7, <1>8, <1>9 DEF Next, RequestStep

\* A device that holds a packet goes on holding it until a device is cleared.
LEMMA HoldsStays ==
  ASSUME TypeOK, Locals, Forwarded, [Next]_vars, clears' = clears,
         NEW d \in Devices, NEW id \in DOMAIN held[d]
  PROVE  id \in DOMAIN held'[d]
<1>0. DOMAIN held = Devices
  BY DEF TypeOK
<1>1. ASSUME NEW t \in Threads, NEW e \in Devices \cup Strangers,
             NEW i \in Ids, NEW ttl \in Ttls, DemoSend(t, e, i, ttl)
      PROVE  id \in DOMAIN held'[d]
  <2>1. CASE UNCHANGED held
    BY <2>1
  <2>2. CASE e \in Devices /\ Hold(e, i, ttl)
    <3>1. d # e => held'[d] = held[d]
      BY <1>0, <2>2, HoldEffect
    <3>2. DOMAIN held'[e] = DOMAIN held[e] \cup {i}
      BY <1>0, <2>2, HoldEffect
    <3> QED
      BY <3>1, <3>2
  <2> QED
    BY <1>1, <2>1, <2>2, DemoSendEffect
<1>2. ASSUME NEW t \in Threads, Deliver(t)
      PROVE  id \in DOMAIN held'[d]
  <2>1. PICK x \in round[t].next : Hold(x.dst, x.id, x.ttl - 1)
    BY <1>2, DeliverEffect
  <2>2. x.dst \in Devices
    BY RoundType DEF Transfer
  <2> QED
    BY <1>0, <2>1, <2>2, HoldEffect
<1>3. ASSUME NEW t \in Threads, ClearDevice(t)
      PROVE  FALSE
  <2>1. clears \in Nat /\ clears' = clears + 1
    BY <1>3, ClearEffect DEF TypeOK
  <2> QED
    BY <2>1
<1>4. CASE UNCHANGED held
  BY <1>4
<1> QED
  BY <1>1, <1>2, <1>3, <1>4
  DEF Next, RequestStep, Gossip, Reset, Snapshot, Check, Finish, vars

\* A round reaches whom it offers a packet by handing it over or by finding
\* that somebody else has.
LEMMA ReachingStep ==
  ASSUME TypeOK, Locals, Forwarded, Reaching, [Next]_vars
  PROVE  Reaching'
<1> USE DEF Holds
<1>1. SUFFICES ASSUME NEW u \in Threads,
                      stage'[u] \in {"snapshot", "check", "hold"},
                      round'[u].mark = clears',
                      NEW id \in round'[u].sent, NEW d \in Devices,
                      ~(id \in DOMAIN held'[d])
               PROVE  \E x \in Ahead(u)' : x.id = id /\ x.dst = d
  BY DEF Reaching, Gossiping
<1>2. clears' = clears
  <2>1. ASSUME NEW t \in Threads, ClearDevice(t)
        PROVE  FALSE
    <3>1. clears \in Nat /\ clears' = clears + 1
      BY <2>1, ClearEffect DEF TypeOK
    <3>2. RequestStep(t)
      BY <2>1 DEF RequestStep
    <3>3. stage'[u] = stage[u] /\ round'[u] = round[u]
      BY <1>1, <2>1, <3>2, ClearEffect, LocalsType
    <3>4. round[u].mark \in Nat /\ round[u].mark <= clears
      BY <1>1, <3>3, RoundType DEF Locals
    <3> QED
      BY <1>1, <3>1, <3>3, <3>4
  <2> QED
    BY <2>1
    DEF Next, RequestStep, DemoSend, Gossip, Reset, Snapshot, Check, Deliver,
        Finish, vars
<1>3. d \in Devices /\ ~(id \in DOMAIN held[d])
  BY <1>1, <1>2, HoldsStays
<1>4. ASSUME stage[u] \in {"snapshot", "check", "hold"},
             round[u].mark = clears, id \in round[u].sent
      PROVE  \E x \in Ahead(u) : x.id = id /\ x.dst = d
  BY <1>3, <1>4 DEF Reaching, Gossiping
<1>5. CASE round'[u] = round[u] /\ stage'[u] = stage[u]
  BY <1>1, <1>2, <1>4, <1>5
<1>6. CASE Gossip(u)
  BY <1>1, <1>6, GossipEffect
<1>7. CASE Snapshot(u)
  <2>1. PICK e \in Devices :
          /\ round'[u].todo = round[u].todo \cup Offers(e)
          /\ round'[u].sent = round[u].sent \cup {x.id : x \in Offers(e)}
    BY <1>7, SnapshotEffect
  <2>2. Ahead(u) \subseteq Ahead(u)' /\ Offers(e) \subseteq Ahead(u)'
    BY <1>7, <2>1, SnapshotEffect
  <2>3. CASE id \in round[u].sent
    BY <1>1, <1>2, <1>4, <1>7, <2>2, <2>3, SnapshotEffect
  <2>4. ASSUME NEW x \in Offers(e), id = x.id
        PROVE  \E y \in Ahead(u)' : y.id = id /\ y.dst = d
    <3>1. d # e
      BY <1>3, <2>4, OffersType
    <3> QED
      BY <2>2, <2>4, <3>1, OffersReach
  <2> QED
    BY <1>1, <2>1, <2>3, <2>4
<1>8. CASE Check(u)
  <2>1. PICK x \in round[u].todo :
          /\ round'[u].todo = round[u].todo \ {x}
          /\ \/ x.id \in DOMAIN held[x.dst] /\ round'[u].next = round[u].next
             \/ round'[u].next = {x}
    BY <1>8, CheckEffect
  <2>2. PICK y \in Ahead(u) : y.id = id /\ y.dst = d
    BY <1>1, <1>2, <1>4, <1>8, CheckEffect
  <2>3. round[u].next = {}
    BY <1>8, CheckEffect DEF Locals
  <2>4. y \in Ahead(u)'
    BY <1>3, <2>1, <2>2, <2>3
  <2> QED
    BY <2>2, <2>4
<1>9. CASE Deliver(u)
  <2>1. PICK x \in round[u].next : Hold(x.dst, x.id, x.ttl - 1)
    BY <1>9, DeliverEffect
  <2>2. PICK y \in Ahead(u) : y.id = id /\ y.dst = d
    BY <1>1, <1>2, <1>4, <1>9, DeliverEffect
  <2>3. x.id \in DOMAIN held'[x.dst]
    BY <2>1, RoundType, HoldEffect DEF Transfer, TypeOK
  <2>4. y # x
    BY <1>1, <2>2, <2>3
  <2>5. y \in round[u].todo
    BY <2>2, <2>4 DEF Locals
  <2> QED
    BY <1>9, <2>2, <2>5, DeliverEffect
<1>10. CASE Finish(u) \/ Reset(u) \/ ClearDevice(u)
  BY <1>1, <1>10, FinishEffect, ResetEffect, ClearEffect
<1> QED
  <2>1. ASSUME NEW t \in Threads, t # u,
               Gossip(t) \/ Reset(t) \/ RequestStep(t)
        PROVE  round'[u] = round[u] /\ stage'[u] = stage[u]
    BY <2>1, LocalsType
  <2>2. CASE UNCHANGED <<round, stage>>
    BY <1>5, <2>2
  <2> QED
    BY <1>5, <1>6, <1>7, <1>8, <1>9, <1>10, <2>1, <2>2
    DEF Next, RequestStep, DemoSend, vars

\* What is held where it was sent has the ttl it was sent with, and what was
\* handed over has less.
LEMMA TtlStep ==
  ASSUME TypeOK, Forwarded, TtlIsSpent, [Next]_vars
  PROVE  TtlIsSpent'
<1>0. DOMAIN held = Devices
  BY DEF TypeOK
<1>1. ASSUME NEW t \in Threads, NEW e \in Devices \cup Strangers,
             NEW i \in Ids, NEW ttl \in Ttls, DemoSend(t, e, i, ttl)
      PROVE  TtlIsSpent'
  <2>1. CASE UNCHANGED <<held, injected>>
    BY <2>1 DEF TtlIsSpent
  <2>2. CASE /\ e \in Devices /\ i \notin Sent /\ Hold(e, i, ttl)
             /\ injected'[i] = [ttl |-> ttl, start |-> e]
             /\ \A x \in Sent : injected'[x] = injected[x]
    <3>1. SUFFICES ASSUME NEW d \in Devices, NEW id \in DOMAIN held'[d]
                   PROVE  \/ held'[d][id] = injected'[id].ttl
                             /\ d = injected'[id].start
                          \/ held'[d][id] \in 0..(injected'[id].ttl - 1)
      BY DEF TtlIsSpent
    <3>2. CASE d = e /\ id = i
      BY <1>0, <2>2, <3>2, HoldEffect
    <3>3. CASE ~(d = e /\ id = i)
      <4>1. id \in DOMAIN held[d] /\ held'[d][id] = held[d][id]
        <5>1. CASE d = e
          BY <1>0, <2>2, <3>1, <3>3, <5>1, HoldEffect
        <5>2. CASE d # e
          BY <1>0, <2>2, <3>1, <5>2, HoldEffect
        <5> QED
          BY <5>1, <5>2
      <4>2. injected'[id] = injected[id]
        BY <2>2, <4>1 DEF TypeOK
      <4> QED
        BY <4>1, <4>2 DEF TtlIsSpent
    <3> QED
      BY <3>2, <3>3
  <2>3. \/ UNCHANGED <<held, injected>>
        \/ /\ e \in Devices /\ i \notin Sent /\ Hold(e, i, ttl)
           /\ injected'[i] = [ttl |-> ttl, start |-> e]
           /\ \A x \in Sent : injected'[x] = injected[x]
    BY <1>1 DEF DemoSend, Inject
  <2> QED
    BY <2>1, <2>2, <2>3
<1>2. ASSUME NEW t \in Threads, Deliver(t)
      PROVE  TtlIsSpent'
  <2>1. PICK x \in round[t].next : Hold(x.dst, x.id, x.ttl - 1)
    BY <1>2, DeliverEffect
  <2>2. x.dst \in Devices
    BY RoundType DEF Transfer
  <2>3. x.id \in Sent /\ x.ttl \in 1..injected[x.id].ttl
    BY DEF Forwarded
  <2>4. injected[x.id].ttl \in Int
    BY <2>3, MeshAssumption DEF TypeOK
  <2>5. x.ttl - 1 \in 0..(injected[x.id].ttl - 1)
    BY <2>3, <2>4
  <2>6. injected' = injected
    BY <1>2, DeliverEffect
  <2>7. SUFFICES ASSUME NEW d \in Devices, NEW id \in DOMAIN held'[d]
                 PROVE  \/ held'[d][id] = injected[id].ttl
                           /\ d = injected[id].start
                        \/ held'[d][id] \in 0..(injected[id].ttl - 1)
    BY <2>6 DEF TtlIsSpent
  <2>8. CASE d = x.dst /\ id = x.id
    BY <1>0, <2>1, <2>2, <2>5, <2>8, HoldEffect
  <2>9. CASE ~(d = x.dst /\ id = x.id)
    <3>1. id \in DOMAIN held[d] /\ held'[d][id] = held[d][id]
      <4>1. CASE d = x.dst
        BY <1>0, <2>1, <2>2, <2>7, <2>9, <4>1, HoldEffect
      <4>2. CASE d # x.dst
        BY <1>0, <2>1, <2>2, <2>7, <4>2, HoldEffect
      <4> QED
        BY <4>1, <4>2
    <3> QED
      BY <3>1 DEF TtlIsSpent
  <2> QED
    BY <2>8, <2>9
<1>3. ASSUME NEW t \in Threads, ClearDevice(t)
      PROVE  TtlIsSpent'
  <2>1. PICK d \in Devices : held' = [held EXCEPT ![d] = NothingHeld]
    BY <1>3, ClearEffect
  <2>2. \A e \in Devices : held'[e] \in {held[e], NothingHeld}
    BY <1>0, <2>1
  <2> QED
    BY <1>3, <2>2, ClearEffect DEF TtlIsSpent, NothingHeld
<1>4. CASE UNCHANGED <<held, injected>>
  BY <1>4 DEF TtlIsSpent
<1> QED
  BY <1>1, <1>2, <1>3, <1>4
  DEF Next, RequestStep, Gossip, Reset, Snapshot, Check, Finish, vars

\* A packet comes to be held only when it is sent or handed over.
LEMMA HeldStep ==
  ASSUME TypeOK, [Next]_vars, NEW d \in Devices, NEW id \in DOMAIN held'[d],
         id \notin DOMAIN held[d]
  PROVE  \/ id \notin Sent
         \/ \E t \in Gossiping : \E x \in Ahead(t) : x.id = id
<1>0. DOMAIN held = Devices
  BY DEF TypeOK
<1>1. ASSUME NEW t \in Threads, NEW e \in Devices \cup Strangers,
             NEW i \in Ids, NEW ttl \in Ttls, DemoSend(t, e, i, ttl)
      PROVE  id \notin Sent
  <2>1. e \in Devices /\ i \notin Sent /\ Hold(e, i, ttl)
    BY <1>1, DemoSendEffect
  <2>2. d # e => held'[d] = held[d]
    BY <1>0, <2>1, HoldEffect
  <2>3. DOMAIN held'[e] = DOMAIN held[e] \cup {i}
    BY <1>0, <2>1, HoldEffect
  <2> QED
    BY <2>1, <2>2, <2>3
<1>2. ASSUME NEW t \in Threads, Deliver(t)
      PROVE  \E u \in Gossiping : \E x \in Ahead(u) : x.id = id
  <2>1. PICK x \in round[t].next : Hold(x.dst, x.id, x.ttl - 1)
    BY <1>2, DeliverEffect
  <2>2. x.dst \in Devices
    BY RoundType DEF Transfer
  <2>3. t \in Gossiping
    BY <1>2, DeliverEffect DEF Gossiping
  <2>4. x.id = id
    <3>1. d # x.dst => held'[d] = held[d]
      BY <1>0, <2>1, <2>2, HoldEffect
    <3>2. DOMAIN held'[x.dst] = DOMAIN held[x.dst] \cup {x.id}
      BY <1>0, <2>1, <2>2, HoldEffect
    <3> QED
      BY <3>1, <3>2
  <2> QED
    BY <2>3, <2>4
<1>3. ASSUME NEW t \in Threads, ClearDevice(t)
      PROVE  FALSE
  <2>1. PICK e \in Devices : held' = [held EXCEPT ![e] = NothingHeld]
    BY <1>3, ClearEffect
  <2>2. held'[d] \in {held[d], NothingHeld}
    BY <1>0, <2>1
  <2> QED
    BY <2>2 DEF NothingHeld
<1> QED
  BY <1>1, <1>2, <1>3
  DEF Next, RequestStep, Gossip, Reset, Snapshot, Check, Finish, vars

\* Without a call of gossipOnce() no round comes to run.
LEMMA NoRoundBegins ==
  ASSUME TypeOK, [Next]_vars, Gossiping = {}, rounds' = rounds
  PROVE  Gossiping' = {}
<1> USE DEF Gossiping
<1>1. ASSUME NEW t \in Threads, Gossip(t)
      PROVE  FALSE
  <2>1. rounds \in Int /\ rounds' = rounds + 1
    BY <1>1, GossipEffect, MeshAssumption DEF TypeOK
  <2> QED
    BY <2>1
<1>2. ASSUME NEW t \in Threads,
             Snapshot(t) \/ Check(t) \/ Deliver(t) \/ Finish(t)
      PROVE  FALSE
  BY <1>2, SnapshotEffect, CheckEffect, DeliverEffect, FinishEffect
<1>3. ASSUME NEW t \in Threads, Reset(t) \/ ClearDevice(t)
      PROVE  Gossiping' = {}
  <2>1. \A u \in Threads \ {t} : stage'[u] = stage[u]
    BY <1>3, LocalsType DEF RequestStep
  <2>2. stage'[t] \in {"clear", "idle"}
    BY <1>3, ResetEffect, ClearEffect
  <2> QED
    BY <2>1, <2>2
<1>4. CASE UNCHANGED stage
  BY <1>4
<1> QED
  BY <1>1, <1>2, <1>3, <1>4 DEF Next, RequestStep, DemoSend, vars

\* While no round runs nothing that was sent before a reset comes back to a
\* device that the reset is through with.
LEMMA CleaningStep ==
  ASSUME TypeOK, Locals, Cleaning, [Next]_vars
  PROVE  Cleaning'
<1>1. SUFFICES ASSUME NEW u \in Threads, stage'[u] = "clear",
                      round'[u].mark = rounds', round'[u].sent # {}
               PROVE  /\ Gossiping' = {}
                      /\ \A d \in Devices \ round'[u].unread :
                           DOMAIN held'[d] \cap round'[u].sent = {}
  BY DEF Cleaning
<1>2. ASSUME Gossiping = {}, rounds' = rounds,
             stage[u] = "clear", round'[u].sent = round[u].sent,
             NEW d \in Devices, DOMAIN held[d] \cap round[u].sent = {}
      PROVE  DOMAIN held'[d] \cap round'[u].sent = {}
  BY <1>2, HeldStep DEF Locals
<1>3. CASE Reset(u)
  <2>1. Gossiping = {} /\ round'[u].unread = Devices /\ rounds' = rounds
    BY <1>1, <1>3, ResetEffect
  <2> QED
    BY <2>1, NoRoundBegins
<1>4. CASE ClearDevice(u)
  <2>1. PICK e \in Devices :
          /\ held' = [held EXCEPT ![e] = NothingHeld]
          /\ round'[u].unread = round[u].unread \ {e}
          /\ round'[u].mark = round[u].mark /\ round'[u].sent = round[u].sent
    BY <1>1, <1>4, ClearEffect
  <2>2. stage[u] = "clear" /\ rounds' = rounds
    BY <1>4, ClearEffect
  <2>3. /\ Gossiping = {}
        /\ \A d \in Devices \ round[u].unread :
             DOMAIN held[d] \cap round[u].sent = {}
    BY <1>1, <2>1, <2>2 DEF Cleaning
  <2>4. \A d \in Devices \ round'[u].unread :
           DOMAIN held'[d] \cap round'[u].sent = {}
    <3>1. DOMAIN held'[e] = {}
      BY <2>1 DEF NothingHeld, TypeOK
    <3> QED
      BY <1>2, <2>1, <2>2, <2>3, <3>1
  <2> QED
    BY <2>2, <2>3, <2>4, NoRoundBegins
<1>5. CASE round'[u] = round[u] /\ stage'[u] = stage[u]
  <2>1. rounds' = rounds
    <3>1. ASSUME NEW t \in Threads, Gossip(t)
          PROVE  FALSE
      <4>1. rounds \in Int /\ rounds' = rounds + 1
        BY <3>1, GossipEffect, MeshAssumption DEF TypeOK
      <4>2. round[u].mark \in Nat /\ round[u].mark <= rounds
        BY <1>1, <1>5, RoundType DEF Locals
      <4> QED
        BY <1>1, <1>5, <4>1, <4>2
    <3> QED
      BY <3>1
      DEF Next, RequestStep, DemoSend, Reset, Snapshot, Check, Deliver,
          Finish, ClearDevice, vars
  <2>2. /\ Gossiping = {}
        /\ \A d \in Devices \ round[u].unread :
             DOMAIN held[d] \cap round[u].sent = {}
    BY <1>1, <1>5, <2>1 DEF Cleaning
  <2> QED
    BY <1>1, <1>2, <1>5, <2>1, <2>2, NoRoundBegins
<1>6. CASE Gossip(u) \/ Snapshot(u) \/ Check(u) \/ Deliver(u) \/ Finish(u)
  BY <1>1, <1>6, GossipEffect, SnapshotEffect, CheckEffect, DeliverEffect,
     FinishEffect
<1> QED
  <2>1. ASSUME NEW t \in Threads, t # u,
               Gossip(t) \/ Reset(t) \/ RequestStep(t)
        PROVE  round'[u] = round[u] /\ stage'[u] = stage[u]
    BY <2>1, LocalsType
  <2>2. CASE UNCHANGED <<round, stage>>
    BY <1>5, <2>2
  <2> QED
    BY <1>3, <1>4, <1>5, <1>6, <2>1, <2>2 DEF Next, RequestStep, DemoSend, vars

\* What was reset away is nowhere, neither on a device nor on its way to one.
LEMMA ResetIsFinalStep ==
  ASSUME TypeOK, Locals, Forwarded, Cleaning, ResetIsFinal, [Next]_vars
  PROVE  ResetIsFinal'
<1>1. SUFFICES ASSUME NEW d \in Devices, NEW id \in DOMAIN held'[d],
                      id \in gone'
               PROVE  FALSE
  BY DEF ResetIsFinal
<1>2. CASE id \in gone
  <2>1. id \in Sent /\ id \notin DOMAIN held[d]
    BY <1>2 DEF ResetIsFinal, TypeOK
  <2>2. PICK t \in Gossiping : \E x \in Ahead(t) : x.id = id
    BY <2>1, HeldStep
  <2> QED
    BY <1>2, <2>2 DEF Forwarded, Gossiping
<1>3. CASE id \notin gone
  <2>1. PICK t \in Threads : ClearDevice(t)
    BY <1>1, <1>3
    DEF Next, RequestStep, DemoSend, Gossip, Reset, Snapshot, Check, Deliver,
        Finish, vars
  <2>2. PICK e \in Devices :
          /\ held' = [held EXCEPT ![e] = NothingHeld]
          /\ round[t].unread = {e} /\ round[t].mark = rounds
          /\ id \in round[t].sent
    BY <1>1, <1>3, <2>1, ClearEffect
  <2>3. \A c \in Devices \ {e} : id \notin DOMAIN held[c]
    BY <2>1, <2>2, ClearEffect DEF Cleaning
  <2>4. id \notin DOMAIN held'[d]
    BY <2>2, <2>3 DEF NothingHeld, TypeOK
  <2> QED
    BY <2>4
<1> QED
  BY <1>2, <1>3

\* A round with nothing left to do has reached every device.
LEMMA ReachedAll ==
  ASSUME Locals, Reaching
  PROVE  RoundReachesAll
<1> SUFFICES ASSUME NEW t \in Threads, At(t, "check"), round[t].todo = {},
                    round[t].mark = clears,
                    NEW id \in round[t].sent, NEW d \in Devices
             PROVE  Holds(d, id)
  BY DEF RoundReachesAll
<1>1. Ahead(t) = {}
  BY DEF Locals
<1> QED
  BY <1>1 DEF Reaching, Gossiping

-----------------------------------------------------------------------------
(***************************************************************************)
(* The theorems.                                                           *)
(***************************************************************************)
\* The mesh as it is seeded.
LEMMA InitInductive == Init => Inductive
<1> SUFFICES ASSUME Init
             PROVE  Inductive
  OBVIOUS
<1>1. NoRound \in Round
  BY DEF NoRound, Round
<1>2. TypeOK
  BY <1>1, MeshAssumption DEF Init, TypeOK, Stages, NothingHeld
<1>3. Locals /\ Forwarded
  BY DEF Init, Locals, Forwarded, NoRound
<1>4. Gossiping = {}
  BY DEF Init, Gossiping
<1> QED
  BY <1>2, <1>3, <1>4
  DEF Init, Inductive, Reaching, Cleaning, TtlIsSpent, RoundReachesAll,
      ResetIsFinal, NothingHeld

\* Every step of every request preserves it.
LEMMA NextInductive == Inductive /\ [Next]_vars => Inductive'
<1> SUFFICES ASSUME Inductive, [Next]_vars
             PROVE  Inductive'
  OBVIOUS
<1>1. TypeOK' /\ Locals' /\ Forwarded'
  BY TypeStep, LocalsStep, ForwardedStep DEF Inductive
<1>2. Reaching' /\ Cleaning' /\ TtlIsSpent' /\ ResetIsFinal'
  BY ReachingStep, CleaningStep, TtlStep, ResetIsFinalStep DEF Inductive
<1>3. Inductive => RoundReachesAll
  BY DEF Inductive
<1>4. RoundReachesAll'
  BY <1>1, <1>2, ReachedAll, PTL
<1> QED
  BY <1>1, <1>2, <1>4 DEF Inductive

\* The inductive invariant of the mesh.
THEOREM Invariance == Spec => []Inductive
  BY InitInductive, NextInductive, PTL DEF Spec

\* Devices, packets and rounds keep their types.
THEOREM TypeCorrect == Spec => []TypeOK
<1>1. Inductive => TypeOK
  BY DEF Inductive
<1> QED
  BY Invariance, <1>1, PTL

\* gossipOnce() forwards no packet for free, and none without ttl, though
\* concurrent rounds overwrite each other's copies.
THEOREM HopsCostTtl == Spec => []TtlIsSpent
<1>1. Inductive => TtlIsSpent
  BY DEF Inductive
<1> QED
  BY Invariance, <1>1, PTL

\* A complete gossipOnce() has brought each packet it found to every device.
THEOREM RoundsAreComplete == Spec => []RoundReachesAll
<1>1. Inductive => RoundReachesAll
  BY DEF Inductive
<1> QED
  BY Invariance, <1>1, PTL

\* resetMesh() without a gossip round beside it leaves nothing behind.
THEOREM QuietResetIsFinal == Spec => []ResetIsFinal
<1>1. Inductive => ResetIsFinal
  BY DEF Inductive
<1> QED
  BY Invariance, <1>1, PTL
=============================================================================
