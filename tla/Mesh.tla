-------------------------------- MODULE Mesh --------------------------------
(***************************************************************************)
(* MeshSimulatorService: the virtual devices and the packets they hold,    *)
(* with concurrent requests to inject a packet, to gossip and to reset.    *)
(*                                                                         *)
(* Each device has a mutex of its own that is held for one operation only, *)
(* so a gossip round is many steps: it reads the devices one after the     *)
(* other, then asks for each transfer whether the receiver holds the       *)
(* packet and, in another step, hands it over.  A round and a reset visit  *)
(* the devices in the order of a hash map, which is taken as arbitrary.    *)
(***************************************************************************)
EXTENDS Integers

CONSTANTS
  Threads,      \* request threads
  Devices,      \* the seeded devices (5)
  Strangers,    \* device names that were not seeded
  Ids,          \* packet ids; demoSend makes a new one for each packet
  Ttls,         \* times to live that demoSend is asked for
  MaxRounds,    \* bound on the calls of gossipOnce()
  MaxResets     \* bound on the calls of resetMesh()

ASSUME MeshAssumption ==
  /\ Devices # {} /\ Devices \cap Strangers = {}
  /\ Ttls \subseteq Int
  /\ MaxRounds \in Nat /\ MaxResets \in Nat

VARIABLES
  held,      \* the packets each device holds, from their ids to their ttls
  stage,     \* where each request is in gossipOnce() or resetMesh()
  round,     \* the locals of each request: see Round
  injected,  \* history: ttl and start device of each packet sent
  rounds, resets,   \* gossipOnce() and resetMesh() calls so far
  clears,    \* history: how often a device was cleared
  gone       \* history: packets sent before a reset that has returned and
             \* that no round overlapped

vars == <<held, stage, round, injected, rounds, resets, clears, gone>>

Stages == {"idle", "snapshot", "check", "hold", "clear"}

\* One pass of gossipOnce()'s inner loop: a packet as the round found it on
\* its source, and the device it is offered to.
Transfer == [src: Devices, id: Ids, ttl: Int, dst: Devices]

\* "unread" are the devices still to be read or cleared, "todo" the transfers
\* still to be looked at, "next" the one to be made.  History: "sent" are the
\* packets a round found with ttl left, or those sent before a reset began;
\* "mark" is what "clears", or "rounds", was then.
Round == [unread: SUBSET Devices, todo: SUBSET Transfer,
          next: SUBSET Transfer, mark: Nat, sent: SUBSET Ids]
NoRound == [unread |-> {}, todo |-> {}, next |-> {}, mark |-> 0,
            sent |-> {}]

NothingHeld == [id \in {} |-> 0]
Sent == DOMAIN injected

Init ==
  /\ held = [d \in Devices |-> NothingHeld]
  /\ stage = [t \in Threads |-> "idle"]
  /\ round = [t \in Threads |-> NoRound]
  /\ injected = [id \in {} |-> 0]
  /\ rounds = 0 /\ resets = 0 /\ clears = 0 /\ gone = {}

At(t, label) == stage[t] = label
Goto(t, label) == stage' = [stage EXCEPT ![t] = label]

\* VirtualDevice::hold and VirtualDevice::holds.
Hold(d, id, ttl) ==
  held' = [held EXCEPT ![d] = [x \in DOMAIN held[d] \cup {id} |->
                                 IF x = id THEN ttl ELSE held[d][x]]]
Holds(d, id) == id \in DOMAIN held[d]

-----------------------------------------------------------------------------
\* inject(): a device that does not exist makes it throw.
Inject(d, id, ttl) ==
  /\ d \in Devices
  /\ Hold(d, id, ttl)

\* Mutant of DemoSend: a packet goes out although the request failed.
DemoSendUnrecorded(t, d, id, ttl) ==
  /\ At(t, "idle") /\ id \notin Sent
  /\ Inject(d, id, ttl)
  /\ UNCHANGED <<stage, round, injected, rounds, resets, clears, gone>>

\* demoSend makes a packet with a new id and injects it; if inject() throws,
\* nothing was sent.
DemoSend(t, d, id, ttl) ==
  /\ At(t, "idle")
  /\ \/ /\ id \notin Sent
        /\ Inject(d, id, ttl)
        /\ injected' = [x \in Sent \cup {id} |->
                          IF x = id THEN [ttl |-> ttl, start |-> d]
                                    ELSE injected[x]]
     \/ /\ d \notin Devices
        /\ UNCHANGED <<held, injected>>
  /\ UNCHANGED <<stage, round, rounds, resets, clears, gone>>

\* gossipOnce() begins.
Gossip(t) ==
  /\ At(t, "idle") /\ rounds < MaxRounds
  /\ rounds' = rounds + 1
  /\ round' = [round EXCEPT ![t] = [NoRound EXCEPT !.unread = Devices,
                                                   !.mark = clears]]
  /\ Goto(t, "snapshot")
  /\ UNCHANGED <<held, injected, resets, clears, gone>>

\* Mutant of Offers: the ttl is not looked at.
OffersAll(d) ==
  {[src |-> d, id |-> id, ttl |-> held[d][id], dst |-> dst] :
     id \in DOMAIN held[d], dst \in Devices \ {d}}

\* What the loops over the packets of one source come to: a packet whose ttl
\* is used up is offered to nobody, another one to all devices but its source.
Offers(d) ==
  {[src |-> d, id |-> id, ttl |-> held[d][id], dst |-> dst] :
     id \in {x \in DOMAIN held[d] : held[d][x] > 0}, dst \in Devices \ {d}}

\* getHeldPackets() of one device.
Snapshot(t) ==
  /\ At(t, "snapshot")
  /\ \E d \in round[t].unread :
       /\ round' = [round EXCEPT
            ![t].unread = @ \ {d},
            ![t].todo = @ \cup Offers(d),
            ![t].sent = @ \cup {x.id : x \in Offers(d)}]
       /\ Goto(t, IF round[t].unread = {d} THEN "check" ELSE "snapshot")
  /\ UNCHANGED <<held, injected, rounds, resets, clears, gone>>

\* Mutant of Check: the round ends when a receiver holds the packet.
CheckBreaks(t) ==
  /\ At(t, "check")
  /\ \E x \in round[t].todo :
       \/ /\ Holds(x.dst, x.id)
          /\ round' = [round EXCEPT ![t].todo = {}]
          /\ UNCHANGED stage
       \/ /\ ~Holds(x.dst, x.id)
          /\ round' = [round EXCEPT ![t].todo = @ \ {x}, ![t].next = {x}]
          /\ Goto(t, "hold")
  /\ UNCHANGED <<held, injected, rounds, resets, clears, gone>>

\* Mutant of Check: the round begins again when a receiver holds the packet.
CheckRepeats(t) ==
  /\ At(t, "check")
  /\ \E x \in round[t].todo :
       \/ /\ Holds(x.dst, x.id)
          /\ round' = [round EXCEPT ![t].unread = Devices, ![t].todo = {}]
          /\ Goto(t, "snapshot")
       \/ /\ ~Holds(x.dst, x.id)
          /\ round' = [round EXCEPT ![t].todo = @ \ {x}, ![t].next = {x}]
          /\ Goto(t, "hold")
  /\ UNCHANGED <<held, injected, rounds, resets, clears, gone>>

\* dst->holds(): a receiver that holds the packet is passed over.
Check(t) ==
  /\ At(t, "check")
  /\ \E x \in round[t].todo :
       \/ /\ Holds(x.dst, x.id)
          /\ round' = [round EXCEPT ![t].todo = @ \ {x}]
          /\ UNCHANGED stage
       \/ /\ ~Holds(x.dst, x.id)
          /\ round' = [round EXCEPT ![t].todo = @ \ {x}, ![t].next = {x}]
          /\ Goto(t, "hold")
  /\ UNCHANGED <<held, injected, rounds, resets, clears, gone>>

\* dst->hold(): whatever the receiver has come to hold since is overwritten.
Deliver(t) ==
  /\ At(t, "hold")
  /\ \E x \in round[t].next : Hold(x.dst, x.id, x.ttl - 1)
  /\ round' = [round EXCEPT ![t].next = {}]
  /\ Goto(t, "check")
  /\ UNCHANGED <<injected, rounds, resets, clears, gone>>

\* The round is complete.
Finish(t) ==
  /\ At(t, "check") /\ round[t].todo = {}
  /\ round' = [round EXCEPT ![t] = NoRound]
  /\ Goto(t, "idle")
  /\ UNCHANGED <<held, injected, rounds, resets, clears, gone>>

-----------------------------------------------------------------------------
Gossiping == {t \in Threads : stage[t] \in {"snapshot", "check", "hold"}}

\* Mutant of Reset: one device is left out.
ResetSkipsOne(t) ==
  /\ At(t, "idle") /\ resets < MaxResets
  /\ resets' = resets + 1
  /\ \E d \in Devices :
       round' = [round EXCEPT ![t] =
                   [NoRound EXCEPT !.unread = Devices \ {d}, !.mark = rounds,
                      !.sent = IF Gossiping = {} THEN Sent ELSE {}]]
  /\ Goto(t, "clear")
  /\ UNCHANGED <<held, injected, rounds, clears, gone>>

\* resetMesh() begins.
Reset(t) ==
  /\ At(t, "idle") /\ resets < MaxResets
  /\ resets' = resets + 1
  /\ round' = [round EXCEPT ![t] =
                 [NoRound EXCEPT !.unread = Devices, !.mark = rounds,
                    !.sent = IF Gossiping = {} THEN Sent ELSE {}]]
  /\ Goto(t, "clear")
  /\ UNCHANGED <<held, injected, rounds, clears, gone>>

\* VirtualDevice::clear() of one device; after the last one it returns.
ClearDevice(t) ==
  /\ At(t, "clear")
  /\ \E d \in round[t].unread :
       /\ held' = [held EXCEPT ![d] = NothingHeld]
       /\ clears' = clears + 1
       /\ IF round[t].unread = {d}
          THEN /\ round' = [round EXCEPT ![t] = NoRound]
               /\ gone' = IF round[t].mark = rounds
                          THEN gone \cup round[t].sent ELSE gone
               /\ Goto(t, "idle")
          ELSE /\ round' = [round EXCEPT ![t].unread = @ \ {d}]
               /\ UNCHANGED <<gone, stage>>
  /\ UNCHANGED <<injected, rounds, resets>>

RequestStep(t) ==
  Snapshot(t) \/ Check(t) \/ Deliver(t) \/ Finish(t) \/ ClearDevice(t)

Next == \E t \in Threads :
          \/ \E d \in Devices \cup Strangers, id \in Ids, ttl \in Ttls :
               DemoSend(t, d, id, ttl)
          \/ Gossip(t) \/ Reset(t) \/ RequestStep(t)

Spec == Init /\ [][Next]_vars

\* A request's thread runs until the request is answered; a device's mutex is
\* held for one step only.
FairSpec == Spec /\ \A t \in Threads : WF_vars(RequestStep(t))

-----------------------------------------------------------------------------
(***************************************************************************)
(* Properties.                                                             *)
(***************************************************************************)
TypeOK ==
  /\ DOMAIN held = Devices
  /\ \A d \in Devices : /\ DOMAIN held[d] \subseteq Sent
                       /\ \A id \in DOMAIN held[d] : held[d][id] \in Int
  /\ stage \in [Threads -> Stages]
  /\ round \in [Threads -> Round]
  /\ Sent \subseteq Ids
  /\ \A id \in Sent : injected[id] \in [ttl: Ttls, start: Devices]
  /\ rounds \in 0..MaxRounds /\ resets \in 0..MaxResets
  /\ clears \in Nat /\ gone \subseteq Sent

\* Every hop costs a unit of ttl and nothing is forwarded without one, though
\* concurrent rounds may overwrite each other's copies: away from where it
\* was sent a packet has less ttl than it was sent with, and never less than
\* none.
TtlIsSpent ==
  \A d \in Devices : \A id \in DOMAIN held[d] :
    \/ held[d][id] = injected[id].ttl /\ d = injected[id].start
    \/ held[d][id] \in 0..(injected[id].ttl - 1)

\* A round that ends has brought every packet with ttl left to every device,
\* the bridge included, whatever other rounds did meanwhile, unless devices
\* were cleared under it.
RoundReachesAll ==
  \A t \in Threads :
    /\ At(t, "check") /\ round[t].todo = {} /\ round[t].mark = clears
    => \A id \in round[t].sent, d \in Devices : Holds(d, id)

\* gossipOnce() and resetMesh() return: rounds do not keep each other busy.
RequestsReturn == \A t \in Threads : stage[t] # "idle" ~> stage[t] = "idle"

\* A reset that no gossip round overlaps is final, though it clears device
\* after device while packets are sent: what was sent before it is held by
\* nobody after it.  (A round that overlaps it puts packets back.)
ResetIsFinal == \A d \in Devices : DOMAIN held[d] \cap gone = {}
=============================================================================
