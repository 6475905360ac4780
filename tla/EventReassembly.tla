-------------------------- MODULE EventReassembly --------------------------
(***************************************************************************)
(* The latent-event channel of the server and its clients                  *)
(* (citizen-resources-core, EventReassemblyComponent).  An event is cut    *)
(* into fragments, every fragment is retransmitted until its target        *)
(* acknowledges it, and the target rebuilds the event and queues it.       *)
(*                                                                         *)
(* Every node runs the same component.  The sender of an event keeps a     *)
(* SendEvent in m_sendList (protocol 1) or m_sendListV2 (protocol 2); the  *)
(* target keeps a ReceiveEvent in m_receiveList.  m_listMutex protects     *)
(* both and m_targets, so one critical section is one action; what runs    *)
(* outside it (the two halves of TriggerEvent, HandleReceivedPacket) is an *)
(* action of its own.                                                      *)
(*                                                                         *)
(* Time is abstracted: a tick may find any target due (lastSend and        *)
(* delayNextSend only delay), and a completed ReceiveEvent may be          *)
(* collected at any moment.  The code collects it two minutes after its    *)
(* last acknowledgement; TimelyLinks says that its sender and the network  *)
(* hold no copy of it by then, and collectedEarly records the collections  *)
(* of which this was not true.                                             *)
(***************************************************************************)
EXTENDS Integers, FiniteSets

CONSTANTS
  Server,      \* the server; clients know it as target 0
  Clients,     \* net ids of the clients; an id is never given out twice
  Event,       \* event ids (m_eventId++): one id is one TriggerEvent call
  Sender,      \* Sender[e]: the node that triggers e
  Dest,        \* Dest[e]: the target argument, or Everyone for -1
  Frags,       \* Frags[e]: number of fragments of e
  Version,     \* Version[e]: 1 for TriggerEvent, 2 for TriggerEventV2
  CountLimit,  \* CountLimit[v] = 2^kPacketSizeBits of protocol v
  MaxPending,  \* maxPendingEvents the server registers its clients with
  TimelyLinks, \* no copy of an event is still around two minutes after its last ack
  MaxReassemblies, \* bound: an event is collected only while reassembled less often
  Everyone

Node == Clients \cup {Server}

ASSUME NodeAssumption ==
  Server \notin Clients /\ Everyone \notin Node

ASSUME EventAssumption ==
  /\ IsFiniteSet(Event)
  /\ Sender \in [Event -> Node]
  /\ Dest \in [Event -> Node \cup {Everyone}]
  /\ Frags \in [Event -> Nat \ {0}]
  /\ Version \in [Event -> {1, 2}]
  /\ CountLimit \in [{1, 2} -> Nat \ {0}]

ASSUME MaxPendingAssumption == MaxPending \in 0 .. 255

ASSUME BoundAssumption == TimelyLinks \in BOOLEAN /\ MaxReassemblies \in Nat

\* 0xFF: "the target has infinite amount of events"
Unlimited == 255

VARIABLES
  targets,        \* targets[n]: keys of m_targets at node n
  retired,        \* retired[n]: ids n has unregistered
  maxPendingEvents, \* maxPendingEvents[n][m]: Target::maxPendingEvents, a uint8
  phase,          \* phase[e]: where e is in the sender's TriggerEvent / send list
  sendTargets,    \* sendTargets[e]: SendEvent::targets
  ackBits,        \* ackBits[e][t]: PerTargetData::ackBits
  lastBit,        \* lastBit[e][t]: PerTargetData::lastBit
  finished,       \* finished[e]: targets removed because every bit was acked
  entry,          \* entry[t][e]: the ReceiveEvent of e at t
  ackedBits,      \* ackedBits[t][e]: ReceiveEvent::ackedBits and packetData
  handoff,        \* <<t, e>> completed, HandleReceivedPacket not yet run
  queued,         \* queued[t][e]: calls of QueueEvent for e at t
  limited,        \* limited[t][e]: calls discarded by the sink's LimitEvent
  collectedEarly, \* <<t, e>> collected while a copy of e was still around
  fragments,      \* <<e, t, i>>: fragment i of e in flight to t
  acks            \* <<e, t, i>>: acknowledgement by t of fragment i in flight

targetVars == <<targets, retired, maxPendingEvents>>
sendVars == <<phase, sendTargets, ackBits, lastBit, finished>>
recvVars == <<entry, ackedBits, handoff, queued, limited, collectedEarly>>
netVars == <<fragments, acks>>
vars == <<targetVars, sendVars, recvVars, netVars>>

Peers(n) == IF n = Server THEN Clients ELSE {Server}

\* Packet indices of an event: bits of its ackBits.
Idx(e) == 0 .. Frags[e] - 1

\* The totalPackets field on the wire has kPacketSizeBits bits.
WireTotal(e) == Frags[e] % CountLimit[Version[e]]

\* totalSize < kMaxPacketSize, counted in fragments.
NotOversized(e) == Frags[e] <= CountLimit[Version[e]]

\* Events t has started to receive from m and not completed.
Pending(t, m) == {e \in Event : Sender[e] = m /\ entry[t][e] = "partial"}

\* A copy of e may still reach t: one is in flight, or the sender keeps retransmitting.
Lingering(t, e) ==
  \/ t \in sendTargets[e]
  \/ \E i \in Idx(e) : <<e, t, i>> \in fragments

\* t has reassembled e at least once.
Received(t, e) == <<t, e>> \in handoff \/ queued[t][e] + limited[t][e] > 0

\* How often t has reassembled e.
Reassemblies(t, e) ==
  queued[t][e] + limited[t][e] + (IF <<t, e>> \in handoff THEN 1 ELSE 0)

TypeOK ==
  /\ targets \in [Node -> SUBSET Node]
  /\ retired \in [Node -> SUBSET Node]
  /\ maxPendingEvents \in [Node -> [Node -> 0 .. 255]]
  /\ phase \in [Event -> {"new", "read", "listed", "erased"}]
  /\ sendTargets \in [Event -> SUBSET Node]
  /\ ackBits \in [Event -> [Node -> SUBSET Nat]]
  /\ lastBit \in [Event -> [Node -> Nat]]
  /\ finished \in [Event -> SUBSET Node]
  /\ entry \in [Node -> [Event -> {"none", "partial", "completed"}]]
  /\ ackedBits \in [Node -> [Event -> SUBSET Nat]]
  /\ handoff \subseteq Node \X Event
  /\ queued \in [Node -> [Event -> Nat]]
  /\ limited \in [Node -> [Event -> Nat]]
  /\ collectedEarly \subseteq Node \X Event
  /\ fragments \subseteq Event \X Node \X Nat
  /\ acks \subseteq Event \X Node \X Nat

Init ==
  /\ targets = [n \in Node |-> {}]
  /\ retired = [n \in Node |-> {}]
  /\ maxPendingEvents = [n \in Node |-> [m \in Node |-> 0]]
  /\ phase = [e \in Event |-> "new"]
  /\ sendTargets = [e \in Event |-> {}]
  /\ ackBits = [e \in Event |-> [t \in Node |-> {}]]
  /\ lastBit = [e \in Event |-> [t \in Node |-> 0]]
  /\ finished = [e \in Event |-> {}]
  /\ entry = [t \in Node |-> [e \in Event |-> "none"]]
  /\ ackedBits = [t \in Node |-> [e \in Event |-> {}]]
  /\ handoff = {}
  /\ queued = [t \in Node |-> [e \in Event |-> 0]]
  /\ limited = [t \in Node |-> [e \in Event |-> 0]]
  /\ collectedEarly = {}
  /\ fragments = {}
  /\ acks = {}

-----------------------------------------------------------------------------
(* Registration of targets.  The server registers a client when it gets   *)
(* its net id and unregisters it when it drops; a client registers the    *)
(* server, with an unlimited quota, when it connects.                     *)

RegisterTarget(n, m) ==
  /\ m \in Peers(n) \ (targets[n] \cup retired[n])
  /\ targets' = [targets EXCEPT ![n] = @ \cup {m}]
  /\ maxPendingEvents' =
       [maxPendingEvents EXCEPT ![n][m] = IF n = Server THEN MaxPending ELSE Unlimited]
  /\ UNCHANGED <<retired, sendVars, recvVars, netVars>>

\* Mutant: the receives from the dropped target are kept.
UnregisterKeepsReceives(n, m) ==
  /\ m \in targets[n]
  /\ targets' = [targets EXCEPT ![n] = @ \ {m}]
  /\ retired' = [retired EXCEPT ![n] = @ \cup {m}]
  /\ maxPendingEvents' = [maxPendingEvents EXCEPT ![n][m] = 0]
  /\ sendTargets' = [e \in Event |->
       IF Sender[e] = n /\ phase[e] = "listed" THEN sendTargets[e] \ {m} ELSE sendTargets[e]]
  /\ UNCHANGED <<phase, ackBits, lastBit, finished, recvVars, netVars>>

\* Drops the sends to and the receives from m; an event between the two
\* halves of TriggerEvent is in neither list and keeps m.
UnregisterTarget(n, m) ==
  /\ m \in targets[n]
  /\ targets' = [targets EXCEPT ![n] = @ \ {m}]
  /\ retired' = [retired EXCEPT ![n] = @ \cup {m}]
  /\ maxPendingEvents' = [maxPendingEvents EXCEPT ![n][m] = 0]
  /\ sendTargets' = [e \in Event |->
       IF Sender[e] = n /\ phase[e] = "listed" THEN sendTargets[e] \ {m} ELSE sendTargets[e]]
  /\ entry' = [entry EXCEPT ![n] =
       [e \in Event |-> IF Sender[e] = m THEN "none" ELSE @[e]]]
  /\ ackedBits' = [ackedBits EXCEPT ![n] =
       [e \in Event |-> IF Sender[e] = m THEN {} ELSE @[e]]]
  /\ UNCHANGED <<phase, ackBits, lastBit, finished, handoff, queued, limited,
                 collectedEarly, netVars>>

-----------------------------------------------------------------------------
(* Sending. *)

\* Mutant: the -1 of a broadcast is taken for a target.
ReadTargetsLiteral(e) ==
  /\ phase[e] = "new"
  /\ NotOversized(e)
  /\ Dest[e] = Everyone \/ Dest[e] \in targets[Sender[e]]
  /\ phase' = [phase EXCEPT ![e] = "read"]
  /\ sendTargets' = [sendTargets EXCEPT ![e] = {Dest[e]}]
  /\ UNCHANGED <<targetVars, ackBits, lastBit, finished, recvVars, netVars>>

\* The first half of TriggerEvent and TriggerEventV2: the size check and the
\* copy of the targets under the shared lock.
ReadTargets(e) ==
  /\ phase[e] = "new"
  /\ NotOversized(e)
  /\ Dest[e] = Everyone \/ Dest[e] \in targets[Sender[e]]
  /\ phase' = [phase EXCEPT ![e] = "read"]
  /\ sendTargets' = [sendTargets EXCEPT ![e] =
       IF Dest[e] = Everyone THEN targets[Sender[e]] ELSE {Dest[e]}]
  /\ UNCHANGED <<targetVars, ackBits, lastBit, finished, recvVars, netVars>>

\* The second half: the insertion under the unique lock.
InsertSend(e) ==
  /\ phase[e] = "read"
  /\ phase' = [phase EXCEPT ![e] = "listed"]
  /\ UNCHANGED <<targetVars, sendTargets, ackBits, lastBit, finished, recvVars, netVars>>

TriggerEvent(e) == Version[e] = 1 /\ (ReadTargets(e) \/ InsertSend(e))

TriggerEventV2(e) == Version[e] = 2 /\ (ReadTargets(e) \/ InsertSend(e))

\* Mutant: the event is erased with its first target.
RemoveTargetErases(e, t) ==
  /\ sendTargets' = [sendTargets EXCEPT ![e] = @ \ {t}]
  /\ phase' = [phase EXCEPT ![e] = "erased"]

\* doneTargets, then dones: the tick that removes the last target erases the event.
RemoveTarget(e, t) ==
  /\ sendTargets' = [sendTargets EXCEPT ![e] = @ \ {t}]
  /\ phase' = [phase EXCEPT ![e] = IF sendTargets[e] \ {t} = {} THEN "erased" ELSE @]

Unacked(e, t) == Idx(e) \ ackBits[e][t]

\* The bits the burst loop may send: unacked, from lastBit on.
Ahead(e, t) == {i \in Unacked(e, t) : i >= lastBit[e][t]}

IsFirst(i, S) == i \in S /\ \A j \in S : i <= j

\* "if the target is gone, get rid of them"
TickGone(e, t) ==
  /\ phase[e] = "listed"
  /\ t \in sendTargets[e] \ targets[Sender[e]]
  /\ RemoveTarget(e, t)
  /\ UNCHANGED <<targetVars, ackBits, lastBit, finished, recvVars, netVars>>

\* "hey, we're done with this target!"
TickDone(e, t) ==
  /\ phase[e] = "listed"
  /\ t \in sendTargets[e] \cap targets[Sender[e]]
  /\ Unacked(e, t) = {}
  /\ RemoveTarget(e, t)
  /\ finished' = [finished EXCEPT ![e] = @ \cup {t}]
  /\ UNCHANGED <<targetVars, ackBits, lastBit, recvVars, netVars>>

\* Mutant: lastBit is not moved back.
TickWrapStays(e, t) ==
  /\ phase[e] = "listed"
  /\ t \in sendTargets[e] \cap targets[Sender[e]]
  /\ Unacked(e, t) # {} /\ Ahead(e, t) = {}
  /\ UNCHANGED vars

\* Nothing unacked from lastBit on: go back to the first unacked bit.
TickWrap(e, t) ==
  /\ phase[e] = "listed"
  /\ t \in sendTargets[e] \cap targets[Sender[e]]
  /\ Unacked(e, t) # {} /\ Ahead(e, t) = {}
  /\ \E i \in Unacked(e, t) :
       /\ IsFirst(i, Unacked(e, t))
       /\ lastBit' = [lastBit EXCEPT ![e][t] = i]
  /\ UNCHANGED <<targetVars, phase, sendTargets, ackBits, finished, recvVars, netVars>>

\* Mutant: the burst loop goes over all peers, not over the targets of the event.
TickSendToAll(e, t) ==
  /\ phase[e] = "listed"
  /\ t \in Peers(Sender[e])
  /\ \E k \in Ahead(e, t) :
       /\ fragments' = fragments \cup {<<e, t, i>> : i \in {j \in Ahead(e, t) : j <= k}}
       /\ lastBit' = [lastBit EXCEPT ![e][t] = (k + 1) % Frags[e]]
  /\ UNCHANGED <<targetVars, phase, sendTargets, ackBits, finished, recvVars, acks>>

\* The burst loop sends the unacked bits from lastBit up to some last one, k.
\* After the last of them it has cycled to 0, or stops for lack of time at
\* k + 1, or goes round once more and resets to the first unacked bit.
TickSend(e, t) ==
  /\ phase[e] = "listed"
  /\ t \in sendTargets[e] \cap targets[Sender[e]]
  /\ \E k \in Ahead(e, t) :
       /\ fragments' = fragments \cup {<<e, t, i>> : i \in {j \in Ahead(e, t) : j <= k}}
       /\ \/ lastBit' = [lastBit EXCEPT ![e][t] = (k + 1) % Frags[e]]
          \/ /\ k + 1 < Frags[e]
             /\ \A j \in Ahead(e, t) : j <= k
             /\ \E i \in Unacked(e, t) :
                  /\ IsFirst(i, Unacked(e, t))
                  /\ lastBit' = [lastBit EXCEPT ![e][t] = i]
  /\ UNCHANGED <<targetVars, phase, sendTargets, ackBits, finished, recvVars, acks>>

\* An event whose targets were all unregistered, or that had none, leaves the list.
TickErase(e) ==
  /\ phase[e] = "listed"
  /\ sendTargets[e] = {}
  /\ phase' = [phase EXCEPT ![e] = "erased"]
  /\ UNCHANGED <<targetVars, sendTargets, ackBits, lastBit, finished, recvVars, netVars>>

\* One round of the loop over the targets of an event.  The rounds of a tick
\* touch disjoint targets under one lock, so a tick is a sequence of them.
NetworkTickSendList(e) ==
  \/ \E t \in Node : TickGone(e, t) \/ TickDone(e, t) \/ TickWrap(e, t) \/ TickSend(e, t)
  \/ TickErase(e)

\* The cleanup in NetworkTick: completed ReceiveEvents whose last ack is old.
CollectReceived(t, e) ==
  /\ entry[t][e] = "completed"
  /\ TimelyLinks => ~Lingering(t, e)
  /\ Reassemblies(t, e) < MaxReassemblies
  /\ entry' = [entry EXCEPT ![t][e] = "none"]
  /\ ackedBits' = [ackedBits EXCEPT ![t][e] = {}]
  /\ collectedEarly' =
       IF Lingering(t, e) THEN collectedEarly \cup {<<t, e>>} ELSE collectedEarly
  /\ UNCHANGED <<targetVars, sendVars, handoff, queued, limited, netVars>>

-----------------------------------------------------------------------------
(* Receiving.  The handlers of a node run one after the other on its main  *)
(* thread, so none starts while one is between its critical section and    *)
(* HandleReceivedPacket.                                                   *)

Idle(t) == \A e \in Event : <<t, e>> \notin handoff

\* The packet is consumed, or a retransmitted copy stays behind it.
TakeFragment(e, t, i) ==
  /\ <<e, t, i>> \in fragments
  /\ fragments' \in {fragments, fragments \ {<<e, t, i>>}}

\* A new event is refused: the source is not registered or has no slot left.
Refused(t, e) ==
  /\ entry[t][e] = "none"
  /\ Sender[e] \notin targets[t] \/ maxPendingEvents[t][Sender[e]] = 0

\* Mutant: a refused fragment is acknowledged.
DiscardAndAck(e, t, i) ==
  /\ WireTotal(e) = 0 \/ Refused(t, e)
  /\ acks' = acks \cup {<<e, t, i>>}
  /\ UNCHANGED <<targetVars, sendVars, recvVars>>

DiscardFragment(e, t, i) ==
  /\ WireTotal(e) = 0 \/ Refused(t, e)
  /\ UNCHANGED <<targetVars, sendVars, recvVars, acks>>

\* "Event has already been completed or acked: just send an ACK."
ReAckFragment(e, t, i) ==
  /\ entry[t][e] = "completed" \/ (entry[t][e] = "partial" /\ i \in ackedBits[t][e])
  /\ acks' = acks \cup {<<e, t, i>>}
  /\ UNCHANGED <<targetVars, sendVars, recvVars>>

\* Opening an event takes a slot of its source, unless the quota is unlimited.
SlotsAfterOpen(t, e) ==
  LET q == maxPendingEvents[t][Sender[e]]
  IN  IF entry[t][e] = "none" /\ q # Unlimited THEN q - 1 ELSE q

\* Mutant: the slot is not given back.
SlotsKept(t, e, q) == q

\* Completing it gives the slot back, with the wrap-around of a uint8.
SlotsAfterClose(t, e, q) ==
  IF Sender[e] # Server /\ Sender[e] \in targets[t] THEN (q + 1) % 256 ELSE q

\* Mutant: the ReceiveEvent is erased on completion, as the code once did.
RecordAndErase(e, t, i) ==
  LET bits == ackedBits[t][e] \cup {i}
      hasAll == Idx(e) \subseteq bits
      q == SlotsAfterOpen(t, e)
  IN  /\ WireTotal(e) # 0
      /\ \/ entry[t][e] = "none" /\ ~Refused(t, e)
         \/ entry[t][e] = "partial" /\ i \notin ackedBits[t][e]
      /\ ackedBits' = [ackedBits EXCEPT ![t][e] = IF hasAll THEN {} ELSE bits]
      /\ entry' = [entry EXCEPT ![t][e] = IF hasAll THEN "none" ELSE "partial"]
      /\ maxPendingEvents' = [maxPendingEvents EXCEPT ![t][Sender[e]] =
           IF hasAll THEN SlotsAfterClose(t, e, q) ELSE q]
      /\ acks' = acks \cup {<<e, t, i>>}
      /\ handoff' = IF hasAll THEN handoff \cup {<<t, e>>} ELSE handoff
      /\ UNCHANGED <<targets, retired, sendVars, queued, limited, collectedEarly>>

RecordFragment(e, t, i) ==
  LET bits == ackedBits[t][e] \cup {i}
      hasAll == Idx(e) \subseteq bits
      q == SlotsAfterOpen(t, e)
  IN  /\ WireTotal(e) # 0
      /\ \/ entry[t][e] = "none" /\ ~Refused(t, e)
         \/ entry[t][e] = "partial" /\ i \notin ackedBits[t][e]
      /\ ackedBits' = [ackedBits EXCEPT ![t][e] = bits]
      /\ entry' = [entry EXCEPT ![t][e] = IF hasAll THEN "completed" ELSE "partial"]
      /\ maxPendingEvents' = [maxPendingEvents EXCEPT ![t][Sender[e]] =
           IF hasAll THEN SlotsAfterClose(t, e, q) ELSE q]
      /\ acks' = acks \cup {<<e, t, i>>}
      /\ handoff' = IF hasAll THEN handoff \cup {<<t, e>>} ELSE handoff
      /\ UNCHANGED <<targets, retired, sendVars, queued, limited, collectedEarly>>

HandleFragment(e, t, i) ==
  /\ Idle(t)
  /\ TakeFragment(e, t, i)
  /\ DiscardFragment(e, t, i) \/ ReAckFragment(e, t, i) \/ RecordFragment(e, t, i)

\* An acknowledgement sets a bit of an event that is still in m_sendList.
HandleAck(e, t, i) ==
  /\ Idle(Sender[e])
  /\ <<e, t, i>> \in acks
  /\ acks' = acks \ {<<e, t, i>>}
  /\ ackBits' = IF phase[e] = "listed" /\ t \in sendTargets[e]
                THEN [ackBits EXCEPT ![e][t] = @ \cup {i}] ELSE ackBits
  /\ UNCHANGED <<targetVars, phase, sendTargets, lastBit, finished, recvVars, fragments>>

\* HandlePacketV2 looks the event of an acknowledgement up in m_sendList,
\* where no event of protocol 2 ever is.
HandleAckV2(e, t, i) ==
  /\ Idle(Sender[e])
  /\ <<e, t, i>> \in acks
  /\ acks' = acks \ {<<e, t, i>>}
  /\ UNCHANGED <<targetVars, sendVars, recvVars, fragments>>

HandlePacket(e, t, i) == Version[e] = 1 /\ (HandleFragment(e, t, i) \/ HandleAck(e, t, i))

HandlePacketV2(e, t, i) == Version[e] = 2 /\ (HandleFragment(e, t, i) \/ HandleAckV2(e, t, i))

\* Reassembles the event and queues it, unless the sink's rate limiter refuses it.
HandleReceivedPacket(t, e) ==
  /\ <<t, e>> \in handoff
  /\ handoff' = handoff \ {<<t, e>>}
  /\ \/ /\ queued' = [queued EXCEPT ![t][e] = @ + 1]
        /\ UNCHANGED limited
     \/ /\ t = Server
        /\ limited' = [limited EXCEPT ![t][e] = @ + 1]
        /\ UNCHANGED queued
  /\ UNCHANGED <<targetVars, sendVars, entry, ackedBits, collectedEarly, netVars>>

\* The link is unreliable: packets are lost, and packets of one event overtake
\* each other.
LosePacket(e, t, i) ==
  /\ \/ <<e, t, i>> \in fragments /\ fragments' = fragments \ {<<e, t, i>>} /\ UNCHANGED acks
     \/ <<e, t, i>> \in acks /\ acks' = acks \ {<<e, t, i>>} /\ UNCHANGED fragments
  /\ UNCHANGED <<targetVars, sendVars, recvVars>>

Next ==
  \/ \E n \in Node : \E m \in Peers(n) : RegisterTarget(n, m) \/ UnregisterTarget(n, m)
  \/ \E e \in Event : TriggerEvent(e) \/ TriggerEventV2(e) \/ NetworkTickSendList(e)
  \/ \E t \in Node, e \in Event : CollectReceived(t, e) \/ HandleReceivedPacket(t, e)
  \/ \E e \in Event : \E t \in Node, i \in Idx(e) :
       HandlePacket(e, t, i) \/ HandlePacketV2(e, t, i) \/ LosePacket(e, t, i)

Spec == Init /\ [][Next]_vars

-----------------------------------------------------------------------------
(* Safety. *)

\* NetworkTickSendList drops a target as done only if that target has
\* reassembled the whole event: no acknowledgement, late, duplicated or of an
\* event that was refused, unregistered or collected, ends a send too early.
FinishedMeansReceived == \A e \in Event : \A t \in finished[e] : Received(t, e)

\* However packets are duplicated and reordered, HandlePacket reassembles an
\* event once, unless its ReceiveEvent was collected while a copy lingered.
AtMostOnce ==
  \A t \in Node, e \in Event : <<t, e>> \notin collectedEarly => Reassemblies(t, e) <= 1

\* The quota of a registered client and the events the server has started to
\* receive from it always add up to the configured maximum: no path through
\* HandlePacket, UnregisterTarget or the cleanup leaks or invents a slot.
SlotsAccounted ==
  MaxPending # Unlimited =>
    \A c \in targets[Server] :
      maxPendingEvents[Server][c] + Cardinality(Pending(Server, c)) = MaxPending

\* UnregisterTarget leaves nothing behind: a ReceiveEvent exists only for a
\* registered source, even when packets of it are handled after the drop.
NoOrphanReceive ==
  \A t \in Node, e \in Event : entry[t][e] # "none" => Sender[e] \in targets[t]

\* Whoever a copy may still reach is a candidate, until it has reassembled it.
Candidates == [e \in Event |-> {t \in Node : Lingering(t, e) /\ ~Received(t, e)}]

Delivery == INSTANCE LatentDelivery WITH
  offered <- {e \in Event : phase[e] # "new"},
  candidates <- Candidates,
  received <- {p \in Node \X Event : Received(p[1], p[2])},
  served <- finished

\* The channel implements LatentDelivery: whatever is lost, duplicated, refused,
\* unregistered or collected, an event goes only to nodes it was triggered for,
\* never to one that was given up, and only a node that has it counts as done.
ImplementsDelivery == Delivery!Spec

-----------------------------------------------------------------------------
(* Liveness.  Both sides call NetworkTick on every network tick or game    *)
(* frame and its loop visits every target, main-thread callbacks run, and  *)
(* a packet that is retransmitted for ever gets through.                   *)

Fairness ==
  /\ \A e \in Event :
       /\ WF_vars(InsertSend(e) \/ TickErase(e))
       /\ \A t \in Peers(Sender[e]) :
            /\ WF_vars(TickGone(e, t) \/ TickDone(e, t) \/ TickWrap(e, t) \/ TickSend(e, t))
            /\ WF_vars(HandleReceivedPacket(t, e))
            /\ \A i \in Idx(e) :
                 /\ SF_vars(HandleFragment(e, t, i))
                 /\ SF_vars(\/ Version[e] = 1 /\ HandleAck(e, t, i)
                            \/ Version[e] = 2 /\ HandleAckV2(e, t, i))

FairSpec == Spec /\ Fairness

\* No event is retransmitted for ever to a target that keeps its sender
\* registered: the acknowledgements get back and the tick removes the target.
SendsEnd ==
  \A e \in Event, t \in Node :
    []<>~(phase[e] = "listed" /\ t \in sendTargets[e] /\ Sender[e] \in targets[t])

\* A TriggerEvent reaches every target it listed, each at its own pace, unless
\* the sender unregisters that target or the target its sender.
ReachesEveryTarget ==
  \A e \in Event, t \in Node :
    phase[e] = "listed" /\ t \in sendTargets[e]
      ~> Received(t, e) \/ t \notin targets[Sender[e]] \/ Sender[e] \notin targets[t]
=============================================================================
