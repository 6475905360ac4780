----------------------- MODULE EventReassemblyProofs -----------------------
(***************************************************************************)
(* Theorems about EventReassembly, for every set of clients and events.    *)
(*                                                                         *)
(* The inductive invariant relates the two ends of the protocol:           *)
(*  - Ids: a target is registered at most once;                            *)
(*  - NoOrphanReceive and SlotsAccounted, of EventReassembly;              *)
(*  - Pairs, for every target t and event e:                               *)
(*     EntryOK: what the state of a ReceiveEvent says of its bits;         *)
(*     AckedOK: until t has reassembled e, the acknowledged fragments are  *)
(*       among those t holds (or t will never accept another one), and     *)
(*       they are not all of them;                                         *)
(*     StartedOK: nothing of e exists before TriggerEvent;                 *)
(*     OnceOK: after t has reassembled e, its ReceiveEvent stands guard,   *)
(*       or its source is gone for good, or no copy of e can reach t.      *)
(***************************************************************************)
EXTENDS EventReassembly, FiniteSetTheorems, TLAPS

Ids == \A n \in Node : targets[n] \cap retired[n] = {} /\ targets[n] \subseteq Peers(n)

EntryOK(t, e) ==
  /\ entry[t][e] = "none" => ackedBits[t][e] = {}
  /\ entry[t][e] = "partial" => ~(Idx(e) \subseteq ackedBits[t][e])
  /\ entry[t][e] = "completed" => Received(t, e)

\* Acknowledgements of e by t that the sender has, or has coming.
AckSet(e, t) == {i \in Idx(e) : i \in ackBits[e][t] \/ <<e, t, i>> \in acks}

AckedOK(t, e) ==
  ~Received(t, e) =>
    /\ AckSet(e, t) \subseteq ackedBits[t][e] \/ Sender[e] \in retired[t]
    /\ AckSet(e, t) # Idx(e)

InFlight(t, e) == \E i \in Idx(e) : <<e, t, i>> \in fragments

StartedOK(t, e) ==
  entry[t][e] # "none" \/ Received(t, e) \/ InFlight(t, e) => phase[e] # "new"

OnceOK(t, e) ==
  Received(t, e) /\ <<t, e>> \notin collectedEarly =>
    /\ Reassemblies(t, e) = 1
    /\ \/ entry[t][e] = "completed"
       \/ /\ entry[t][e] = "none"
          /\ Sender[e] \in retired[t] \/ ~Lingering(t, e)

PairOK(t, e) == EntryOK(t, e) /\ AckedOK(t, e) /\ StartedOK(t, e) /\ OnceOK(t, e)

Pairs == \A t \in Node, e \in Event : PairOK(t, e)

-----------------------------------------------------------------------------
(* Type correctness. *)

\* A remainder is a natural number: lastBit and the quotas wrap around inside Nat.
LEMMA ModNat == ASSUME NEW k \in Nat, NEW d \in Nat \ {0} PROVE k % d \in Nat
OBVIOUS

\* maxPendingEvents is incremented modulo 2^8.
LEMMA ModUint8 == \A q \in 0 .. 255 : (q + 1) % 256 \in 0 .. 255 /\ (q < 255 => (q + 1) % 256 = q + 1)
OBVIOUS

\* The invariant TypeOK is preserved by every step of every node.
LEMMA TypeStep == TypeOK /\ [Next]_vars => TypeOK'
<1> SUFFICES ASSUME TypeOK, [Next]_vars PROVE TypeOK'
  OBVIOUS
<1> USE NodeAssumption, EventAssumption, MaxPendingAssumption
    DEF TypeOK, vars, targetVars, sendVars, recvVars, netVars
<1>1. ASSUME NEW n \in Node, NEW m \in Peers(n), RegisterTarget(n, m) PROVE TypeOK'
  <2>1. m \in Node
    BY DEF Peers, Node
  <2>2. targets' \in [Node -> SUBSET Node]
    BY <1>1, <2>1 DEF RegisterTarget
  <2>3. maxPendingEvents' \in [Node -> [Node -> 0 .. 255]]
    BY <1>1, <2>1 DEF RegisterTarget, Unlimited
  <2> QED
    BY <1>1, <2>2, <2>3 DEF RegisterTarget
<1>2. ASSUME NEW n \in Node, NEW m \in Peers(n), UnregisterTarget(n, m) PROVE TypeOK'
  <2>1. m \in Node
    BY DEF Peers, Node
  <2>2. targets' \in [Node -> SUBSET Node] /\ retired' \in [Node -> SUBSET Node]
    <3>1. /\ targets' = [targets EXCEPT ![n] = @ \ {m}]
          /\ retired' = [retired EXCEPT ![n] = @ \cup {m}]
      BY <1>2 DEF UnregisterTarget
    <3>2. targets \in [Node -> SUBSET Node] /\ retired \in [Node -> SUBSET Node]
      OBVIOUS
    <3> QED
      BY ONLY <2>1, <3>1, <3>2, n \in Node
  <2>3. maxPendingEvents' \in [Node -> [Node -> 0 .. 255]]
    BY <1>2, <2>1 DEF UnregisterTarget
  <2>4. sendTargets' \in [Event -> SUBSET Node]
    BY <1>2 DEF UnregisterTarget
  <2>5. entry' \in [Node -> [Event -> {"none", "partial", "completed"}]]
    BY <1>2 DEF UnregisterTarget
  <2>6. ackedBits' \in [Node -> [Event -> SUBSET Nat]]
    BY <1>2 DEF UnregisterTarget
  <2> QED
    BY <1>2, <2>2, <2>3, <2>4, <2>5, <2>6 DEF UnregisterTarget
<1>3. ASSUME NEW e \in Event, TriggerEvent(e) \/ TriggerEventV2(e) PROVE TypeOK'
  <2>1. CASE ReadTargets(e)
    <3>1. sendTargets' \in [Event -> SUBSET Node]
      BY <2>1 DEF ReadTargets
    <3> QED
      BY <2>1, <3>1 DEF ReadTargets
  <2>2. CASE InsertSend(e)
    BY <2>2 DEF InsertSend
  <2> QED
    BY <1>3, <2>1, <2>2 DEF TriggerEvent, TriggerEventV2
<1>4. ASSUME NEW e \in Event, NetworkTickSendList(e) PROVE TypeOK'
  <2>1. ASSUME NEW t \in Node, RemoveTarget(e, t)
        PROVE  /\ sendTargets' \in [Event -> SUBSET Node]
               /\ phase' \in [Event -> {"new", "read", "listed", "erased"}]
    BY <2>1 DEF RemoveTarget
  <2>2. ASSUME NEW t \in Node, TickGone(e, t) PROVE TypeOK'
    <3>1. RemoveTarget(e, t)
      BY <2>2 DEF TickGone
    <3>2. /\ sendTargets' \in [Event -> SUBSET Node]
          /\ phase' \in [Event -> {"new", "read", "listed", "erased"}]
      BY ONLY <2>1, <3>1, t \in Node
    <3> QED
      BY <2>2, <3>2 DEF TickGone
  <2>3. ASSUME NEW t \in Node, TickDone(e, t) PROVE TypeOK'
    <3>1. RemoveTarget(e, t)
      BY <2>3 DEF TickDone
    <3>2. /\ sendTargets' \in [Event -> SUBSET Node]
          /\ phase' \in [Event -> {"new", "read", "listed", "erased"}]
      BY ONLY <2>1, <3>1, t \in Node
    <3>3. finished' \in [Event -> SUBSET Node]
      BY <2>3 DEF TickDone
    <3> QED
      BY <2>3, <3>2, <3>3 DEF TickDone
  <2>4. ASSUME NEW t \in Node, NEW i \in Nat, lastBit' = [lastBit EXCEPT ![e][t] = i]
        PROVE  lastBit' \in [Event -> [Node -> Nat]]
    BY <2>4
  <2>5. ASSUME NEW t \in Node, TickWrap(e, t) PROVE TypeOK'
    <3>1. lastBit' \in [Event -> [Node -> Nat]]
      BY <2>4, <2>5 DEF TickWrap, Unacked, Idx
    <3> QED
      BY <2>5, <3>1 DEF TickWrap
  <2>6. ASSUME NEW t \in Node, TickSend(e, t) PROVE TypeOK'
    <3>1. Ahead(e, t) \subseteq Nat /\ Unacked(e, t) \subseteq Nat
      BY DEF Ahead, Unacked, Idx
    <3>2. ASSUME NEW k \in Nat PROVE (k + 1) % Frags[e] \in Nat
      <4> HIDE DEF TypeOK
      <4>1. k + 1 \in Nat /\ Frags[e] \in Nat \ {0}
        OBVIOUS
      <4> QED
        BY ONLY <4>1, ModNat
    <3>3. lastBit' \in [Event -> [Node -> Nat]]
      BY <2>4, <2>6, <3>1, <3>2 DEF TickSend
    <3>4. fragments' \subseteq Event \X Node \X Nat
      BY <2>6, <3>1 DEF TickSend
    <3> QED
      BY <2>6, <3>3, <3>4 DEF TickSend
  <2>7. CASE TickErase(e)
    BY <2>7 DEF TickErase
  <2> QED
    BY <1>4, <2>2, <2>3, <2>5, <2>6, <2>7 DEF NetworkTickSendList
<1>5. ASSUME NEW t \in Node, NEW e \in Event, CollectReceived(t, e) PROVE TypeOK'
  <2>1. entry' \in [Node -> [Event -> {"none", "partial", "completed"}]]
    BY <1>5 DEF CollectReceived
  <2>2. ackedBits' \in [Node -> [Event -> SUBSET Nat]]
    BY <1>5 DEF CollectReceived
  <2>3. collectedEarly' \subseteq Node \X Event
    BY <1>5 DEF CollectReceived
  <2> QED
    BY <1>5, <2>1, <2>2, <2>3 DEF CollectReceived
<1>6. ASSUME NEW t \in Node, NEW e \in Event, HandleReceivedPacket(t, e) PROVE TypeOK'
  <2>1. /\ [queued EXCEPT ![t][e] = @ + 1] \in [Node -> [Event -> Nat]]
        /\ [limited EXCEPT ![t][e] = @ + 1] \in [Node -> [Event -> Nat]]
    OBVIOUS
  <2>2. queued' \in [Node -> [Event -> Nat]] /\ limited' \in [Node -> [Event -> Nat]]
    <3>1. /\ queued' = queued \/ queued' = [queued EXCEPT ![t][e] = @ + 1]
          /\ limited' = limited \/ limited' = [limited EXCEPT ![t][e] = @ + 1]
      BY <1>6 DEF HandleReceivedPacket
    <3>2. queued \in [Node -> [Event -> Nat]] /\ limited \in [Node -> [Event -> Nat]]
      OBVIOUS
    <3> QED
      BY ONLY <2>1, <3>1, <3>2
  <2> QED
    BY <1>6, <2>2 DEF HandleReceivedPacket
<1>7. ASSUME NEW e \in Event, NEW t \in Node, NEW i \in Idx(e), HandleFragment(e, t, i)
      PROVE TypeOK'
  <2>1. fragments' \subseteq Event \X Node \X Nat
    BY <1>7 DEF HandleFragment, TakeFragment
  <2>2. i \in Nat
    BY DEF Idx
  <2>3. CASE DiscardFragment(e, t, i)
    BY <2>1, <2>3 DEF DiscardFragment
  <2>4. CASE ReAckFragment(e, t, i)
    <3>1. acks' \subseteq Event \X Node \X Nat
      BY <2>2, <2>4 DEF ReAckFragment
    <3> QED
      BY <2>1, <2>4, <3>1 DEF ReAckFragment
  <2>5. CASE RecordFragment(e, t, i)
    <3>1. ackedBits' \in [Node -> [Event -> SUBSET Nat]]
      BY <2>2, <2>5 DEF RecordFragment
    <3>2. entry' \in [Node -> [Event -> {"none", "partial", "completed"}]]
      BY <2>5 DEF RecordFragment
    <3>3. SlotsAfterOpen(t, e) \in 0 .. 255
      <4>1. maxPendingEvents[t][Sender[e]] \in 0 .. 255
        OBVIOUS
      <4>2. entry[t][e] = "none" => maxPendingEvents[t][Sender[e]] # 0
        BY <2>5 DEF RecordFragment, Refused
      <4> QED
        BY ONLY <4>1, <4>2 DEF SlotsAfterOpen
    <3>4. SlotsAfterClose(t, e, SlotsAfterOpen(t, e)) \in 0 .. 255
      BY <3>3, ModUint8 DEF SlotsAfterClose
    <3>5. maxPendingEvents' \in [Node -> [Node -> 0 .. 255]]
      <4>1. PICK q \in 0 .. 255 :
              maxPendingEvents' = [maxPendingEvents EXCEPT ![t][Sender[e]] = q]
        BY <2>5, <3>3, <3>4 DEF RecordFragment
      <4>2. maxPendingEvents \in [Node -> [Node -> 0 .. 255]] /\ Sender[e] \in Node
        OBVIOUS
      <4> QED
        BY ONLY <4>1, <4>2, t \in Node
    <3>6. acks' \subseteq Event \X Node \X Nat
      BY <2>2, <2>5 DEF RecordFragment
    <3>7. handoff' \subseteq Node \X Event
      BY <2>5 DEF RecordFragment
    <3> QED
      BY <2>1, <2>5, <3>1, <3>2, <3>5, <3>6, <3>7 DEF RecordFragment
  <2> QED
    BY <1>7, <2>3, <2>4, <2>5 DEF HandleFragment
<1>8. ASSUME NEW e \in Event, NEW t \in Node, NEW i \in Idx(e),
             HandleAck(e, t, i) \/ HandleAckV2(e, t, i) \/ LosePacket(e, t, i)
      PROVE TypeOK'
  <2>1. CASE HandleAck(e, t, i)
    <3>1. ackBits' \in [Event -> [Node -> SUBSET Nat]]
      <4>1. \/ ackBits' = ackBits
            \/ ackBits' = [ackBits EXCEPT ![e][t] = @ \cup {i}]
        BY <2>1 DEF HandleAck
      <4>2. ackBits \in [Event -> [Node -> SUBSET Nat]] /\ i \in Nat
        BY DEF Idx
      <4> QED
        BY ONLY <4>1, <4>2, e \in Event, t \in Node
    <3> QED
      BY <2>1, <3>1 DEF HandleAck
  <2>2. CASE HandleAckV2(e, t, i)
    BY <2>2 DEF HandleAckV2
  <2>3. CASE LosePacket(e, t, i)
    BY <2>3 DEF LosePacket
  <2> QED
    BY <1>8, <2>1, <2>2, <2>3
<1>9. CASE UNCHANGED vars
  BY <1>9
<1> QED
  BY <1>1, <1>2, <1>3, <1>4, <1>5, <1>6, <1>7, <1>8, <1>9
  DEF Next, HandlePacket, HandlePacketV2

\* Every variable keeps its type: quotas stay uint8 values, bit sets and counters
\* stay well formed whatever packets arrive.
THEOREM TypeCorrect == Spec => []TypeOK
<1>1. Init => TypeOK
  BY EventAssumption DEF Init, TypeOK
<1> QED
  BY <1>1, TypeStep, PTL DEF Spec

-----------------------------------------------------------------------------
(* Which steps touch which variables. *)

\* Sending, and losing packets, leaves the receive lists and the targets alone.
LEMMA SendFrame ==
  ASSUME NEW e \in Event,
         \/ TriggerEvent(e) \/ TriggerEventV2(e) \/ NetworkTickSendList(e)
         \/ \E t \in Node, i \in Idx(e) :
              HandleAck(e, t, i) \/ HandleAckV2(e, t, i) \/ LosePacket(e, t, i)
  PROVE  UNCHANGED <<targetVars, recvVars>>
BY DEF TriggerEvent, TriggerEventV2, ReadTargets, InsertSend, NetworkTickSendList, TickGone,
   TickDone, TickWrap, TickSend, TickErase, HandleAck, HandleAckV2, LosePacket,
   targetVars, recvVars, sendVars, netVars

\* A step is one of the operations that touch targets or receive lists, or it
\* leaves both alone.
LEMMA ReceiveCases ==
  ASSUME [Next]_vars
  PROVE  \/ \E n \in Node : \E m \in Peers(n) : RegisterTarget(n, m) \/ UnregisterTarget(n, m)
         \/ \E t \in Node, e \in Event : CollectReceived(t, e) \/ HandleReceivedPacket(t, e)
         \/ \E e \in Event : \E t \in Node, i \in Idx(e) : HandleFragment(e, t, i)
         \/ UNCHANGED <<targetVars, recvVars>>
<1>1. CASE UNCHANGED vars
  BY <1>1 DEF vars
<1>2. CASE \E e \in Event : \E t \in Node, i \in Idx(e) :
             HandleAck(e, t, i) \/ HandleAckV2(e, t, i) \/ LosePacket(e, t, i)
  BY <1>2, SendFrame
<1>3. CASE \E e \in Event : TriggerEvent(e) \/ TriggerEventV2(e) \/ NetworkTickSendList(e)
  BY <1>3, SendFrame
<1> QED
  BY <1>1, <1>2, <1>3 DEF Next, HandlePacket, HandlePacketV2

-----------------------------------------------------------------------------
(* Receive lists and registered targets. *)

\* Ids and NoOrphanReceive are preserved by every step.
LEMMA OrphanStep ==
  TypeOK /\ Ids /\ NoOrphanReceive /\ [Next]_vars => Ids' /\ NoOrphanReceive'
<1> SUFFICES ASSUME TypeOK, Ids, NoOrphanReceive, [Next]_vars
             PROVE  Ids' /\ NoOrphanReceive'
  OBVIOUS
<1> USE NodeAssumption, EventAssumption DEF Ids, NoOrphanReceive, TypeOK
<1>1. ASSUME NEW n \in Node, NEW m \in Peers(n), RegisterTarget(n, m)
      PROVE  Ids' /\ NoOrphanReceive'
  BY <1>1 DEF RegisterTarget, recvVars
<1>2. ASSUME NEW n \in Node, NEW m \in Peers(n), UnregisterTarget(n, m)
      PROVE  Ids' /\ NoOrphanReceive'
  <2>1. Ids'
    BY <1>2 DEF UnregisterTarget
  <2>2. ASSUME NEW t \in Node, NEW e \in Event, entry'[t][e] # "none"
        PROVE  Sender[e] \in targets'[t]
    BY <1>2, <2>2 DEF UnregisterTarget
  <2> QED
    BY <2>1, <2>2
<1>3. ASSUME NEW t \in Node, NEW e \in Event, CollectReceived(t, e)
      PROVE  Ids' /\ NoOrphanReceive'
  BY <1>3 DEF CollectReceived, targetVars
<1>4. ASSUME NEW t \in Node, NEW e \in Event, HandleReceivedPacket(t, e)
      PROVE  Ids' /\ NoOrphanReceive'
  BY <1>4 DEF HandleReceivedPacket, targetVars
<1>5. ASSUME NEW e \in Event, NEW t \in Node, NEW i \in Idx(e), HandleFragment(e, t, i)
      PROVE  Ids' /\ NoOrphanReceive'
  <2>1. CASE DiscardFragment(e, t, i) \/ ReAckFragment(e, t, i)
    BY <2>1 DEF DiscardFragment, ReAckFragment, targetVars, recvVars
  <2>2. CASE RecordFragment(e, t, i)
    <3>1. Sender[e] \in targets[t]
      BY <2>2 DEF RecordFragment, Refused
    <3>2. ASSUME NEW u \in Node, NEW f \in Event, entry'[u][f] # "none"
          PROVE  Sender[f] \in targets[u]
      BY <2>2, <3>1, <3>2 DEF RecordFragment
    <3> QED
      BY <2>2, <3>2 DEF RecordFragment
  <2> QED
    BY <1>5, <2>1, <2>2 DEF HandleFragment
<1>6. CASE UNCHANGED <<targetVars, recvVars>>
  BY <1>6 DEF targetVars, recvVars
<1> QED
  BY <1>1, <1>2, <1>3, <1>4, <1>5, <1>6, ReceiveCases

\* A ReceiveEvent never outlives the registration of its source, at any node.
THEOREM NoOrphanReceiveInvariant == Spec => [](Ids /\ NoOrphanReceive)
<1>1. Init => Ids /\ NoOrphanReceive
  BY DEF Init, Ids, NoOrphanReceive
<1> QED
  BY <1>1, OrphanStep, TypeCorrect, PTL DEF Spec

-----------------------------------------------------------------------------
(* The quota of a client. *)

\* The pending events of a source form a finite set, whose cardinality counts
\* the slots they hold.
LEMMA PendingFinite == ASSUME NEW t, NEW m PROVE IsFiniteSet(Pending(t, m))
BY EventAssumption, FS_Subset DEF Pending

\* SlotsAccounted for one client: the quota and the pending events are unchanged,
\* or change in opposite directions.
LEMMA SlotsOfRecord ==
  ASSUME TypeOK, Ids, NoOrphanReceive, SlotsAccounted, MaxPending # Unlimited,
         NEW e \in Event, NEW i \in Idx(e), RecordFragment(e, Server, i),
         NEW c \in targets[Server], Sender[e] = c
  PROVE  maxPendingEvents'[Server][c] + Cardinality(Pending(Server, c)') = MaxPending
<1> DEFINE q == maxPendingEvents[Server][c]
<1>1. Server \in Node /\ c \in Node /\ c # Server
  BY NodeAssumption DEF Ids, Peers, Node
<1>2. /\ q + Cardinality(Pending(Server, c)) = MaxPending
      /\ Cardinality(Pending(Server, c)) \in Nat
      /\ q \in 0 .. 254
      /\ MaxPending \in 0 .. 254
  <2>1. Cardinality(Pending(Server, c)) \in Nat
    BY PendingFinite, FS_CardinalityType
  <2>2. q \in 0 .. 255 /\ MaxPending \in 0 .. 254
    BY <1>1, MaxPendingAssumption DEF TypeOK, Unlimited
  <2>3. q + Cardinality(Pending(Server, c)) = MaxPending
    BY DEF SlotsAccounted
  <2> QED
    BY <2>1, <2>2, <2>3
<1>3. ASSUME NEW f \in Event, f # e PROVE entry'[Server][f] = entry[Server][f]
  BY <1>1, <1>3 DEF RecordFragment, TypeOK
<1>4. entry[Server][e] = "none" => q # 0
  BY DEF RecordFragment, Refused
<1>5. SlotsAfterOpen(Server, e) = IF entry[Server][e] = "none" THEN q - 1 ELSE q
  BY <1>2 DEF SlotsAfterOpen, Unlimited
<1>6. SlotsAfterClose(Server, e, SlotsAfterOpen(Server, e)) = SlotsAfterOpen(Server, e) + 1
  <2>1. SlotsAfterOpen(Server, e) \in 0 .. 254
    BY <1>2, <1>4, <1>5
  <2> QED
    BY <1>1, <2>1, ModUint8 DEF SlotsAfterClose
<1>7. /\ entry'[Server][e] = IF Idx(e) \subseteq ackedBits[Server][e] \cup {i}
                             THEN "completed" ELSE "partial"
      /\ maxPendingEvents'[Server][c] =
           IF Idx(e) \subseteq ackedBits[Server][e] \cup {i}
           THEN SlotsAfterOpen(Server, e) + 1 ELSE SlotsAfterOpen(Server, e)
  BY <1>1, <1>6 DEF RecordFragment, TypeOK
<1>8. entry[Server][e] \in {"none", "partial"}
  BY DEF RecordFragment
<1>9. CASE entry'[Server][e] = "partial" /\ entry[Server][e] = "none"
  <2>1. Pending(Server, c)' = Pending(Server, c) \cup {e} /\ e \notin Pending(Server, c)
    BY <1>3, <1>9 DEF Pending
  <2>2. Cardinality(Pending(Server, c)') = Cardinality(Pending(Server, c)) + 1
    BY <2>1, PendingFinite, FS_AddElement
  <2> QED
    BY <1>2, <1>4, <1>5, <1>7, <1>9, <2>2
<1>10. CASE entry'[Server][e] = "partial" /\ entry[Server][e] = "partial"
  <2>1. Pending(Server, c)' = Pending(Server, c)
    BY <1>3, <1>10 DEF Pending
  <2> QED
    BY <1>2, <1>5, <1>7, <1>10, <2>1
<1>11. CASE entry'[Server][e] = "completed" /\ entry[Server][e] = "none"
  <2>1. Pending(Server, c)' = Pending(Server, c)
    BY <1>3, <1>11 DEF Pending
  <2> QED
    BY <1>2, <1>4, <1>5, <1>7, <1>11, <2>1
<1>12. CASE entry'[Server][e] = "completed" /\ entry[Server][e] = "partial"
  <2>1. Pending(Server, c)' = Pending(Server, c) \ {e} /\ e \in Pending(Server, c)
    BY <1>3, <1>12 DEF Pending
  <2>2. Cardinality(Pending(Server, c)') = Cardinality(Pending(Server, c)) - 1
    BY <2>1, PendingFinite, FS_RemoveElement
  <2> QED
    BY <1>2, <1>5, <1>7, <1>12, <2>2
<1> QED
  BY <1>7, <1>8, <1>9, <1>10, <1>11, <1>12

\* SlotsAccounted is preserved by every step.
LEMMA SlotsStep ==
  TypeOK /\ Ids /\ NoOrphanReceive /\ SlotsAccounted /\ [Next]_vars => SlotsAccounted'
<1> SUFFICES ASSUME TypeOK, Ids, NoOrphanReceive, SlotsAccounted, [Next]_vars,
                    MaxPending # Unlimited, NEW c \in targets'[Server]
             PROVE  maxPendingEvents'[Server][c] + Cardinality(Pending(Server, c)') = MaxPending
  BY DEF SlotsAccounted
<1>0. Server \in Node
  BY DEF Node
<1>1. ASSUME c \in targets[Server], maxPendingEvents'[Server][c] = maxPendingEvents[Server][c],
             Pending(Server, c)' = Pending(Server, c)
      PROVE  maxPendingEvents'[Server][c] + Cardinality(Pending(Server, c)') = MaxPending
  BY <1>1 DEF SlotsAccounted
<1>2. ASSUME NEW n \in Node, NEW m \in Peers(n), RegisterTarget(n, m)
      PROVE  maxPendingEvents'[Server][c] + Cardinality(Pending(Server, c)') = MaxPending
  <2>1. Pending(Server, c)' = Pending(Server, c)
    BY <1>2 DEF RegisterTarget, Pending, recvVars
  <2>2. CASE n = Server /\ m = c
    <3>1. c \in Node /\ c \notin targets[Server]
      BY <1>2, <2>2 DEF RegisterTarget, Peers, Node
    <3>2. Pending(Server, c) = {}
      BY <1>0, <3>1 DEF Pending, NoOrphanReceive
    <3>3. maxPendingEvents'[Server][c] = MaxPending
      BY <1>0, <1>2, <2>2, <3>1 DEF RegisterTarget, TypeOK
    <3> QED
      BY <2>1, <3>2, <3>3, FS_EmptySet, MaxPendingAssumption
  <2>3. CASE ~(n = Server /\ m = c)
    <3>1. c \in targets[Server] /\ maxPendingEvents'[Server][c] = maxPendingEvents[Server][c]
      BY <1>0, <1>2, <2>3 DEF RegisterTarget, TypeOK
    <3> QED
      BY <1>1, <2>1, <3>1
  <2> QED
    BY <2>2, <2>3
<1>3. ASSUME NEW n \in Node, NEW m \in Peers(n), UnregisterTarget(n, m)
      PROVE  maxPendingEvents'[Server][c] + Cardinality(Pending(Server, c)') = MaxPending
  <2>1. c \in targets[Server] /\ ~(n = Server /\ m = c)
    BY <1>0, <1>3 DEF UnregisterTarget, TypeOK
  <2>2. maxPendingEvents'[Server][c] = maxPendingEvents[Server][c]
    BY <1>0, <1>3, <2>1 DEF UnregisterTarget, TypeOK
  <2>3. ASSUME NEW e \in Event, Sender[e] = c PROVE entry'[Server][e] = entry[Server][e]
    BY <1>0, <1>3, <2>1, <2>3 DEF UnregisterTarget, TypeOK
  <2>4. Pending(Server, c)' = Pending(Server, c)
    BY <2>3 DEF Pending
  <2> QED
    BY <1>1, <2>1, <2>2, <2>4
<1>4. ASSUME NEW t \in Node, NEW e \in Event, CollectReceived(t, e)
      PROVE  maxPendingEvents'[Server][c] + Cardinality(Pending(Server, c)') = MaxPending
  <2>1. ASSUME NEW f \in Event
        PROVE  entry'[Server][f] = "partial" <=> entry[Server][f] = "partial"
    BY <1>0, <1>4 DEF CollectReceived, TypeOK
  <2>2. Pending(Server, c)' = Pending(Server, c)
    BY <2>1 DEF Pending
  <2> QED
    BY <1>1, <1>4, <2>2 DEF CollectReceived, targetVars
<1>5. ASSUME NEW t \in Node, NEW e \in Event, HandleReceivedPacket(t, e)
      PROVE  maxPendingEvents'[Server][c] + Cardinality(Pending(Server, c)') = MaxPending
  BY <1>1, <1>5 DEF HandleReceivedPacket, targetVars, Pending
<1>6. ASSUME NEW e \in Event, NEW t \in Node, NEW i \in Idx(e), HandleFragment(e, t, i)
      PROVE  maxPendingEvents'[Server][c] + Cardinality(Pending(Server, c)') = MaxPending
  <2>1. CASE DiscardFragment(e, t, i) \/ ReAckFragment(e, t, i)
    BY <1>1, <2>1 DEF DiscardFragment, ReAckFragment, targetVars, recvVars, Pending
  <2>2. CASE RecordFragment(e, t, i) /\ t = Server /\ Sender[e] = c
    BY <2>2, SlotsOfRecord DEF RecordFragment
  <2>3. CASE RecordFragment(e, t, i) /\ ~(t = Server /\ Sender[e] = c)
    <3>1. c \in targets[Server] /\ maxPendingEvents'[Server][c] = maxPendingEvents[Server][c]
      BY <1>0, <2>3 DEF RecordFragment, TypeOK
    <3>2. ASSUME NEW f \in Event, Sender[f] = c PROVE entry'[Server][f] = entry[Server][f]
      BY <1>0, <2>3, <3>2 DEF RecordFragment, TypeOK
    <3>3. Pending(Server, c)' = Pending(Server, c)
      BY <3>2 DEF Pending
    <3> QED
      BY <1>1, <3>1, <3>3
  <2> QED
    BY <1>6, <2>1, <2>2, <2>3 DEF HandleFragment
<1>7. CASE UNCHANGED <<targetVars, recvVars>>
  BY <1>1, <1>7 DEF targetVars, recvVars, Pending
<1> QED
  BY <1>2, <1>3, <1>4, <1>5, <1>6, <1>7, ReceiveCases

\* For every limit below 255, quota and pending events of a client add up to the
\* limit in every reachable state: slots are neither leaked nor invented.
THEOREM SlotsAccountedInvariant == Spec => []SlotsAccounted
<1>1. Init => SlotsAccounted
  BY DEF Init, SlotsAccounted, Node
<1> QED
  BY <1>1, SlotsStep, TypeCorrect, NoOrphanReceiveInvariant, PTL DEF Spec

-----------------------------------------------------------------------------
(* Both ends of one event. *)

\* How often t has reassembled e is a number, zero exactly if it has not.
LEMMA ReassembliesType ==
  ASSUME TypeOK, NEW t \in Node, NEW e \in Event
  PROVE  Reassemblies(t, e) \in Nat /\ (Received(t, e) <=> Reassemblies(t, e) # 0)
<1>1. queued[t][e] \in Nat /\ limited[t][e] \in Nat
  BY DEF TypeOK
<1> QED
  BY <1>1 DEF Reassemblies, Received

\* A step that keeps the ReceiveEvent of e at t, and only loses copies and
\* acknowledgements, preserves the invariant of the pair.
LEMMA PairKept ==
  ASSUME NEW t \in Node, NEW e \in Event, PairOK(t, e),
         entry'[t][e] = entry[t][e], ackedBits'[t][e] = ackedBits[t][e],
         Reassemblies(t, e)' = Reassemblies(t, e), Received(t, e)' <=> Received(t, e),
         AckSet(e, t)' \subseteq AckSet(e, t), retired[t] \subseteq retired'[t],
         Sender[e] \in retired[t] \/ Lingering(t, e) \/ ~Lingering(t, e)',
         phase[e] # "new" => phase'[e] # "new",
         InFlight(t, e)' => InFlight(t, e) \/ phase'[e] # "new",
         collectedEarly \subseteq collectedEarly'
  PROVE  PairOK(t, e)'
<1>1. EntryOK(t, e)'
  BY DEF PairOK, EntryOK, Idx
<1>2. AckedOK(t, e)'
  <2> SUFFICES ASSUME ~Received(t, e)
               PROVE  /\ AckSet(e, t)' \subseteq ackedBits[t][e] \/ Sender[e] \in retired'[t]
                      /\ AckSet(e, t)' # Idx(e)
    BY DEF AckedOK, Idx
  <2>1. AckSet(e, t) \subseteq ackedBits[t][e] \/ Sender[e] \in retired[t]
    BY DEF PairOK, AckedOK
  <2>2. AckSet(e, t) # Idx(e) /\ AckSet(e, t) \subseteq Idx(e)
    BY DEF PairOK, AckedOK, AckSet
  <2> QED
    BY <2>1, <2>2
<1>3. StartedOK(t, e)'
  BY DEF PairOK, StartedOK
<1>4. OnceOK(t, e)'
  BY DEF PairOK, OnceOK
<1> QED
  BY <1>1, <1>2, <1>3, <1>4 DEF PairOK

\* The steps that only move the sender or the network: registration of a target,
\* TriggerEvent, the tick, acknowledgements and losses.
LEMMA PairOfSend ==
  ASSUME TypeOK, Pairs, NEW t \in Node, NEW e \in Event, NEW f \in Event,
         \/ TriggerEvent(f) \/ TriggerEventV2(f) \/ NetworkTickSendList(f)
         \/ \E u \in Node, i \in Idx(f) :
              HandleAck(f, u, i) \/ HandleAckV2(f, u, i) \/ LosePacket(f, u, i)
  PROVE  PairOK(t, e)'
<1> USE DEF TypeOK
<1>0. /\ UNCHANGED <<entry, ackedBits, retired, collectedEarly>>
      /\ Reassemblies(t, e)' = Reassemblies(t, e)
      /\ Received(t, e)' <=> Received(t, e)
  BY SendFrame DEF targetVars, recvVars, Reassemblies, Received
<1>1. PairOK(t, e)
  BY DEF Pairs
<1>2. CASE ReadTargets(f)
  <2>1. phase'[e] # "new" \/ phase'[e] = phase[e]
    BY <1>2 DEF ReadTargets
  <2>2. AckSet(e, t)' = AckSet(e, t) /\ (InFlight(t, e)' <=> InFlight(t, e))
    BY <1>2 DEF ReadTargets, AckSet, InFlight, netVars, Idx
  <2>3. CASE e = f
    <3>1. phase[e] = "new"
      BY <1>2, <2>3 DEF ReadTargets
    <3>2. ~Received(t, e) /\ entry[t][e] = "none" /\ ~InFlight(t, e)
      BY <1>1, <3>1 DEF PairOK, StartedOK
    <3>3. StartedOK(t, e)' /\ OnceOK(t, e)' /\ EntryOK(t, e)'
      BY <1>0, <1>1, <2>2, <3>2 DEF StartedOK, OnceOK, EntryOK, PairOK, Idx
    <3>4. AckedOK(t, e)'
      BY <1>0, <1>1, <2>2 DEF AckedOK, PairOK, Idx
    <3> QED
      BY <3>3, <3>4 DEF PairOK
  <2>4. CASE e # f
    <3>1. sendTargets'[e] = sendTargets[e]
      BY <1>2, <2>4 DEF ReadTargets
    <3>2. Lingering(t, e)' <=> Lingering(t, e)
      BY <2>2, <3>1 DEF Lingering, InFlight
    <3> QED
      BY <1>0, <1>1, <2>1, <2>2, <3>2, PairKept
  <2> QED
    BY <2>3, <2>4
<1>3. CASE InsertSend(f)
  <2>1. phase'[e] # "new" \/ phase'[e] = phase[e]
    BY <1>3 DEF InsertSend
  <2>2. AckSet(e, t)' = AckSet(e, t) /\ (InFlight(t, e)' <=> InFlight(t, e))
    BY <1>3 DEF InsertSend, AckSet, InFlight, netVars, Idx
  <2>3. Lingering(t, e)' <=> Lingering(t, e)
    BY <1>3, <2>2 DEF InsertSend, Lingering, InFlight
  <2> QED
    BY <1>0, <1>1, <2>1, <2>2, <2>3, PairKept
<1>4. ASSUME NEW u \in Node, TickGone(f, u) \/ TickDone(f, u) \/ TickWrap(f, u)
      PROVE  PairOK(t, e)'
  <2>1. phase'[e] # "new" \/ phase'[e] = phase[e]
    BY <1>4 DEF TickGone, TickDone, TickWrap, RemoveTarget
  <2>2. AckSet(e, t)' = AckSet(e, t) /\ (InFlight(t, e)' <=> InFlight(t, e))
    BY <1>4 DEF TickGone, TickDone, TickWrap, AckSet, InFlight, netVars, Idx
  <2>3. sendTargets'[e] \subseteq sendTargets[e]
    <3>1. RemoveTarget(f, u) => sendTargets'[e] \subseteq sendTargets[e]
      BY DEF RemoveTarget
    <3>2. RemoveTarget(f, u) \/ UNCHANGED sendTargets
      BY <1>4 DEF TickGone, TickDone, TickWrap
    <3> QED
      BY <3>1, <3>2
  <2>4. Lingering(t, e)' => Lingering(t, e)
    BY <2>2, <2>3 DEF Lingering, InFlight
  <2> QED
    BY <1>0, <1>1, <2>1, <2>2, <2>4, PairKept
<1>5. ASSUME NEW u \in Node, TickSend(f, u) PROVE PairOK(t, e)'
  <2>1. UNCHANGED <<phase, sendTargets, ackBits, acks>>
    BY <1>5 DEF TickSend
  <2>2. AckSet(e, t)' = AckSet(e, t)
    BY <2>1 DEF AckSet, Idx
  <2>3. phase[f] # "new" /\ u \in sendTargets[f]
    BY <1>5 DEF TickSend
  <2>4. InFlight(t, e)' => InFlight(t, e) \/ (e = f /\ t = u)
    BY <1>5 DEF TickSend, InFlight, Idx
  <2>5. Lingering(t, e)' => Lingering(t, e)
    BY <2>1, <2>3, <2>4 DEF Lingering, InFlight
  <2> QED
    BY <1>0, <1>1, <2>1, <2>2, <2>3, <2>4, <2>5, PairKept
<1>6. CASE TickErase(f)
  <2>1. phase'[e] # "new" \/ phase'[e] = phase[e]
    BY <1>6 DEF TickErase
  <2>2. AckSet(e, t)' = AckSet(e, t) /\ (InFlight(t, e)' <=> InFlight(t, e))
    BY <1>6 DEF TickErase, AckSet, InFlight, netVars, Idx
  <2>3. Lingering(t, e)' <=> Lingering(t, e)
    BY <1>6, <2>2 DEF TickErase, Lingering, InFlight
  <2> QED
    BY <1>0, <1>1, <2>1, <2>2, <2>3, PairKept
<1>7. ASSUME NEW u \in Node, NEW i \in Idx(f),
             HandleAck(f, u, i) \/ HandleAckV2(f, u, i) \/ LosePacket(f, u, i)
      PROVE  PairOK(t, e)'
  <2>1. UNCHANGED <<phase, sendTargets>> /\ fragments' \subseteq fragments
    BY <1>7 DEF HandleAck, HandleAckV2, LosePacket, sendVars
  <2>2. ASSUME NEW j \in Idx(e), j \in ackBits'[e][t] \/ <<e, t, j>> \in acks'
        PROVE  j \in ackBits[e][t] \/ <<e, t, j>> \in acks
    <3>1. CASE HandleAck(f, u, i)
      <4>1. ackBits' = ackBits \/ ackBits' = [ackBits EXCEPT ![f][u] = @ \cup {i}]
        BY <3>1 DEF HandleAck
      <4>2. j \in ackBits'[e][t] => j \in ackBits[e][t] \/ (e = f /\ t = u /\ j = i)
        BY <4>1
      <4>3. <<f, u, i>> \in acks /\ acks' \subseteq acks
        BY <3>1 DEF HandleAck
      <4> QED
        BY <2>2, <4>2, <4>3
    <3>2. CASE HandleAckV2(f, u, i) \/ LosePacket(f, u, i)
      BY <2>2, <3>2 DEF HandleAckV2, LosePacket, sendVars
    <3> QED
      BY <1>7, <3>1, <3>2
  <2>3. AckSet(e, t)' \subseteq AckSet(e, t)
    BY <2>2 DEF AckSet, Idx
  <2>4. (InFlight(t, e)' => InFlight(t, e)) /\ (Lingering(t, e)' => Lingering(t, e))
    BY <2>1 DEF InFlight, Lingering, Idx
  <2> QED
    BY <1>0, <1>1, <2>1, <2>3, <2>4, PairKept
<1> QED
  BY <1>2, <1>3, <1>4, <1>5, <1>6, <1>7
  DEF TriggerEvent, TriggerEventV2, NetworkTickSendList

\* UnregisterTarget: the pair loses its ReceiveEvent, and its source for good.
LEMMA PairOfUnregister ==
  ASSUME TypeOK, Pairs, NEW t \in Node, NEW e \in Event,
         NEW n \in Node, NEW m \in Peers(n), UnregisterTarget(n, m)
  PROVE  PairOK(t, e)'
<1> USE DEF TypeOK
<1>1. PairOK(t, e)
  BY DEF Pairs
<1>2. /\ UNCHANGED <<phase, collectedEarly, ackBits, acks, fragments, handoff, queued, limited>>
      /\ Reassemblies(t, e)' = Reassemblies(t, e)
      /\ Received(t, e)' <=> Received(t, e)
  BY DEF UnregisterTarget, netVars, Reassemblies, Received
<1>3. AckSet(e, t)' = AckSet(e, t) /\ (InFlight(t, e)' <=> InFlight(t, e))
  BY <1>2 DEF AckSet, InFlight, Idx
<1>4. sendTargets'[e] \subseteq sendTargets[e]
  BY DEF UnregisterTarget
<1>5. Lingering(t, e)' => Lingering(t, e)
  BY <1>3, <1>4 DEF Lingering, InFlight
<1>6. retired[t] \subseteq retired'[t]
  BY DEF UnregisterTarget
<1>7. CASE t = n /\ Sender[e] = m
  <2>1. entry'[t][e] = "none" /\ ackedBits'[t][e] = {} /\ Sender[e] \in retired'[t]
    BY <1>7 DEF UnregisterTarget
  <2>2. EntryOK(t, e)' /\ StartedOK(t, e)' /\ OnceOK(t, e)'
    BY <1>1, <1>2, <1>3, <2>1 DEF PairOK, EntryOK, StartedOK, OnceOK
  <2>3. AckedOK(t, e)'
    BY <1>1, <1>2, <1>3, <2>1 DEF PairOK, AckedOK, Idx
  <2> QED
    BY <2>2, <2>3 DEF PairOK
<1>8. CASE ~(t = n /\ Sender[e] = m)
  <2>1. entry'[t][e] = entry[t][e] /\ ackedBits'[t][e] = ackedBits[t][e]
    BY <1>8 DEF UnregisterTarget
  <2> QED
    BY <1>1, <1>2, <1>3, <1>5, <1>6, <2>1, PairKept
<1> QED
  BY <1>7, <1>8

\* The cleanup: the pair loses a completed ReceiveEvent.
LEMMA PairOfCollect ==
  ASSUME TypeOK, Pairs, NEW t \in Node, NEW e \in Event,
         NEW u \in Node, NEW f \in Event, CollectReceived(u, f)
  PROVE  PairOK(t, e)'
<1> USE DEF TypeOK
<1>1. PairOK(t, e)
  BY DEF Pairs
<1>2. /\ UNCHANGED <<retired, phase, ackBits, acks, fragments, sendTargets>>
      /\ Reassemblies(t, e)' = Reassemblies(t, e)
      /\ Received(t, e)' <=> Received(t, e)
      /\ collectedEarly \subseteq collectedEarly'
  BY DEF CollectReceived, targetVars, sendVars, netVars, Reassemblies, Received
<1>3. /\ AckSet(e, t)' = AckSet(e, t)
      /\ InFlight(t, e)' <=> InFlight(t, e)
      /\ Lingering(t, e)' <=> Lingering(t, e)
  BY <1>2 DEF AckSet, InFlight, Lingering, Idx
<1>4. CASE t = u /\ e = f
  <2>1. entry[t][e] = "completed" /\ entry'[t][e] = "none" /\ ackedBits'[t][e] = {}
    BY <1>4 DEF CollectReceived
  <2>2. Lingering(t, e) => <<t, e>> \in collectedEarly'
    BY <1>4 DEF CollectReceived
  <2>3. Received(t, e)
    BY <1>1, <2>1 DEF PairOK, EntryOK
  <2>4. EntryOK(t, e)' /\ StartedOK(t, e)' /\ OnceOK(t, e)' /\ AckedOK(t, e)'
    BY <1>1, <1>2, <1>3, <2>1, <2>2, <2>3 DEF PairOK, EntryOK, StartedOK, OnceOK, AckedOK
  <2> QED
    BY <2>4 DEF PairOK
<1>5. CASE ~(t = u /\ e = f)
  <2>1. entry'[t][e] = entry[t][e] /\ ackedBits'[t][e] = ackedBits[t][e]
    BY <1>5 DEF CollectReceived
  <2> QED
    BY <1>1, <1>2, <1>3, <2>1, PairKept
<1> QED
  BY <1>4, <1>5

\* HandleReceivedPacket: a reassembled event is queued or discarded, still once.
LEMMA PairOfReceived ==
  ASSUME TypeOK, Pairs, NEW t \in Node, NEW e \in Event,
         NEW u \in Node, NEW f \in Event, HandleReceivedPacket(u, f)
  PROVE  PairOK(t, e)'
<1> USE DEF TypeOK
<1>1. PairOK(t, e)
  BY DEF Pairs
<1>2. UNCHANGED <<retired, phase, ackBits, acks, fragments, sendTargets, entry, ackedBits,
                  collectedEarly>>
  BY DEF HandleReceivedPacket, targetVars, sendVars, netVars
<1>3. /\ AckSet(e, t)' = AckSet(e, t)
      /\ InFlight(t, e)' <=> InFlight(t, e)
      /\ Lingering(t, e)' <=> Lingering(t, e)
  BY <1>2 DEF AckSet, InFlight, Lingering, Idx
<1>4. Reassemblies(t, e)' = Reassemblies(t, e) /\ (Received(t, e)' <=> Received(t, e))
  <2>1. queued[t][e] \in Nat /\ limited[t][e] \in Nat
    OBVIOUS
  <2>2. CASE t = u /\ e = f
    <3>1. <<t, e>> \in handoff /\ <<t, e>> \notin handoff'
      BY <2>2 DEF HandleReceivedPacket
    <3>2. queued'[t][e] + limited'[t][e] = queued[t][e] + limited[t][e] + 1
      <4>1. CASE queued' = [queued EXCEPT ![t][e] = @ + 1] /\ limited' = limited
        BY <2>1, <4>1
      <4>2. CASE limited' = [limited EXCEPT ![t][e] = @ + 1] /\ queued' = queued
        BY <2>1, <4>2
      <4> QED
        BY <2>2, <4>1, <4>2 DEF HandleReceivedPacket
    <3> QED
      BY <2>1, <3>1, <3>2 DEF Reassemblies, Received
  <2>3. CASE ~(t = u /\ e = f)
    <3>1. <<t, e>> \in handoff' <=> <<t, e>> \in handoff
      BY <2>3 DEF HandleReceivedPacket
    <3>2. queued'[t][e] = queued[t][e] /\ limited'[t][e] = limited[t][e]
      BY <2>3 DEF HandleReceivedPacket
    <3> QED
      BY <3>1, <3>2 DEF Reassemblies, Received
  <2> QED
    BY <2>2, <2>3
<1> QED
  BY <1>1, <1>2, <1>3, <1>4, PairKept

\* RecordFragment, for the pair it records in: it was not reassembled before,
\* unless it was collected early, and every acknowledged fragment is on record.
LEMMA PairOfRecord ==
  ASSUME TypeOK, Ids, NoOrphanReceive, Pairs, NEW e \in Event, NEW t \in Node, NEW i \in Idx(e),
         HandleFragment(e, t, i), RecordFragment(e, t, i)
  PROVE  PairOK(t, e)'
<1> USE EventAssumption DEF TypeOK
<1> DEFINE bits == ackedBits[t][e] \cup {i}
           hasAll == Idx(e) \subseteq bits
<1>1. PairOK(t, e)
  BY DEF Pairs
<1>2. /\ UNCHANGED <<retired, phase, ackBits, sendTargets, collectedEarly, queued, limited>>
      /\ acks' = acks \cup {<<e, t, i>>}
      /\ ackedBits'[t][e] = bits
      /\ entry'[t][e] = IF hasAll THEN "completed" ELSE "partial"
      /\ handoff' = IF hasAll THEN handoff \cup {<<t, e>>} ELSE handoff
  BY DEF RecordFragment, sendVars
<1>3. Sender[e] \in targets[t] /\ Sender[e] \notin retired[t]
  BY DEF RecordFragment, Refused, NoOrphanReceive, Ids
<1>4. <<e, t, i>> \in fragments /\ <<t, e>> \notin handoff
  BY DEF HandleFragment, TakeFragment, Idle
<1>5. Lingering(t, e) /\ InFlight(t, e)
  BY <1>4 DEF Lingering, InFlight
<1>6. entry[t][e] \in {"none", "partial"}
  BY DEF RecordFragment
<1>7. Received(t, e) => <<t, e>> \in collectedEarly
  BY <1>1, <1>3, <1>5, <1>6 DEF PairOK, OnceOK
<1>8. Reassemblies(t, e)' = (IF hasAll THEN Reassemblies(t, e) + 1 ELSE Reassemblies(t, e))
      /\ (Received(t, e)' <=> Received(t, e) \/ hasAll)
  <2>1. queued[t][e] \in Nat /\ limited[t][e] \in Nat
    OBVIOUS
  <2> QED
    BY <1>2, <1>4, <2>1 DEF Reassemblies, Received
<1>9. EntryOK(t, e)'
  BY <1>2, <1>8 DEF EntryOK, Idx
<1>10. phase[e] # "new"
  BY <1>1, <1>5 DEF PairOK, StartedOK
<1>11. StartedOK(t, e)'
  BY <1>2, <1>10 DEF StartedOK
<1>12. OnceOK(t, e)'
  <2>1. CASE Received(t, e)
    BY <1>2, <1>7, <2>1 DEF OnceOK
  <2>2. CASE ~Received(t, e)
    <3>1. Reassemblies(t, e) = 0
      BY <2>2, ReassembliesType
    <3> QED
      BY <1>2, <1>8, <2>2, <3>1 DEF OnceOK
  <2> QED
    BY <2>1, <2>2
<1>13. AckedOK(t, e)'
  <2> SUFFICES ASSUME ~Received(t, e), ~hasAll
               PROVE  AckSet(e, t)' \subseteq bits /\ AckSet(e, t)' # Idx(e)
    BY <1>2, <1>8 DEF AckedOK, Idx
  <2>1. AckSet(e, t) \subseteq ackedBits[t][e]
    BY <1>1, <1>3 DEF PairOK, AckedOK
  <2>2. AckSet(e, t)' \subseteq AckSet(e, t) \cup {i}
    BY <1>2 DEF AckSet, Idx
  <2> QED
    BY <2>1, <2>2
<1> QED
  BY <1>9, <1>11, <1>12, <1>13 DEF PairOK

\* HandleFragment, for every pair.
LEMMA PairOfFragment ==
  ASSUME TypeOK, Ids, NoOrphanReceive, Pairs, NEW t \in Node, NEW e \in Event,
         NEW f \in Event, NEW u \in Node, NEW i \in Idx(f), HandleFragment(f, u, i)
  PROVE  PairOK(t, e)'
<1> USE DEF TypeOK
<1>1. PairOK(t, e)
  BY DEF Pairs
<1>2. fragments' \subseteq fragments
  BY DEF HandleFragment, TakeFragment
<1>3. UNCHANGED <<retired, phase, ackBits, sendTargets, collectedEarly, queued, limited>>
  BY DEF HandleFragment, DiscardFragment, ReAckFragment, RecordFragment, targetVars, sendVars,
     recvVars
<1>4. (InFlight(t, e)' => InFlight(t, e)) /\ (Lingering(t, e)' => Lingering(t, e))
  BY <1>2, <1>3 DEF InFlight, Lingering, Idx
<1>5. CASE DiscardFragment(f, u, i)
  <2>1. UNCHANGED <<entry, ackedBits, handoff, acks>>
    BY <1>5 DEF DiscardFragment, recvVars
  <2>2. /\ AckSet(e, t)' = AckSet(e, t)
        /\ Reassemblies(t, e)' = Reassemblies(t, e)
        /\ Received(t, e)' <=> Received(t, e)
    BY <1>3, <2>1 DEF AckSet, Reassemblies, Received, Idx
  <2> QED
    BY <1>1, <1>3, <1>4, <2>1, <2>2, PairKept
<1>6. CASE ReAckFragment(f, u, i)
  <2>1. UNCHANGED <<entry, ackedBits, handoff>> /\ acks' = acks \cup {<<f, u, i>>}
    BY <1>6 DEF ReAckFragment, recvVars
  <2>2. /\ Reassemblies(t, e)' = Reassemblies(t, e)
        /\ Received(t, e)' <=> Received(t, e)
    BY <1>3, <2>1 DEF Reassemblies, Received
  <2>3. CASE t = u /\ e = f
    <3>1. EntryOK(t, e)' /\ StartedOK(t, e)' /\ OnceOK(t, e)'
      BY <1>1, <1>3, <1>4, <2>1, <2>2 DEF PairOK, EntryOK, StartedOK, OnceOK, Idx
    <3>2. AckedOK(t, e)'
      <4> SUFFICES ASSUME ~Received(t, e)
                   PROVE  AckSet(e, t)' \subseteq ackedBits[t][e] /\ AckSet(e, t)' # Idx(e)
        BY <1>3, <2>1, <2>2 DEF AckedOK, Idx
      <4>1. entry[t][e] = "partial" /\ i \in ackedBits[t][e]
        BY <1>1, <1>6, <2>3 DEF ReAckFragment, PairOK, EntryOK
      <4>2. Sender[e] \notin retired[t]
        BY <4>1 DEF NoOrphanReceive, Ids
      <4>3. AckSet(e, t) \subseteq ackedBits[t][e]
        BY <1>1, <4>2 DEF PairOK, AckedOK
      <4>4. AckSet(e, t)' \subseteq AckSet(e, t) \cup {i}
        BY <1>3, <2>1, <2>3 DEF AckSet, Idx
      <4>5. ~(Idx(e) \subseteq ackedBits[t][e])
        BY <1>1, <4>1 DEF PairOK, EntryOK
      <4> QED
        BY <4>1, <4>3, <4>4, <4>5
    <3> QED
      BY <3>1, <3>2 DEF PairOK
  <2>4. CASE ~(t = u /\ e = f)
    <3>1. AckSet(e, t)' = AckSet(e, t)
      BY <1>3, <2>1, <2>4 DEF AckSet, Idx
    <3> QED
      BY <1>1, <1>3, <1>4, <2>1, <2>2, <3>1, PairKept
  <2> QED
    BY <2>3, <2>4
<1>7. CASE RecordFragment(f, u, i) /\ t = u /\ e = f
  BY <1>7, PairOfRecord
<1>8. CASE RecordFragment(f, u, i) /\ ~(t = u /\ e = f)
  <2>1. entry'[t][e] = entry[t][e] /\ ackedBits'[t][e] = ackedBits[t][e]
    BY <1>8 DEF RecordFragment
  <2>2. (<<t, e>> \in handoff' <=> <<t, e>> \in handoff) /\ acks' = acks \cup {<<f, u, i>>}
    BY <1>8 DEF RecordFragment
  <2>3. /\ AckSet(e, t)' = AckSet(e, t)
        /\ Reassemblies(t, e)' = Reassemblies(t, e)
        /\ Received(t, e)' <=> Received(t, e)
    BY <1>3, <1>8, <2>2 DEF AckSet, Reassemblies, Received, Idx
  <2> QED
    BY <1>1, <1>3, <1>4, <2>1, <2>3, PairKept
<1> QED
  BY <1>5, <1>6, <1>7, <1>8 DEF HandleFragment

\* The invariant of all pairs is preserved by every step.
LEMMA PairsStep == TypeOK /\ Ids /\ NoOrphanReceive /\ Pairs /\ [Next]_vars => Pairs'
<1> SUFFICES ASSUME TypeOK, Ids, NoOrphanReceive, Pairs, [Next]_vars,
                    NEW t \in Node, NEW e \in Event
             PROVE  PairOK(t, e)'
  BY DEF Pairs
<1>1. ASSUME NEW n \in Node, NEW m \in Peers(n), RegisterTarget(n, m) PROVE PairOK(t, e)'
  <2>1. UNCHANGED <<retired, sendVars, recvVars, netVars>> /\ PairOK(t, e)
    BY <1>1 DEF RegisterTarget, Pairs
  <2> QED
    BY <2>1 DEF PairOK, EntryOK, AckedOK, StartedOK, OnceOK, Received, Reassemblies, AckSet,
       InFlight, Lingering, Idx, sendVars, recvVars, netVars
<1>2. CASE UNCHANGED vars
  <2>1. PairOK(t, e)
    BY DEF Pairs
  <2> QED
    BY <1>2, <2>1 DEF PairOK, EntryOK, AckedOK, StartedOK, OnceOK, Received, Reassemblies, AckSet,
       InFlight, Lingering, Idx, vars, targetVars, sendVars, recvVars, netVars
<1> QED
  BY <1>1, <1>2, PairOfSend, PairOfUnregister, PairOfCollect, PairOfReceived, PairOfFragment
  DEF Next, HandlePacket, HandlePacketV2

\* The invariant of all pairs holds in every reachable state.
THEOREM PairsInvariant == Spec => []Pairs
<1>1. ASSUME Init PROVE Pairs
  <2> SUFFICES ASSUME NEW t \in Node, NEW e \in Event PROVE PairOK(t, e)
    BY DEF Pairs
  <2>1. entry[t][e] = "none" /\ ackedBits[t][e] = {} /\ phase[e] = "new"
    BY <1>1 DEF Init
  <2>2. queued[t][e] = 0 /\ limited[t][e] = 0 /\ handoff = {}
    BY <1>1 DEF Init
  <2>3. ackBits[e][t] = {} /\ acks = {} /\ fragments = {}
    BY <1>1 DEF Init
  <2>4. ~Received(t, e)
    BY <2>2 DEF Received
  <2>5. AckSet(e, t) = {} /\ ~InFlight(t, e)
    BY <2>3 DEF AckSet, InFlight
  <2>6. 0 \in Idx(e)
    <3>1. Frags[e] \in Nat \ {0}
      BY EventAssumption
    <3> QED
      BY <3>1 DEF Idx
  <2> QED
    BY <2>1, <2>4, <2>5, <2>6 DEF PairOK, EntryOK, AckedOK, StartedOK, OnceOK
<1> QED
  BY <1>1, PairsStep, TypeCorrect, NoOrphanReceiveInvariant, PTL DEF Spec

\* However packets are lost, duplicated and reordered and targets come and go, an
\* event whose ReceiveEvent is not collected early is reassembled at most once.
THEOREM AtMostOnceInvariant == Spec => []AtMostOnce
<1>1. TypeOK /\ Pairs => AtMostOnce
  <2> SUFFICES ASSUME TypeOK, Pairs, NEW t \in Node, NEW e \in Event,
                      <<t, e>> \notin collectedEarly
               PROVE  Reassemblies(t, e) <= 1
    BY DEF AtMostOnce
  <2>1. OnceOK(t, e)
    BY DEF Pairs, PairOK
  <2> QED
    BY <2>1, ReassembliesType DEF OnceOK
<1> QED
  BY <1>1, PairsInvariant, TypeCorrect, PTL

\* A target that the sender has ticked off has reassembled the event.
THEOREM FinishedMeansReceivedInvariant == Spec => []FinishedMeansReceived
<1>1. Init => FinishedMeansReceived
  BY DEF Init, FinishedMeansReceived
<1>2. ASSUME TypeOK, Pairs, FinishedMeansReceived, [Next]_vars
      PROVE  FinishedMeansReceived'
  <2>1. ASSUME NEW t \in Node, NEW e \in Event, Received(t, e) PROVE Received(t, e)'
    <3>1. CASE UNCHANGED <<targetVars, recvVars>>
      BY <2>1, <3>1 DEF recvVars, Received
    <3>2. ASSUME NEW n \in Node, NEW m \in Peers(n), RegisterTarget(n, m) \/ UnregisterTarget(n, m)
          PROVE  Received(t, e)'
      BY <2>1, <3>2 DEF RegisterTarget, UnregisterTarget, recvVars, Received
    <3>3. ASSUME NEW u \in Node, NEW f \in Event, CollectReceived(u, f) PROVE Received(t, e)'
      BY <2>1, <3>3 DEF CollectReceived, Received
    <3>4. ASSUME NEW u \in Node, NEW f \in Event, HandleReceivedPacket(u, f)
          PROVE  Received(t, e)'
      <4>1. queued[t][e] \in Nat /\ limited[t][e] \in Nat
        BY <1>2 DEF TypeOK
      <4>2. CASE t = u /\ e = f
        <5>1. \/ queued' = [queued EXCEPT ![t][e] = @ + 1] /\ limited' = limited
              \/ limited' = [limited EXCEPT ![t][e] = @ + 1] /\ queued' = queued
          BY <3>4, <4>2 DEF HandleReceivedPacket
        <5>2. queued'[t][e] + limited'[t][e] > 0
          BY <1>2, <4>1, <5>1 DEF TypeOK
        <5> QED
          BY <5>2 DEF Received
      <4>3. CASE ~(t = u /\ e = f)
        <5>1. <<t, e>> \in handoff' <=> <<t, e>> \in handoff
          BY <3>4, <4>3 DEF HandleReceivedPacket
        <5>2. queued'[t][e] = queued[t][e] /\ limited'[t][e] = limited[t][e]
          BY <1>2, <3>4, <4>3 DEF HandleReceivedPacket, TypeOK
        <5> QED
          BY <2>1, <5>1, <5>2 DEF Received
      <4> QED
        BY <4>2, <4>3
    <3>5. ASSUME NEW f \in Event, NEW u \in Node, NEW i \in Idx(f), HandleFragment(f, u, i)
          PROVE  Received(t, e)'
      BY <2>1, <3>5 DEF HandleFragment, DiscardFragment, ReAckFragment, RecordFragment, recvVars,
         Received
    <3> QED
      BY <1>2, <3>1, <3>2, <3>3, <3>4, <3>5, ReceiveCases
  <2>2. ASSUME NEW e \in Event, NEW t \in finished'[e], t \notin finished[e]
        PROVE  t \in Node /\ Received(t, e)
    <3>1. PICK f \in Event, u \in Node : TickDone(f, u)
      <4>1. finished' # finished
        BY <2>2
      <4>2. \A n \in Node : \A m \in Peers(n) : ~RegisterTarget(n, m) /\ ~UnregisterTarget(n, m)
        BY <4>1 DEF RegisterTarget, UnregisterTarget, sendVars
      <4>3. \A g \in Event : ~ReadTargets(g) /\ ~InsertSend(g) /\ ~TickErase(g)
        BY <4>1 DEF ReadTargets, InsertSend, TickErase
      <4>4. \A g \in Event, v \in Node : ~TickGone(g, v) /\ ~TickWrap(g, v) /\ ~TickSend(g, v)
        BY <4>1 DEF TickGone, TickWrap, TickSend
      <4>5. \A v \in Node, g \in Event : ~CollectReceived(v, g) /\ ~HandleReceivedPacket(v, g)
        BY <4>1 DEF CollectReceived, HandleReceivedPacket, sendVars
      <4>6. ASSUME NEW g \in Event, NEW v \in Node, NEW i \in Idx(g)
            PROVE  ~HandleFragment(g, v, i)
        BY <4>1 DEF HandleFragment, DiscardFragment, ReAckFragment, RecordFragment, sendVars
      <4>7. ASSUME NEW g \in Event, NEW v \in Node, NEW i \in Idx(g)
            PROVE  ~HandleAck(g, v, i) /\ ~HandleAckV2(g, v, i) /\ ~LosePacket(g, v, i)
        BY <4>1 DEF HandleAck, HandleAckV2, LosePacket, sendVars
      <4>8. ~UNCHANGED vars
        BY <4>1 DEF vars, sendVars
      <4> QED
        BY <1>2, <4>2, <4>3, <4>4, <4>5, <4>6, <4>7, <4>8
        DEF Next, TriggerEvent, TriggerEventV2, NetworkTickSendList, HandlePacket, HandlePacketV2
    <3>2. e = f /\ t = u
      BY <1>2, <2>2, <3>1 DEF TickDone, TypeOK
    <3>3. AckSet(e, t) = Idx(e)
      BY <3>1, <3>2 DEF TickDone, Unacked, AckSet
    <3> QED
      BY <1>2, <3>2, <3>3 DEF Pairs, PairOK, AckedOK
  <2>3. \A e \in Event : finished[e] \subseteq Node
    BY <1>2 DEF TypeOK
  <2> QED
    BY <1>2, <2>1, <2>2, <2>3 DEF FinishedMeansReceived
<1> QED
  BY <1>1, <1>2, PairsInvariant, TypeCorrect, PTL DEF Spec
=============================================================================
