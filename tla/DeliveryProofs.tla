--------------------------- MODULE DeliveryProofs ---------------------------
(***************************************************************************)
(* EventReassembly implements LatentDelivery, for every set of clients and *)
(* events.  Every step either leaves what was offered, received and served *)
(* alone and can only take candidates away (GiveUp), or is the first half  *)
(* of TriggerEvent (Offer), the fragment that completes an event for the   *)
(* first time (Deliver), or the tick that ticks off a target (Serve).  The *)
(* last one needs the invariant of the pairs of EventReassemblyProofs.     *)
(***************************************************************************)
EXTENDS EventReassemblyProofs

Triggered == {e \in Event : phase[e] # "new"}
ReceivedPairs == {p \in Node \X Event : Received(p[1], p[2])}

\* The steps that no node's reception depends on, and that send nothing to a node
\* the event is no longer for, are steps in which candidates may be given up.
LEMMA GiveUpStep ==
  ASSUME Triggered' = Triggered, UNCHANGED finished,
         \A t \in Node, e \in Event :
           (Received(t, e)' <=> Received(t, e)) /\ (Lingering(t, e)' => Lingering(t, e))
  PROVE  Delivery!GiveUp
<1>1. \A e \in Event : Candidates'[e] \subseteq Candidates[e]
  BY DEF Candidates
<1>2. ReceivedPairs' = ReceivedPairs
  BY DEF ReceivedPairs
<1> QED
  BY <1>1, <1>2 DEF Delivery!GiveUp, Triggered, ReceivedPairs

\* A node has received an event as long as its counters and the hand-over are kept.
LEMMA ReceivedKept ==
  ASSUME UNCHANGED <<handoff, queued, limited>>
  PROVE  \A t \in Node, e \in Event : Received(t, e)' <=> Received(t, e)
BY DEF Received

\* Fewer copies in flight and fewer targets reach no node that was out of reach.
LEMMA LingeringShrinks ==
  ASSUME fragments' \subseteq fragments, \A e \in Event : sendTargets'[e] \subseteq sendTargets[e]
  PROVE  \A t \in Node, e \in Event : Lingering(t, e)' => Lingering(t, e)
BY DEF Lingering, Idx

\* Registration, and the drop of a target with its sends and receives.
LEMMA RegistrationGivesUp ==
  ASSUME TypeOK, NEW n \in Node, NEW m \in Peers(n),
         RegisterTarget(n, m) \/ UnregisterTarget(n, m)
  PROVE  Delivery!GiveUp
<1>1. UNCHANGED <<handoff, queued, limited, phase, finished, fragments>>
  BY DEF RegisterTarget, UnregisterTarget, sendVars, recvVars, netVars
<1>2. \A e \in Event : sendTargets'[e] \subseteq sendTargets[e]
  BY DEF RegisterTarget, UnregisterTarget, sendVars
<1>3. Triggered' = Triggered
  BY <1>1 DEF Triggered
<1> QED
  BY <1>1, <1>2, <1>3, ReceivedKept, LingeringShrinks, GiveUpStep

\* The first half of TriggerEvent offers the event to the targets it copies.
LEMMA ReadTargetsOffers ==
  ASSUME TypeOK, NEW e \in Event, ReadTargets(e)
  PROVE  Delivery!Offer(e)
<1>1. phase[e] = "new" /\ phase' = [phase EXCEPT ![e] = "read"]
  BY DEF ReadTargets
<1>2. UNCHANGED <<handoff, queued, limited, finished, fragments>>
  BY DEF ReadTargets, recvVars, netVars
<1>3. \A f \in Event : f # e => sendTargets'[f] = sendTargets[f]
  BY DEF ReadTargets, TypeOK
<1>4. Triggered' = Triggered \cup {e} /\ e \notin Triggered
  BY <1>1 DEF Triggered, TypeOK
<1>5. ReceivedPairs' = ReceivedPairs
  BY <1>2, ReceivedKept DEF ReceivedPairs
<1>6. Candidates' = [Candidates EXCEPT ![e] = Candidates'[e]]
  <2>1. \A f \in Event : f # e => Candidates'[f] = Candidates[f]
    BY <1>2, <1>3, ReceivedKept DEF Candidates, Lingering, Idx
  <2> QED
    BY <2>1 DEF Candidates
<1>7. Candidates'[e] \in SUBSET Node
  BY DEF Candidates
<1> QED
  BY <1>2, <1>4, <1>5, <1>6, <1>7 DEF Delivery!Offer, Triggered, ReceivedPairs

\* The other steps of a sender but the one that ticks off a target, and of the
\* network.
LEMMA SendGivesUp ==
  ASSUME TypeOK, NEW e \in Event,
         \/ InsertSend(e) \/ TickErase(e)
         \/ \E t \in Node : TickGone(e, t) \/ TickWrap(e, t) \/ TickSend(e, t)
         \/ \E t \in Node, i \in Idx(e) :
              HandleAck(e, t, i) \/ HandleAckV2(e, t, i) \/ LosePacket(e, t, i)
  PROVE  Delivery!GiveUp
<1>1. UNCHANGED <<handoff, queued, limited, finished>>
  BY DEF InsertSend, TickErase, TickGone, TickWrap, TickSend, HandleAck, HandleAckV2, LosePacket,
     recvVars, sendVars
<1>2. Triggered' = Triggered
  <2>1. CASE InsertSend(e) \/ TickErase(e)
    BY <2>1 DEF InsertSend, TickErase, Triggered, TypeOK
  <2>2. CASE \E t \in Node : TickGone(e, t)
    BY <2>2 DEF TickGone, RemoveTarget, Triggered, TypeOK
  <2>3. CASE phase' = phase
    BY <2>3 DEF Triggered
  <2> QED
    BY <2>1, <2>2, <2>3
    DEF TickWrap, TickSend, HandleAck, HandleAckV2, LosePacket, sendVars
<1>3. \A t \in Node, f \in Event : Lingering(t, f)' => Lingering(t, f)
  <2>1. CASE \E t \in Node : TickSend(e, t)
    <3>1. PICK t \in Node : TickSend(e, t)
      BY <2>1
    <3>2. t \in sendTargets[e] /\ sendTargets' = sendTargets
      BY <3>1 DEF TickSend
    <3>3. \A f \in Event, u \in Node : \A i : <<f, u, i>> \in fragments' =>
            <<f, u, i>> \in fragments \/ (f = e /\ u = t)
      BY <3>1 DEF TickSend
    <3> QED
      BY <3>2, <3>3 DEF Lingering, Idx
  <2>2. CASE \E t \in Node : TickGone(e, t)
    <3>1. fragments' = fragments /\ \A f \in Event : sendTargets'[f] \subseteq sendTargets[f]
      BY <2>2 DEF TickGone, RemoveTarget, netVars, TypeOK
    <3> QED
      BY <3>1, LingeringShrinks
  <2>3. CASE fragments' \subseteq fragments /\ sendTargets' = sendTargets
    BY <2>3, LingeringShrinks
  <2> QED
    BY <2>1, <2>2, <2>3
    DEF InsertSend, TickErase, TickWrap, HandleAck, HandleAckV2, LosePacket, sendVars, netVars
<1> QED
  BY <1>1, <1>2, <1>3, ReceivedKept, GiveUpStep

\* The tick that finds every bit acknowledged serves a node that has the event.
LEMMA TickDoneServes ==
  ASSUME TypeOK, Pairs, NEW e \in Event, NEW t \in Node, TickDone(e, t)
  PROVE  Delivery!Serve(t, e)
<1>1. UNCHANGED <<handoff, queued, limited, fragments>>
  BY DEF TickDone, recvVars, netVars
<1>2. Received(t, e)
  <2>1. AckSet(e, t) = Idx(e)
    BY DEF TickDone, Unacked, AckSet
  <2> QED
    BY <2>1 DEF Pairs, PairOK, AckedOK
<1>3. Triggered' = Triggered
  BY DEF TickDone, RemoveTarget, Triggered, TypeOK
<1>4. ReceivedPairs' = ReceivedPairs
  BY <1>1, ReceivedKept DEF ReceivedPairs
<1>5. Candidates' = Candidates
  <2>1. \A f \in Event : sendTargets'[f] = IF f = e THEN sendTargets[f] \ {t} ELSE sendTargets[f]
    BY DEF TickDone, RemoveTarget, TypeOK
  <2>2. \A u \in Node, f \in Event :
          Lingering(u, f)' /\ ~Received(u, f)' <=> Lingering(u, f) /\ ~Received(u, f)
    BY <1>1, <1>2, <2>1, ReceivedKept DEF Lingering, Idx
  <2> QED
    BY <2>2 DEF Candidates
<1>6. finished' = [finished EXCEPT ![e] = @ \cup {t}]
  BY DEF TickDone
<1>7. <<t, e>> \in ReceivedPairs
  BY <1>2 DEF ReceivedPairs
<1> QED
  BY <1>3, <1>4, <1>5, <1>6, <1>7 DEF Delivery!Serve, Triggered, ReceivedPairs

\* A fragment delivers its event when it is the last one and the first to be, and
\* otherwise only uses up a copy.
LEMMA FragmentDelivers ==
  ASSUME TypeOK, NEW e \in Event, NEW t \in Node, NEW i \in Idx(e), HandleFragment(e, t, i)
  PROVE  Delivery!Deliver(t, e) \/ Delivery!GiveUp
<1>1. UNCHANGED <<phase, sendTargets, finished, queued, limited>>
  BY DEF HandleFragment, DiscardFragment, ReAckFragment, RecordFragment, sendVars, recvVars
<1>2. <<e, t, i>> \in fragments /\ fragments' \in {fragments, fragments \ {<<e, t, i>>}}
  BY DEF HandleFragment, TakeFragment
<1>3. handoff' = handoff \/ handoff' = handoff \cup {<<t, e>>}
  BY DEF HandleFragment, DiscardFragment, ReAckFragment, RecordFragment, recvVars
<1>4. Triggered' = Triggered
  BY <1>1 DEF Triggered
<1>5. \A u \in Node, f \in Event : Lingering(u, f)' => Lingering(u, f)
  BY <1>1, <1>2, LingeringShrinks
<1>6. CASE handoff' = handoff
  BY <1>1, <1>4, <1>5, <1>6, ReceivedKept, GiveUpStep
<1>7. CASE Received(t, e)
  <2>1. \A u \in Node, f \in Event : Received(u, f)' <=> Received(u, f)
    BY <1>1, <1>3, <1>7 DEF Received
  <2> QED
    BY <1>1, <1>4, <1>5, <2>1, GiveUpStep
<1>8. CASE ~Received(t, e) /\ handoff' = handoff \cup {<<t, e>>}
  <2>1. \A u \in Node, f \in Event : Received(u, f)' <=> Received(u, f) \/ (u = t /\ f = e)
    BY <1>1, <1>8 DEF Received
  <2>2. ReceivedPairs' = ReceivedPairs \cup {<<t, e>>}
    BY <2>1 DEF ReceivedPairs
  <2>3. t \in Candidates[e]
    BY <1>2, <1>8 DEF Candidates, Lingering
  <2>4. \A u \in Node, f \in Event : ~(u = t /\ f = e) => (Lingering(u, f)' <=> Lingering(u, f))
    BY <1>1, <1>2 DEF Lingering, Idx
  <2>5. Candidates' = [Candidates EXCEPT ![e] = @ \ {t}]
    <3>1. \A f \in Event : Candidates'[f] = IF f = e THEN Candidates[f] \ {t} ELSE Candidates[f]
      BY <2>1, <2>4 DEF Candidates
    <3> QED
      BY <3>1 DEF Candidates
  <2> QED
    BY <1>1, <1>4, <2>2, <2>3, <2>5 DEF Delivery!Deliver, Triggered, ReceivedPairs
<1> QED
  BY <1>3, <1>6, <1>7, <1>8

\* The cleanup, and the hand-over to the sink.
LEMMA ReceiverGivesUp ==
  ASSUME TypeOK, NEW t \in Node, NEW e \in Event,
         CollectReceived(t, e) \/ HandleReceivedPacket(t, e)
  PROVE  Delivery!GiveUp
<1>1. UNCHANGED <<phase, sendTargets, finished, fragments>>
  BY DEF CollectReceived, HandleReceivedPacket, sendVars, netVars
<1>2. \A u \in Node, f \in Event : Received(u, f)' <=> Received(u, f)
  <2>1. CASE CollectReceived(t, e)
    BY <2>1, ReceivedKept DEF CollectReceived
  <2>2. CASE HandleReceivedPacket(t, e)
    <3> SUFFICES ASSUME NEW u \in Node, NEW f \in Event
                 PROVE  Received(u, f)' <=> Received(u, f)
      OBVIOUS
    <3>1. queued[u][f] \in Nat /\ limited[u][f] \in Nat
      BY DEF TypeOK
    <3>2. \/ queued' = [queued EXCEPT ![t][e] = @ + 1] /\ limited' = limited
          \/ limited' = [limited EXCEPT ![t][e] = @ + 1] /\ queued' = queued
      BY <2>2 DEF HandleReceivedPacket
    <3>3. <<t, e>> \in handoff /\ handoff' = handoff \ {<<t, e>>}
      BY <2>2 DEF HandleReceivedPacket
    <3>4. CASE u = t /\ f = e
      <4>1. queued'[u][f] + limited'[u][f] > 0
        BY <3>1, <3>2, <3>4 DEF TypeOK
      <4> QED
        BY <3>3, <3>4, <4>1 DEF Received
    <3>5. CASE ~(u = t /\ f = e)
      <4>1. queued'[u][f] = queued[u][f] /\ limited'[u][f] = limited[u][f]
        BY <3>2, <3>5 DEF TypeOK
      <4>2. <<u, f>> \in handoff' <=> <<u, f>> \in handoff
        BY <3>3, <3>5
      <4> QED
        BY <4>1, <4>2 DEF Received
    <3> QED
      BY <3>4, <3>5
  <2> QED
    BY <2>1, <2>2
<1>3. \A u \in Node, f \in Event : Lingering(u, f)' => Lingering(u, f)
  BY <1>1, LingeringShrinks
<1>4. Triggered' = Triggered
  BY <1>1 DEF Triggered
<1> QED
  BY <1>1, <1>2, <1>3, <1>4, GiveUpStep

\* The latent-event channel implements LatentDelivery.
THEOREM DeliveryImplemented == Spec => ImplementsDelivery
<1>1. Init => Delivery!Init
  <2> SUFFICES ASSUME Init PROVE Delivery!Init
    OBVIOUS
  <2>1. \A t \in Node, e \in Event : ~Received(t, e) /\ ~Lingering(t, e)
    BY DEF Init, Received, Lingering
  <2>2. Candidates = [e \in Event |-> {}] /\ ReceivedPairs = {}
    BY <2>1 DEF Candidates, ReceivedPairs
  <2>3. Triggered = {} /\ finished = [e \in Event |-> {}]
    BY DEF Init, Triggered
  <2> QED
    BY <2>2, <2>3 DEF Delivery!Init, Triggered, ReceivedPairs
<1>2. TypeOK /\ Pairs /\ [Next]_vars => [Delivery!Next]_Delivery!vars
  <2> SUFFICES ASSUME TypeOK, Pairs, [Next]_vars
               PROVE  [Delivery!Next]_Delivery!vars
    OBVIOUS
  <2>1. CASE UNCHANGED vars
    <3>1. UNCHANGED <<phase, sendTargets, finished, fragments, handoff, queued, limited>>
      BY <2>1 DEF vars, sendVars, recvVars, netVars
    <3>2. Triggered' = Triggered
      BY <3>1 DEF Triggered
    <3>3. Delivery!GiveUp
      BY <3>1, <3>2, ReceivedKept, LingeringShrinks, GiveUpStep
    <3> QED
      BY <3>3 DEF Delivery!Next
  <2>2. CASE \E n \in Node : \E m \in Peers(n) : RegisterTarget(n, m) \/ UnregisterTarget(n, m)
    BY <2>2, RegistrationGivesUp DEF Delivery!Next
  <2>3. ASSUME NEW e \in Event, TriggerEvent(e) \/ TriggerEventV2(e) \/ NetworkTickSendList(e)
        PROVE  Delivery!Next
    <3>1. CASE ReadTargets(e)
      BY <3>1, ReadTargetsOffers DEF Delivery!Next
    <3>2. CASE \E t \in Node : TickDone(e, t)
      BY <3>2, TickDoneServes DEF Delivery!Next
    <3>3. CASE \/ InsertSend(e) \/ TickErase(e)
               \/ \E t \in Node : TickGone(e, t) \/ TickWrap(e, t) \/ TickSend(e, t)
      BY <3>3, SendGivesUp DEF Delivery!Next
    <3> QED
      BY <2>3, <3>1, <3>2, <3>3 DEF TriggerEvent, TriggerEventV2, NetworkTickSendList
  <2>4. CASE \E t \in Node, e \in Event : CollectReceived(t, e) \/ HandleReceivedPacket(t, e)
    BY <2>4, ReceiverGivesUp DEF Delivery!Next
  <2>5. ASSUME NEW e \in Event, NEW t \in Node, NEW i \in Idx(e),
               HandlePacket(e, t, i) \/ HandlePacketV2(e, t, i) \/ LosePacket(e, t, i)
        PROVE  Delivery!Next
    <3>1. CASE HandleFragment(e, t, i)
      BY <3>1, FragmentDelivers DEF Delivery!Next
    <3>2. CASE HandleAck(e, t, i) \/ HandleAckV2(e, t, i) \/ LosePacket(e, t, i)
      BY <3>2, SendGivesUp DEF Delivery!Next
    <3> QED
      BY <2>5, <3>1, <3>2 DEF HandlePacket, HandlePacketV2
  <2> QED
    BY <2>1, <2>2, <2>3, <2>4, <2>5 DEF Next
<1> QED
  BY <1>1, <1>2, TypeCorrect, PairsInvariant, PTL DEF Spec, ImplementsDelivery, Delivery!Spec
=============================================================================
