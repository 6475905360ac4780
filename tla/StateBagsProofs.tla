-------------------------- MODULE StateBagsProofs --------------------------
(***************************************************************************)
(* Theorems about StateBags, for every set of peers, every finite set of   *)
(* keys and every number of writes: no update is lost (TargetsAgree), no   *)
(* peer goes back to an older value (NeverBack), and accepted packets take *)
(* effect in their order (AcceptedOrder).                                  *)
(*                                                                         *)
(* TargetsAgree speaks of a settled bag only.  The invariant says of every *)
(* state where the last value of a key is: TargetsReach finds it at the    *)
(* target, in its channel, among the unsent updates (Pending), or in the   *)
(* first values it still awaits.  A deleted key is in none of those first  *)
(* values, so a peer that becomes a target has to be free of the old value *)
(* already: that is DeletionsReach, for all peers.  PendingIsCurrent says  *)
(* that what is unsent is still the value of the bag.                      *)
(*                                                                         *)
(* NeverBack rests on SentInOrder: replica, channel, unsent updates and    *)
(* m_data, in this order, never step back in version.  AcceptedOrder rests *)
(* on TasksInOrder: no value in m_data is newer than a task that waits.    *)
(***************************************************************************)
EXTENDS StateBags, FiniteSetTheorems, TLAPS

\* Only the game client holds updates back, and it has sent nothing before.
Modes ==
  /\ role = "Server" => enabled
  /\ ~enabled => /\ out = [t \in Thread |-> <<>>]
                 /\ \A p \in Peer : channel[p] = <<>> /\ \A k \in Key : replica[p][k].ver = 0
  /\ parent => routing = {}
  /\ joining # {} => role = "Server" /\ out["main"] = <<>>
  /\ \A k \in Key : queued[k] # None => queued[k].key = k
  /\ \A p \in Peer, k \in Key : replica[p][k].key = k

\* A slot without a client has nothing under way and knows no value.
Unconnected ==
  \A p \in Peer \ connected :
    channel[p] = <<>> /\ \A k \in Key : replica[p][k] = Update(k, Nil, 0)

-----------------------------------------------------------------------------
(* The order in which packets take effect. *)

\* The tasks wait in the order of their packets, and no value comes from a
\* packet later than one of them, unless a packet has overtaken them.
TasksInOrder ==
  /\ \A i \in DOMAIN tasks : tasks[i].num <= packets
  /\ \A i, j \in DOMAIN tasks : i < j => tasks[i].num <= tasks[j].num
  /\ \A k \in Key : data[k].num <= packets
  /\ direct # "overtaking" =>
       \A k \in Key, i \in DOMAIN tasks : data[k].num <= tasks[i].num

-----------------------------------------------------------------------------
(* The order in which values arrive while the main thread does all writing. *)

\* What p has, what is under way to it, and what the main thread has yet to
\* send: no value of a key is older than one before it.
InOrder(p) ==
  /\ \A i \in DOMAIN channel[p] :
       /\ replica[p][channel[p][i].key].ver <= channel[p][i].ver
       /\ channel[p][i].ver <= data[channel[p][i].key].ver
  /\ \A i, j \in DOMAIN channel[p] :
       i < j /\ channel[p][i].key = channel[p][j].key => channel[p][i].ver <= channel[p][j].ver
  /\ \A i \in DOMAIN out["main"] :
       /\ replica[p][out["main"][i].key].ver <= out["main"][i].ver
       /\ \A j \in DOMAIN channel[p] :
            channel[p][j].key = out["main"][i].key => channel[p][j].ver <= out["main"][i].ver
  /\ \A k \in Key : replica[p][k].ver <= data[k].ver

\* The same for every peer; the main thread's updates are themselves in order,
\* and on the server they are the newest of their keys.
SentInOrder ==
  direct = "never" =>
    /\ out["sync"] = <<>>
    /\ \A i \in DOMAIN out["main"] :
         /\ out["main"][i].ver <= data[out["main"][i].key].ver
         /\ role = "Server" => out["main"][i].ver = data[out["main"][i].key].ver
    /\ \A i, j \in DOMAIN out["main"] :
         i < j /\ out["main"][i].key = out["main"][j].key => out["main"][i].ver <= out["main"][j].ver
    /\ \A k \in Key : queued[k] # None => queued[k].ver <= data[k].ver
    /\ \A k \in Key : data[k].ver <= writes
    /\ \A p \in Peer : InOrder(p)

-----------------------------------------------------------------------------
(* What arrives in the end. *)

\* The last value of k that p has or is sent is v.
WillHold(p, k, v) ==
  \/ \E i \in DOMAIN channel[p] :
       /\ channel[p][i].key = k /\ channel[p][i].val = v
       /\ \A j \in DOMAIN channel[p] : j > i => channel[p][j].key # k
  \/ /\ \A j \in DOMAIN channel[p] : channel[p][j].key # k
     /\ replica[p][k].val = v

\* An update of k waits to be sent.
Pending(k) ==
  \/ \E t \in Thread : \E i \in DOMAIN out[t] : out[t][i].key = k
  \/ queued[k] # None

\* What waits is the bag's value, unless no peer is given a guarantee.
PendingIsCurrent ==
  \A p \in Peer, k \in Key : <<p, k>> \notin excused =>
    /\ \A t \in Thread : \A i \in DOMAIN out[t] : out[t][i].key = k => out[t][i].val = data[k].val
    /\ queued[k] # None => queued[k].val = data[k].val

\* A peer that has a value of a deleted key will be told.
DeletionsReach ==
  \A p \in Peer, k \in Key : <<p, k>> \notin excused /\ data[k].val = Nil =>
    WillHold(p, k, Nil) \/ Pending(k)

\* A target will be told the bag's value.
TargetsReach ==
  \A p \in Served, k \in Key : <<p, k>> \notin excused =>
    p \in initial \/ Pending(k) \/ WillHold(p, k, data[k].val)

\* The inductive invariant.
Inv ==
  /\ TypeOK /\ Modes /\ Unconnected
  /\ TasksInOrder /\ SentInOrder
  /\ PendingIsCurrent /\ DeletionsReach /\ TargetsReach

-----------------------------------------------------------------------------
(* Sending *)

\* SetToSeq lists each element of a finite set once.
LEMMA SetToSeqFacts ==
  ASSUME NEW S, IsFiniteSet(S)
  PROVE  /\ SetToSeq(S) \in Seq(S)
         /\ \A x \in S : \E i \in DOMAIN SetToSeq(S) : SetToSeq(S)[i] = x
         /\ \A i, j \in DOMAIN SetToSeq(S) : SetToSeq(S)[i] = SetToSeq(S)[j] => i = j
<1> DEFINE n == Cardinality(S)
           f == SetToSeq(S)
<1>1. n \in Nat /\ ExistsBijection(1 .. n, S)
  BY FS_CardinalityType
<1>2. \E g \in [1 .. n -> S] : IsInjective(g)
  BY <1>1 DEF ExistsBijection, Bijection, Injection
<1>3. f \in [1 .. n -> S] /\ IsInjective(f)
  BY <1>2 DEF SetToSeq
<1>4. f \in Injection(1 .. n, S)
  BY <1>3 DEF Injection
<1>5. IsFiniteSet(1 .. n) /\ Cardinality(1 .. n) = n
  BY <1>1, FS_Interval
<1>6. f \in Surjection(1 .. n, S)
  <2> HIDE DEF f
  <2> QED
    BY <1>4, <1>5, FS_Injection
<1>7. \A x \in S : \E i \in 1 .. n : f[i] = x
  BY <1>6 DEF Surjection
<1> HIDE DEF f, n
<1>8. f \in Seq(S) /\ DOMAIN f = 1 .. n
  BY <1>1, <1>3
<1>9. /\ f \in Seq(S)
      /\ \A x \in S : \E i \in DOMAIN f : f[i] = x
      /\ \A i, j \in DOMAIN f : f[i] = f[j] => i = j
  BY <1>3, <1>7, <1>8 DEF IsInjective
<1> QED
  BY <1>9 DEF f

\* The packets of SendAll: one for every entry of m_data, with its value.
LEMMA SendAllFacts ==
  ASSUME TypeOK, NEW S \in SUBSET Peer, SendAll(S)
  PROVE  \E msgs \in Seq(Updates) :
           /\ channel' = [p \in Peer |-> IF p \in S \cap connected THEN channel[p] \o msgs
                                                                  ELSE channel[p]]
           /\ \A i \in DOMAIN msgs : /\ msgs[i].val = data[msgs[i].key].val
                                     /\ msgs[i].ver = data[msgs[i].key].ver
                                     /\ msgs[i].val # Nil
           /\ \A k \in Key : data[k].val # Nil => \E i \in DOMAIN msgs : msgs[i].key = k
           /\ \A i, j \in DOMAIN msgs : msgs[i].key = msgs[j].key => i = j
<1> DEFINE K == {k \in Key : data[k].val # Nil}
           present == SetToSeq(K)
           msgs == [i \in DOMAIN present |->
                      Update(present[i], data[present[i]].val, data[present[i]].ver)]
<1>1. channel' = [p \in Peer |-> IF p \in S \cap connected THEN channel[p] \o msgs ELSE channel[p]]
  BY DEF SendAll, SendKeyValue
<1>2. IsFiniteSet(K)
  BY SizeAssumption, FS_Subset
<1>3. /\ present \in Seq(K)
      /\ \A x \in K : \E i \in DOMAIN present : present[i] = x
      /\ \A i, j \in DOMAIN present : present[i] = present[j] => i = j
  <2> HIDE DEF K
  <2> QED
    BY <1>2, SetToSeqFacts
<1> HIDE DEF present
<1>4. Len(present) \in Nat /\ DOMAIN present = 1 .. Len(present) /\ \A i \in DOMAIN present : present[i] \in Key
  BY <1>3
<1>5. \A k \in Key : Update(k, data[k].val, data[k].ver) \in Updates
  BY DEF TypeOK, Update, Updates
<1>6. DOMAIN msgs = DOMAIN present /\ msgs \in [1 .. Len(present) -> Updates]
  BY <1>4, <1>5
<1>7. msgs \in Seq(Updates)
  <2> HIDE DEF msgs
  <2> QED
    BY <1>4, <1>6
<1>8. \A i \in DOMAIN msgs :
        /\ msgs[i].key = present[i]
        /\ msgs[i].val = data[msgs[i].key].val
        /\ msgs[i].ver = data[msgs[i].key].ver
        /\ msgs[i].val # Nil
  <2>1. \A i \in DOMAIN present : data[present[i]].val # Nil
    BY <1>3
  <2> QED
    BY <2>1 DEF Update
<1>9. \A k \in Key : data[k].val # Nil => \E i \in DOMAIN msgs : msgs[i].key = k
  <2> HIDE DEF msgs
  <2>1. \A k \in Key : data[k].val # Nil => k \in K
    OBVIOUS
  <2> QED
    BY <1>3, <1>6, <1>8, <2>1
<1>10. \A i, j \in DOMAIN msgs : msgs[i].key = msgs[j].key => i = j
  <2> HIDE DEF msgs
  <2> QED
    BY <1>3, <1>6, <1>8
<1> HIDE DEF msgs
<1> QED
  BY <1>1, <1>7, <1>8, <1>9, <1>10

\* The elements of a longer channel.
LEMMA Longer ==
  ASSUME NEW c \in Seq(Updates), NEW m \in Seq(Updates)
  PROVE  /\ c \o m \in Seq(Updates)
         /\ Len(c) \in Nat /\ DOMAIN c = 1 .. Len(c) /\ DOMAIN m = 1 .. Len(m)
         /\ DOMAIN (c \o m) = 1 .. Len(c) + Len(m)
         /\ \A i \in DOMAIN c : i \in DOMAIN (c \o m) /\ (c \o m)[i] = c[i]
         /\ \A i \in DOMAIN m : Len(c) + i \in DOMAIN (c \o m) /\ (c \o m)[Len(c) + i] = m[i]
         /\ \A i \in DOMAIN (c \o m) : i \notin DOMAIN c => i - Len(c) \in DOMAIN m
OBVIOUS

\* The last of the packets for a key decides.
LEMMA WillHoldNew ==
  ASSUME TypeOK, TypeOK', NEW p \in Peer, NEW k \in Key, NEW v, NEW msgs \in Seq(Updates),
         channel'[p] = channel[p] \o msgs, NEW i \in DOMAIN msgs,
         msgs[i].key = k, msgs[i].val = v, \A j \in DOMAIN msgs : msgs[j].key = k => j = i
  PROVE  WillHold(p, k, v)'
<1> DEFINE n == Len(channel[p])
           d == channel'[p]
<1>1. channel[p] \in Seq(Updates)
  BY DEF TypeOK
<1>2. /\ n \in Nat /\ DOMAIN channel[p] = 1 .. n /\ DOMAIN msgs = 1 .. Len(msgs) /\ Len(msgs) \in Nat
      /\ \A j \in DOMAIN msgs : n + j \in DOMAIN d /\ d[n + j] = msgs[j]
      /\ \A j \in DOMAIN d : j \notin DOMAIN channel[p] => j - n \in DOMAIN msgs
      /\ DOMAIN d = 1 .. n + Len(msgs)
  BY <1>1, Longer
<1>3. n + i \in DOMAIN d /\ d[n + i].key = k /\ d[n + i].val = v
  BY <1>2
<1> HIDE DEF n, d
<1>4. ASSUME NEW j \in DOMAIN d, j > n + i PROVE d[j].key # k
  <2>1. j \in Nat /\ i \in Nat /\ j \notin DOMAIN channel[p] /\ j - n \in DOMAIN msgs
    BY <1>2, <1>4
  <2>2. j = n + (j - n)
    BY <1>2, <2>1
  <2>3. d[j] = msgs[j - n]
    BY <1>2, <2>1, <2>2
  <2>4. j - n # i
    BY <1>2, <1>4, <2>1
  <2> QED
    BY <2>1, <2>3, <2>4
<1>5. \E a \in DOMAIN d : d[a].key = k /\ d[a].val = v /\ \A j \in DOMAIN d : j > a => d[j].key # k
  BY <1>3, <1>4
<1> QED
  BY <1>5 DEF WillHold, d

\* Packets for other keys change nothing.
LEMMA WillHoldKept ==
  ASSUME TypeOK, TypeOK', NEW p \in Peer, NEW k \in Key, NEW v, NEW msgs \in Seq(Updates),
         channel'[p] = channel[p] \o msgs, \A j \in DOMAIN msgs : msgs[j].key # k,
         replica'[p] = replica[p], WillHold(p, k, v)
  PROVE  WillHold(p, k, v)'
<1> DEFINE n == Len(channel[p])
           c == channel[p]
           d == channel'[p]
<1>1. c \in Seq(Updates)
  BY DEF TypeOK
<1>2. /\ n \in Nat /\ DOMAIN c = 1 .. n /\ DOMAIN msgs = 1 .. Len(msgs) /\ Len(msgs) \in Nat
      /\ \A j \in DOMAIN c : j \in DOMAIN d /\ d[j] = c[j]
      /\ \A j \in DOMAIN msgs : n + j \in DOMAIN d /\ d[n + j] = msgs[j]
      /\ \A j \in DOMAIN d : j \notin DOMAIN c => j - n \in DOMAIN msgs
      /\ DOMAIN d = 1 .. n + Len(msgs)
  BY <1>1, Longer
<1> HIDE DEF n, d, c
<1>3. ASSUME NEW j \in DOMAIN d, j \notin DOMAIN c PROVE d[j].key # k
  <2>1. j - n \in DOMAIN msgs /\ j = n + (j - n)
    BY <1>2, <1>3
  <2>2. d[j] = msgs[j - n]
    BY <1>2, <2>1
  <2> QED
    BY <2>1, <2>2
<1>4. CASE \E i \in DOMAIN c : /\ c[i].key = k /\ c[i].val = v
                               /\ \A j \in DOMAIN c : j > i => c[j].key # k
  <2>1. \E i \in DOMAIN d : /\ d[i].key = k /\ d[i].val = v
                            /\ \A j \in DOMAIN d : j > i => d[j].key # k
    BY <1>2, <1>3, <1>4
  <2> QED
    BY <2>1 DEF WillHold, d
<1>5. CASE (\A j \in DOMAIN c : c[j].key # k) /\ replica[p][k].val = v
  <2>1. \A j \in DOMAIN d : d[j].key # k
    BY <1>2, <1>3, <1>5
  <2> QED
    BY <1>5, <2>1 DEF WillHold, d
<1> QED
  BY <1>4, <1>5 DEF WillHold, c
-----------------------------------------------------------------------------
(* Peers, owners and handlers *)

\* Steps that neither write nor send: every target was one before, or waits for
\* its first values.
LEMMA SmallInv ==
  ASSUME Inv, TypeOK', Modes', Unconnected', TasksInOrder',
         UNCHANGED <<data, queued, out, excused, writes, channel, replica, role, direct>>,
         \A p \in Served' :
           p \in initial' \/ (p \in Served /\ p \notin initial)
  PROVE  Inv'
<1>1. /\ \A p \in Peer, k \in Key : \A v : WillHold(p, k, v)' <=> WillHold(p, k, v)
      /\ \A k \in Key : Pending(k)' <=> Pending(k)
  BY DEF WillHold, Pending
<1>2. PendingIsCurrent' /\ DeletionsReach'
  BY <1>1 DEF Inv, PendingIsCurrent, DeletionsReach
<1>3. TargetsReach'
  <2> SUFFICES ASSUME NEW p \in Served', NEW k \in Key, <<p, k>> \notin excused'
               PROVE  (p \in initial \/ Pending(k) \/ WillHold(p, k, data[k].val))'
    BY DEF TargetsReach
  <2>1. p \in Peer
    BY DEF Served, TypeOK
  <2>2. CASE p \in initial'
    BY <2>2
  <2>3. CASE p \in Served /\ p \notin initial
    <3>1. Pending(k) \/ WillHold(p, k, data[k].val)
      BY <2>3 DEF Inv, TargetsReach
    <3>2. data'[k].val = data[k].val
      OBVIOUS
    <3> QED
      BY <1>1, <2>1, <3>1, <3>2
  <2> QED
    BY <2>2, <2>3
<1>4. \A p \in Peer : InOrder(p)' <=> InOrder(p)
  BY DEF InOrder
<1>5. SentInOrder'
  BY <1>4 DEF Inv, SentInOrder
<1> QED
  BY <1>2, <1>3, <1>5 DEF Inv

\* The last handler goes, or the first one comes.
LEMMA SetHookedInv ==
  ASSUME Inv, NEW b \in BOOLEAN, SetHooked(b)
  PROVE  Inv'
<1>1. /\ UNCHANGED <<data, queued, out, excused, writes, role, parent, enabled, owner, known, initial,
                     routing, connected, fresh, watched, joining, stale, channel, replica, tasks,
                     direct, packets>>
      /\ moves < MaxMoves /\ moves' = moves + 1 /\ hooked' = b
      /\ joining = {}
  BY DEF SetHooked, Move, Idle, bagVars, targetVars, peerVars, clientVars
<1>2. TypeOK'
  BY <1>1, SizeAssumption DEF Inv, TypeOK
<1>3. Modes' /\ Unconnected' /\ TasksInOrder'
  BY <1>1 DEF Inv, Modes, Unconnected, TasksInOrder
<1>4. Served' = Served /\ initial = {}
  BY <1>1 DEF Served, Targets, Inv, TypeOK
<1> QED
  BY <1>1, <1>2, <1>3, <1>4, SmallInv

\* A step that leaves the bag and the wire alone and makes no new target keeps
\* the invariant.
LEMMA ClientInv ==
  ASSUME Inv, TypeOK', Unconnected',
         UNCHANGED <<data, queued, out, excused, writes, role, parent, enabled, hooked, initial, channel,
                     replica, tasks, direct, packets>>,
         routing' \subseteq routing, joining' \subseteq joining, Served' \subseteq Served
  PROVE  Inv'
<1>1. Modes' /\ TasksInOrder'
  BY DEF Inv, Modes, TasksInOrder
<1>2. UNCHANGED <<data, queued, out, excused, writes, channel, replica, role, direct>>
  OBVIOUS
<1>3. \A p \in Peer, k \in Key : \A v : WillHold(p, k, v)' <=> WillHold(p, k, v)
  BY DEF WillHold
<1>4. \A k \in Key : Pending(k)' <=> Pending(k)
  BY DEF Pending
<1>5. PendingIsCurrent' /\ DeletionsReach'
  BY <1>3, <1>4 DEF Inv, PendingIsCurrent, DeletionsReach
<1>6. TargetsReach'
  <2> SUFFICES ASSUME NEW p \in Served', NEW k \in Key, <<p, k>> \notin excused'
               PROVE  (p \in initial \/ Pending(k) \/ WillHold(p, k, data[k].val))'
    BY DEF TargetsReach
  <2>1. p \in Served /\ p \in Peer
    BY DEF Served, TypeOK
  <2>2. p \in initial \/ Pending(k) \/ WillHold(p, k, data[k].val)
    BY <2>1 DEF Inv, TargetsReach
  <2>3. data'[k].val = data[k].val
    OBVIOUS
  <2> QED
    BY <1>3, <1>4, <2>1, <2>2, <2>3
<1>7. \A p \in Peer : InOrder(p)' <=> InOrder(p)
  BY DEF InOrder
<1>8. SentInOrder'
  BY <1>7 DEF Inv, SentInOrder
<1> QED
  BY <1>1, <1>5, <1>6, <1>8 DEF Inv

\* The bag changes hands.
LEMMA SetOwningPeerInv ==
  ASSUME Inv, NEW o \in Peer \cup {Server}, SetOwningPeer(o)
  PROVE  Inv'
<1>1. /\ UNCHANGED <<data, queued, out, excused, writes, role, parent, enabled, hooked, known, initial,
                     routing, connected, fresh, watched, joining, stale, channel, replica, tasks,
                     direct, packets>>
      /\ moves < MaxMoves /\ moves' = moves + 1 /\ owner' = o
  BY DEF SetOwningPeer, Move, bagVars, targetVars, peerVars, clientVars
<1>2. TypeOK'
  BY <1>1, SizeAssumption DEF Inv, TypeOK
<1>3. Unconnected'
  BY <1>1 DEF Inv, Unconnected
<1>4. Served' = Served
  BY <1>1 DEF Served, Targets
<1> QED
  BY <1>1, <1>2, <1>3, <1>4, ClientInv

\* A slot gets a client.  If the slot is in m_targets, the client is sent
\* nothing: it is stale and not served.
LEMMA ConnectInv ==
  ASSUME Inv, NEW p \in Peer, Connect(p)
  PROVE  Inv'
<1>1. /\ UNCHANGED <<data, queued, out, excused, writes, role, parent, enabled, hooked, owner, known,
                     initial, routing, channel, replica, watched, joining, tasks, direct, packets>>
      /\ moves < MaxMoves /\ moves' = moves + 1
      /\ connected' = connected \cup {p} /\ fresh' = fresh \cup {p}
      /\ stale' = IF p \in known THEN stale \cup {p} ELSE stale
  BY DEF Connect, Move, bagVars, modeVars, targetVars
<1>2. TypeOK'
  BY <1>1, SizeAssumption DEF Inv, TypeOK
<1>3. Unconnected'
  BY <1>1 DEF Inv, Unconnected
<1>4. Served' \subseteq Served
  BY <1>1 DEF Served, Targets
<1> QED
  BY <1>1, <1>2, <1>3, <1>4, ClientInv

\* A peer is registered; its first values are outstanding, if it is new.
LEMMA RegisterTargetInv ==
  ASSUME Inv, NEW p \in Peer, RegisterTarget(p)
  PROVE  Inv'
<1>1. /\ UNCHANGED <<data, queued, out, excused, writes, role, parent, enabled, hooked, owner, routing,
                     connected, watched, stale, channel, replica, tasks, direct, packets, moves>>
      /\ role = "Server"
      /\ out["main"] = <<>> /\ joining = {}
      /\ known' = known \cup {p} /\ initial' = {p} \ known /\ joining' = {p} /\ fresh' = fresh \ {p}
  BY DEF RegisterTarget, Idle, bagVars, modeVars
<1>2. TypeOK' /\ initial = {}
  BY <1>1 DEF Inv, TypeOK
<1>3. Modes' /\ Unconnected' /\ TasksInOrder'
  BY <1>1 DEF Inv, Modes, Unconnected, TasksInOrder
<1>4. \A q \in Served' : q \in initial' \/ (q \in Served /\ q \notin initial)
  BY <1>1, <1>2 DEF Served, Targets
<1> QED
  BY <1>1, <1>2, <1>3, <1>4, SmallInv

\* The client's OnDrop gets its handler.
LEMMA ConnectOnDropInv ==
  ASSUME Inv, ConnectOnDrop
  PROVE  Inv'
<1>1. /\ UNCHANGED <<data, queued, out, excused, writes, role, parent, enabled, hooked, owner, known,
                     initial, routing, connected, channel, replica, fresh, stale, tasks, direct,
                     packets, moves>>
      /\ watched' = watched \cup joining /\ joining' = {} /\ initial = {}
  BY DEF ConnectOnDrop, bagVars, modeVars, targetVars
<1>2. TypeOK'
  BY <1>1 DEF Inv, TypeOK
<1>3. Unconnected'
  BY <1>1 DEF Inv, Unconnected
<1>4. Served' = Served
  BY <1>1 DEF Served, Targets
<1> QED
  BY <1>1, <1>2, <1>3, <1>4, ClientInv

\* OnDrop takes the slot out of m_targets, in the midst of whatever the other
\* threads do.
LEMMA UnregisterTargetInv ==
  ASSUME Inv, NEW p \in Peer, UnregisterTarget(p)
  PROVE  Inv'
<1>1. /\ UNCHANGED <<data, queued, out, excused, writes, role, parent, enabled, hooked, owner, initial,
                     connected, channel, replica, fresh, watched, joining, tasks, direct, packets, moves>>
      /\ known' = known \ {p} /\ routing' = routing \ {p} /\ stale' = stale \ {p}
  BY DEF UnregisterTarget, bagVars, modeVars
<1>2. TypeOK'
  BY <1>1 DEF Inv, TypeOK
<1>3. Unconnected'
  BY <1>1 DEF Inv, Unconnected
<1>4. Served' \subseteq Served
  BY <1>1 DEF Served, Targets
<1> QED
  BY <1>1, <1>2, <1>3, <1>4, ClientInv

\* The sync tick takes a target away.
LEMMA RemoveRoutingTargetInv ==
  ASSUME Inv, NEW p \in Peer, RemoveRoutingTarget(p)
  PROVE  Inv'
<1>1. /\ UNCHANGED <<data, queued, out, excused, writes, role, parent, enabled, hooked, owner, known,
                     initial,
                     connected, fresh, watched, joining, stale,
                     channel, replica, tasks, direct, packets>>
      /\ moves < MaxMoves /\ moves' = moves + 1 /\ ~parent
      /\ routing' = routing \ {p}
  BY DEF RemoveRoutingTarget, Move, bagVars, modeVars, peerVars, clientVars
<1>2. TypeOK'
  BY <1>1, SizeAssumption DEF Inv, TypeOK
<1>3. Unconnected'
  BY <1>1 DEF Inv, Unconnected
<1>4. Served' \subseteq Served
  BY <1>1 DEF Served, Targets
<1> QED
  BY <1>1, <1>2, <1>3, <1>4, ClientInv

\* SendAll to the peers of S: they hold or will be told every value.
LEMMA SendAllInv ==
  ASSUME Inv, NEW S \in SUBSET Peer, SendAll(S), role = "Server", routing' \subseteq Peer,
         UNCHANGED <<data, queued, out, excused, writes, role, parent, enabled, hooked, owner, known,
                     connected, fresh, watched, joining, stale, replica, tasks, direct, packets>>,
         initial' \subseteq initial, moves' \in 0 .. MaxMoves, parent => routing' = {},
         \A p \in Served' :
           p \in S \/ p \in initial' \/ (p \in Served /\ p \notin initial)
  PROVE  Inv'
<1>0. TypeOK
  BY DEF Inv
<1>1. PICK msgs \in Seq(Updates) :
        /\ channel' = [p \in Peer |-> IF p \in S \cap connected THEN channel[p] \o msgs ELSE channel[p]]
        /\ \A i \in DOMAIN msgs : /\ msgs[i].val = data[msgs[i].key].val
                                  /\ msgs[i].ver = data[msgs[i].key].ver
                                  /\ msgs[i].val # Nil
        /\ \A k \in Key : data[k].val # Nil => \E i \in DOMAIN msgs : msgs[i].key = k
        /\ \A i, j \in DOMAIN msgs : msgs[i].key = msgs[j].key => i = j
  BY <1>0, SendAllFacts
<1>2. channel \in [Peer -> Seq(Updates)]
  BY <1>0 DEF TypeOK
<1>3. channel' \in [Peer -> Seq(Updates)]
  BY <1>1, <1>2, Longer
<1>4. TypeOK'
  BY <1>0, <1>3 DEF TypeOK
<1>5. ASSUME NEW p \in Peer PROVE channel'[p] = channel[p] \/ (p \in S \cap connected /\ channel'[p] = channel[p] \o msgs)
  BY <1>1
<1>6. Modes'
  BY DEF Inv, Modes
<1>7. Unconnected'
  BY <1>1 DEF Inv, Unconnected
<1>8. TasksInOrder'
  BY DEF Inv, TasksInOrder
<1>9. \A k \in Key : Pending(k)' <=> Pending(k)
  BY DEF Pending
<1>10. PendingIsCurrent'
  BY DEF Inv, PendingIsCurrent
<1>11. ASSUME NEW p \in Peer, NEW k \in Key, WillHold(p, k, data[k].val)
       PROVE  WillHold(p, k, data[k].val)'
  <2>1. CASE channel'[p] = channel[p]
    BY <1>11, <2>1 DEF WillHold
  <2>2. CASE channel'[p] = channel[p] \o msgs
    <3>1. CASE \E i \in DOMAIN msgs : msgs[i].key = k
      <4>1. PICK i \in DOMAIN msgs : msgs[i].key = k
        BY <3>1
      <4>2. msgs[i].val = data[k].val /\ \A j \in DOMAIN msgs : msgs[j].key = k => j = i
        BY <1>1, <4>1
      <4>3. \A v : v = data[k].val => WillHold(p, k, v)'
        BY <1>0, <1>4, <2>2, <4>1, <4>2, WillHoldNew
      <4> QED
        BY <4>3 DEF WillHold
    <3>2. CASE \A i \in DOMAIN msgs : msgs[i].key # k
      <4>1. \A v : v = data[k].val => WillHold(p, k, v)'
        BY <1>0, <1>4, <1>11, <2>2, <3>2, WillHoldKept
      <4> QED
        BY <4>1 DEF WillHold
    <3> QED
      BY <3>1, <3>2
  <2> QED
    BY <1>5, <2>1, <2>2
<1>12. ASSUME NEW p \in S \cap connected, NEW k \in Key, data[k].val # Nil
       PROVE  WillHold(p, k, data[k].val)'
  <2>1. PICK i \in DOMAIN msgs : msgs[i].key = k
    BY <1>1, <1>12
  <2>2. msgs[i].val = data[k].val /\ \A j \in DOMAIN msgs : msgs[j].key = k => j = i
    BY <1>1, <2>1
  <2>3. channel'[p] = channel[p] \o msgs /\ p \in Peer
    BY <1>1
  <2>4. \A v : v = data[k].val => WillHold(p, k, v)'
    BY <1>0, <1>4, <2>1, <2>2, <2>3, WillHoldNew
  <2> QED
    BY <2>4 DEF WillHold
<1>13. DeletionsReach'
  <2> SUFFICES ASSUME NEW p \in Peer, NEW k \in Key, <<p, k>> \notin excused', data'[k].val = Nil
               PROVE  (WillHold(p, k, Nil) \/ Pending(k))'
    BY DEF DeletionsReach
  <2>1. WillHold(p, k, Nil) \/ Pending(k)
    BY DEF Inv, DeletionsReach
  <2>2. data[k].val = Nil
    OBVIOUS
  <2>3. CASE WillHold(p, k, Nil)
    <3>1. WillHold(p, k, data[k].val)
      BY <2>2, <2>3
    <3>2. WillHold(p, k, data[k].val)'
      BY <1>11, <3>1
    <3> QED
      BY <3>2 DEF WillHold
  <2> QED
    BY <1>9, <2>1, <2>3
<1>14. TargetsReach'
  <2> SUFFICES ASSUME NEW p \in Served', NEW k \in Key, <<p, k>> \notin excused'
               PROVE  (p \in initial \/ Pending(k) \/ WillHold(p, k, data[k].val))'
    BY DEF TargetsReach
  <2>1. p \in Peer /\ p \in connected
    BY <1>0 DEF Served, TypeOK
  <2>2. CASE p \in Served /\ p \notin initial
    <3>1. Pending(k) \/ WillHold(p, k, data[k].val)
      BY <2>2 DEF Inv, TargetsReach
    <3> QED
      BY <1>9, <1>11, <2>1, <3>1
  <2>3. CASE p \in S /\ data[k].val # Nil
    BY <1>12, <2>1, <2>3
  <2>4. CASE p \in S /\ data[k].val = Nil
    <3>1. WillHold(p, k, Nil) \/ Pending(k)
      BY <2>1, <2>4 DEF Inv, DeletionsReach
    <3>2. WillHold(p, k, data[k].val) \/ Pending(k)
      BY <2>4, <3>1
    <3> QED
      BY <1>9, <1>11, <2>1, <3>2
  <2> QED
    BY <2>2, <2>3, <2>4
<1>15. SentInOrder'
  <2> SUFFICES ASSUME direct = "never" PROVE SentInOrder'
    BY DEF SentInOrder
  <2>1. \A i \in DOMAIN out["main"] : out["main"][i].ver = data[out["main"][i].key].ver
    BY DEF Inv, SentInOrder
  <2>2. ASSUME NEW p \in Peer PROVE InOrder(p)'
    <3>1. InOrder(p)
      BY DEF Inv, SentInOrder
    <3>2. CASE channel'[p] = channel[p]
      BY <3>1, <3>2 DEF InOrder
    <3>3. CASE channel'[p] = channel[p] \o msgs
      <4> DEFINE c == channel[p]
                 d == channel'[p]
                 n == Len(c)
      <4>1. c \in Seq(Updates) /\ d \in Seq(Updates) /\ \A i \in DOMAIN d : d[i] \in Updates
        BY <1>2, <1>3
      <4>2. /\ n \in Nat /\ DOMAIN c = 1 .. n /\ DOMAIN msgs = 1 .. Len(msgs) /\ Len(msgs) \in Nat
            /\ \A j \in DOMAIN c : j \in DOMAIN d /\ d[j] = c[j]
            /\ \A j \in DOMAIN msgs : n + j \in DOMAIN d /\ d[n + j] = msgs[j]
            /\ \A j \in DOMAIN d : j \notin DOMAIN c => j - n \in DOMAIN msgs
            /\ DOMAIN d = 1 .. n + Len(msgs)
        BY <3>3, <4>1, Longer
      <4>3. ASSUME NEW i \in DOMAIN d, i \notin DOMAIN c
            PROVE  i - n \in DOMAIN msgs /\ d[i] = msgs[i - n] /\ d[i].ver = data[d[i].key].ver
        <5> HIDE DEF n, d, c
        <5>1. i - n \in DOMAIN msgs /\ i = n + (i - n)
          BY <4>2, <4>3
        <5>2. d[i] = msgs[i - n]
          BY <4>2, <5>1
        <5> QED
          BY <1>1, <5>1, <5>2
      <4>4. \A k \in Key : data[k].ver \in Nat /\ replica[p][k].ver \in Nat /\ replica[p][k].ver <= data[k].ver
        BY <1>0, <3>1, SizeAssumption DEF TypeOK, Updates, Versions, InOrder
      <4>5. \A i \in DOMAIN d : d[i].key \in Key /\ d[i].ver \in Nat
        BY <4>1, SizeAssumption DEF Updates, Versions
      <4>6. \A i \in DOMAIN d : d[i].ver <= data[d[i].key].ver /\ replica[p][d[i].key].ver <= d[i].ver
        <5>1. \A i \in DOMAIN c : c[i].ver <= data[c[i].key].ver /\ replica[p][c[i].key].ver <= c[i].ver
          BY <3>1 DEF InOrder
        <5> HIDE DEF n, d, c
        <5> QED
          BY <4>2, <4>3, <4>4, <4>5, <5>1
      <4>7. \A i, j \in DOMAIN d : i < j /\ d[i].key = d[j].key => d[i].ver <= d[j].ver
        <5>1. \A i, j \in DOMAIN c : i < j /\ c[i].key = c[j].key => c[i].ver <= c[j].ver
          BY <3>1 DEF InOrder
        <5> HIDE DEF n, d, c
        <5> SUFFICES ASSUME NEW i \in DOMAIN d, NEW j \in DOMAIN d, i < j, d[i].key = d[j].key
                     PROVE  d[i].ver <= d[j].ver
          OBVIOUS
        <5>2. CASE j \in DOMAIN c
          BY <4>2, <5>1, <5>2
        <5>3. CASE j \notin DOMAIN c
          BY <4>3, <4>6, <5>3
        <5> QED
          BY <5>2, <5>3
      <4>8. \A i \in DOMAIN out["main"] : \A j \in DOMAIN d :
              d[j].key = out["main"][i].key => d[j].ver <= out["main"][i].ver
        BY <2>1, <4>6
      <4>9. d = channel'[p]
        OBVIOUS
      <4> HIDE DEF n, d, c
      <4> QED
        BY <3>1, <4>6, <4>7, <4>8, <4>9 DEF InOrder
    <3> QED
      BY <1>5, <3>2, <3>3
  <2> QED
    BY <2>2 DEF Inv, SentInOrder
<1> QED
  BY <1>4, <1>6, <1>7, <1>8, <1>10, <1>13, <1>14, <1>15 DEF Inv

\* The first values of a registered peer are sent.
LEMMA SendAllInitialInv ==
  ASSUME Inv, NEW p \in Peer, SendAllInitial(p)
  PROVE  Inv'
<1> DEFINE S == IF routing # {} /\ p \notin routing THEN {} ELSE {p}
<1>1. /\ UNCHANGED <<data, queued, out, excused, writes, role, parent, enabled, hooked, owner, known,
                     connected, fresh, watched, joining, stale, replica, tasks, direct, packets>>
      /\ UNCHANGED <<routing, moves>>
      /\ p \in initial /\ initial' = initial \ {p} /\ SendAll(S) /\ S \in SUBSET Peer
  BY DEF SendAllInitial, bagVars, modeVars, clientVars
<1>2. role = "Server"
  BY <1>1 DEF Inv, TypeOK, Modes
<1>3. /\ routing' \subseteq Peer /\ moves' \in 0 .. MaxMoves /\ (parent => routing' = {})
      /\ initial' \subseteq initial
  BY <1>1 DEF Inv, TypeOK, Modes
<1>4. ASSUME NEW q \in Served'
      PROVE  q \in S \/ q \in initial' \/ (q \in Served /\ q \notin initial)
  <2>1. q \in Served
    BY <1>1 DEF Served, Targets
  <2>2. CASE q = p
    BY <2>1, <2>2 DEF Served, Targets, Inv, Modes
  <2>3. CASE q # p
    BY <1>1, <2>1, <2>3
  <2> QED
    BY <2>2, <2>3
<1> HIDE DEF S
<1> QED
  BY <1>1, <1>2, <1>3, <1>4, SendAllInv

\* The bag is routed to more peers.
LEMMA RoutingInv ==
  ASSUME Inv, (\E p \in Peer : AddRoutingTarget(p)) \/ (\E S \in SUBSET Peer : SetRoutingTargets(S))
  PROVE  Inv'
<1>1. /\ UNCHANGED <<data, queued, out, excused, writes, role, parent, enabled, hooked, owner, known,
                     connected, fresh, watched, joining, stale, replica, tasks, direct, packets>>
      /\ UNCHANGED initial
      /\ role = "Server" /\ moves < MaxMoves /\ moves' = moves + 1 /\ ~parent
  BY DEF AddRoutingTarget, SetRoutingTargets, Move, bagVars, modeVars, clientVars
<1>2. moves' \in 0 .. MaxMoves
  BY <1>1, SizeAssumption DEF Inv, TypeOK
<1>3. PICK S \in SUBSET Peer : /\ SendAll(S) /\ routing' \subseteq Peer
                               /\ \A q \in routing' : q \in S \/ q \in routing
  <2>1. CASE \E p \in Peer : AddRoutingTarget(p)
    <3>1. PICK p \in Peer : AddRoutingTarget(p)
      BY <2>1
    <3>2. {p} \in SUBSET Peer /\ SendAll({p}) /\ routing' = routing \cup {p}
      BY <3>1 DEF AddRoutingTarget
    <3> QED
      BY <3>2 DEF Inv, TypeOK
  <2>2. CASE \E T \in SUBSET Peer : SetRoutingTargets(T)
    <3>1. PICK T \in SUBSET Peer : SetRoutingTargets(T)
      BY <2>2
    <3>2. T \ routing \in SUBSET Peer /\ SendAll(T \ routing) /\ routing' = T
      BY <3>1 DEF SetRoutingTargets
    <3> QED
      BY <3>2
  <2> QED
    BY <2>1, <2>2
<1>4. \A q \in Served' :
        q \in S \/ q \in initial' \/ (q \in Served /\ q \notin initial)
  BY <1>1, <1>3 DEF Served, Targets
<1> QED
  BY <1>1, <1>2, <1>3, <1>4, SendAllInv

\* The slot of a client is freed; it knows nothing any more.
LEMMA FreeSlotInv ==
  ASSUME Inv, NEW p \in Peer, FreeSlot(p)
  PROVE  Inv'
<1> DEFINE blank == [k \in Key |-> Update(k, Nil, 0)]
<1>1. /\ UNCHANGED <<data, queued, out, excused, writes, role, parent, enabled, hooked, owner, known,
                     initial, routing, fresh, watched, joining, stale, tasks, direct, packets>>
      /\ moves < MaxMoves /\ moves' = moves + 1 /\ role = "Server"
      /\ connected' = connected \ {p}
      /\ channel' = [channel EXCEPT ![p] = <<>>]
      /\ replica' = [replica EXCEPT ![p] = blank]
  BY DEF FreeSlot, Move, bagVars, modeVars, targetVars, clientVars
<1>2. /\ channel \in [Peer -> Seq(Updates)] /\ replica \in [Peer -> [Key -> Updates]]
      /\ blank \in [Key -> Updates] /\ TypeOK
  <2>1. 0 \in Versions /\ \A k \in Key : Update(k, Nil, 0) \in Updates
    BY SizeAssumption DEF Versions, Update, Updates
  <2> QED
    BY <2>1 DEF Inv, TypeOK
<1>3. /\ channel'[p] = <<>> /\ DOMAIN channel'[p] = {}
      /\ \A k \in Key : replica'[p][k] = Update(k, Nil, 0) /\ replica'[p][k].key = k
                        /\ replica'[p][k].val = Nil /\ replica'[p][k].ver = 0
      /\ \A q \in Peer \ {p} : channel'[q] = channel[q] /\ replica'[q] = replica[q]
  BY <1>1, <1>2 DEF Update
<1>4. TypeOK'
  <2>1. channel' \in [Peer -> Seq(Updates)] /\ replica' \in [Peer -> [Key -> Updates]]
    BY <1>1, <1>2
  <2> HIDE DEF blank
  <2> QED
    BY <1>1, <1>2, <2>1, SizeAssumption DEF TypeOK
<1> HIDE DEF blank
<1>5. Modes'
  BY <1>1, <1>3 DEF Inv, Modes
<1>6. Unconnected'
  BY <1>1, <1>3 DEF Inv, Unconnected
<1>7. TasksInOrder' /\ PendingIsCurrent'
  BY <1>1 DEF Inv, TasksInOrder, PendingIsCurrent
<1>8. \A k \in Key : Pending(k)' <=> Pending(k)
  BY <1>1 DEF Pending
<1>9. \A k \in Key : WillHold(p, k, Nil)'
  BY <1>3 DEF WillHold
<1>10. \A q \in Peer \ {p}, k \in Key : \A v : WillHold(q, k, v) => WillHold(q, k, v)'
  BY <1>3 DEF WillHold
<1>11. DeletionsReach'
  <2> SUFFICES ASSUME NEW q \in Peer, NEW k \in Key, <<q, k>> \notin excused', data'[k].val = Nil
               PROVE  (WillHold(q, k, Nil) \/ Pending(k))'
    BY DEF DeletionsReach
  <2>1. WillHold(q, k, Nil) \/ Pending(k)
    BY <1>1 DEF Inv, DeletionsReach
  <2> QED
    BY <1>8, <1>9, <1>10, <2>1
<1>12. TargetsReach'
  <2> SUFFICES ASSUME NEW q \in Served', NEW k \in Key, <<q, k>> \notin excused'
               PROVE  (q \in initial \/ Pending(k) \/ WillHold(q, k, data[k].val))'
    BY DEF TargetsReach
  <2>1. q \in Served /\ q \in Peer /\ q # p
    BY <1>1, <1>4 DEF Served, Targets, TypeOK
  <2>2. q \in initial \/ Pending(k) \/ WillHold(q, k, data[k].val)
    BY <1>1, <2>1 DEF Inv, TargetsReach
  <2>3. data'[k].val = data[k].val
    BY <1>1
  <2> QED
    BY <1>1, <1>8, <1>10, <2>1, <2>2, <2>3
<1>13. SentInOrder'
  <2>1. ASSUME direct = "never", NEW q \in Peer PROVE InOrder(q)'
    <3>1. InOrder(q) /\ \A k \in Key : data[k].ver \in Nat
      BY <1>2, <2>1, SizeAssumption DEF Inv, SentInOrder, TypeOK, Versions
    <3>2. CASE q = p
      <4>1. \A i \in DOMAIN out["main"] : out["main"][i].ver \in Nat /\ out["main"][i].key \in Key
        <5>1. out["main"] \in Seq(Updates)
          BY <1>2 DEF TypeOK, Thread
        <5>2. \A u \in Updates : u.ver \in Nat /\ u.key \in Key
          BY SizeAssumption DEF Updates, Versions
        <5> QED
          BY <5>1, <5>2
      <4> QED
        BY <1>1, <1>3, <3>1, <3>2, <4>1 DEF InOrder
    <3>3. CASE q # p
      BY <1>1, <1>3, <3>1, <3>3 DEF InOrder
    <3> QED
      BY <3>2, <3>3
  <2> QED
    BY <1>1, <2>1 DEF Inv, SentInOrder
<1> QED
  BY <1>4, <1>5, <1>6, <1>7, <1>11, <1>12, <1>13 DEF Inv

-----------------------------------------------------------------------------
(* Sending and delivering *)

\* One update leaves a thread, to all targets.
LEMMA SendInv ==
  ASSUME Inv, NEW t \in Thread, Send(t)
  PROVE  Inv'
<1> DEFINE msg == Head(out[t])
<1>1. /\ UNCHANGED <<data, queued, writes, role, parent, hooked, enabled, owner, known, initial, routing,
                     connected, fresh, watched, joining, stale, replica, tasks, direct, packets, moves>>
      /\ out[t] # <<>> /\ out' = [out EXCEPT ![t] = Tail(@)]
      /\ channel' = [p \in Peer |-> IF p \in Targets \cap connected THEN channel[p] \o <<msg>>
                                                                   ELSE channel[p]]
      /\ excused' = excused \cup (IF msg.val = Nil THEN (Peer \ Targets) \X {msg.key} ELSE {})
  BY DEF Send, SendKeyValue, modeVars, targetVars, clientVars
<1>2. TypeOK /\ out \in [Thread -> Seq(Updates)] /\ channel \in [Peer -> Seq(Updates)]
  BY DEF Inv, TypeOK
<1>3. /\ msg \in Updates /\ msg.key \in Key /\ <<msg>> \in Seq(Updates) /\ msg = out[t][1]
      /\ 1 \in DOMAIN out[t] /\ DOMAIN <<msg>> = {1} /\ <<msg>>[1] = msg
      /\ Tail(out[t]) \in Seq(Updates)
      /\ \A i \in DOMAIN out'[t] : i \in Nat /\ i + 1 \in DOMAIN out[t] /\ out'[t][i] = out[t][i + 1]
      /\ \A i \in DOMAIN out[t] : i = 1 \/ (i - 1 \in DOMAIN out'[t] /\ out[t][i] = out'[t][i - 1])
      /\ \A u \in Thread \ {t} : out'[u] = out[u]
  <2>1. out[t] \in Seq(Updates) /\ out[t] # <<>>
    BY <1>1, <1>2
  <2>2. /\ msg \in Updates /\ msg = out[t][1] /\ 1 \in DOMAIN out[t] /\ Tail(out[t]) \in Seq(Updates)
        /\ \A i \in DOMAIN Tail(out[t]) :
             i \in Nat /\ i + 1 \in DOMAIN out[t] /\ Tail(out[t])[i] = out[t][i + 1]
        /\ \A i \in DOMAIN out[t] :
             i = 1 \/ (i - 1 \in DOMAIN Tail(out[t]) /\ out[t][i] = Tail(out[t])[i - 1])
    BY <2>1
  <2>3. msg.key \in Key
    BY <2>2 DEF Updates
  <2>4. out'[t] = Tail(out[t]) /\ \A u \in Thread \ {t} : out'[u] = out[u]
    BY <1>1, <1>2
  <2> HIDE DEF msg
  <2>5. <<msg>> \in Seq(Updates) /\ DOMAIN <<msg>> = {1} /\ <<msg>>[1] = msg
    BY <2>2
  <2> QED
    BY <2>2, <2>3, <2>4, <2>5
<1> HIDE DEF msg
<1>4. TypeOK'
  <2>1. channel' \in [Peer -> Seq(Updates)]
    BY <1>1, <1>2, <1>3, Longer
  <2>2. out' \in [Thread -> Seq(Updates)]
    BY <1>1, <1>2, <1>3
  <2>3. excused' \subseteq Peer \X Key
    BY <1>1, <1>2, <1>3 DEF TypeOK
  <2> QED
    BY <1>1, <1>2, <2>1, <2>2, <2>3 DEF TypeOK
<1>5. enabled
  BY <1>1 DEF Inv, Modes
<1>6. Modes'
  <2>1. joining # {} => out'["main"] = <<>>
    <3> SUFFICES ASSUME joining # {} PROVE out'["main"] = <<>>
      OBVIOUS
    <3>1. out["main"] = <<>> /\ t # "main" /\ "main" \in Thread
      BY <1>1 DEF Inv, Modes, Thread
    <3> QED
      BY <1>3, <3>1
  <2> QED
    BY <1>1, <1>5, <2>1 DEF Inv, Modes
<1>7. Unconnected'
  BY <1>1 DEF Inv, Unconnected
<1>8. TasksInOrder'
  BY <1>1 DEF Inv, TasksInOrder
<1>9. PendingIsCurrent'
  <2> SUFFICES ASSUME NEW p \in Peer, NEW k \in Key, <<p, k>> \notin excused'
               PROVE  /\ \A u \in Thread : \A i \in DOMAIN out'[u] :
                           out'[u][i].key = k => out'[u][i].val = data'[k].val
                      /\ queued'[k] # None => queued'[k].val = data'[k].val
    BY DEF PendingIsCurrent
  <2>1. /\ \A u \in Thread : \A i \in DOMAIN out[u] : out[u][i].key = k => out[u][i].val = data[k].val
        /\ queued[k] # None => queued[k].val = data[k].val
    BY <1>1 DEF Inv, PendingIsCurrent
  <2> QED
    BY <1>1, <1>3, <2>1
<1>10. \A k \in Key : Pending(k) => Pending(k)' \/ k = msg.key
  <2> SUFFICES ASSUME NEW k \in Key, Pending(k), k # msg.key PROVE Pending(k)'
    OBVIOUS
  <2>1. CASE queued[k] # None
    BY <1>1, <2>1 DEF Pending
  <2>2. CASE \E u \in Thread : \E i \in DOMAIN out[u] : out[u][i].key = k
    <3>1. PICK u \in Thread : \E i \in DOMAIN out[u] : out[u][i].key = k
      BY <2>2
    <3>2. PICK i \in DOMAIN out[u] : out[u][i].key = k
      BY <3>1
    <3>3. \E j \in DOMAIN out'[u] : out'[u][j].key = k
      <4>1. CASE u = t
        BY <1>3, <3>2, <4>1
      <4>2. CASE u # t
        BY <1>3, <3>2, <4>2
      <4> QED
        BY <4>1, <4>2
    <3> QED
      BY <3>3 DEF Pending
  <2> QED
    BY <2>1, <2>2 DEF Pending
<1>11. ASSUME NEW p \in Peer, NEW k \in Key, NEW v, WillHold(p, k, v), k # msg.key
       PROVE  WillHold(p, k, v)'
  <2>1. CASE channel'[p] = channel[p]
    <3>1. replica' = replica
      BY <1>1
    <3> QED
      BY <1>11, <2>1, <3>1 DEF WillHold
  <2>2. CASE channel'[p] = channel[p] \o <<msg>>
    <3>1. replica'[p] = replica[p] /\ \A j \in DOMAIN <<msg>> : <<msg>>[j].key # k
      BY <1>1, <1>3, <1>11
    <3> QED
      BY <1>2, <1>3, <1>4, <1>11, <2>2, <3>1, WillHoldKept
  <2> QED
    BY <1>1, <2>1, <2>2
<1>12. ASSUME NEW p \in Targets \cap connected, NEW k \in Key, NEW v, k = msg.key, v = msg.val
       PROVE  WillHold(p, k, v)'
  <2>1. p \in Peer /\ channel'[p] = channel[p] \o <<msg>>
    BY <1>1, <1>2 DEF TypeOK
  <2>2. 1 \in DOMAIN <<msg>> /\ \A j \in DOMAIN <<msg>> : <<msg>>[j].key = k => j = 1
    BY <1>3
  <2>3. <<msg>>[1].key = k /\ <<msg>>[1].val = v
    BY <1>3, <1>12
  <2> QED
    BY <1>2, <1>3, <1>4, <2>1, <2>2, <2>3, WillHoldNew
<1>13. \A p \in Peer : <<p, msg.key>> \notin excused => msg.val = data[msg.key].val
  BY <1>3 DEF Inv, PendingIsCurrent
<1>14. DeletionsReach'
  <2> SUFFICES ASSUME NEW p \in Peer, NEW k \in Key, <<p, k>> \notin excused', data'[k].val = Nil
               PROVE  (WillHold(p, k, Nil) \/ Pending(k))'
    BY DEF DeletionsReach
  <2>1. <<p, k>> \notin excused /\ data[k].val = Nil
    BY <1>1
  <2>2. WillHold(p, k, Nil) \/ Pending(k)
    BY <2>1 DEF Inv, DeletionsReach
  <2>3. CASE k # msg.key
    BY <1>10, <1>11, <2>2, <2>3
  <2>4. CASE k = msg.key
    <3>1. msg.val = Nil
      BY <1>13, <2>1, <2>4
    <3>2. p \in Targets
      BY <1>1, <2>4, <3>1
    <3>3. CASE p \in connected
      BY <1>12, <2>4, <3>1, <3>2, <3>3
    <3>4. CASE p \notin connected
      <4>1. channel[p] = <<>> /\ replica[p][k] = Update(k, Nil, 0)
        BY <3>4 DEF Inv, Unconnected
      <4>2. channel'[p] = channel[p] /\ replica' = replica
        BY <1>1, <3>4
      <4>3. DOMAIN channel'[p] = {} /\ replica'[p][k].val = Nil
        BY <4>1, <4>2 DEF Update
      <4> QED
        BY <4>3 DEF WillHold
    <3> QED
      BY <3>3, <3>4
  <2> QED
    BY <2>3, <2>4
<1>15. TargetsReach'
  <2> SUFFICES ASSUME NEW p \in Served', NEW k \in Key, <<p, k>> \notin excused'
               PROVE  (p \in initial \/ Pending(k) \/ WillHold(p, k, data[k].val))'
    BY DEF TargetsReach
  <2>1. p \in Served /\ p \in Peer /\ p \in Targets /\ p \in connected /\ <<p, k>> \notin excused
    BY <1>1, <1>2 DEF Served, Targets, TypeOK
  <2>2. p \in initial \/ Pending(k) \/ WillHold(p, k, data[k].val)
    BY <2>1 DEF Inv, TargetsReach
  <2>3. data'[k].val = data[k].val /\ initial' = initial
    BY <1>1
  <2>4. CASE k # msg.key
    BY <1>10, <1>11, <2>1, <2>2, <2>3, <2>4
  <2>5. CASE k = msg.key
    <3>1. msg.val = data[k].val
      BY <1>13, <2>1, <2>5
    <3>2. \A v : v = data[k].val => WillHold(p, k, v)'
      BY <1>12, <2>1, <2>5, <3>1
    <3> QED
      BY <2>3, <3>2
  <2> QED
    BY <2>4, <2>5
<1>16. SentInOrder'
  <2> SUFFICES ASSUME direct = "never" PROVE SentInOrder'
    BY <1>1 DEF SentInOrder
  <2> DEFINE o == out["main"]
             n == out'["main"]
  <2>1. t = "main" /\ out["sync"] = <<>> /\ "sync" \in Thread \ {t} /\ "main" \in Thread
    BY <1>1 DEF Inv, SentInOrder, Thread
  <2>2. out'["sync"] = <<>>
    BY <1>3, <2>1
  <2>3. /\ \A i \in DOMAIN n : i \in Nat /\ i + 1 \in DOMAIN o /\ n[i] = o[i + 1]
        /\ 1 \in DOMAIN o /\ msg = o[1]
        /\ DOMAIN o = 1 .. Len(o) /\ Len(o) \in Nat /\ \A i \in DOMAIN o : o[i].ver \in Nat /\ o[i].key \in Key
    <3>1. o \in Seq(Updates)
      BY <1>2, <2>1
    <3>2. \A x \in Updates : x.ver \in Nat /\ x.key \in Key
      BY SizeAssumption DEF Updates, Versions
    <3>3. DOMAIN o = 1 .. Len(o) /\ Len(o) \in Nat /\ \A i \in DOMAIN o : o[i] \in Updates
      BY <3>1
    <3>4. o = out[t] /\ n = out'[t]
      BY <2>1
    <3> HIDE DEF o, n
    <3> QED
      BY <1>3, <3>2, <3>3, <3>4
  <2>4. /\ \A i \in DOMAIN o : /\ o[i].ver <= data[o[i].key].ver
                               /\ role = "Server" => o[i].ver = data[o[i].key].ver
        /\ \A i, j \in DOMAIN o : i < j /\ o[i].key = o[j].key => o[i].ver <= o[j].ver
    BY DEF Inv, SentInOrder
  <2>5. /\ \A i \in DOMAIN n : /\ n[i].ver <= data[n[i].key].ver
                               /\ role = "Server" => n[i].ver = data[n[i].key].ver
        /\ \A i, j \in DOMAIN n : i < j /\ n[i].key = n[j].key => n[i].ver <= n[j].ver
    <3> HIDE DEF n, o
    <3>1. \A i, j \in DOMAIN n : i < j => i + 1 < j + 1
      BY <2>3
    <3> QED
      BY <2>3, <2>4, <3>1
  <2>6. \A i \in DOMAIN n : n[i].key = msg.key => msg.ver <= n[i].ver
    <3> HIDE DEF n, o
    <3>1. \A i \in DOMAIN n : 1 < i + 1
      <4>1. \A i \in DOMAIN n : i + 1 \in 1 .. Len(o) /\ i \in Nat
        BY <2>3
      <4>2. 0 \notin DOMAIN n
        BY <1>2, <1>3, <1>4, <2>1 DEF n, TypeOK
      <4> QED
        BY <4>1, <4>2
    <3> QED
      BY <2>3, <2>4, <3>1
  <2>7. ASSUME NEW p \in Peer PROVE InOrder(p)'
    <3> DEFINE c == channel[p]
               d == channel'[p]
    <3>1. InOrder(p)
      BY DEF Inv, SentInOrder
    <3>2. \A i \in DOMAIN n : /\ replica[p][n[i].key].ver <= n[i].ver
                              /\ \A j \in DOMAIN c : c[j].key = n[i].key => c[j].ver <= n[i].ver
      <4>1. \A i \in DOMAIN o : /\ replica[p][o[i].key].ver <= o[i].ver
                                /\ \A j \in DOMAIN c : c[j].key = o[i].key => c[j].ver <= o[i].ver
        BY <3>1 DEF InOrder
      <4> HIDE DEF n, o, c
      <4> QED
        BY <2>3, <4>1
    <3>3. CASE d = c
      <4>1. replica' = replica /\ data' = data /\ n = out'["main"] /\ channel'[p] = channel[p]
        BY <1>1, <3>3
      <4> HIDE DEF n
      <4> QED
        BY <3>1, <3>2, <4>1 DEF InOrder
    <3>4. CASE d = c \o <<msg>>
      <4>1. c \in Seq(Updates)
        BY <1>2
      <4>2. /\ Len(c) \in Nat /\ DOMAIN c = 1 .. Len(c) /\ DOMAIN d = 1 .. Len(c) + 1
            /\ \A i \in DOMAIN c : d[i] = c[i]
            /\ d[Len(c) + 1] = msg
            /\ \A i \in DOMAIN d : i \in DOMAIN c \/ i = Len(c) + 1
        <5>1. <<msg>> \in Seq(Updates) /\ Len(<<msg>>) = 1 /\ <<msg>>[1] = msg
          BY <1>3
        <5> HIDE DEF c, d
        <5> QED
          BY <3>4, <4>1, <5>1
      <4>3. /\ \A i \in DOMAIN c : /\ replica[p][c[i].key].ver <= c[i].ver
                                   /\ c[i].ver <= data[c[i].key].ver
            /\ \A i, j \in DOMAIN c : i < j /\ c[i].key = c[j].key => c[i].ver <= c[j].ver
            /\ \A j \in DOMAIN c : c[j].key = msg.key => c[j].ver <= msg.ver
            /\ replica[p][msg.key].ver <= msg.ver /\ msg.ver <= data[msg.key].ver
        <5>1. /\ \A i \in DOMAIN c : /\ replica[p][c[i].key].ver <= c[i].ver
                                     /\ c[i].ver <= data[c[i].key].ver
              /\ \A i, j \in DOMAIN c : i < j /\ c[i].key = c[j].key => c[i].ver <= c[j].ver
              /\ \A i \in DOMAIN o : /\ replica[p][o[i].key].ver <= o[i].ver
                                     /\ \A j \in DOMAIN c : c[j].key = o[i].key => c[j].ver <= o[i].ver
          BY <3>1 DEF InOrder
        <5> HIDE DEF c, o
        <5>2. /\ replica[p][o[1].key].ver <= o[1].ver
              /\ \A j \in DOMAIN c : c[j].key = o[1].key => c[j].ver <= o[1].ver
          BY <2>3, <5>1
        <5>3. o[1].ver <= data[o[1].key].ver
          BY <2>3, <2>4
        <5> QED
          BY <2>3, <5>1, <5>2, <5>3
      <4>4. replica' = replica /\ data' = data /\ n = out'["main"] /\ d = channel'[p]
        BY <1>1
      <4> HIDE DEF n, o, c, d
      <4>5. \A i \in DOMAIN d : replica[p][d[i].key].ver <= d[i].ver /\ d[i].ver <= data[d[i].key].ver
        BY <4>2, <4>3
      <4>6. \A i, j \in DOMAIN d : i < j /\ d[i].key = d[j].key => d[i].ver <= d[j].ver
        BY <4>2, <4>3
      <4>7. \A i \in DOMAIN n : /\ replica[p][n[i].key].ver <= n[i].ver
                                /\ \A j \in DOMAIN d : d[j].key = n[i].key => d[j].ver <= n[i].ver
        BY <2>6, <3>2, <4>2
      <4> QED
        BY <3>1, <4>4, <4>5, <4>6, <4>7 DEF InOrder
    <3> QED
      BY <1>1, <3>3, <3>4
  <2>8. UNCHANGED <<data, queued, writes, role, direct>>
    BY <1>1
  <2>9. \A k \in Key : /\ queued[k] # None => queued[k].ver <= data[k].ver
                       /\ data[k].ver <= writes
    BY DEF Inv, SentInOrder
  <2>10. n = out'["main"]
    OBVIOUS
  <2> HIDE DEF n
  <2>11. \A p \in Peer : InOrder(p)'
    BY <2>7
  <2>12. /\ \A i \in DOMAIN out'["main"] :
              /\ out'["main"][i].ver <= data'[out'["main"][i].key].ver
              /\ role' = "Server" => out'["main"][i].ver = data'[out'["main"][i].key].ver
         /\ \A i, j \in DOMAIN out'["main"] :
              i < j /\ out'["main"][i].key = out'["main"][j].key => out'["main"][i].ver <= out'["main"][j].ver
    BY <2>5, <2>8, <2>10
  <2>13. \A k \in Key : /\ queued'[k] # None => queued'[k].ver <= data'[k].ver
                        /\ data'[k].ver <= writes'
    BY <2>8, <2>9
  <2> QED
    BY <2>2, <2>11, <2>12, <2>13 DEF SentInOrder
<1> QED
  BY <1>4, <1>6, <1>7, <1>8, <1>9, <1>14, <1>15, <1>16 DEF Inv

\* A peer takes a packet off its channel.
LEMMA DeliverInv ==
  ASSUME Inv, NEW p \in Peer, Deliver(p)
  PROVE  Inv'
<1> DEFINE c == channel[p]
           d == channel'[p]
           msg == Head(c)
<1>1. /\ UNCHANGED <<data, queued, out, excused, writes, role, parent, hooked, enabled, owner, known, initial,
                     routing, connected, fresh, watched, joining, stale, tasks, direct, packets, moves>>
      /\ c # <<>> /\ channel' = [channel EXCEPT ![p] = Tail(@)]
      /\ replica' = [replica EXCEPT ![p][msg.key] = msg]
  BY DEF Deliver, bagVars, modeVars, targetVars, clientVars
<1>2. /\ TypeOK /\ channel \in [Peer -> Seq(Updates)] /\ replica \in [Peer -> [Key -> Updates]]
      /\ c \in Seq(Updates)
  BY DEF Inv, TypeOK
<1>3. /\ msg \in Updates /\ msg = c[1] /\ 1 \in DOMAIN c /\ Tail(c) \in Seq(Updates)
      /\ \A i \in DOMAIN Tail(c) : i \in Nat /\ i > 0 /\ i + 1 \in DOMAIN c /\ Tail(c)[i] = c[i + 1]
      /\ \A i \in DOMAIN c : i \in Nat /\ (i = 1 \/ (i - 1 \in DOMAIN Tail(c) /\ c[i] = Tail(c)[i - 1]))
  <2> HIDE DEF c
  <2> QED
    BY <1>1, <1>2
<1>4. d = Tail(c) /\ \A q \in Peer \ {p} : channel'[q] = channel[q]
  BY <1>1, <1>2
<1>5. msg.key \in Key
  <2> HIDE DEF msg
  <2> QED
    BY <1>3 DEF Updates
<1> HIDE DEF msg
<1>6. /\ replica' \in [Peer -> [Key -> Updates]]
      /\ \A q \in Peer \ {p} : replica'[q] = replica[q]
      /\ replica'[p][msg.key] = msg
      /\ \A k \in Key \ {msg.key} : replica'[p][k] = replica[p][k]
  <2>1. replica[p] \in [Key -> Updates] /\ replica' = [replica EXCEPT ![p] = [replica[p] EXCEPT ![msg.key] = msg]]
    BY <1>1, <1>2
  <2>2. [replica[p] EXCEPT ![msg.key] = msg] \in [Key -> Updates]
    BY <1>3, <2>1
  <2> QED
    BY <1>2, <1>5, <2>1, <2>2
<1>7. TypeOK'
  <2>1. channel' \in [Peer -> Seq(Updates)]
    BY <1>1, <1>2, <1>3
  <2> QED
    BY <1>1, <1>2, <1>6, <2>1 DEF TypeOK
<1>8. enabled /\ p \in connected
  BY <1>1 DEF Inv, Modes, Unconnected
<1>9. Modes'
  <2>1. \A q \in Peer, k \in Key : replica'[q][k].key = k
    BY <1>5, <1>6 DEF Inv, Modes
  <2> QED
    BY <1>1, <1>8, <2>1 DEF Inv, Modes
<1>10. Unconnected'
  BY <1>1, <1>4, <1>6, <1>8 DEF Inv, Unconnected
<1>11. TasksInOrder' /\ PendingIsCurrent'
  BY <1>1 DEF Inv, TasksInOrder, PendingIsCurrent
<1>12. \A k \in Key : Pending(k)' <=> Pending(k)
  BY <1>1 DEF Pending
<1>13. ASSUME NEW q \in Peer, NEW k \in Key, NEW v, WillHold(q, k, v) PROVE WillHold(q, k, v)'
  <2>1. CASE q # p
    <3>1. channel'[q] = channel[q] /\ replica'[q] = replica[q]
      BY <1>4, <1>6, <2>1
    <3> QED
      BY <1>13, <3>1 DEF WillHold
  <2>2. CASE q = p /\ \E i \in DOMAIN c : /\ c[i].key = k /\ c[i].val = v
                                          /\ \A j \in DOMAIN c : j > i => c[j].key # k
    <3>1. PICK i \in DOMAIN c : /\ c[i].key = k /\ c[i].val = v
                                /\ \A j \in DOMAIN c : j > i => c[j].key # k
      BY <2>2
    <3> HIDE DEF c, d
    <3>2. CASE i = 1
      <4>1. \A j \in DOMAIN d : d[j].key # k
        BY <1>3, <1>4, <3>1, <3>2
      <4>2. replica'[p][k].val = v
        BY <1>3, <1>6, <3>1, <3>2
      <4> QED
        BY <2>2, <4>1, <4>2 DEF WillHold, d
    <3>3. CASE i # 1
      <4>1. /\ i - 1 \in DOMAIN d /\ d[i - 1].key = k /\ d[i - 1].val = v
            /\ \A j \in DOMAIN d : j > i - 1 => d[j].key # k
        BY <1>3, <1>4, <3>1, <3>3
      <4> QED
        BY <2>2, <4>1 DEF WillHold, d
    <3> QED
      BY <3>2, <3>3
  <2>3. CASE q = p /\ (\A j \in DOMAIN c : c[j].key # k) /\ replica[p][k].val = v
    <3> HIDE DEF c, d
    <3>1. \A j \in DOMAIN d : d[j].key # k
      BY <1>3, <1>4, <2>3
    <3>2. k # msg.key
      BY <1>3, <2>3
    <3>3. replica'[p][k].val = v
      BY <1>6, <2>3, <3>2
    <3> QED
      BY <2>3, <3>1, <3>3 DEF WillHold, d
  <2> QED
    BY <1>13, <2>1, <2>2, <2>3 DEF WillHold
<1>14. DeletionsReach'
  <2> SUFFICES ASSUME NEW q \in Peer, NEW k \in Key, <<q, k>> \notin excused', data'[k].val = Nil
               PROVE  (WillHold(q, k, Nil) \/ Pending(k))'
    BY DEF DeletionsReach
  <2>1. WillHold(q, k, Nil) \/ Pending(k)
    BY <1>1 DEF Inv, DeletionsReach
  <2> QED
    BY <1>12, <1>13, <2>1
<1>15. TargetsReach'
  <2> SUFFICES ASSUME NEW q \in Served', NEW k \in Key, <<q, k>> \notin excused'
               PROVE  (q \in initial \/ Pending(k) \/ WillHold(q, k, data[k].val))'
    BY DEF TargetsReach
  <2>1. q \in Served /\ q \in Peer
    BY <1>1, <1>2 DEF Served, Targets, TypeOK
  <2>2. q \in initial \/ Pending(k) \/ WillHold(q, k, data[k].val)
    BY <1>1, <2>1 DEF Inv, TargetsReach
  <2>3. data'[k].val = data[k].val /\ initial' = initial
    BY <1>1
  <2> QED
    BY <1>12, <1>13, <2>1, <2>2, <2>3
<1>16. SentInOrder'
  <2> SUFFICES ASSUME direct = "never" PROVE SentInOrder'
    BY <1>1 DEF SentInOrder
  <2> DEFINE o == out["main"]
  <2>1. ASSUME NEW q \in Peer PROVE InOrder(q)'
    <3>1. InOrder(q)
      BY DEF Inv, SentInOrder
    <3>2. CASE q # p
      <4>1. channel'[q] = channel[q] /\ replica'[q] = replica[q] /\ data' = data /\ out' = out
        BY <1>1, <1>4, <1>6, <3>2
      <4> QED
        BY <3>1, <4>1 DEF InOrder
    <3>3. CASE q = p
      <4>1. /\ \A i \in DOMAIN c : /\ replica[p][c[i].key].ver <= c[i].ver
                                   /\ c[i].ver <= data[c[i].key].ver
            /\ \A i, j \in DOMAIN c : i < j /\ c[i].key = c[j].key => c[i].ver <= c[j].ver
            /\ \A i \in DOMAIN o : /\ replica[p][o[i].key].ver <= o[i].ver
                                   /\ \A j \in DOMAIN c : c[j].key = o[i].key => c[j].ver <= o[i].ver
            /\ \A k \in Key : replica[p][k].ver <= data[k].ver
        BY <3>1, <3>3 DEF InOrder
      <4>2. /\ \A i \in DOMAIN c : c[i].key \in Key
            /\ \A i \in DOMAIN o : o[i].key \in Key
        <5>1. o \in Seq(Updates) /\ \A x \in Updates : x.key \in Key
          BY <1>2 DEF TypeOK, Thread, Updates
        <5> HIDE DEF o, c
        <5> QED
          BY <1>2, <5>1
      <4>3. o = out'["main"] /\ data' = data /\ d = channel'[p]
        BY <1>1
      <4> HIDE DEF c, d, o
      <4>4. ASSUME NEW i \in DOMAIN d
            PROVE  replica'[p][d[i].key].ver <= d[i].ver /\ d[i].ver <= data[d[i].key].ver
        <5>1. i + 1 \in DOMAIN c /\ d[i] = c[i + 1] /\ 1 < i + 1 /\ i \in Nat
          BY <1>3, <1>4
        <5>2. d[i].key = msg.key => msg.ver <= d[i].ver
          BY <1>3, <4>1, <5>1
        <5>3. d[i].key \in Key
          BY <4>2, <5>1
        <5> QED
          BY <1>6, <4>1, <5>1, <5>2, <5>3
      <4>5. \A i, j \in DOMAIN d : i < j /\ d[i].key = d[j].key => d[i].ver <= d[j].ver
        <5>1. \A i, j \in DOMAIN d : i < j => i + 1 < j + 1
          BY <1>3, <1>4
        <5> QED
          BY <1>3, <1>4, <4>1, <5>1
      <4>6. ASSUME NEW i \in DOMAIN o
            PROVE  /\ replica'[p][o[i].key].ver <= o[i].ver
                   /\ \A j \in DOMAIN d : d[j].key = o[i].key => d[j].ver <= o[i].ver
        <5>1. o[i].key = msg.key => msg.ver <= o[i].ver
          BY <1>3, <4>1
        <5>2. replica'[p][o[i].key].ver <= o[i].ver
          BY <1>6, <4>1, <4>2, <5>1
        <5> QED
          BY <1>3, <1>4, <4>1, <5>2
      <4>7. \A k \in Key : replica'[p][k].ver <= data[k].ver
        BY <1>3, <1>6, <4>1
      <4> QED
        BY <3>3, <4>3, <4>4, <4>5, <4>6, <4>7 DEF InOrder
    <3> QED
      BY <3>2, <3>3
  <2> QED
    BY <1>1, <2>1 DEF Inv, SentInOrder
<1> QED
  BY <1>7, <1>9, <1>10, <1>11, <1>14, <1>15, <1>16 DEF Inv

\* The creation of the entity is acknowledged: what was queued is to be sent.
LEMMA CreateAcknowledgedInv ==
  ASSUME Inv, CreateAcknowledged
  PROVE  Inv'
<1> DEFINE K == {k \in Key : queued[k] # None}
           stored == SetToSeq(K)
           m == [i \in DOMAIN stored |-> queued[stored[i]]]
<1>1. /\ UNCHANGED <<data, excused, writes, role, parent, hooked, owner, known, initial, routing,
                     connected, fresh, watched, joining, stale,
                     channel, replica, tasks, direct, packets, moves>>
      /\ role = "Client" /\ ~enabled /\ joining = {} /\ enabled' = TRUE
      /\ queued' = [k \in Key |-> None]
      /\ out' = [out EXCEPT !["main"] = m]
  BY DEF CreateAcknowledged, Idle, targetVars, peerVars, clientVars
<1>2. TypeOK /\ queued \in [Key -> Updates \cup {None}] /\ out \in [Thread -> Seq(Updates)]
  BY DEF Inv, TypeOK
<1>3. /\ stored \in Seq(K)
      /\ \A x \in K : \E i \in DOMAIN stored : stored[i] = x
      /\ \A i, j \in DOMAIN stored : stored[i] = stored[j] => i = j
  <2>1. IsFiniteSet(K)
    BY SizeAssumption, FS_Subset
  <2> HIDE DEF K
  <2> QED
    BY <2>1, SetToSeqFacts
<1> HIDE DEF stored
<1>4. /\ Len(stored) \in Nat /\ DOMAIN stored = 1 .. Len(stored)
      /\ \A i \in DOMAIN stored : stored[i] \in Key /\ queued[stored[i]] # None
  BY <1>3
<1>5. \A k \in Key : queued[k] # None => queued[k] \in Updates /\ queued[k].key = k
  BY <1>2 DEF Inv, Modes
<1>6. DOMAIN m = 1 .. Len(stored) /\ m \in [1 .. Len(stored) -> Updates]
  BY <1>4, <1>5
<1>7. /\ \A i \in DOMAIN m : m[i].key \in Key /\ queued[m[i].key] # None /\ m[i] = queued[m[i].key]
      /\ \A k \in Key : queued[k] # None => \E i \in DOMAIN m : m[i].key = k
      /\ \A i, j \in DOMAIN m : m[i].key = m[j].key => i = j
  <2>1. DOMAIN m = DOMAIN stored /\ \A i \in DOMAIN m : m[i] = queued[stored[i]] /\ m[i].key = stored[i]
    BY <1>4, <1>5
  <2>2. \A k \in Key : queued[k] # None => k \in K
    OBVIOUS
  <2> HIDE DEF m, K
  <2> QED
    BY <1>3, <1>4, <2>1, <2>2
<1> HIDE DEF m
<1>8. m \in Seq(Updates)
  BY <1>4, <1>6
<1>9. \A t \in Thread : out[t] = <<>> /\ DOMAIN out[t] = {}
  BY <1>1 DEF Inv, Modes
<1>10. out'["main"] = m /\ out'["sync"] = <<>> /\ DOMAIN out'["sync"] = {} /\ Thread = {"main", "sync"}
  BY <1>1, <1>2, <1>9 DEF Thread
<1>11. TypeOK'
  <2>1. out' \in [Thread -> Seq(Updates)]
    BY <1>1, <1>2, <1>8
  <2>2. queued' \in [Key -> Updates \cup {None}]
    BY <1>1
  <2> QED
    BY <1>1, <1>2, <2>1, <2>2 DEF TypeOK
<1>12. Modes' /\ Unconnected' /\ TasksInOrder'
  BY <1>1 DEF Inv, Modes, Unconnected, TasksInOrder
<1>13. \A k \in Key : Pending(k) => Pending(k)'
  <2> SUFFICES ASSUME NEW k \in Key, Pending(k) PROVE Pending(k)'
    OBVIOUS
  <2>1. queued[k] # None
    BY <1>9 DEF Pending
  <2>2. \E i \in DOMAIN out'["main"] : out'["main"][i].key = k
    BY <1>7, <1>10, <2>1
  <2> QED
    BY <1>10, <2>2 DEF Pending
<1>14. PendingIsCurrent'
  <2> SUFFICES ASSUME NEW p \in Peer, NEW k \in Key, <<p, k>> \notin excused'
               PROVE  /\ \A t \in Thread : \A i \in DOMAIN out'[t] :
                           out'[t][i].key = k => out'[t][i].val = data'[k].val
                      /\ queued'[k] # None => queued'[k].val = data'[k].val
    BY DEF PendingIsCurrent
  <2>1. queued[k] # None => queued[k].val = data[k].val
    BY <1>1 DEF Inv, PendingIsCurrent
  <2>2. \A i \in DOMAIN m : m[i].key = k => m[i].val = data[k].val
    BY <1>7, <2>1
  <2>3. queued'[k] = None
    BY <1>1
  <2> QED
    BY <1>1, <1>10, <2>2, <2>3
<1>15. \A p \in Peer, k \in Key : \A v : WillHold(p, k, v) => WillHold(p, k, v)'
  BY <1>1 DEF WillHold
<1>16. DeletionsReach'
  <2> SUFFICES ASSUME NEW p \in Peer, NEW k \in Key, <<p, k>> \notin excused', data'[k].val = Nil
               PROVE  (WillHold(p, k, Nil) \/ Pending(k))'
    BY DEF DeletionsReach
  <2>1. WillHold(p, k, Nil) \/ Pending(k)
    BY <1>1 DEF Inv, DeletionsReach
  <2> QED
    BY <1>13, <1>15, <2>1
<1>17. TargetsReach'
  <2> SUFFICES ASSUME NEW p \in Served', NEW k \in Key, <<p, k>> \notin excused'
               PROVE  (p \in initial \/ Pending(k) \/ WillHold(p, k, data[k].val))'
    BY DEF TargetsReach
  <2>1. p \in Served /\ p \in Peer
    BY <1>1, <1>2 DEF Served, Targets, TypeOK
  <2>2. p \in initial \/ Pending(k) \/ WillHold(p, k, data[k].val)
    BY <1>1, <2>1 DEF Inv, TargetsReach
  <2>3. data'[k].val = data[k].val /\ initial' = initial
    BY <1>1
  <2> QED
    BY <1>13, <1>15, <2>1, <2>2, <2>3
<1>18. SentInOrder'
  <2> SUFFICES ASSUME direct = "never" PROVE SentInOrder'
    BY <1>1 DEF SentInOrder
  <2>1. \A i \in DOMAIN m : m[i].ver \in Nat /\ m[i].ver <= data[m[i].key].ver
    <3>1. \A k \in Key : queued[k] # None => queued[k].ver \in Nat /\ queued[k].ver <= data[k].ver
      BY <1>5, SizeAssumption DEF Inv, SentInOrder, Updates, Versions
    <3> QED
      BY <1>7, <3>1
  <2>2. \A i, j \in DOMAIN m : i < j => m[i].key # m[j].key
    BY <1>6, <1>7
  <2>3. ASSUME NEW p \in Peer PROVE InOrder(p)'
    <3>1. InOrder(p)
      BY DEF Inv, SentInOrder
    <3>2. DOMAIN channel[p] = {} /\ \A k \in Key : replica[p][k].ver = 0
      BY <1>1 DEF Inv, Modes
    <3>3. channel' = channel /\ replica' = replica /\ data' = data
      BY <1>1
    <3>4. \A i \in DOMAIN out'["main"] : replica[p][out'["main"][i].key].ver <= out'["main"][i].ver
      BY <1>7, <1>10, <2>1, <3>2
    <3> QED
      BY <3>1, <3>2, <3>3, <3>4 DEF InOrder
  <2>4. /\ \A i \in DOMAIN out'["main"] :
             /\ out'["main"][i].ver <= data'[out'["main"][i].key].ver
             /\ role' = "Server" => out'["main"][i].ver = data'[out'["main"][i].key].ver
        /\ \A i, j \in DOMAIN out'["main"] :
             i < j /\ out'["main"][i].key = out'["main"][j].key => out'["main"][i].ver <= out'["main"][j].ver
    BY <1>1, <1>10, <2>1, <2>2
  <2>5. \A k \in Key : queued'[k] = None /\ data'[k].ver <= writes'
    BY <1>1 DEF Inv, SentInOrder
  <2> QED
    BY <1>10, <2>3, <2>4, <2>5 DEF SentInOrder
<1> QED
  BY <1>11, <1>12, <1>14, <1>16, <1>17, <1>18 DEF Inv

-----------------------------------------------------------------------------
(* Writing *)

\* What SetKeyInternal writes: the rest of m_data stays as it is.
LEMMA DataFacts ==
  ASSUME TypeOK, NEW t \in Thread, NEW k \in Key, NEW v \in Val \cup {Nil}, NEW replicated,
         NEW num \in Versions, SetKeyInternal(t, k, v, replicated, num)
  PROVE  /\ writes < MaxWrites /\ writes' = writes + 1 /\ writes' \in Versions
         /\ data' \in [Key -> [val : Val \cup {Nil}, ver : Versions, num : Versions]]
         /\ \A j \in Key \ {k} : data'[j] = data[j]
         /\ \/ data' = data
            \/ data'[k] = [val |-> v, ver |-> writes + 1, num |-> num]
<1>1. /\ data \in [Key -> [val : Val \cup {Nil}, ver : Versions, num : Versions]]
      /\ writes \in Versions /\ writes < MaxWrites /\ writes' = writes + 1
      /\ \/ data' = data
         \/ data' = [data EXCEPT ![k] = [val |-> v, ver |-> writes + 1, num |-> num]]
  BY DEF TypeOK, SetKeyInternal
<1>2. writes' \in Versions
  BY <1>1, SizeAssumption DEF Versions
<1> QED
  BY <1>1, <1>2

\* A write, by a script, by a packet or by a task.
LEMMA WriteInv ==
  ASSUME Inv, NEW t \in Thread, NEW k \in Key, NEW v \in Val \cup {Nil}, NEW replicated \in BOOLEAN,
         NEW num \in Versions, Idle(t), SetKeyInternal(t, k, v, replicated, num),
         UNCHANGED <<role, parent, hooked, enabled, owner, known, initial, routing,
                     connected, fresh, watched, joining, stale, channel,
                     replica, moves>>,
         tasks' \in Seq([key : Key, val : Val \cup {Nil}, num : Versions]), packets' \in Versions,
         direct' \in {"never", "inOrder", "overtaking"},
         direct' = "never" => direct = "never" /\ t = "main",
         TasksInOrder'
  PROVE  Inv'
<1> DEFINE u == Update(k, v, writes + 1)
<1>0. TypeOK
  BY DEF Inv
<1>1. /\ queued \in [Key -> Updates \cup {None}] /\ out \in [Thread -> Seq(Updates)]
      /\ (enabled => \A j \in Key : queued[j] = None) /\ excused \subseteq Peer \X Key
      /\ writes \in Nat /\ \A j \in Key : data[j].ver \in Nat
  <2>1. queued \in [Key -> Updates \cup {None}] /\ out \in [Thread -> Seq(Updates)] /\ excused \subseteq Peer \X Key
    BY <1>0 DEF TypeOK
  <2>2. enabled => \A j \in Key : queued[j] = None
    BY <1>0 DEF TypeOK
  <2>3. writes \in Nat /\ \A j \in Key : data[j].ver \in Nat
    BY <1>0, SizeAssumption DEF TypeOK, Versions
  <2> QED
    BY <2>1, <2>2, <2>3
<1>2. /\ writes < MaxWrites /\ writes' = writes + 1 /\ writes' \in Versions
      /\ data' \in [Key -> [val : Val \cup {Nil}, ver : Versions, num : Versions]]
      /\ \A j \in Key \ {k} : data'[j] = data[j]
  BY <1>0, DataFacts
<1>3. out[t] = <<>> /\ (t = "main" => joining = {})
  BY DEF Idle
<1>4. Unconnected'
  BY DEF Inv, Unconnected
<1>5. \A p \in Peer, j \in Key : \A w : WillHold(p, j, w) => WillHold(p, j, w)'
  BY DEF WillHold
<1>6. Served' = Served
  BY DEF Served, Targets
<1>7. CASE data[k].val = v
  <2>1. UNCHANGED <<data, out, queued, excused>>
    BY <1>7 DEF SetKeyInternal
  <2>2. TypeOK'
    BY <1>0, <1>2, <2>1 DEF TypeOK
  <2>3. Modes'
    BY <2>1 DEF Inv, Modes
  <2>4. PendingIsCurrent'
    BY <2>1 DEF Inv, PendingIsCurrent
  <2>5. \A j \in Key : Pending(j) => Pending(j)'
    BY <2>1 DEF Pending
  <2>6. DeletionsReach'
    BY <1>5, <2>1, <2>5 DEF Inv, DeletionsReach
  <2>7. TargetsReach'
    <3> SUFFICES ASSUME NEW p \in Served', NEW j \in Key, <<p, j>> \notin excused'
                 PROVE  (p \in initial \/ Pending(j) \/ WillHold(p, j, data[j].val))'
      BY DEF TargetsReach
    <3>1. p \in Served /\ p \in Peer
      BY <1>0, <1>6 DEF Served, TypeOK
    <3>2. p \in initial \/ Pending(j) \/ WillHold(p, j, data[j].val)
      BY <2>1, <3>1 DEF Inv, TargetsReach
    <3>3. data'[j].val = data[j].val
      BY <2>1
    <3> QED
      BY <1>5, <2>5, <3>1, <3>2, <3>3
  <2>8. SentInOrder'
    <3> SUFFICES ASSUME direct' = "never" PROVE SentInOrder'
      BY DEF SentInOrder
    <3>1. \A p \in Peer : InOrder(p) => InOrder(p)'
      BY <2>1 DEF InOrder
    <3>2. \A j \in Key : data'[j].ver <= writes'
      <4>1. \A j \in Key : data[j].ver <= writes
        BY DEF Inv, SentInOrder
      <4> QED
        BY <1>1, <1>2, <2>1, <4>1
    <3> QED
      BY <2>1, <3>1, <3>2 DEF Inv, SentInOrder
  <2> QED
    BY <1>4, <2>2, <2>3, <2>4, <2>6, <2>7, <2>8 DEF Inv
<1>8. CASE data[k].val # v
  <2>1. /\ data' = [data EXCEPT ![k] = [val |-> v, ver |-> writes + 1, num |-> num]]
        /\ excused' = Excuse(t, k, replicated)
        /\ IF replicated THEN Replicate(t, u) ELSE UNCHANGED <<out, queued>>
    BY <1>8 DEF SetKeyInternal
  <2>2. data'[k].val = v /\ data'[k].ver = writes + 1
    BY <1>0, <2>1 DEF TypeOK
  <2>3. u \in Updates /\ u.key = k /\ u.val = v /\ u.ver = writes + 1 /\ u # None
    <3>1. u \in Updates /\ u.key = k /\ u.val = v /\ u.ver = writes + 1
      BY <1>2 DEF Update, Updates
    <3>2. u \in [key : Key, val : Val \cup {Nil}, ver : Nat]
      BY <1>1 DEF Update
    <3> QED
      BY <3>1, <3>2, ConstantsDiffer
  <2> HIDE DEF u
  <2>4. \/ /\ replicated /\ enabled /\ queued' = queued /\ out'[t] = <<u>>
           /\ out' \in [Thread -> Seq(Updates)] /\ \A s \in Thread \ {t} : out'[s] = out[s]
        \/ replicated /\ ~enabled /\ out' = out /\ queued[k] = None /\ queued' = [queued EXCEPT ![k] = u]
        \/ replicated /\ ~enabled /\ out' = out /\ queued[k] # None /\ queued' = queued
        \/ ~replicated /\ out' = out /\ queued' = queued
    <3>1. Append(<<>>, u) = <<u>> /\ <<u>> \in Seq(Updates)
      BY <2>3
    <3>2. CASE replicated /\ enabled
      <4>1. out' = [out EXCEPT ![t] = Append(@, u)] /\ queued' = queued
        BY <2>1, <3>2 DEF Replicate
      <4>2. out' = [out EXCEPT ![t] = <<u>>]
        BY <1>3, <3>1, <4>1
      <4> QED
        BY <1>1, <3>1, <3>2, <4>1, <4>2
    <3>3. CASE replicated /\ ~enabled
      BY <2>1, <2>3, <3>3 DEF Replicate
    <3>4. CASE ~replicated
      BY <2>1, <3>4
    <3> QED
      BY <3>2, <3>3, <3>4
  <2>5. /\ \A s \in Thread : \/ s # t /\ out'[s] = out[s]
                             \/ s = t /\ DOMAIN out'[s] = {}
                             \/ s = t /\ DOMAIN out'[s] = {1} /\ out'[s][1] = u
        /\ \A j \in Key \ {k} : queued'[j] = queued[j]
        /\ queued'[k] \in {queued[k], u}
        /\ out' \in [Thread -> Seq(Updates)] /\ queued' \in [Key -> Updates \cup {None}]
        /\ enabled => queued' = queued
    <3>1. DOMAIN <<u>> = {1} /\ <<u>>[1] = u /\ DOMAIN <<>> = {}
      OBVIOUS
    <3>2. CASE /\ replicated /\ enabled /\ queued' = queued /\ out'[t] = <<u>>
               /\ out' \in [Thread -> Seq(Updates)] /\ \A s \in Thread \ {t} : out'[s] = out[s]
      <4>1. DOMAIN out'[t] = {1} /\ out'[t][1] = u
        BY <3>1, <3>2
      <4>2. \A s \in Thread : \/ s # t /\ out'[s] = out[s]
                              \/ s = t /\ DOMAIN out'[s] = {1} /\ out'[s][1] = u
        BY <3>2, <4>1
      <4>3. /\ \A j \in Key \ {k} : queued'[j] = queued[j]
            /\ queued'[k] \in {queued[k], u}
            /\ out' \in [Thread -> Seq(Updates)] /\ queued' \in [Key -> Updates \cup {None}]
        BY <1>1, <3>2
      <4> QED
        BY <3>2, <4>2, <4>3
    <3>3. CASE out' = out /\ (queued' = queued \/ (~enabled /\ queued' = [queued EXCEPT ![k] = u]))
      <4>1. DOMAIN out'[t] = {}
        BY <1>3, <3>1, <3>3
      <4>2. /\ \A j \in Key \ {k} : queued'[j] = queued[j]
            /\ queued'[k] \in {queued[k], u}
            /\ queued' \in [Key -> Updates \cup {None}]
            /\ enabled => queued' = queued
        BY <1>1, <2>3, <3>3
      <4>3. \A s \in Thread : \/ s # t /\ out'[s] = out[s]
                              \/ s = t /\ DOMAIN out'[s] = {}
        BY <3>3, <4>1
      <4> QED
        BY <1>1, <3>3, <4>2, <4>3
    <3> QED
      BY <2>4, <3>2, <3>3
  <2>5a. \A i \in DOMAIN out'[t] : i = 1 /\ out'[t][i] = u
    <3>1. \/ DOMAIN out'[t] = {}
          \/ DOMAIN out'[t] = {1} /\ out'[t][1] = u
      BY <2>5
    <3> QED
      BY <3>1
  <2>6. /\ \A p \in Peer, j \in Key \ {k} : <<p, j>> \notin excused' => <<p, j>> \notin excused
        /\ \A p \in Peer : <<p, k>> \notin excused' =>
             /\ replicated /\ ~(~enabled /\ queued[k] # None)
             /\ \A s \in Thread \ {t} : \A i \in DOMAIN out[s] : out[s][i].key # k
        /\ excused' \subseteq Peer \X Key
    BY <1>1, <2>1 DEF Excuse
  <2>7. \A j \in Key \ {k} : Pending(j) => Pending(j)'
    <3> SUFFICES ASSUME NEW j \in Key \ {k}, Pending(j) PROVE Pending(j)'
      OBVIOUS
    <3>1. CASE queued[j] # None
      BY <2>5, <3>1 DEF Pending
    <3>2. CASE \E s \in Thread : \E i \in DOMAIN out[s] : out[s][i].key = j
      <4>1. PICK s \in Thread : \E i \in DOMAIN out[s] : out[s][i].key = j
        BY <3>2
      <4>2. s # t
        BY <1>3, <4>1
      <4>3. out'[s] = out[s]
        BY <2>5, <4>2
      <4> QED
        BY <4>1, <4>3 DEF Pending
    <3> QED
      BY <3>1, <3>2 DEF Pending
  <2>8. replicated => Pending(k)'
    <3> SUFFICES ASSUME replicated PROVE Pending(k)'
      OBVIOUS
    <3>1. CASE enabled
      <4>1. 1 \in DOMAIN out'[t] /\ out'[t][1].key = k
        BY <2>3, <2>4, <3>1
      <4> QED
        BY <4>1 DEF Pending
    <3>2. CASE ~enabled
      <4>1. queued'[k] # None
        BY <1>1, <2>3, <2>4, <3>2
      <4> QED
        BY <4>1 DEF Pending
    <3> QED
      BY <3>1, <3>2
  <2>9. TypeOK'
    <3>1. enabled' => queued' = [j \in Key |-> None]
      BY <1>0, <2>5 DEF TypeOK
    <3> QED
      BY <1>0, <1>2, <2>5, <2>6, <3>1 DEF TypeOK
  <2>10. Modes'
    <3>1. ~enabled => out' = out
      BY <2>4
    <3>2. joining # {} => out'["main"] = <<>>
      BY <1>3, <2>5 DEF Inv, Modes, Thread
    <3>3. \A j \in Key : queued'[j] # None => queued'[j].key = j
      BY <2>3, <2>5 DEF Inv, Modes
    <3> QED
      BY <3>1, <3>2, <3>3 DEF Inv, Modes
  <2>11. PendingIsCurrent'
    <3> SUFFICES ASSUME NEW p \in Peer, NEW j \in Key, <<p, j>> \notin excused'
                 PROVE  /\ \A s \in Thread : \A i \in DOMAIN out'[s] :
                             out'[s][i].key = j => out'[s][i].val = data'[j].val
                        /\ queued'[j] # None => queued'[j].val = data'[j].val
      BY DEF PendingIsCurrent
    <3>1. CASE j # k
      <4>1. /\ \A s \in Thread : \A i \in DOMAIN out[s] : out[s][i].key = j => out[s][i].val = data[j].val
            /\ queued[j] # None => queued[j].val = data[j].val
        BY <2>6, <3>1 DEF Inv, PendingIsCurrent
      <4>2. ASSUME NEW s \in Thread, NEW i \in DOMAIN out'[s], out'[s][i].key = j
            PROVE  out'[s][i].val = data[j].val
        <5>1. out'[s] = out[s]
          BY <2>3, <2>5, <3>1, <4>2
        <5> QED
          BY <4>1, <4>2, <5>1
      <4>3. data'[j] = data[j] /\ queued'[j] = queued[j]
        BY <1>2, <2>5, <3>1
      <4> QED
        BY <4>1, <4>2, <4>3
    <3>2. CASE j = k
      <4>1. /\ replicated /\ ~(~enabled /\ queued[k] # None)
            /\ \A s \in Thread \ {t} : \A i \in DOMAIN out[s] : out[s][i].key # k
        BY <2>6, <3>2
      <4>2. queued'[k] # None => queued'[k] = u
        BY <1>1, <2>5, <4>1
      <4>3. ASSUME NEW s \in Thread, NEW i \in DOMAIN out'[s], out'[s][i].key = k
            PROVE  out'[s][i] = u
        <5>1. s = t
          <6> SUFFICES ASSUME s # t PROVE FALSE
            OBVIOUS
          <6>1. out'[s] = out[s]
            BY <2>5
          <6> QED
            BY <4>1, <4>3, <6>1
        <5> QED
          BY <2>5a, <4>3, <5>1
      <4> QED
        BY <2>2, <2>3, <3>2, <4>2, <4>3
    <3> QED
      BY <3>1, <3>2
  <2>12. DeletionsReach'
    <3> SUFFICES ASSUME NEW p \in Peer, NEW j \in Key, <<p, j>> \notin excused', data'[j].val = Nil
                 PROVE  (WillHold(p, j, Nil) \/ Pending(j))'
      BY DEF DeletionsReach
    <3>1. CASE j # k
      <4>1. WillHold(p, j, Nil) \/ Pending(j)
        BY <1>2, <2>6, <3>1 DEF Inv, DeletionsReach
      <4> QED
        BY <1>5, <2>7, <3>1, <4>1
    <3>2. CASE j = k
      BY <2>6, <2>8, <3>2
    <3> QED
      BY <3>1, <3>2
  <2>13. TargetsReach'
    <3> SUFFICES ASSUME NEW p \in Served', NEW j \in Key, <<p, j>> \notin excused'
                 PROVE  (p \in initial \/ Pending(j) \/ WillHold(p, j, data[j].val))'
      BY DEF TargetsReach
    <3>1. p \in Served /\ p \in Peer
      BY <1>0, <1>6 DEF Served, TypeOK
    <3>2. CASE j # k
      <4>1. p \in initial \/ Pending(j) \/ WillHold(p, j, data[j].val)
        BY <2>6, <3>1, <3>2 DEF Inv, TargetsReach
      <4>2. data'[j].val = data[j].val
        BY <1>2, <3>2
      <4> QED
        BY <1>5, <2>7, <3>1, <3>2, <4>1, <4>2
    <3>3. CASE j = k
      BY <2>6, <2>8, <3>1, <3>3
    <3> QED
      BY <3>2, <3>3
  <2>14. SentInOrder'
    <3> SUFFICES ASSUME direct' = "never" PROVE SentInOrder'
      BY DEF SentInOrder
    <3>1. direct = "never" /\ t = "main" /\ "sync" \in Thread
      BY DEF Thread
    <3>2. out'["sync"] = <<>>
      BY <2>5, <3>1 DEF Inv, SentInOrder
    <3>3. \A j \in Key : /\ data'[j].ver \in Nat /\ data[j].ver <= data'[j].ver /\ data'[j].ver <= writes'
                         /\ data[j].ver \in Nat
      <4>1. \A j \in Key : data[j].ver <= writes
        BY <3>1 DEF Inv, SentInOrder
      <4> QED
        BY <1>1, <1>2, <2>2, <4>1
    <3>4. \A i \in DOMAIN out'["main"] : i = 1 /\ out'["main"][i] = u
      BY <2>5a, <3>1
    <3>5. \A j \in Key : queued'[j] # None => queued'[j].ver <= data'[j].ver
      <4>1. \A j \in Key : queued[j] # None => queued[j].ver <= data[j].ver
        BY <3>1 DEF Inv, SentInOrder
      <4>2. \A j \in Key : queued[j] # None => queued[j].ver \in Nat
        BY <1>1, SizeAssumption DEF Updates, Versions
      <4>3. ASSUME NEW j \in Key, queued'[j] # None PROVE queued'[j].ver <= data'[j].ver
        <5>1. CASE queued'[j] = queued[j]
          BY <3>3, <4>1, <4>2, <4>3, <5>1
        <5>2. CASE j = k /\ queued'[j] = u
          BY <2>2, <2>3, <1>1, <5>2
        <5> QED
          BY <2>5, <5>1, <5>2
      <4> QED
        BY <4>3
    <3>6. ASSUME NEW p \in Peer PROVE InOrder(p)'
      <4> DEFINE c == channel[p]
                 o == out'["main"]
      <4>1. /\ \A i \in DOMAIN c : /\ replica[p][c[i].key].ver <= c[i].ver
                                   /\ c[i].ver <= data[c[i].key].ver
            /\ \A i, j \in DOMAIN c : i < j /\ c[i].key = c[j].key => c[i].ver <= c[j].ver
            /\ \A j \in Key : replica[p][j].ver <= data[j].ver
        BY <3>1 DEF Inv, SentInOrder, InOrder
      <4>2. /\ \A i \in DOMAIN c : c[i].key \in Key /\ c[i].ver \in Nat
            /\ \A j \in Key : replica[p][j].ver \in Nat
        <5>1. c \in Seq(Updates) /\ \A j \in Key : replica[p][j] \in Updates
          BY <1>0 DEF TypeOK
        <5>2. \A x \in Updates : x.key \in Key /\ x.ver \in Nat
          BY SizeAssumption DEF Updates, Versions
        <5> HIDE DEF c
        <5> QED
          BY <5>1, <5>2
      <4>3. c = channel'[p] /\ replica' = replica /\ o = out'["main"]
        OBVIOUS
      <4> HIDE DEF c, o
      <4>4. \A i \in DOMAIN c : c[i].ver <= data'[c[i].key].ver
        BY <3>3, <4>1, <4>2
      <4>5. \A j \in Key : replica[p][j].ver <= data'[j].ver
        BY <3>3, <4>1, <4>2
      <4>6. replica[p][k].ver <= u.ver /\ \A j \in DOMAIN c : c[j].key = k => c[j].ver <= u.ver
        BY <2>2, <2>3, <4>4, <4>5
      <4>7. \A i \in DOMAIN o : /\ replica[p][o[i].key].ver <= o[i].ver
                                /\ \A j \in DOMAIN c : c[j].key = o[i].key => c[j].ver <= o[i].ver
        BY <2>3, <3>4, <4>3, <4>6
      <4> QED
        BY <4>1, <4>3, <4>4, <4>5, <4>7 DEF InOrder
    <3>7. /\ \A i \in DOMAIN out'["main"] :
               /\ out'["main"][i].ver <= data'[out'["main"][i].key].ver
               /\ role' = "Server" => out'["main"][i].ver = data'[out'["main"][i].key].ver
          /\ \A i, j \in DOMAIN out'["main"] :
               i < j /\ out'["main"][i].key = out'["main"][j].key => out'["main"][i].ver <= out'["main"][j].ver
      BY <1>1, <2>2, <2>3, <3>4
    <3> QED
      BY <3>2, <3>3, <3>5, <3>6, <3>7 DEF SentInOrder
  <2> QED
    BY <1>4, <2>9, <2>10, <2>11, <2>12, <2>13, <2>14 DEF Inv
<1> QED
  BY <1>7, <1>8

\* A script writes a key; on the game client, a packet of the server does.
LEMMA ScriptSetInv ==
  ASSUME Inv, NEW k \in Key, NEW v \in Val \cup {Nil}, NEW b \in BOOLEAN,
         ScriptSet(k, v, b) \/ HandleServerPacket(k, v)
  PROVE  Inv'
<1> DEFINE num == data[k].num
<1>1. /\ UNCHANGED <<role, parent, hooked, enabled, owner, known, initial, routing,
                     connected, fresh, watched, joining, stale, channel,
                     replica, moves>>
      /\ UNCHANGED <<tasks, packets, direct>> /\ Idle("main")
      /\ \E r \in BOOLEAN : SetKeyInternal("main", k, v, r, num)
  BY DEF ScriptSet, HandleServerPacket, modeVars, targetVars, peerVars, clientVars
<1>2. PICK r \in BOOLEAN : SetKeyInternal("main", k, v, r, num)
  BY <1>1
<1>3. /\ TypeOK /\ num \in Versions /\ "main" \in Thread
      /\ tasks \in Seq([key : Key, val : Val \cup {Nil}, num : Versions]) /\ packets \in Versions
      /\ direct \in {"never", "inOrder", "overtaking"}
  BY DEF Inv, TypeOK, Thread
<1>4. /\ \A j \in Key \ {k} : data'[j] = data[j]
      /\ data' = data \/ data'[k] = [val |-> v, ver |-> writes + 1, num |-> num]
  <2> HIDE DEF num
  <2> QED
    BY <1>2, <1>3, DataFacts
<1>5. \A j \in Key : data'[j].num = data[j].num
  BY <1>4
<1>6. TasksInOrder'
  BY <1>1, <1>5 DEF Inv, TasksInOrder
<1> HIDE DEF num
<1> QED
  BY <1>1, <1>2, <1>3, <1>6, WriteInv

\* A packet of a client is accepted: without a handler it is applied at once.
LEMMA HandlePacketInv ==
  ASSUME Inv, NEW p \in Peer, NEW k \in Key, NEW v \in Val \cup {Nil}, HandlePacket(p, k, v)
  PROVE  Inv'
<1> DEFINE num == packets + 1
           task == [key |-> k, val |-> v, num |-> packets + 1]
           Task == [key : Key, val : Val \cup {Nil}, num : Versions]
<1>1. /\ UNCHANGED <<role, parent, hooked, enabled, owner, known, initial, routing,
                     connected, fresh, watched, joining, stale, channel,
                     replica, moves>>
      /\ Idle("sync") /\ packets < MaxWrites /\ packets' = packets + 1
      /\ IF hooked THEN tasks' = Append(tasks, task) /\ UNCHANGED <<data, queued, out, excused, writes, direct>>
         ELSE /\ SetKeyInternal("sync", k, v, TRUE, num)
              /\ direct' = IF tasks # <<>> \/ direct = "overtaking" THEN "overtaking" ELSE "inOrder"
              /\ tasks' = tasks
  BY DEF HandlePacket, bagVars, modeVars, targetVars, peerVars, clientVars
<1>2. /\ TypeOK /\ "sync" \in Thread /\ tasks \in Seq(Task) /\ packets \in Nat
      /\ \A j \in Key : data[j].num \in Nat
  BY SizeAssumption DEF Inv, TypeOK, Thread, Versions
<1>3. num \in Versions /\ packets' \in Versions
  BY <1>1, <1>2, SizeAssumption DEF Versions
<1>4. task \in Task
  BY <1>3
<1>5. /\ \A i \in DOMAIN tasks : tasks[i].num \in Nat /\ tasks[i].num <= packets
      /\ \A i, j \in DOMAIN tasks : i < j => tasks[i].num <= tasks[j].num
      /\ \A j \in Key : data[j].num <= packets
      /\ direct # "overtaking" => \A j \in Key, i \in DOMAIN tasks : data[j].num <= tasks[i].num
  <2>1. \A x \in Task : x.num \in Nat
    BY SizeAssumption DEF Versions
  <2>2. \A i \in DOMAIN tasks : tasks[i] \in Task
    <3> HIDE DEF Task
    <3> QED
      BY <1>2
  <2> HIDE DEF Task
  <2>3. \A i \in DOMAIN tasks : tasks[i].num \in Nat
    BY <2>1, <2>2
  <2> QED
    BY <2>3 DEF Inv, TasksInOrder
<1>6. CASE hooked
  <2>1. /\ tasks' = Append(tasks, task)
        /\ UNCHANGED <<data, queued, out, excused, writes, channel, replica, role, direct>>
    BY <1>1, <1>6
  <2> DEFINE n == Len(tasks)
  <2>2. /\ tasks' \in Seq(Task) /\ n \in Nat /\ DOMAIN tasks = 1 .. n /\ DOMAIN tasks' = 1 .. n + 1
        /\ \A i \in DOMAIN tasks : tasks'[i] = tasks[i]
        /\ tasks'[n + 1] = task /\ task.num = packets + 1
    <3>1. task.num = packets + 1
      OBVIOUS
    <3> HIDE DEF task, Task
    <3> QED
      BY <1>2, <1>4, <2>1, <3>1
  <2> HIDE DEF task, n
  <2>3. TypeOK'
    BY <1>1, <1>2, <1>3, <2>1, <2>2 DEF TypeOK
  <2>4. Modes' /\ Unconnected'
    BY <1>1, <2>1 DEF Inv, Modes, Unconnected
  <2>5. \A i \in DOMAIN tasks' : i \in DOMAIN tasks \/ i = n + 1
    BY <2>2
  <2>6. TasksInOrder'
    <3>1. \A i \in DOMAIN tasks' : tasks'[i].num <= packets'
      BY <1>1, <1>2, <1>5, <2>2, <2>5
    <3>2. \A i, j \in DOMAIN tasks' : i < j => tasks'[i].num <= tasks'[j].num
      <4> SUFFICES ASSUME NEW i \in DOMAIN tasks', NEW j \in DOMAIN tasks', i < j
                   PROVE  tasks'[i].num <= tasks'[j].num
        OBVIOUS
      <4>1. i \in DOMAIN tasks
        BY <2>2
      <4>2. CASE j \in DOMAIN tasks
        BY <1>5, <2>2, <4>1, <4>2
      <4>3. CASE j = n + 1
        BY <1>2, <1>5, <2>2, <4>1, <4>3
      <4> QED
        BY <2>5, <4>2, <4>3
    <3>3. \A j \in Key : data'[j].num <= packets'
      BY <1>1, <1>2, <1>5, <2>1
    <3>4. ASSUME direct' # "overtaking", NEW j \in Key, NEW i \in DOMAIN tasks'
          PROVE  data'[j].num <= tasks'[i].num
      <4>1. CASE i \in DOMAIN tasks
        BY <1>5, <2>1, <2>2, <3>4, <4>1
      <4>2. CASE i = n + 1
        BY <1>2, <1>5, <2>1, <2>2, <4>2
      <4> QED
        BY <2>5, <4>1, <4>2
    <3> QED
      BY <3>1, <3>2, <3>3, <3>4 DEF TasksInOrder
  <2>7. Served' = Served
    BY <1>1 DEF Served, Targets
  <2>8. \A q \in Served' : q \in initial' \/ (q \in Served /\ q \notin initial)
    BY <1>1, <2>7
  <2> QED
    BY <2>1, <2>3, <2>4, <2>6, <2>8, SmallInv
<1>7. CASE ~hooked
  <2>1. /\ SetKeyInternal("sync", k, v, TRUE, num) /\ tasks' = tasks
        /\ direct' = IF tasks # <<>> \/ direct = "overtaking" THEN "overtaking" ELSE "inOrder"
    BY <1>1, <1>7
  <2>2. /\ \A j \in Key \ {k} : data'[j] = data[j]
        /\ data' = data \/ data'[k] = [val |-> v, ver |-> writes + 1, num |-> num]
    <3> HIDE DEF num
    <3> QED
      BY <1>2, <1>3, <2>1, DataFacts
  <2>3. \A j \in Key : data'[j].num <= packets'
    <3>1. \A j \in Key : data'[j].num = data[j].num \/ data'[j].num = packets + 1
      BY <2>2
    <3> QED
      BY <1>1, <1>2, <1>5, <3>1
  <2>4. direct' # "overtaking" => DOMAIN tasks' = {}
    BY <2>1
  <2>5. \A i \in DOMAIN tasks' : tasks'[i].num <= packets'
    BY <1>1, <1>2, <1>5, <2>1
  <2>6. TasksInOrder'
    BY <1>5, <2>1, <2>3, <2>4, <2>5 DEF TasksInOrder
  <2>7. /\ tasks' \in Seq([key : Key, val : Val \cup {Nil}, num : Versions])
        /\ direct' \in {"never", "inOrder", "overtaking"} /\ direct' # "never"
    BY <1>2, <2>1
  <2> HIDE DEF num
  <2> QED
    BY <1>1, <1>2, <1>3, <2>1, <2>6, <2>7, WriteInv
<1> QED
  BY <1>6, <1>7

\* The main thread runs the oldest task.
LEMMA RunTaskInv ==
  ASSUME Inv, NEW accept \in BOOLEAN, RunTask(accept)
  PROVE  Inv'
<1> DEFINE task == Head(tasks)
           Task == [key : Key, val : Val \cup {Nil}, num : Versions]
<1>1. /\ UNCHANGED <<role, parent, hooked, enabled, owner, known, initial, routing,
                     connected, fresh, watched, joining, stale, channel,
                     replica, moves>>
      /\ UNCHANGED <<direct, packets>> /\ Idle("main") /\ tasks # <<>> /\ tasks' = Tail(tasks)
      /\ \/ SetKeyInternal("main", task.key, task.val, TRUE, task.num)
         \/ UNCHANGED <<data, queued, out, excused, writes>>
  BY DEF RunTask, bagVars, modeVars, targetVars, peerVars, clientVars
<1>2. /\ TypeOK /\ "main" \in Thread /\ tasks \in Seq(Task) /\ packets \in Versions
      /\ direct \in {"never", "inOrder", "overtaking"}
  BY DEF Inv, TypeOK, Thread
<1>3. /\ task \in Task /\ task = tasks[1] /\ 1 \in DOMAIN tasks /\ tasks' \in Seq(Task)
      /\ \A i \in DOMAIN tasks' : i \in Nat /\ 1 < i + 1 /\ i + 1 \in DOMAIN tasks /\ tasks'[i] = tasks[i + 1]
  <2> HIDE DEF Task
  <2> QED
    BY <1>1, <1>2
<1> HIDE DEF task
<1>4. PICK k \in Key, v \in Val \cup {Nil}, num \in Versions : task.key = k /\ task.val = v /\ task.num = num
  BY <1>3
<1>5. /\ \A i \in DOMAIN tasks : tasks[i].num <= packets
      /\ \A i, j \in DOMAIN tasks : i < j => tasks[i].num <= tasks[j].num
      /\ \A j \in Key : data[j].num <= packets
      /\ direct # "overtaking" => \A j \in Key, i \in DOMAIN tasks : data[j].num <= tasks[i].num
  BY DEF Inv, TasksInOrder
<1>6. \A j \in Key : data'[j].num = data[j].num \/ data'[j].num = num
  <2>1. CASE SetKeyInternal("main", k, v, TRUE, num)
    <3>1. /\ \A j \in Key \ {k} : data'[j] = data[j]
          /\ data' = data \/ data'[k] = [val |-> v, ver |-> writes + 1, num |-> num]
      <4>1. TypeOK /\ "main" \in Thread
        BY <1>2
      <4> QED
        BY <2>1, <4>1, DataFacts
    <3> QED
      BY <3>1
  <2> QED
    BY <1>1, <1>4, <2>1
<1>7. TasksInOrder'
  <2>1. \A i \in DOMAIN tasks' : tasks'[i].num <= packets'
    BY <1>1, <1>3, <1>5
  <2>2. \A i, j \in DOMAIN tasks' : i < j => tasks'[i].num <= tasks'[j].num
    <3>1. \A i, j \in DOMAIN tasks' : i < j => i + 1 < j + 1
      BY <1>3
    <3> QED
      BY <1>3, <1>5, <3>1
  <2>3. \A j \in Key : data'[j].num <= packets'
    BY <1>1, <1>3, <1>4, <1>5, <1>6
  <2>4. \A i \in DOMAIN tasks' : num <= tasks'[i].num
    BY <1>3, <1>4, <1>5
  <2>5. direct' # "overtaking" => \A j \in Key, i \in DOMAIN tasks' : data'[j].num <= tasks'[i].num
    <3> SUFFICES ASSUME direct' # "overtaking", NEW j \in Key, NEW i \in DOMAIN tasks'
                 PROVE  data'[j].num <= tasks'[i].num
      OBVIOUS
    <3>1. i + 1 \in DOMAIN tasks /\ tasks'[i] = tasks[i + 1] /\ direct # "overtaking"
      BY <1>1, <1>3
    <3>2. data[j].num <= tasks[i + 1].num
      BY <1>5, <3>1
    <3> QED
      BY <1>6, <2>4, <3>1, <3>2
  <2> QED
    BY <2>1, <2>2, <2>3, <2>5 DEF TasksInOrder
<1>8. CASE SetKeyInternal("main", k, v, TRUE, num)
  <2>1. /\ tasks' \in Seq([key : Key, val : Val \cup {Nil}, num : Versions])
        /\ direct' \in {"never", "inOrder", "overtaking"} /\ direct' = direct /\ packets' \in Versions
    BY <1>1, <1>2, <1>3
  <2> QED
    BY <1>1, <1>2, <1>7, <1>8, <2>1, WriteInv
<1>9. CASE UNCHANGED <<data, queued, out, excused, writes>>
  <2>1. UNCHANGED <<data, queued, out, excused, writes, channel, replica, role, direct>>
    BY <1>1, <1>9
  <2>2. TypeOK' /\ Modes' /\ Unconnected'
    BY <1>1, <1>2, <1>3, <1>9 DEF Inv, TypeOK, Modes, Unconnected
  <2>3. initial = {} /\ Served' = Served
    BY <1>1 DEF Idle, Served, Targets, Inv, TypeOK
  <2>4. \A q \in Served' : q \in initial' \/ (q \in Served /\ q \notin initial)
    BY <1>1, <2>3
  <2> QED
    BY <1>7, <2>1, <2>2, <2>4, SmallInv
<1> QED
  BY <1>1, <1>4, <1>8, <1>9

-----------------------------------------------------------------------------
(* The invariant *)

\* The initial states satisfy the invariant.
LEMMA InitInv ==
  ASSUME Init
  PROVE  Inv
<1>1. /\ out = [t \in Thread |-> <<>>] /\ \A t \in Thread : out[t] = <<>> /\ DOMAIN out[t] = {}
      /\ \A p \in Peer : channel[p] = <<>> /\ DOMAIN channel[p] = {}
      /\ \A p \in Peer, k \in Key : replica[p][k] = Update(k, Nil, 0)
      /\ \A k \in Key : data[k].val = Nil /\ data[k].ver = 0 /\ data[k].num = 0 /\ queued[k] = None
      /\ tasks = <<>> /\ DOMAIN tasks = {} /\ initial = {} /\ routing = {} /\ excused = {}
  BY DEF Init
<1>2. \A k \in Key : Update(k, Nil, 0).key = k /\ Update(k, Nil, 0).val = Nil /\ Update(k, Nil, 0).ver = 0
  BY DEF Update
<1>3. "main" \in Thread /\ "sync" \in Thread
  BY DEF Thread
<1>4. TypeOK
  <2>1. 0 \in Versions /\ \A k \in Key : Update(k, Nil, 0) \in Updates
    BY SizeAssumption DEF Versions, Update, Updates
  <2>2. known \subseteq Peer /\ connected = known
    BY SizeAssumption DEF Init
  <2>3. /\ data \in [Key -> [val : Val \cup {Nil}, ver : Versions, num : Versions]]
        /\ queued \in [Key -> Updates \cup {None}] /\ queued = [k \in Key |-> None]
        /\ channel \in [Peer -> Seq(Updates)] /\ replica \in [Peer -> [Key -> Updates]]
        /\ out \in [Thread -> Seq(Updates)]
    BY <2>1 DEF Init
  <2> QED
    BY <1>1, <2>1, <2>2, <2>3, SizeAssumption DEF Init, TypeOK
<1>5. Modes
  BY <1>1, <1>2 DEF Init, Modes
<1>6. Unconnected
  BY <1>1 DEF Unconnected
<1>7. TasksInOrder
  BY <1>1 DEF Init, TasksInOrder
<1>8. SentInOrder
  <2>1. \A p \in Peer : InOrder(p)
    BY <1>1, <1>2, <1>3 DEF InOrder
  <2> QED
    BY <1>1, <1>3, <2>1 DEF Init, SentInOrder
<1>9. PendingIsCurrent
  BY <1>1 DEF PendingIsCurrent
<1>10. \A p \in Peer, k \in Key : WillHold(p, k, Nil)
  BY <1>1, <1>2 DEF WillHold
<1>11. DeletionsReach
  BY <1>10 DEF DeletionsReach
<1>12. TargetsReach
  <2> SUFFICES ASSUME NEW p \in Served, NEW k \in Key PROVE WillHold(p, k, data[k].val)
    BY DEF TargetsReach
  <2>1. p \in Peer /\ data[k].val = Nil
    BY <1>1, <1>4 DEF Served, TypeOK
  <2> QED
    BY <1>10, <2>1
<1> QED
  BY <1>4, <1>5, <1>6, <1>7, <1>8, <1>9, <1>11, <1>12 DEF Inv

\* Every step preserves the invariant.
LEMMA StepInv ==
  ASSUME Inv, [Next]_vars
  PROVE  Inv'
<1>1. CASE \E k \in Key, v \in Val \cup {Nil} :
             \/ \E b \in BOOLEAN : ScriptSet(k, v, b)
             \/ \E p \in Peer : HandlePacket(p, k, v)
             \/ HandleServerPacket(k, v)
  <2>1. PICK k \in Key, v \in Val \cup {Nil} :
             \/ \E b \in BOOLEAN : ScriptSet(k, v, b)
             \/ \E p \in Peer : HandlePacket(p, k, v)
             \/ HandleServerPacket(k, v)
    BY <1>1
  <2>2. CASE \E b \in BOOLEAN : ScriptSet(k, v, b)
    BY <2>2, ScriptSetInv
  <2>3. CASE \E p \in Peer : HandlePacket(p, k, v)
    BY <2>3, HandlePacketInv
  <2>4. CASE HandleServerPacket(k, v)
    BY <2>4, ScriptSetInv
  <2> QED
    BY <2>1, <2>2, <2>3, <2>4
<1>2. CASE \E b \in BOOLEAN : RunTask(b) \/ SetHooked(b)
  BY <1>2, RunTaskInv, SetHookedInv
<1>3. CASE \E t \in Thread : Send(t)
  BY <1>3, SendInv
<1>4. CASE CreateAcknowledged \/ ConnectOnDrop
  BY <1>4, CreateAcknowledgedInv, ConnectOnDropInv
<1>5. CASE \E p \in Peer : \/ Deliver(p) \/ Connect(p) \/ RegisterTarget(p) \/ SendAllInitial(p)
                           \/ UnregisterTarget(p) \/ FreeSlot(p) \/ AddRoutingTarget(p) \/ RemoveRoutingTarget(p)
  <2>1. PICK p \in Peer : \/ Deliver(p) \/ Connect(p) \/ RegisterTarget(p) \/ SendAllInitial(p)
                          \/ UnregisterTarget(p) \/ FreeSlot(p) \/ AddRoutingTarget(p) \/ RemoveRoutingTarget(p)
    BY <1>5
  <2> QED
    BY <2>1, DeliverInv, ConnectInv, RegisterTargetInv, SendAllInitialInv, UnregisterTargetInv,
       FreeSlotInv, RoutingInv, RemoveRoutingTargetInv
<1>6. CASE \E S \in SUBSET Peer : SetRoutingTargets(S)
  BY <1>6, RoutingInv
<1>7. CASE \E o \in Peer \cup {Server} : SetOwningPeer(o)
  BY <1>7, SetOwningPeerInv
<1>8. CASE UNCHANGED vars
  <2>1. UNCHANGED <<data, queued, out, excused, writes, role, parent, hooked, enabled, owner, known, initial,
                    routing,
                    connected, fresh, watched, joining, stale,
                    channel, replica, tasks, direct, packets, moves>>
    BY <1>8 DEF vars, bagVars, modeVars, targetVars, peerVars, clientVars
  <2>2. TypeOK' /\ Modes' /\ Unconnected' /\ TasksInOrder'
    BY <2>1 DEF Inv, TypeOK, Modes, Unconnected, TasksInOrder
  <2>3. \A p \in Peer, k \in Key : \A v : WillHold(p, k, v)' <=> WillHold(p, k, v)
    BY <2>1 DEF WillHold
  <2>4. \A k \in Key : Pending(k)' <=> Pending(k)
    BY <2>1 DEF Pending
  <2>5. \A p \in Peer : InOrder(p)' <=> InOrder(p)
    BY <2>1 DEF InOrder
  <2>6. SentInOrder' /\ PendingIsCurrent' /\ DeletionsReach'
    BY <2>1, <2>3, <2>4, <2>5 DEF Inv, SentInOrder, PendingIsCurrent, DeletionsReach
  <2>7. TargetsReach'
    <3> SUFFICES ASSUME NEW p \in Served', NEW k \in Key, <<p, k>> \notin excused'
                 PROVE  (p \in initial \/ Pending(k) \/ WillHold(p, k, data[k].val))'
      BY DEF TargetsReach
    <3>1. p \in Served /\ p \in Peer
      BY <2>1, <2>2 DEF Served, Targets, TypeOK
    <3>2. p \in initial \/ Pending(k) \/ WillHold(p, k, data[k].val)
      BY <2>1, <3>1 DEF Inv, TargetsReach
    <3>3. data'[k].val = data[k].val /\ initial' = initial
      BY <2>1
    <3> QED
      BY <2>3, <2>4, <3>1, <3>2, <3>3
  <2> QED
    BY <2>2, <2>6, <2>7 DEF Inv
<1> QED
  BY <1>1, <1>2, <1>3, <1>4, <1>5, <1>6, <1>7, <1>8 DEF Next

\* The invariant holds in every reachable state of the bag.
THEOREM Invariant == Spec => []Inv
<1>1. Init => Inv
  BY InitInv
<1>2. Inv /\ [Next]_vars => Inv'
  BY StepInv
<1> QED
  BY <1>1, <1>2, PTL DEF Spec

\* The state of a bag, its targets and its packets keeps its type; a bag of the
\* server queues nothing, and the first values await only the peer being registered.
THEOREM TypeCorrect == Spec => []TypeOK
<1>1. Inv => TypeOK
  BY DEF Inv
<1> QED
  BY <1>1, Invariant, PTL

\* No update is lost: once all is sent and delivered, every registered target
\* has the value of every key for which the code gives a guarantee.
THEOREM AllTargetsAgree == Spec => []TargetsAgree
<1>1. Inv => TargetsAgree
  <2> SUFFICES ASSUME Inv, NEW p \in Served, NEW k \in Key, Settled(p), <<p, k>> \notin excused
               PROVE  replica[p][k].val = data[k].val
    BY DEF TargetsAgree
  <2>1. /\ \A t \in Thread : out[t] = <<>> /\ DOMAIN out[t] = {}
        /\ p \notin initial /\ channel[p] = <<>> /\ DOMAIN channel[p] = {} /\ queued[k] = None
    BY DEF Settled
  <2>2. p \in initial \/ Pending(k) \/ WillHold(p, k, data[k].val)
    BY DEF Inv, TargetsReach
  <2>3. ~Pending(k)
    BY <2>1 DEF Pending
  <2> QED
    BY <2>1, <2>2, <2>3 DEF WillHold
<1> QED
  BY <1>1, Invariant, PTL

\* A peer never sees an older value after a newer one while the main thread
\* does all writing.
THEOREM NeverGoesBack == Spec => NeverBack
<1> DEFINE Step == direct' = "never" =>
                     \A p \in connected', k \in Key : replica'[p][k].ver >= replica[p][k].ver
<1>1. ASSUME Inv, [Next]_vars PROVE [Step]_vars
  <2> SUFFICES ASSUME Next, direct' = "never", NEW p \in connected', NEW k \in Key
               PROVE  replica'[p][k].ver >= replica[p][k].ver
    BY <1>1
  <2>1. TypeOK /\ TypeOK'
    BY <1>1, StepInv DEF Inv
  <2>2. p \in Peer /\ replica[p][k].ver \in Nat /\ replica'[p][k].ver \in Nat
    <3>1. p \in Peer
      BY <2>1 DEF TypeOK
    <3>2. replica[p][k] \in Updates /\ replica'[p][k] \in Updates
      BY <2>1, <3>1 DEF TypeOK
    <3>3. \A x \in Updates : x.ver \in Nat
      BY SizeAssumption DEF Updates, Versions
    <3> QED
      BY <3>1, <3>2, <3>3
  <2>3. CASE replica' = replica
    BY <2>2, <2>3
  <2>4. ASSUME NEW q \in Peer, Deliver(q) PROVE replica'[p][k].ver >= replica[p][k].ver
    <3> DEFINE c == channel[q]
               msg == Head(c)
    <3>1. c # <<>> /\ direct = "never" /\ replica' = [replica EXCEPT ![q][msg.key] = msg]
      BY <2>4 DEF Deliver
    <3>2. 1 \in DOMAIN c /\ msg = c[1]
      <4>1. c \in Seq(Updates)
        BY <2>1 DEF TypeOK
      <4> HIDE DEF c
      <4> QED
        BY <3>1, <4>1
    <3>3. replica[q][msg.key].ver <= msg.ver
      <4>1. InOrder(q)
        BY <1>1, <3>1 DEF Inv, SentInOrder
      <4> QED
        BY <3>2, <4>1 DEF InOrder
    <3>4. replica \in [Peer -> [Key -> Updates]]
      BY <2>1 DEF TypeOK
    <3> HIDE DEF msg
    <3>5. CASE p = q /\ k = msg.key
      <4>1. replica'[p][k] = msg
        BY <3>1, <3>4, <3>5
      <4> QED
        BY <2>2, <3>3, <3>5, <4>1
    <3>6. CASE ~(p = q /\ k = msg.key)
      <4>1. replica'[p][k] = replica[p][k]
        BY <2>2, <3>1, <3>4, <3>6
      <4> QED
        BY <2>2, <4>1
    <3> QED
      BY <3>5, <3>6
  <2>5. ASSUME NEW q \in Peer, FreeSlot(q) PROVE replica'[p][k].ver >= replica[p][k].ver
    <3>1. p # q /\ replica'[p] = replica[p]
      BY <2>1, <2>2, <2>5 DEF FreeSlot, TypeOK
    <3> QED
      BY <2>2, <3>1
  <2>6. \/ replica' = replica
        \/ \E q \in Peer : Deliver(q) \/ FreeSlot(q)
    BY DEF Next, ScriptSet, HandlePacket, HandleServerPacket, RunTask, SetHooked, Send, CreateAcknowledged,
           Connect, RegisterTarget, SendAllInitial, AddRoutingTarget, RemoveRoutingTarget, SetRoutingTargets,
           SetOwningPeer, ConnectOnDrop, UnregisterTarget, peerVars
  <2> QED
    BY <2>3, <2>4, <2>5, <2>6
<1>2. Inv /\ [Next]_vars => [Step]_vars
  BY <1>1
<1>3. [][Step]_vars => NeverBack
  BY DEF NeverBack
<1> QED
  BY <1>2, <1>3, Invariant, PTL DEF Spec

\* The packets of clients take effect in the order in which they were accepted,
\* unless the removal of the last handler let one overtake.
THEOREM InAcceptedOrder == Spec => AcceptedOrder
<1> DEFINE Step == direct' # "overtaking" => \A k \in Key : data'[k].num >= data[k].num
<1>1. ASSUME Inv, [Next]_vars PROVE [Step]_vars
  <2> SUFFICES ASSUME Next, direct' # "overtaking", NEW k \in Key
               PROVE  data'[k].num >= data[k].num
    BY <1>1
  <2>1. TypeOK /\ data[k].num \in Nat /\ packets \in Nat
    BY <1>1, SizeAssumption DEF Inv, TypeOK, Versions
  <2>2. CASE data'[k].num = data[k].num
    BY <2>1, <2>2
  <2>3. /\ data[k].num <= packets
        /\ direct # "overtaking" => \A i \in DOMAIN tasks : data[k].num <= tasks[i].num
    BY <1>1 DEF Inv, TasksInOrder
  <2>4. ASSUME NEW j \in Key, NEW v, \E b : ScriptSet(j, v, b) \/ HandleServerPacket(j, v)
        PROVE  data'[k].num = data[k].num
    <3>1. \/ data' = data
          \/ \E n : data' = [data EXCEPT ![j] = [val |-> v, ver |-> n, num |-> data[j].num]]
      BY <2>4 DEF ScriptSet, HandleServerPacket, SetKeyInternal
    <3>2. DOMAIN data = Key
      BY <2>1 DEF TypeOK
    <3> QED
      BY <3>1, <3>2
  <2>5. ASSUME NEW p \in Peer, NEW j \in Key, NEW v, HandlePacket(p, j, v)
        PROVE  data'[k].num >= data[k].num
    <3>1. \/ data' = data
          \/ \E n : data' = [data EXCEPT ![j] = [val |-> v, ver |-> n, num |-> packets + 1]]
      BY <2>5 DEF HandlePacket, SetKeyInternal, bagVars
    <3>2. DOMAIN data = Key
      BY <2>1 DEF TypeOK
    <3>3. data'[k].num = data[k].num \/ data'[k].num = packets + 1
      BY <3>1, <3>2
    <3> QED
      BY <2>1, <2>3, <3>3
  <2>6. ASSUME NEW accept, RunTask(accept) PROVE data'[k].num >= data[k].num
    <3> DEFINE task == Head(tasks)
               Task == [key : Key, val : Val \cup {Nil}, num : Versions]
    <3>1. /\ tasks # <<>> /\ direct # "overtaking"
          /\ \/ data' = data
             \/ \E n : data' = [data EXCEPT ![task.key] = [val |-> task.val, ver |-> n, num |-> task.num]]
      BY <2>6 DEF RunTask, SetKeyInternal, bagVars
    <3>2. task = tasks[1] /\ 1 \in DOMAIN tasks /\ task \in Task
      <4>1. tasks \in Seq(Task)
        BY <2>1 DEF TypeOK
      <4> HIDE DEF Task
      <4> QED
        BY <3>1, <4>1
    <3> HIDE DEF task
    <3>3. data[k].num <= task.num /\ task.num \in Nat
      BY <2>3, <3>1, <3>2, SizeAssumption DEF Versions
    <3>4. DOMAIN data = Key
      BY <2>1 DEF TypeOK
    <3>5. data'[k].num = data[k].num \/ data'[k].num = task.num
      <4>1. CASE data' = data
        BY <4>1
      <4>2. ASSUME NEW n, data' = [data EXCEPT ![task.key] = [val |-> task.val, ver |-> n, num |-> task.num]]
            PROVE  data'[k].num = data[k].num \/ data'[k].num = task.num
        <5>1. data'[k] = IF k = task.key THEN [val |-> task.val, ver |-> n, num |-> task.num] ELSE data[k]
          BY <3>4, <4>2
        <5> QED
          BY <5>1
      <4> QED
        BY <3>1, <4>1, <4>2
    <3> QED
      BY <2>1, <3>3, <3>5
  <2>7. \/ data' = data
        \/ \E j \in Key, v \in Val \cup {Nil} :
             \/ \E b : ScriptSet(j, v, b) \/ HandleServerPacket(j, v)
             \/ \E p \in Peer : HandlePacket(p, j, v)
        \/ \E b : RunTask(b)
    BY DEF Next, SetHooked, Send, CreateAcknowledged, Deliver, Connect, RegisterTarget, SendAllInitial,
           ConnectOnDrop, UnregisterTarget, FreeSlot, AddRoutingTarget, RemoveRoutingTarget,
           SetRoutingTargets, SetOwningPeer, bagVars
  <2> QED
    BY <2>2, <2>4, <2>5, <2>6, <2>7
<1>2. Inv /\ [Next]_vars => [Step]_vars
  BY <1>1
<1>3. [][Step]_vars => AcceptedOrder
  BY DEF AcceptedOrder
<1> QED
  BY <1>2, <1>3, Invariant, PTL DEF Spec

=============================================================================
