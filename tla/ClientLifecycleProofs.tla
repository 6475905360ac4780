----------------------- MODULE ClientLifecycleProofs -----------------------
(***************************************************************************)
(* Theorems about ClientLifecycle, for every set of connections, guids,    *)
(* slots and peers.                                                        *)
(*                                                                         *)
(* What the proofs turn on is that no step brings a client back to life:   *)
(* every thread gets its reference from one that exists (Alive(d)' implies *)
(* Alive(d), for every step but MakeClient).  A removal therefore always   *)
(* concerns a living client, and a slot that counts as free is in nobody's *)
(* hands but a client's whose removal has reset it.  A removal that resets *)
(* a slot which another client has by now must be the second one at work   *)
(* on its client (TwiceNoted); and while a handshake gives a client its    *)
(* slot, only the main thread can be removing that client (Refused).       *)
(***************************************************************************)
EXTENDS ClientLifecycle, FiniteSetTheorems, TLAPS

\* m_clients has each client under its own guid.
Guids == \A g \in Guid : clients[g] # Nobody => GuidOf[clients[g]] = g

\* Where a connection is before its Client exists.
Early == {"new", "replace", "replaced"}

\* Before MakeClient there is no reference to the client, no id, slot or drop.
Fresh ==
  \A c \in Conn : pc[c] \in Early =>
    ~Alive(c) /\ netId[c] = Unset /\ slot[c] = NoSlot /\ ~dropping[c]

\* The calls of initConnect that have begun.
Begun == {c \in Conn : pc[c] # "new"}
Budget == Cardinality(Begun) <= MaxConn

\* A handshake that has found its client serves one that may join.
Serving ==
  net.step # "idle" => net.client \in Conn /\ net.peer \in PeerIds /\ passed[net.client]

\* A thread does one thing at a time.
Turns ==
  /\ net.step # "idle" => NotRemoving("net")
  /\ main # Nobody => NotRemoving("main")
  /\ checked["main"] # Nobody => NotRemoving("main") /\ main = Nobody

\* initConnect and the providers remove only clients that they refused, which no
\* handshake will serve.
Refused ==
  \A th \in {"http", "auth"}, c \in Conn : removing[th].client = c => pc[c] = "refused"

\* c waits in the queue of p for playerConnecting.
Asks(p, i, c) == i \in DOMAIN queue[p] /\ queue[p][i] = <<"connecting", c>>

\* The resources are asked once about a connection.
AskedOnce ==
  \A c \in Conn, p \in Producer : \A i \in DOMAIN queue[p] :
    Asks(p, i, c) =>
      /\ pc[c] = "connecting"
      /\ \A q \in Producer : \A j \in DOMAIN queue[q] : Asks(q, j, c) => q = p /\ j = i

\* What the resources have allowed stays allowed.
AllowedStays == \A c \in Conn : passed[c] => pc[c] = "allowed"

\* The connections that have their final net id.
Connected == {c \in Conn : HasConnected(c)}

\* Final ids are not given a second time in a behaviour.  m_curNetId goes round
\* after 65534 ids; a client that two threads remove at once has its entry reset
\* twice, and an id given anew between the two would lose its entry to the second.
EnoughNetIds == MaxConn <= MaxNetId

\* A client whose removal is past m_clients is not there.
Erased ==
  \A th \in Remover, c \in Conn : removing[th] = [client |-> c, step |-> "unassign"] =>
    ~InRegistry(c)

\* A client in the registry is found by its token, unless it is being removed.
TokenFound == \A c \in Conn : InRegistry(c) /\ pc[c] # "emplaced" => c \in byToken \/ Removing(c)

\* A removal of c that has reset the slot's alias.
SlotReset(c) ==
  \E th \in Remover : removing[th].client = c /\ removing[th].step \in {"erase", "unassign"}

\* A client with a slot is found by it until its removal resets the alias.
SlotFound ==
  \A c \in Conn : Alive(c) /\ slot[c] \notin doubly \cup {NoSlot} =>
    bySlot[slot[c]] = c \/ SlotReset(c)

\* Two removals of a client that has a slot are noted.
TwiceNoted ==
  \A t, u \in Remover, c \in Conn :
    t # u /\ removing[t].client = c /\ removing[u].client = c =>
      slot[c] \in doubly \cup {NoSlot}

\* The net ids given so far are 1 .. Cardinality(Connected), each to one client,
\* and a client in the registry is found by its id, unless it is being removed.
IdsInTurn ==
  EnoughNetIds =>
    /\ \A c \in Connected : netId[c] <= Cardinality(Connected)
    /\ \A c, d \in Connected : netId[c] = netId[d] => c = d
    /\ Cardinality(Connected) < MaxNetId => curNetId = Cardinality(Connected) + 1
    /\ \A i \in NetIds : byNetId[i] # Nobody => netId[byNetId[i]] = i
    /\ \A c \in Conn : InRegistry(c) /\ HasConnected(c) => byNetId[netId[c]] = c \/ Removing(c)

\* The inductive invariant.
Inv ==
  /\ TypeOK /\ Guids /\ Fresh /\ Budget /\ Serving /\ Turns /\ Refused /\ AskedOnce
  /\ AllowedStays /\ JoinsAllowed /\ Erased /\ TokenFound /\ SlotFound /\ TwiceNoted
  /\ IdsInTurn /\ DropPending
-----------------------------------------------------------------------------
(* Lookups *)

\* Going round from cur, only cur itself is at distance 0.
LEMMA Distance ==
  ASSUME TypeOK, NEW i \in NetIds
  PROVE  IdDistance(i) \in Nat /\ (IdDistance(i) = 0 <=> i = curNetId)
<1>1. ASSUME NEW n \in Nat \ {0}, NEW x \in 1 .. 2 * n - 1
      PROVE  x % n \in Nat /\ (x % n = 0 <=> x = n)
  <2>1. CASE x < n
    BY <2>1
  <2>2. CASE x >= n
    <3>1. x % n = x - n
      BY <2>2
    <3> QED
      BY <2>2, <3>1
  <2> QED
    BY <2>1, <2>2
<1>2. /\ MaxNetId \in Nat \ {0} /\ i \in 1 .. MaxNetId /\ curNetId \in 1 .. MaxNetId
      /\ i - curNetId + MaxNetId \in 1 .. 2 * MaxNetId - 1
  BY SizeAssumption DEF TypeOK, NetIds
<1> QED
  BY <1>1, <1>2 DEF IdDistance

-----------------------------------------------------------------------------
(* The queues of the main thread. *)

Kinds == {"connecting", "connected", "drop"}

\* A drop of c is posted.
Dropped(c) == \E p \in Producer : \E i \in DOMAIN queue[p] : queue[p][i] = <<"drop", c>>

\* What posting a callback adds to the queues.
LEMMA PostFacts ==
  ASSUME TypeOK, NEW p \in Producer, NEW kind \in Kinds, NEW c \in Conn, Post(p, kind, c)
  PROVE  /\ queue' \in [Producer -> Seq(Kinds \X Conn)]
         /\ \A d \in Conn : Posted(d)' => Posted(d) \/ d = c
         /\ \A d \in Conn : Dropped(d) => Dropped(d)'
         /\ kind = "drop" => Dropped(c)'
         /\ \A d \in Conn, q \in Producer : \A j \in DOMAIN queue'[q] : Asks(q, j, d)' =>
              \/ j \in DOMAIN queue[q] /\ Asks(q, j, d)
              \/ kind = "connecting" /\ d = c /\ q = p /\ j = Len(queue[p]) + 1
<1>1. /\ queue \in [Producer -> Seq(Kinds \X Conn)] /\ <<kind, c>> \in Kinds \X Conn
      /\ queue' = [queue EXCEPT ![p] = Append(@, <<kind, c>>)]
  BY DEF TypeOK, Kinds, Post
<1>2. ASSUME NEW q \in Producer, NEW j \in DOMAIN queue'[q]
      PROVE  \/ j \in DOMAIN queue[q] /\ queue'[q][j] = queue[q][j]
             \/ q = p /\ j = Len(queue[p]) + 1 /\ queue'[q][j] = <<kind, c>>
  <2>1. CASE q # p
    BY <1>1, <2>1
  <2>2. CASE q = p
    BY <1>1, <2>2
  <2> QED
    BY <2>1, <2>2
<1>3. queue' \in [Producer -> Seq(Kinds \X Conn)]
  BY <1>1
<1>4. \A d \in Conn : Posted(d)' => Posted(d) \/ d = c
  BY <1>2 DEF Posted
<1>5. ASSUME NEW d \in Conn, NEW q \in Producer, NEW j \in DOMAIN queue'[q], Asks(q, j, d)'
      PROVE  \/ j \in DOMAIN queue[q] /\ Asks(q, j, d)
             \/ kind = "connecting" /\ d = c /\ q = p /\ j = Len(queue[p]) + 1
  BY <1>2, <1>5 DEF Asks
<1>6. ASSUME NEW q \in Producer, NEW j \in DOMAIN queue[q]
      PROVE  j \in DOMAIN queue'[q] /\ queue'[q][j] = queue[q][j]
  <2>1. CASE q # p
    BY <1>1, <2>1
  <2>2. CASE q = p
    BY <1>1, <2>2
  <2> QED
    BY <2>1, <2>2
<1>7. Len(queue[p]) + 1 \in DOMAIN queue'[p] /\ queue'[p][Len(queue[p]) + 1] = <<kind, c>>
  BY <1>1
<1>8. \A d \in Conn : Dropped(d) => Dropped(d)'
  BY <1>6 DEF Dropped
<1>9. kind = "drop" => Dropped(c)'
  BY <1>7 DEF Dropped
<1> QED
  BY <1>3, <1>4, <1>5, <1>8, <1>9

\* What taking the first callback of a queue leaves in the queues.
LEMMA TakeFacts ==
  ASSUME TypeOK, NEW p \in Producer, NEW kind \in Kinds, NEW c \in Conn, Take(p, kind, c)
  PROVE  /\ queue' \in [Producer -> Seq(Kinds \X Conn)]
         /\ Posted(c) /\ 1 \in DOMAIN queue[p] /\ queue[p][1] = <<kind, c>>
         /\ \A d \in Conn : Posted(d)' => Posted(d)
         /\ \A d \in Conn : Dropped(d) => Dropped(d)' \/ (kind = "drop" /\ d = c)
         /\ \A q \in Producer : \A j \in DOMAIN queue'[q] :
              /\ j \in Nat \ {0}
              /\ q # p => j \in DOMAIN queue[q] /\ queue'[q][j] = queue[q][j]
              /\ q = p => j + 1 \in DOMAIN queue[q] /\ queue'[q][j] = queue[q][j + 1]
<1>1. /\ queue \in [Producer -> Seq(Kinds \X Conn)]
      /\ queue[p] # <<>> /\ Head(queue[p]) = <<kind, c>>
      /\ queue' = [queue EXCEPT ![p] = Tail(@)]
  BY DEF TypeOK, Kinds, Take
<1>2. 1 \in DOMAIN queue[p] /\ queue[p][1] = <<kind, c>>
  BY <1>1
<1>3. queue' \in [Producer -> Seq(Kinds \X Conn)]
  BY <1>1
<1>4. ASSUME NEW q \in Producer, NEW j \in DOMAIN queue'[q]
      PROVE  /\ j \in Nat \ {0}
             /\ q # p => j \in DOMAIN queue[q] /\ queue'[q][j] = queue[q][j]
             /\ q = p => j + 1 \in DOMAIN queue[q] /\ queue'[q][j] = queue[q][j + 1]
  <2>1. CASE q # p
    BY <1>1, <2>1
  <2>2. CASE q = p
    BY <1>1, <2>2
  <2> QED
    BY <2>1, <2>2
<1>5. \A d \in Conn : Posted(d)' => Posted(d)
  BY <1>4 DEF Posted
<1>6. Posted(c)
  BY <1>2 DEF Posted
<1>7. ASSUME NEW d \in Conn, NEW q \in Producer, NEW j \in DOMAIN queue[q],
             queue[q][j] = <<"drop", d>>
      PROVE  Dropped(d)' \/ (kind = "drop" /\ d = c)
  <2>1. CASE q # p
    BY <1>1, <1>7, <2>1 DEF Dropped
  <2>2. CASE q = p /\ j = 1
    BY <1>2, <1>7, <2>2
  <2>3. CASE q = p /\ j # 1
    <3>1. j - 1 \in DOMAIN queue'[q] /\ queue'[q][j - 1] = queue[q][j]
      BY <1>1, <2>3
    <3> QED
      BY <1>7, <3>1 DEF Dropped
  <2> QED
    BY <2>1, <2>2, <2>3
<1>8. \A d \in Conn : Dropped(d) => Dropped(d)' \/ (kind = "drop" /\ d = c)
  BY <1>7 DEF Dropped
<1> QED
  BY <1>2, <1>3, <1>4, <1>5, <1>6, <1>8

\* A connection that waits for its answer is asked about once, as long as
\* nothing is added to the queues.
LEMMA AskedKept ==
  ASSUME Inv,
         \A d \in Conn : pc[d] = "connecting" => pc'[d] = "connecting",
         \A d \in Conn, q \in Producer : \A j \in DOMAIN queue'[q] :
           Asks(q, j, d)' => j \in DOMAIN queue[q] /\ Asks(q, j, d)
  PROVE  AskedOnce'
<1> SUFFICES ASSUME NEW c \in Conn, NEW p \in Producer, NEW i \in DOMAIN queue'[p], Asks(p, i, c)',
                    NEW q \in Producer, NEW j \in DOMAIN queue'[q]
             PROVE  pc'[c] = "connecting" /\ (Asks(q, j, c)' => q = p /\ j = i)
  BY DEF AskedOnce
<1> QED
  BY DEF Inv, AskedOnce

\* The same when the main thread takes a callback, for every connection but
\* the one that is answered.
LEMMA AskedTaken ==
  ASSUME Inv, NEW p \in Producer, NEW kind \in Kinds, NEW c \in Conn, Take(p, kind, c),
         \A d \in Conn : pc[d] = "connecting" /\ (d # c \/ kind # "connecting") =>
                          pc'[d] = "connecting"
  PROVE  AskedOnce'
<1>0. TypeOK
  BY DEF Inv
<1>1. \A q \in Producer : \A j \in DOMAIN queue'[q] :
         /\ j \in Nat \ {0}
         /\ q # p => j \in DOMAIN queue[q] /\ queue'[q][j] = queue[q][j]
         /\ q = p => j + 1 \in DOMAIN queue[q] /\ queue'[q][j] = queue[q][j + 1]
  BY <1>0, TakeFacts
<1>2. 1 \in DOMAIN queue[p] /\ queue[p][1] = <<kind, c>>
  BY <1>0, TakeFacts
<1> DEFINE Old(q, j) == IF q = p THEN j + 1 ELSE j
<1>3. ASSUME NEW d \in Conn, NEW q \in Producer, NEW j \in DOMAIN queue'[q], Asks(q, j, d)'
      PROVE  Old(q, j) \in DOMAIN queue[q] /\ Asks(q, Old(q, j), d)
  BY <1>1, <1>3 DEF Asks
<1>4. ASSUME NEW d \in Conn, NEW q \in Producer, NEW j \in DOMAIN queue'[q], Asks(q, j, d)'
      PROVE  pc'[d] = "connecting"
  <2>1. Old(q, j) \in DOMAIN queue[q] /\ Asks(q, Old(q, j), d) /\ j \in Nat \ {0}
    BY <1>1, <1>3, <1>4
  <2>2. pc[d] = "connecting"
    BY <2>1 DEF Inv, AskedOnce
  <2>3. CASE d = c /\ kind = "connecting"
    <3>1. Asks(p, 1, d)
      BY <1>2, <2>3 DEF Asks
    <3>2. q = p /\ Old(q, j) = 1
      <4> HIDE DEF Old
      <4> QED
        BY <1>2, <2>1, <3>1 DEF Inv, AskedOnce
    <3> QED
      BY <2>1, <3>2
  <2> QED
    BY <2>2, <2>3
<1> SUFFICES ASSUME NEW d \in Conn, NEW r \in Producer, NEW i \in DOMAIN queue'[r], Asks(r, i, d)',
                    NEW q \in Producer, NEW j \in DOMAIN queue'[q], Asks(q, j, d)'
             PROVE  q = r /\ j = i
  BY <1>4 DEF AskedOnce
<1>5. /\ Old(r, i) \in DOMAIN queue[r] /\ Asks(r, Old(r, i), d)
      /\ Old(q, j) \in DOMAIN queue[q] /\ Asks(q, Old(q, j), d)
      /\ i \in Nat /\ j \in Nat
  BY <1>1, <1>3
<1>6. q = r /\ Old(q, j) = Old(r, i)
  <2> HIDE DEF Old
  <2> QED
    BY <1>5 DEF Inv, AskedOnce
<1> QED
  BY <1>5, <1>6

-----------------------------------------------------------------------------
(* Steps that leave m_clients and its lookups alone: a thread may enter a  *)
(* removal.                                                                *)

\* No removal goes on, and one that begins is of a living client.
Beginning ==
  /\ doubly \subseteq doubly'
  /\ \A th \in Remover :
       \/ removing'[th] = removing[th]
       \/ /\ removing[th].client = Nobody
          /\ removing'[th].step = "netId"
          /\ \E c \in Conn : removing'[th].client = c /\ Alive(c)
  /\ TwiceNoted'

\* Entering RemoveClient.
LEMMA RemoveClientFacts ==
  ASSUME Inv, NEW th \in Remover, NEW c \in Conn, RemoveClient(th, c), NotRemoving(th),
         Alive(c), UNCHANGED slot
  PROVE  /\ Beginning
         /\ byPeer' \in [PeerIds -> Conn \cup {Nobody}]
         /\ removing' \in [Remover -> [client : Conn \cup {Nobody},
                step : {"netId", "slot", "erase", "unassign", "done"}]]
         /\ doubly' \subseteq Slots \cup {NoSlot}
         /\ onDrop' \subseteq Conn
         /\ \A d \in Conn : Removing(d)' => Removing(d) \/ d = c
         /\ removing' = [removing EXCEPT ![th] = [client |-> c, step |-> "netId"]]
<1>1. /\ removing' = [removing EXCEPT ![th] = [client |-> c, step |-> "netId"]]
      /\ doubly' = IF Removing(c) THEN doubly \cup {slot[c]} ELSE doubly
      /\ onDrop' = IF dropping[c] THEN onDrop ELSE onDrop \cup {c}
      /\ byPeer' = [q \in PeerIds |-> IF q = peer[c] THEN Nobody ELSE byPeer[q]]
  BY DEF RemoveClient
<1>2. /\ removing \in [Remover -> [client : Conn \cup {Nobody},
                step : {"netId", "slot", "erase", "unassign", "done"}]]
      /\ doubly \subseteq Slots \cup {NoSlot} /\ onDrop \subseteq Conn
      /\ byPeer \in [PeerIds -> Conn \cup {Nobody}]
      /\ slot \in [Conn -> Slots \cup {NoSlot}]
  BY DEF Inv, TypeOK
<1>3. \A t \in Remover : t # th => removing'[t] = removing[t]
  BY <1>1, <1>2
<1>4. removing'[th].client = c /\ removing'[th].step = "netId" /\ removing[th].client = Nobody
  BY <1>1, <1>2 DEF NotRemoving
<1>5. TwiceNoted'
  <2> SUFFICES ASSUME NEW t \in Remover, NEW u \in Remover, NEW d \in Conn, t # u,
                      removing'[t].client = d, removing'[u].client = d
               PROVE  slot[d] \in doubly' \cup {NoSlot}
    BY DEF TwiceNoted
  <2>1. CASE t # th /\ u # th
    BY <1>1, <1>3, <2>1 DEF Inv, TwiceNoted
  <2>2. CASE t = th \/ u = th
    <3>1. d = c /\ Removing(c)
      BY <1>3, <1>4, <2>2 DEF Removing
    <3> QED
      BY <1>1, <3>1
  <2> QED
    BY <2>1, <2>2
<1>6. Beginning
  BY <1>1, <1>3, <1>4, <1>5 DEF Beginning
<1>7. \A d \in Conn : Removing(d)' => Removing(d) \/ d = c
  BY <1>3, <1>4 DEF Removing
<1> QED
  BY <1>1, <1>2, <1>6, <1>7

\* What begins is no step of a removal that has begun.
LEMMA BeginningFacts ==
  ASSUME Inv, Beginning
  PROVE  /\ \A c \in Conn : Removing(c) => Removing(c)'
         /\ \A c \in Conn : SlotReset(c) => SlotReset(c)'
         /\ \A c \in Conn : Removing(c)' => Removing(c) \/ Alive(c)
         /\ \A th \in Remover, c \in Conn :
              removing'[th] = [client |-> c, step |-> "unassign"] =>
                removing[th] = [client |-> c, step |-> "unassign"]
<1>1. \A th \in Remover, c \in Conn : removing[th].client = c => removing'[th] = removing[th]
  BY ConnAssumption DEF Beginning
<1>2. \A c \in Conn : Removing(c) => Removing(c)'
  BY <1>1 DEF Removing
<1>3. \A c \in Conn : SlotReset(c) => SlotReset(c)'
  BY <1>1 DEF SlotReset
<1>4. \A c \in Conn : Removing(c)' => Removing(c) \/ Alive(c)
  BY DEF Removing, Beginning
<1>5. ASSUME NEW th \in Remover, NEW c \in Conn,
             removing'[th] = [client |-> c, step |-> "unassign"]
      PROVE  removing[th] = [client |-> c, step |-> "unassign"]
  <2>1. removing'[th].step # "netId"
    BY <1>5
  <2> QED
    BY <1>5, <2>1 DEF Beginning
<1> QED
  BY <1>2, <1>3, <1>4, <1>5

\* The progress of initConnect that the invariant allows without further ado.
Onward ==
  \A c \in Conn :
    /\ pc[c] \in {"allowed", "refused", "emplaced"} => pc'[c] = pc[c]
    /\ pc'[c] \in {"emplaced", "auth"} => pc[c] = pc'[c]
    /\ pc'[c] \in Early => pc[c] \in Early

\* No initConnect begins.
LEMMA SameBegun ==
  ASSUME Inv, \A c \in Conn : pc'[c] = "new" <=> pc[c] = "new"
  PROVE  Budget'
<1>1. Begun' = Begun
  BY DEF Begun
<1> QED
  BY <1>1 DEF Inv, Budget

\* No lookup changes while m_clients, the ids and the slots stay as they are.
LEMMA Lookups ==
  ASSUME Inv, Beginning, Onward, UNCHANGED <<ownedVars, netId, slot, curNetId>>,
         \A d \in Conn : Alive(d)' => Alive(d)
  PROVE  Guids' /\ Erased' /\ TokenFound' /\ SlotFound' /\ TwiceNoted' /\ IdsInTurn'
<1>0. UNCHANGED <<clients, byNetId, bySlot, byToken, netId, slot, curNetId>>
  BY DEF ownedVars
<1>1. /\ Connected' = Connected
      /\ \A d \in Conn : (HasConnected(d)' <=> HasConnected(d)) /\ (InRegistry(d)' <=> InRegistry(d))
  BY <1>0 DEF Connected, HasConnected, InRegistry
<1>2. /\ \A c \in Conn : Removing(c) => Removing(c)'
      /\ \A c \in Conn : SlotReset(c) => SlotReset(c)'
      /\ \A th \in Remover, c \in Conn :
           removing'[th] = [client |-> c, step |-> "unassign"] =>
             removing[th] = [client |-> c, step |-> "unassign"]
  BY BeginningFacts
<1>3. Guids'
  BY <1>0 DEF Inv, Guids
<1>4. Erased'
  BY <1>1, <1>2 DEF Inv, Erased
<1>5. TokenFound'
  BY <1>0, <1>1, <1>2 DEF Inv, TokenFound, Onward
<1>6. SlotFound'
  <2> SUFFICES ASSUME NEW c \in Conn, Alive(c)', slot'[c] \notin doubly' \cup {NoSlot}
               PROVE  bySlot'[slot'[c]] = c \/ SlotReset(c)'
    BY DEF SlotFound
  <2>1. Alive(c) /\ slot[c] \notin doubly \cup {NoSlot}
    BY <1>0 DEF Beginning
  <2>2. bySlot[slot[c]] = c \/ SlotReset(c)
    BY <2>1 DEF Inv, SlotFound
  <2> QED
    BY <1>0, <1>2, <2>2
<1>7. IdsInTurn'
  BY <1>0, <1>1, <1>2 DEF Inv, IdsInTurn
<1> QED
  BY <1>3, <1>4, <1>5, <1>6, <1>7 DEF Beginning

\* The rest of the invariant, for steps that give no id and no permission.
LEMMA Rest ==
  ASSUME Inv, Onward, UNCHANGED <<passed, netId, slot>>,
         net' = net \/ net' = IdleNet,
         \A c \in Conn : pc[c] \in Early => (dropping'[c] <=> dropping[c]),
         \A d \in Conn : Alive(d)' => Alive(d)
  PROVE  Fresh' /\ Serving' /\ AllowedStays' /\ JoinsAllowed'
<1>1. Serving'
  BY DEF Inv, Serving, IdleNet
<1>2. Fresh'
  BY DEF Inv, Fresh, Onward, Unset
<1>3. AllowedStays'
  BY DEF Inv, AllowedStays, Onward
<1>4. JoinsAllowed'
  BY DEF Inv, JoinsAllowed, HasConnected
<1> QED
  BY <1>1, <1>2, <1>3, <1>4

\* What is refused stays refused.
LEMMA RefusedKept ==
  ASSUME Inv, Onward, UNCHANGED removing
  PROVE  Refused'
<1>1. \A c \in Conn : pc[c] = "refused" => pc'[c] = "refused"
  BY DEF Onward
<1> QED
  BY <1>1 DEF Inv, Refused

\* Drops that are pending stay so.
LEMMA DropsKept ==
  ASSUME Inv, Beginning, UNCHANGED <<clients, dropping>>,
         \A d \in Conn : Dropped(d) => Dropped(d)' \/ main' = d,
         \A d \in Conn : main = d => main' = d \/ removing'["main"].client = d
  PROVE  DropPending'
<1>1. \A d \in Conn : InRegistry(d)' => InRegistry(d)
  BY DEF InRegistry
<1>2. \A d \in Conn : removing["main"].client = d => removing'["main"].client = d
  BY ConnAssumption DEF Beginning, Remover
<1> SUFFICES ASSUME NEW c \in Conn, dropping'[c], InRegistry(c)'
             PROVE  Dropped(c)' \/ main' = c \/ removing'["main"].client = c
  BY DEF DropPending, Dropped
<1>3. Dropped(c) \/ main = c \/ removing["main"].client = c
  BY <1>1 DEF Inv, DropPending, Dropped
<1> QED
  BY <1>2, <1>3

\* Nothing is removed and nothing begins.
LEMMA NothingBegins ==
  ASSUME Inv, UNCHANGED <<removing, doubly, slot>>
  PROVE  Beginning /\ \A d \in Conn : Removing(d)' <=> Removing(d)
<1>1. TwiceNoted'
  BY DEF Inv, TwiceNoted
<1> QED
  BY <1>1 DEF Beginning, Removing

\* Steps that leave the lookups alone.
LEMMA QueueStep ==
  ASSUME Inv, TypeOK', Budget', AskedOnce', DropPending', Turns', Refused', Onward, Beginning,
         UNCHANGED <<ownedVars, netId, slot, curNetId, passed>>, net' = net \/ net' = IdleNet,
         \A c \in Conn : pc[c] \in Early => (dropping'[c] <=> dropping[c]),
         \A d \in Conn : Alive(d)' => Alive(d)
  PROVE  Inv'
<1>1. Guids' /\ Erased' /\ TokenFound' /\ SlotFound' /\ TwiceNoted' /\ IdsInTurn'
  BY Lookups
<1>2. Fresh' /\ Serving' /\ AllowedStays' /\ JoinsAllowed'
  BY Rest
<1> QED
  BY <1>1, <1>2 DEF Inv

\* The queues stay as they are.
LEMMA SameQueue ==
  ASSUME Inv, UNCHANGED queue, \A d \in Conn : pc[d] = "connecting" => pc'[d] = "connecting"
  PROVE  /\ AskedOnce'
         /\ \A d \in Conn : (Posted(d)' <=> Posted(d)) /\ (Dropped(d)' <=> Dropped(d))
<1>1. \A d \in Conn, q \in Producer : \A j \in DOMAIN queue'[q] :
        Asks(q, j, d)' => j \in DOMAIN queue[q] /\ Asks(q, j, d)
  BY DEF Asks
<1>2. AskedOnce'
  BY <1>1, AskedKept
<1> QED
  BY <1>2 DEF Posted, Dropped

\* Steps that change neither the lookups nor the queues nor a removal.
LEMMA SmallStep ==
  ASSUME Inv, TypeOK', Budget', Turns', Onward,
         UNCHANGED <<ownedVars, netId, slot, curNetId, passed, queue, dropping, main, removing, doubly>>,
         net' = net \/ net' = IdleNet,
         \A d \in Conn : pc[d] = "connecting" => pc'[d] = "connecting",
         \A d \in Conn : Alive(d)' => Alive(d)
  PROVE  Inv'
<1>1. AskedOnce' /\ \A d \in Conn : Dropped(d)' <=> Dropped(d)
  BY SameQueue
<1>2. Refused' /\ Beginning
  BY RefusedKept, NothingBegins
<1>3. DropPending'
  BY <1>1, <1>2, DropsKept DEF ownedVars
<1> QED
  BY <1>1, <1>2, <1>3, QueueStep

-----------------------------------------------------------------------------
(* The steps of the HTTP thread. *)

Places == {"new", "replace", "replaced", "emplaced", "auth", "connecting", "deferred",
           "allowed", "refused"}

\* Looking for the client that a new connection replaces.
LEMMA InitConnectInv ==
  ASSUME Inv, NEW c \in Conn, InitConnect(c)
  PROVE  Inv'
<1> DEFINE old == clients[GuidOf[c]]
<1>1. /\ UNCHANGED <<ownedVars, byPeer, netId, peer, slot, dropping, passed, curNetId,
                     queue, main, net, removing, doubly, lastPeer, remote, onDrop>>
      /\ pc[c] = "new" /\ pc \in [Conn -> Places] /\ Cardinality(Begun) < MaxConn
      /\ \/ old # Nobody /\ pc' = [pc EXCEPT ![c] = "replace"] /\ checked' = [checked EXCEPT !["http"] = old]
         \/ pc' = [pc EXCEPT ![c] = "replaced"] /\ checked' = checked
  BY DEF InitConnect, Goto, Inv, TypeOK, Places, Begun, registryVars, clientVars, enetVars
<1>2. old \in Conn \cup {Nobody} /\ (old # Nobody => old \in Conn /\ InRegistry(old))
  BY ConnAssumption DEF Inv, TypeOK, Guids, InRegistry
<1>3. TypeOK'
  <2>1. pc' \in [Conn -> Places] /\ checked' \in [Thread -> Conn \cup {Nobody}]
    <3>1. checked \in [Thread -> Conn \cup {Nobody}] /\ pc \in [Conn -> Places]
      BY <1>1 DEF Inv, TypeOK
    <3> HIDE DEF old
    <3>2. pc' \in [Conn -> Places]
      BY <1>1, <3>1 DEF Places
    <3> QED
      BY <1>1, <1>2, <3>1, <3>2
  <2> QED
    BY <1>1, <2>1 DEF Inv, TypeOK, Places, ownedVars
<1>4. ASSUME NEW d \in Conn, Alive(d)' PROVE Alive(d)
  <2>1. checked \in [Thread -> Conn \cup {Nobody}]
    BY DEF Inv, TypeOK
  <2>2. ASSUME NEW th \in Thread, checked'[th] = d PROVE checked[th] = d \/ InRegistry(d)
    BY <1>1, <1>2, <2>1, <2>2 DEF Thread
  <2>3. pc'[d] \in {"emplaced", "auth"} => pc[d] \in {"emplaced", "auth"}
    BY <1>1
  <2> QED
    BY <1>1, <1>4, <2>2, <2>3 DEF Alive, Posted, InRegistry, Removing, ownedVars
<1>5. Onward /\ \A d \in Conn : pc[d] = "connecting" => pc'[d] = "connecting"
  BY <1>1 DEF Onward, Early, Places
<1>6. Budget'
  <2>1. Begun' = Begun \cup {c} /\ c \notin Begun /\ IsFiniteSet(Begun)
    BY <1>1, ConnAssumption, FS_Subset DEF Begun
  <2>2. Cardinality(Begun') = Cardinality(Begun) + 1 /\ Cardinality(Begun) \in Nat
    BY <2>1, FS_AddElement, FS_CardinalityType
  <2> QED
    BY <1>1, <2>2, SizeAssumption DEF Budget
<1>7. Turns'
  <2>1. checked'["main"] = checked["main"]
    BY <1>1 DEF Inv, TypeOK, Thread
  <2> QED
    BY <1>1, <2>1 DEF Inv, Turns, NotRemoving
<1> QED
  BY <1>1, <1>3, <1>4, <1>5, <1>6, <1>7, SmallStep

\* The Client is made, and put into m_clients if the guid is free.
LEMMA MakeClientInv ==
  ASSUME Inv, NEW c \in Conn, MakeClient(c)
  PROVE  Inv'
<1>1. /\ UNCHANGED <<byNetId, byPeer, bySlot, byToken, netId, peer, slot, dropping, passed, curNetId,
                     queue, checked, main, net, removing, doubly, lastPeer, remote, onDrop>>
      /\ pc[c] = "replaced" /\ pc' = [pc EXCEPT ![c] = "emplaced"]
      /\ clients' = [clients EXCEPT ![GuidOf[c]] = IF @ = Nobody THEN c ELSE @]
  BY DEF MakeClient, Goto, threadVars, enetVars, clientVars
<1>2. /\ pc \in [Conn -> Places]
      /\ clients \in [Guid -> Conn \cup {Nobody}]
      /\ GuidOf \in [Conn -> Guid] /\ Nobody \notin Conn
  BY ConnAssumption DEF Inv, TypeOK, Places
<1>3. ~Alive(c) /\ netId[c] = Unset /\ slot[c] = NoSlot /\ ~dropping[c]
  BY <1>1 DEF Inv, Fresh, Early
<1>4. TypeOK'
  BY <1>1, <1>2 DEF Inv, TypeOK, Places
<1>5. \A d \in Conn : InRegistry(d)' => InRegistry(d) \/ d = c
  BY <1>1, <1>2 DEF InRegistry
<1>6. \A d \in Conn : Removing(d)' <=> Removing(d)
  BY <1>1 DEF Removing
<1>7. \A d \in Conn : pc[d] = "connecting" => pc'[d] = "connecting"
  BY <1>1, <1>2
<1>8. AskedOnce' /\ \A d \in Conn : (Posted(d)' <=> Posted(d)) /\ (Dropped(d)' <=> Dropped(d))
  BY <1>1, <1>7, SameQueue
<1>9. \A d \in Conn : Alive(d)' => Alive(d) \/ d = c
  <2>1. \A d \in Conn : pc'[d] \in {"emplaced", "auth"} => pc[d] \in {"emplaced", "auth"} \/ d = c
    BY <1>1, <1>2
  <2> QED
    BY <1>1, <1>5, <1>6, <1>8, <2>1 DEF Alive
<1>10. Fresh'
  <2> SUFFICES ASSUME NEW d \in Conn, pc'[d] \in Early
               PROVE  ~Alive(d)' /\ netId'[d] = Unset /\ slot'[d] = NoSlot /\ ~dropping'[d]
    BY DEF Fresh
  <2>1. d # c /\ pc[d] \in Early
    BY <1>1, <1>2 DEF Early
  <2> QED
    BY <1>1, <1>9, <2>1 DEF Inv, Fresh
<1>11. Guids'
  BY <1>1, <1>2 DEF Inv, Guids
<1>12. ~Removing(c)
  BY <1>3 DEF Alive
<1>13. Erased'
  <2> SUFFICES ASSUME NEW th \in Remover, NEW d \in Conn,
                      removing'[th] = [client |-> d, step |-> "unassign"]
               PROVE  ~InRegistry(d)'
    BY DEF Erased
  <2>1. removing[th] = [client |-> d, step |-> "unassign"]
    BY <1>1
  <2>2. ~InRegistry(d)
    BY <2>1 DEF Inv, Erased
  <2>3. Removing(d)
    BY <2>1 DEF Removing
  <2> QED
    BY <1>5, <1>12, <2>2, <2>3
<1>14. TokenFound'
  <2> SUFFICES ASSUME NEW d \in Conn, InRegistry(d)', pc'[d] # "emplaced"
               PROVE  d \in byToken' \/ Removing(d)'
    BY DEF TokenFound
  <2>1. d # c /\ InRegistry(d) /\ pc[d] # "emplaced"
    BY <1>1, <1>2, <1>5
  <2> QED
    BY <1>1, <1>6, <2>1 DEF Inv, TokenFound
<1>15. SlotFound'
  <2> SUFFICES ASSUME NEW d \in Conn, Alive(d)', slot'[d] \notin doubly' \cup {NoSlot}
               PROVE  bySlot'[slot'[d]] = d \/ SlotReset(d)'
    BY DEF SlotFound
  <2>1. Alive(d) /\ slot[d] \notin doubly \cup {NoSlot}
    BY <1>1, <1>3, <1>9
  <2>2. bySlot[slot[d]] = d \/ SlotReset(d)
    BY <2>1 DEF Inv, SlotFound
  <2>3. SlotReset(d) => SlotReset(d)'
    BY <1>1 DEF SlotReset
  <2> QED
    BY <1>1, <2>2, <2>3
<1>16. TwiceNoted'
  BY <1>1 DEF Inv, TwiceNoted
<1>17. Connected' = Connected /\ \A d \in Conn : HasConnected(d)' <=> HasConnected(d)
  BY <1>1 DEF Connected, HasConnected
<1>18. ~HasConnected(c)
  BY <1>3 DEF HasConnected, Unset, NetIds
<1>19. IdsInTurn'
  <2> SUFFICES ASSUME EnoughNetIds PROVE IdsInTurn'
    BY DEF IdsInTurn
  <2>1. ASSUME NEW d \in Conn, InRegistry(d)', HasConnected(d)'
        PROVE  byNetId'[netId'[d]] = d \/ Removing(d)'
    <3>1. InRegistry(d) /\ HasConnected(d)
      BY <1>5, <1>17, <1>18, <2>1
    <3>2. byNetId[netId[d]] = d \/ Removing(d)
      BY <3>1 DEF Inv, IdsInTurn
    <3> QED
      BY <1>1, <1>6, <3>2
  <2>2. /\ \A d \in Connected : netId[d] <= Cardinality(Connected)
        /\ \A d, e \in Connected : netId[d] = netId[e] => d = e
        /\ Cardinality(Connected) < MaxNetId => curNetId = Cardinality(Connected) + 1
        /\ \A i \in NetIds : byNetId[i] # Nobody => netId[byNetId[i]] = i
    BY DEF Inv, IdsInTurn
  <2>3. Cardinality(Connected') = Cardinality(Connected)
    BY <1>17
  <2> QED
    BY <1>1, <1>17, <2>1, <2>2, <2>3 DEF IdsInTurn
<1>20. Serving' /\ Turns' /\ JoinsAllowed'
  BY <1>1 DEF Inv, Serving, Turns, NotRemoving, JoinsAllowed, HasConnected
<1>21. Refused' /\ AllowedStays'
  BY <1>1, <1>2 DEF Inv, Refused, AllowedStays
<1>22. Budget'
  <2>1. \A d \in Conn : pc'[d] = "new" <=> pc[d] = "new"
    BY <1>1, <1>2
  <2> QED
    BY <2>1, SameBegun
<1>23. DropPending'
  <2> SUFFICES ASSUME NEW d \in Conn, dropping'[d], InRegistry(d)'
               PROVE  Dropped(d)' \/ main' = d \/ removing'["main"].client = d
    BY DEF DropPending, Dropped
  <2>1. dropping[d] /\ InRegistry(d)
    BY <1>1, <1>3, <1>5
  <2>2. Dropped(d) \/ main = d \/ removing["main"].client = d
    BY <2>1 DEF Inv, DropPending, Dropped
  <2> QED
    BY <1>1, <1>8, <2>2
<1> QED
  BY <1>4, <1>8, <1>10, <1>11, <1>13, <1>14, <1>15, <1>16, <1>19, <1>20, <1>21, <1>22, <1>23 DEF Inv

\* The Client gets its token and its temporary id.
LEMMA SetConnectionTokenInv ==
  ASSUME Inv, NEW c \in Conn, SetConnectionToken(c)
  PROVE  Inv'
<1>1. /\ UNCHANGED <<clients, byNetId, byPeer, bySlot, peer, slot, dropping, passed, curNetId,
                     queue, checked, main, net, removing, doubly, lastPeer, remote, onDrop>>
      /\ pc[c] = "emplaced" /\ \E l \in {"auth", "refused"} : pc' = [pc EXCEPT ![c] = l]
      /\ byToken' = byToken \cup {c}
      /\ netId' = [netId EXCEPT ![c] = Temp]
  BY DEF SetConnectionToken, Goto, threadVars, enetVars
<1>2. /\ pc \in [Conn -> Places] /\ netId \in [Conn -> 0 .. Temp]
      /\ MaxNetId \in Nat \ {0} /\ Temp = MaxNetId + 1 /\ Temp \notin NetIds /\ Temp \in 0 .. Temp
  BY SizeAssumption DEF Inv, TypeOK, Places, Temp, NetIds
<1>3. ~passed[c] /\ ~HasConnected(c) /\ Alive(c)
  BY <1>1 DEF Inv, AllowedStays, JoinsAllowed, Alive
<1>4. TypeOK'
  BY <1>1, <1>2 DEF Inv, TypeOK, Places
<1>5. \A d \in Conn : InRegistry(d)' <=> InRegistry(d)
  BY <1>1 DEF InRegistry
<1>6. \A d \in Conn : Removing(d)' <=> Removing(d)
  BY <1>1 DEF Removing
<1>7. \A d \in Conn : pc[d] = "connecting" => pc'[d] = "connecting"
  BY <1>1, <1>2
<1>8. AskedOnce' /\ \A d \in Conn : (Posted(d)' <=> Posted(d)) /\ (Dropped(d)' <=> Dropped(d))
  BY <1>1, <1>7, SameQueue
<1>9. \A d \in Conn : Alive(d)' => Alive(d)
  <2>1. \A d \in Conn : pc'[d] \in {"emplaced", "auth"} => pc[d] \in {"emplaced", "auth"}
    BY <1>1, <1>2
  <2> QED
    BY <1>1, <1>5, <1>6, <1>8, <2>1 DEF Alive
<1>10. Fresh'
  <2> SUFFICES ASSUME NEW d \in Conn, pc'[d] \in Early
               PROVE  ~Alive(d)' /\ netId'[d] = Unset /\ slot'[d] = NoSlot /\ ~dropping'[d]
    BY DEF Fresh
  <2>1. d # c /\ pc[d] \in Early
    BY <1>1, <1>2 DEF Early
  <2> QED
    BY <1>1, <1>2, <1>9, <2>1 DEF Inv, Fresh
<1>11. Guids' /\ Erased' /\ TwiceNoted' /\ Serving' /\ Turns'
  BY <1>1, <1>5 DEF Inv, Guids, Erased, TwiceNoted, Serving, Turns, NotRemoving
<1>12. TokenFound'
  <2>1. \A d \in Conn : d # c => pc'[d] = pc[d]
    BY <1>1, <1>2
  <2> QED
    BY <1>1, <1>5, <1>6, <2>1 DEF Inv, TokenFound
<1>13. SlotFound'
  <2> SUFFICES ASSUME NEW d \in Conn, Alive(d)', slot'[d] \notin doubly' \cup {NoSlot}
               PROVE  bySlot'[slot'[d]] = d \/ SlotReset(d)'
    BY DEF SlotFound
  <2>1. Alive(d) /\ slot[d] \notin doubly \cup {NoSlot}
    BY <1>1, <1>9
  <2>2. bySlot[slot[d]] = d \/ SlotReset(d)
    BY <2>1 DEF Inv, SlotFound
  <2>3. SlotReset(d) => SlotReset(d)'
    BY <1>1 DEF SlotReset
  <2> QED
    BY <1>1, <2>2, <2>3
<1>14. \A d \in Conn : HasConnected(d)' <=> HasConnected(d)
  BY <1>1, <1>2, <1>3 DEF HasConnected
<1>15. Connected' = Connected /\ c \notin Connected /\ (\A d \in Connected : netId'[d] = netId[d])
  BY <1>1, <1>2, <1>3, <1>14 DEF Connected, HasConnected
<1>16. IdsInTurn'
  <2> SUFFICES ASSUME EnoughNetIds PROVE IdsInTurn'
    BY DEF IdsInTurn
  <2>1. \A i \in NetIds : byNetId[i] # Nobody => byNetId[i] \in Conn /\ byNetId[i] # c
    BY <1>3 DEF Inv, TypeOK, IdsInTurn, HasConnected
  <2>2. \A i \in NetIds : byNetId'[i] # Nobody => netId'[byNetId'[i]] = i
    BY <1>1, <1>2, <2>1 DEF Inv, IdsInTurn
  <2>3. ASSUME NEW d \in Conn, InRegistry(d)', HasConnected(d)'
        PROVE  byNetId'[netId'[d]] = d \/ Removing(d)'
    <3>1. d \in Connected /\ HasConnected(d) /\ InRegistry(d)
      BY <1>5, <1>14, <2>3 DEF Connected
    <3>2. byNetId[netId[d]] = d \/ Removing(d)
      BY <3>1 DEF Inv, IdsInTurn
    <3> QED
      BY <1>1, <1>6, <1>15, <3>1, <3>2
  <2>4. curNetId' = curNetId
    BY <1>1
  <2> QED
    BY <1>15, <2>2, <2>3, <2>4 DEF Inv, IdsInTurn
<1>17. Refused' /\ AllowedStays'
  BY <1>1, <1>2, <1>3 DEF Inv, Refused, AllowedStays
<1>18. JoinsAllowed'
  BY <1>1, <1>14 DEF Inv, JoinsAllowed
<1>19. Budget'
  <2>1. \A d \in Conn : pc'[d] = "new" <=> pc[d] = "new"
    BY <1>1, <1>2
  <2> QED
    BY <2>1, SameBegun
<1>20. DropPending'
  <2> SUFFICES ASSUME NEW d \in Conn, dropping'[d], InRegistry(d)'
               PROVE  Dropped(d)' \/ main' = d \/ removing'["main"].client = d
    BY DEF DropPending, Dropped
  <2>1. Dropped(d) \/ main = d \/ removing["main"].client = d
    BY <1>1, <1>5 DEF Inv, DropPending, Dropped
  <2> QED
    BY <1>1, <1>8, <2>1
<1> QED
  BY <1>4, <1>8, <1>10, <1>11, <1>12, <1>13, <1>16, <1>17, <1>18, <1>19, <1>20 DEF Inv

\* A connection whose authentication fails is removed.
LEMMA AuthenticationFailsInv ==
  ASSUME Inv, NEW c \in Conn, AuthenticationFails(c)
  PROVE  Inv'
<1>1. /\ UNCHANGED <<ownedVars, netId, peer, slot, dropping, passed, curNetId, queue, checked, main,
                     net, lastPeer, remote>>
      /\ pc[c] = "auth" /\ pc' = [pc EXCEPT ![c] = "refused"] /\ pc \in [Conn -> Places]
  BY DEF AuthenticationFails, Goto, clientVars, enetVars, Inv, TypeOK, Places
<1>2. PICK th \in {"http", "auth"} : NotRemoving(th) /\ RemoveClient(th, c)
  BY ConnAssumption DEF AuthenticationFails, AuthIdle, HttpIdle
<1>3. TypeOK /\ Alive(c) /\ th \in Remover
  BY <1>1 DEF Inv, Alive, Remover
<1>4. /\ Beginning
      /\ byPeer' \in [PeerIds -> Conn \cup {Nobody}]
      /\ removing' \in [Remover -> [client : Conn \cup {Nobody},
             step : {"netId", "slot", "erase", "unassign", "done"}]]
      /\ doubly' \subseteq Slots \cup {NoSlot}
      /\ onDrop' \subseteq Conn
      /\ \A d \in Conn : Removing(d)' => Removing(d) \/ d = c
      /\ removing' = [removing EXCEPT ![th] = [client |-> c, step |-> "netId"]]
  BY <1>1, <1>2, <1>3, RemoveClientFacts
<1>5. TypeOK'
  <2>1. pc' \in [Conn -> Places]
    BY <1>1 DEF Places
  <2> QED
    BY <1>1, <1>3, <1>4, <2>1 DEF TypeOK, Places, ownedVars
<1>6. Onward /\ \A d \in Conn : pc[d] = "connecting" => pc'[d] = "connecting"
  BY <1>1 DEF Onward, Early, Places
<1>7. AskedOnce' /\ \A d \in Conn : (Posted(d)' <=> Posted(d)) /\ (Dropped(d)' <=> Dropped(d))
  BY <1>1, <1>6, SameQueue
<1>8. \A d \in Conn : Alive(d)' => Alive(d)
  <2>1. \A d \in Conn : InRegistry(d)' => InRegistry(d)
    BY <1>1 DEF InRegistry, ownedVars
  <2>2. \A d \in Conn : pc'[d] \in {"emplaced", "auth"} => pc[d] \in {"emplaced", "auth"}
    BY <1>6 DEF Onward
  <2> QED
    BY <1>1, <1>3, <1>4, <1>7, <2>1, <2>2 DEF Alive
<1>9. Budget'
  <2>1. \A d \in Conn : pc'[d] = "new" <=> pc[d] = "new"
    BY <1>1
  <2> QED
    BY <2>1, SameBegun
<1>10. Turns'
  <2>1. removing'["net"] = removing["net"] /\ removing'["main"] = removing["main"]
    BY <1>2, <1>4 DEF Inv, TypeOK, Remover
  <2> QED
    BY <1>1, <2>1 DEF Inv, Turns, NotRemoving
<1>11. Refused'
  <2> SUFFICES ASSUME NEW t \in {"http", "auth"}, NEW d \in Conn, removing'[t].client = d
               PROVE  pc'[d] = "refused"
    BY DEF Refused
  <2>1. CASE t = th
    BY <1>1, <1>3, <1>4, <2>1 DEF TypeOK
  <2>2. CASE t # th
    <3>1. removing[t].client = d
      BY <1>3, <1>4, <2>2 DEF TypeOK, Remover
    <3>2. pc[d] = "refused"
      BY <3>1 DEF Inv, Refused
    <3> QED
      BY <1>6, <3>2 DEF Onward
  <2> QED
    BY <2>1, <2>2
<1>12. DropPending'
  BY <1>1, <1>4, <1>7, DropsKept DEF ownedVars
<1> QED
  BY <1>1, <1>4, <1>5, <1>6, <1>7, <1>8, <1>9, <1>10, <1>11, <1>12, QueueStep

\* A connection is posted to the main thread, once.
LEMMA AuthenticationDoneInv ==
  ASSUME Inv, NEW c \in Conn, AuthenticationDone(c)
  PROVE  Inv'
<1>1. PICK p \in Producer : Post(p, "connecting", c)
  BY ConnAssumption DEF AuthenticationDone, Producer
<1>2. /\ UNCHANGED <<ownedVars, byPeer, netId, peer, slot, dropping, passed, curNetId, checked, main,
                     net, removing, doubly, lastPeer, remote, onDrop>>
      /\ pc[c] = "auth" /\ pc' = [pc EXCEPT ![c] = "connecting"] /\ pc \in [Conn -> Places]
  BY DEF AuthenticationDone, Goto, registryVars, clientVars, enetVars, Inv, TypeOK, Places
<1>3. /\ queue' \in [Producer -> Seq(Kinds \X Conn)]
      /\ \A d \in Conn : Posted(d)' => Posted(d) \/ d = c
      /\ \A d \in Conn : Dropped(d) => Dropped(d)'
      /\ \A d \in Conn, q \in Producer : \A j \in DOMAIN queue'[q] : Asks(q, j, d)' =>
           \/ j \in DOMAIN queue[q] /\ Asks(q, j, d)
           \/ d = c /\ q = p /\ j = Len(queue[p]) + 1
  BY <1>1, PostFacts DEF Inv, Kinds
<1>4. TypeOK'
  <2>1. pc' \in [Conn -> Places]
    BY <1>2 DEF Places
  <2> QED
    BY <1>2, <1>3, <2>1 DEF Inv, TypeOK, Kinds, Places, ownedVars
<1>5. Onward
  BY <1>2 DEF Onward, Early, Places
<1>6. Beginning /\ \A d \in Conn : Removing(d)' <=> Removing(d)
  BY <1>2, NothingBegins
<1>7. \A d \in Conn : Alive(d)' => Alive(d)
  <2>1. \A d \in Conn : InRegistry(d)' => InRegistry(d)
    BY <1>2 DEF InRegistry, ownedVars
  <2>2. \A d \in Conn : pc'[d] \in {"emplaced", "auth"} => pc[d] \in {"emplaced", "auth"}
    BY <1>5 DEF Onward
  <2>3. Alive(c)
    BY <1>2 DEF Alive
  <2> QED
    BY <1>2, <1>3, <1>6, <2>1, <2>2, <2>3 DEF Alive
<1>8. \A q \in Producer : \A j \in DOMAIN queue[q] : ~Asks(q, j, c)
  BY <1>2 DEF Inv, AskedOnce
<1>9. \A d \in Conn : pc[d] = "connecting" => pc'[d] = "connecting"
  BY <1>2
<1>10. AskedOnce'
  <2> SUFFICES ASSUME NEW d \in Conn, NEW r \in Producer, NEW i \in DOMAIN queue'[r], Asks(r, i, d)',
                      NEW q \in Producer, NEW j \in DOMAIN queue'[q]
               PROVE  pc'[d] = "connecting" /\ (Asks(q, j, d)' => q = r /\ j = i)
    BY DEF AskedOnce
  <2>1. CASE d = c
    BY <1>2, <1>3, <1>8, <2>1
  <2>2. CASE d # c
    BY <1>3, <1>9, <2>2 DEF Inv, AskedOnce
  <2> QED
    BY <2>1, <2>2
<1>11. Budget'
  <2>1. \A d \in Conn : pc'[d] = "new" <=> pc[d] = "new"
    BY <1>2
  <2> QED
    BY <2>1, SameBegun
<1>12. Turns' /\ Refused'
  BY <1>2, <1>5, RefusedKept DEF Inv, Turns, NotRemoving
<1>13. DropPending'
  BY <1>2, <1>3, <1>6, DropsKept DEF ownedVars
<1> QED
  BY <1>2, <1>4, <1>5, <1>6, <1>7, <1>10, <1>11, <1>12, <1>13, QueueStep

\* The end of a holder, for a connection that no callback will allow any more.
LEMMA EndHolderInv ==
  ASSUME Inv, NEW c \in Conn, pc[c] \in {"connecting", "deferred"}, Goto(c, "refused"),
         NEW th \in {"http", "main"}, NotRemoving(th), EndHolder(th, c),
         th = "main" => main = Nobody /\ checked["main"] = Nobody,
         AskedOnce', queue' \in [Producer -> Seq(Kinds \X Conn)],
         \A d \in Conn : (Posted(d)' => Posted(d)) /\ (Dropped(d) => Dropped(d)'),
         UNCHANGED <<ownedVars, netId, peer, slot, dropping, passed, curNetId, checked, main, net,
                     lastPeer, remote>>
  PROVE  Inv'
<1>1. /\ pc' = [pc EXCEPT ![c] = "refused"] /\ pc \in [Conn -> Places] /\ TypeOK /\ th \in Remover
  BY DEF Goto, Inv, TypeOK, Places, Remover
<1>2. Onward
  BY <1>1 DEF Onward, Early, Places
<1>3. pc' \in [Conn -> Places]
  BY <1>1 DEF Places
<1>4. Budget'
  <2>1. \A d \in Conn : pc'[d] = "new" <=> pc[d] = "new"
    BY <1>1
  <2> QED
    BY <2>1, SameBegun
<1>5. /\ \A d \in Conn : InRegistry(d)' => InRegistry(d)
      /\ \A d \in Conn : pc'[d] \in {"emplaced", "auth"} => pc[d] \in {"emplaced", "auth"}
  BY <1>2 DEF InRegistry, ownedVars, Onward
<1>6. CASE Alive(c)
  <2>0. RemoveClient(th, c)
    BY <1>6 DEF EndHolder
  <2>1. /\ Beginning
        /\ byPeer' \in [PeerIds -> Conn \cup {Nobody}]
        /\ removing' \in [Remover -> [client : Conn \cup {Nobody},
               step : {"netId", "slot", "erase", "unassign", "done"}]]
        /\ doubly' \subseteq Slots \cup {NoSlot}
        /\ onDrop' \subseteq Conn
        /\ \A d \in Conn : Removing(d)' => Removing(d) \/ d = c
        /\ removing' = [removing EXCEPT ![th] = [client |-> c, step |-> "netId"]]
    BY <1>1, <1>6, <2>0, RemoveClientFacts
  <2>2. TypeOK'
    BY <1>1, <1>3, <2>1 DEF TypeOK, Kinds, Places, ownedVars
  <2>3. \A d \in Conn : Alive(d)' => Alive(d)
    BY <1>5, <1>6, <2>1 DEF Alive
  <2>4. Turns'
    <3>1. removing'["net"] = removing["net"] /\ (th # "main" => removing'["main"] = removing["main"])
      BY <1>1, <2>1 DEF TypeOK, Remover
    <3> QED
      BY <3>1 DEF Inv, Turns, NotRemoving
  <2>5. Refused'
    <3> SUFFICES ASSUME NEW t \in {"http", "auth"}, NEW d \in Conn, removing'[t].client = d
                 PROVE  pc'[d] = "refused"
      BY DEF Refused
    <3>1. CASE t = th
      BY <1>1, <2>1, <3>1 DEF TypeOK
    <3>2. CASE t # th
      <4>1. removing[t].client = d
        BY <1>1, <2>1, <3>2 DEF TypeOK, Remover
      <4>2. pc[d] = "refused"
        BY <4>1 DEF Inv, Refused
      <4> QED
        BY <1>2, <4>2 DEF Onward
    <3> QED
      BY <3>1, <3>2
  <2>6. DropPending'
    BY <2>1, DropsKept DEF ownedVars
  <2> QED
    BY <1>2, <1>4, <2>1, <2>2, <2>3, <2>4, <2>5, <2>6, QueueStep
<1>7. CASE ~Alive(c)
  <2>0. UNCHANGED <<removing, doubly, onDrop, byPeer>>
    BY <1>7 DEF EndHolder, NoRemoval
  <2>1. Beginning /\ \A d \in Conn : Removing(d)' <=> Removing(d)
    BY <2>0, NothingBegins
  <2>2. TypeOK'
    BY <1>1, <1>3, <2>0 DEF TypeOK, Kinds, Places, ownedVars
  <2>3. \A d \in Conn : Alive(d)' => Alive(d)
    BY <1>5, <2>1 DEF Alive
  <2>4. Turns' /\ Refused'
    BY <1>2, <2>0, RefusedKept DEF Inv, Turns, NotRemoving
  <2>5. DropPending'
    BY <2>1, DropsKept DEF ownedVars
  <2> QED
    BY <1>2, <1>4, <2>1, <2>2, <2>3, <2>4, <2>5, QueueStep
<1> QED
  BY <1>6, <1>7

\* The remote machine gives up.
LEMMA CancelRequestInv ==
  ASSUME Inv, NEW c \in Conn, CancelRequest(c)
  PROVE  Inv'
<1>1. /\ pc[c] = "deferred" /\ Goto(c, "refused") /\ NotRemoving("http") /\ EndHolder("http", c)
      /\ UNCHANGED <<ownedVars, netId, peer, slot, dropping, passed, curNetId, checked, main, net,
                     lastPeer, remote>>
      /\ UNCHANGED queue
      /\ pc \in [Conn -> Places]
  BY DEF CancelRequest, HttpIdle, clientVars, enetVars, Inv, TypeOK, Places
<1>2. \A d \in Conn : pc[d] = "connecting" => pc'[d] = "connecting"
  BY <1>1 DEF Goto
<1>3. AskedOnce' /\ \A d \in Conn : (Posted(d)' => Posted(d)) /\ (Dropped(d) => Dropped(d)')
  BY <1>1, <1>2, SameQueue
<1>4. queue' \in [Producer -> Seq(Kinds \X Conn)]
  BY <1>1 DEF Inv, TypeOK, Kinds
<1>5. "http" \in {"http", "main"} /\ "http" # "main"
  OBVIOUS
<1> QED
  BY <1>1, <1>3, <1>4, <1>5, EndHolderInv

-----------------------------------------------------------------------------
(* Dropping. *)

\* A drop begins on the main thread.
LEMMA DropOnMainInv ==
  ASSUME Inv, NEW c \in Conn, DropOnMain(c)
  PROVE  Inv'
<1>1. /\ UNCHANGED <<pc, ownedVars, byPeer, netId, peer, slot, dropping, passed, curNetId, queue,
                     main, net, removing, doubly, lastPeer, remote, onDrop>>
      /\ InRegistry(c) /\ checked' = [checked EXCEPT !["main"] = c]
      /\ checked \in [Thread -> Conn \cup {Nobody}] /\ main = Nobody /\ NotRemoving("main")
  BY DEF DropOnMain, MainIdle, registryVars, clientVars, enetVars, Inv, TypeOK
<1>2. TypeOK'
  <2>1. checked' \in [Thread -> Conn \cup {Nobody}]
    BY <1>1
  <2> QED
    BY <1>1, <2>1 DEF Inv, TypeOK, ownedVars
<1>3. \A d \in Conn : Alive(d)' => Alive(d)
  <2>1. \A d \in Conn, th \in Thread : checked'[th] = d => checked[th] = d \/ InRegistry(d)
    BY <1>1
  <2> QED
    BY <1>1, <2>1 DEF Alive, Posted, InRegistry, Removing, ownedVars
<1>4. Onward /\ \A d \in Conn : pc[d] = "connecting" => pc'[d] = "connecting"
  BY <1>1 DEF Onward
<1>5. Budget'
  BY <1>1, SameBegun
<1>6. Turns'
  BY <1>1 DEF Inv, Turns, NotRemoving
<1> QED
  BY <1>1, <1>2, <1>3, <1>4, <1>5, <1>6, SmallStep

\* A drop begins on the net thread.
LEMMA DropOnNetInv ==
  ASSUME Inv, NEW p \in PeerIds, DropOnNet(p)
  PROVE  Inv'
<1>1. PICK c \in Conn : c = Lock(byPeer[p]) /\ checked' = [checked EXCEPT !["net"] = c]
  BY DEF DropOnNet
<1>2. /\ UNCHANGED <<pc, ownedVars, byPeer, netId, peer, slot, dropping, passed, curNetId, queue,
                     main, net, removing, doubly, lastPeer, remote, onDrop>>
      /\ checked \in [Thread -> Conn \cup {Nobody}]
  BY DEF DropOnNet, registryVars, clientVars, enetVars, Inv, TypeOK
<1>3. Alive(c)
  BY <1>1, ConnAssumption DEF Lock
<1>4. TypeOK'
  <2>1. checked' \in [Thread -> Conn \cup {Nobody}]
    BY <1>1, <1>2
  <2> QED
    BY <1>2, <2>1 DEF Inv, TypeOK, ownedVars
<1>5. \A d \in Conn : Alive(d)' => Alive(d)
  <2>1. \A d \in Conn, th \in Thread : checked'[th] = d => checked[th] = d \/ d = c
    BY <1>1, <1>2
  <2> QED
    BY <1>2, <1>3, <2>1 DEF Alive, Posted, InRegistry, Removing, ownedVars
<1>6. Onward /\ \A d \in Conn : pc[d] = "connecting" => pc'[d] = "connecting"
  BY <1>2 DEF Onward
<1>7. Budget'
  BY <1>2, SameBegun
<1>8. Turns'
  <2>1. checked'["main"] = checked["main"]
    BY <1>1, <1>2 DEF Thread
  <2> QED
    BY <1>2, <2>1 DEF Inv, Turns, NotRemoving
<1> QED
  BY <1>2, <1>4, <1>5, <1>6, <1>7, <1>8, SmallStep

\* DropClientv marks the client and calls or posts DropClientInternal.
LEMMA DropClientvInv ==
  ASSUME Inv, NEW th \in Thread, DropClientv(th)
  PROVE  Inv'
<1>0. PICK c \in Conn : c = checked[th]
  BY DEF DropClientv, Inv, TypeOK
<1>1. /\ UNCHANGED <<ownedVars, byPeer, netId, peer, slot, passed, curNetId, net, removing, doubly,
                     lastPeer, remote>>
      /\ checked' = [checked EXCEPT ![th] = Nobody]
      /\ dropping' = [dropping EXCEPT ![c] = TRUE]
      /\ pc' = [d \in Conn |-> IF th = "http" /\ pc[d] = "replace" THEN "replaced" ELSE pc[d]]
      /\ checked \in [Thread -> Conn \cup {Nobody}] /\ dropping \in [Conn -> BOOLEAN]
      /\ pc \in [Conn -> Places]
  BY <1>0 DEF DropClientv, registryVars, enetVars, Inv, TypeOK, Places
<1>2. Alive(c)
  BY <1>0 DEF Alive
<1>3. Onward /\ \A d \in Conn : pc[d] = "connecting" => pc'[d] = "connecting"
  BY <1>1 DEF Onward, Early
<1>4. ASSUME NEW d \in Conn, NEW t \in Thread, checked'[t] = d PROVE checked[t] = d
  BY <1>1, <1>4, ConnAssumption
<1>5. \/ th = "main" /\ UNCHANGED queue /\ main' = c /\ onDrop' = onDrop \cup {c}
      \/ th # "main" /\ th \in Producer /\ Post(th, "drop", c) /\ UNCHANGED <<main, onDrop>>
  BY <1>0 DEF DropClientv, SignalDrop, Thread, Producer
<1>6. /\ queue' \in [Producer -> Seq(Kinds \X Conn)]
      /\ \A d \in Conn : Posted(d)' => Posted(d) \/ d = c
      /\ \A d \in Conn : Dropped(d) => Dropped(d)'
      /\ main' = c \/ Dropped(c)'
      /\ \A d \in Conn, q \in Producer : \A j \in DOMAIN queue'[q] :
           Asks(q, j, d)' => j \in DOMAIN queue[q] /\ Asks(q, j, d)
  <2>1. CASE UNCHANGED queue /\ main' = c
    BY <2>1 DEF Inv, TypeOK, Kinds, Posted, Asks, Dropped
  <2>2. CASE th \in Producer /\ Post(th, "drop", c)
    <3>1. TypeOK /\ "drop" \in Kinds /\ "drop" # "connecting"
      BY DEF Inv, Kinds
    <3> QED
      BY <1>1, <2>2, <3>1, PostFacts
  <2> QED
    BY <1>5, <2>1, <2>2
<1>7. TypeOK'
  <2>1. /\ pc' \in [Conn -> Places] /\ checked' \in [Thread -> Conn \cup {Nobody}]
        /\ dropping' \in [Conn -> BOOLEAN]
    BY <1>1 DEF Places
  <2>2. main' \in Conn \cup {Nobody} /\ onDrop' \subseteq Conn
    BY <1>1, <1>5 DEF Inv, TypeOK
  <2> QED
    BY <1>1, <1>6, <2>1, <2>2 DEF Inv, TypeOK, Kinds, Places, ownedVars
<1>8. AskedOnce'
  BY <1>3, <1>6, AskedKept
<1>9. Beginning /\ \A d \in Conn : Removing(d)' <=> Removing(d)
  BY <1>1, NothingBegins
<1>10. \A d \in Conn : InRegistry(d)' <=> InRegistry(d)
  BY <1>1 DEF InRegistry, ownedVars
<1>11. \A d \in Conn : Alive(d)' => Alive(d)
  <2>1. main' = main \/ main' = c
    BY <1>5
  <2> QED
    BY <1>1, <1>2, <1>3, <1>4, <1>6, <1>9, <1>10, <2>1 DEF Alive, Onward
<1>12. \A d \in Conn : pc[d] \in Early => (dropping'[d] <=> dropping[d])
  <2>1. pc[c] \notin Early
    BY <1>1, <1>2 DEF Inv, Fresh
  <2> QED
    BY <1>1, <2>1
<1>13. Budget'
  <2>1. \A d \in Conn : pc'[d] = "new" <=> pc[d] = "new"
    BY <1>1
  <2> QED
    BY <2>1, SameBegun
<1>14. th = "main" => main = Nobody /\ NotRemoving("main") /\ checked'["main"] = Nobody
  BY <1>0, <1>1, ConnAssumption DEF Inv, Turns
<1>15. Turns'
  <2>1. th # "main" => checked'["main"] = checked["main"]
    BY <1>1 DEF Thread
  <2> QED
    BY <1>1, <1>5, <1>14, <2>1 DEF Inv, Turns, NotRemoving
<1>16. Refused'
  BY <1>1, <1>3, RefusedKept
<1>17. DropPending'
  <2> SUFFICES ASSUME NEW d \in Conn, dropping'[d], InRegistry(d)'
               PROVE  Dropped(d)' \/ main' = d \/ removing'["main"].client = d
    BY DEF DropPending, Dropped
  <2>1. CASE d = c
    BY <1>6, <2>1
  <2>2. CASE d # c
    <3>1. dropping[d] /\ InRegistry(d)
      BY <1>1, <1>10, <2>2
    <3>2. Dropped(d) \/ main = d \/ removing["main"].client = d
      BY <3>1 DEF Inv, DropPending, Dropped
    <3>3. main = d => main' = d
      BY <1>5, <1>14, ConnAssumption
    <3> QED
      BY <1>1, <1>6, <3>2, <3>3
  <2> QED
    BY <2>1, <2>2
<1> QED
  BY <1>1, <1>3, <1>7, <1>8, <1>9, <1>11, <1>12, <1>13, <1>15, <1>16, <1>17, QueueStep

\* DropClientInternal ends with the removal.
LEMMA FinishDropInv ==
  ASSUME Inv, FinishDrop
  PROVE  Inv'
<1>1. /\ UNCHANGED <<pc, ownedVars, netId, peer, slot, dropping, passed, curNetId, queue, checked, net,
                     lastPeer, remote>>
      /\ main \in Conn /\ main' = Nobody /\ RemoveClient("main", main)
  BY DEF FinishDrop, clientVars, enetVars, Inv, TypeOK
<1>2. TypeOK /\ Alive(main) /\ "main" \in Remover /\ NotRemoving("main") /\ checked["main"] = Nobody
  BY <1>1, ConnAssumption DEF Inv, Alive, Remover, Turns
<1>3. /\ Beginning
      /\ byPeer' \in [PeerIds -> Conn \cup {Nobody}]
      /\ removing' \in [Remover -> [client : Conn \cup {Nobody},
             step : {"netId", "slot", "erase", "unassign", "done"}]]
      /\ doubly' \subseteq Slots \cup {NoSlot}
      /\ onDrop' \subseteq Conn
      /\ \A d \in Conn : Removing(d)' => Removing(d) \/ d = main
      /\ removing' = [removing EXCEPT !["main"] = [client |-> main, step |-> "netId"]]
  <2>1. PICK m \in Conn : m = main
    BY <1>1
  <2> QED
    BY <1>1, <1>2, <2>1, RemoveClientFacts
<1>4. TypeOK'
  BY <1>1, <1>2, <1>3 DEF TypeOK, ownedVars
<1>5. Onward /\ Budget' /\ \A d \in Conn : pc[d] = "connecting" => pc'[d] = "connecting"
  BY <1>1, SameBegun DEF Onward
<1>6. AskedOnce' /\ \A d \in Conn : (Posted(d)' <=> Posted(d)) /\ (Dropped(d)' <=> Dropped(d))
  BY <1>1, <1>5, SameQueue
<1>7. \A d \in Conn : Alive(d)' => Alive(d)
  <2>1. \A d \in Conn : InRegistry(d)' => InRegistry(d)
    BY <1>1 DEF InRegistry, ownedVars
  <2> QED
    BY <1>1, <1>2, <1>3, <1>6, <2>1, ConnAssumption DEF Alive
<1>8. removing'["main"].client = main /\ \A t \in Remover : t # "main" => removing'[t] = removing[t]
  BY <1>2, <1>3 DEF TypeOK
<1>9. Turns'
  BY <1>1, <1>2, <1>8 DEF Inv, Turns, NotRemoving, Remover
<1>10. Refused'
  BY <1>1, <1>8 DEF Inv, Refused, Remover
<1>11. DropPending'
  BY <1>1, <1>3, <1>6, <1>8, DropsKept DEF ownedVars
<1> QED
  BY <1>1, <1>3, <1>4, <1>5, <1>6, <1>7, <1>9, <1>10, <1>11, QueueStep

-----------------------------------------------------------------------------
(* The callbacks on the main thread. *)

\* A connection is allowed that was not answered before.
LEMMA AllowClientInv ==
  ASSUME Inv, NEW c \in Conn, pc[c] \in {"connecting", "deferred"}, AllowClient(c), AskedOnce',
         queue' \in [Producer -> Seq(Kinds \X Conn)],
         \A d \in Conn : (Posted(d)' => Posted(d)) /\ (Dropped(d) => Dropped(d)'),
         UNCHANGED <<ownedVars, netId, peer, slot, dropping, curNetId, checked, main, net, lastPeer,
                     remote>>
  PROVE  Inv'
<1>1. /\ pc' = [pc EXCEPT ![c] = "allowed"] /\ passed' = [passed EXCEPT ![c] = Alive(c)]
      /\ UNCHANGED <<removing, doubly, onDrop, byPeer>>
      /\ pc \in [Conn -> Places] /\ passed \in [Conn -> BOOLEAN]
  BY DEF AllowClient, Goto, NoRemoval, Inv, TypeOK, Places
<1>2. Alive(c) \in BOOLEAN
  BY DEF Alive
<1>3. TypeOK'
  <2>1. pc' \in [Conn -> Places] /\ passed' \in [Conn -> BOOLEAN]
    BY <1>1, <1>2 DEF Places
  <2> QED
    BY <1>1, <2>1 DEF Inv, TypeOK, Kinds, Places, ownedVars
<1>4. Onward
  BY <1>1 DEF Onward, Early, Places
<1>5. Beginning /\ \A d \in Conn : Removing(d)' <=> Removing(d)
  BY <1>1, NothingBegins
<1>6. \A d \in Conn : Alive(d)' => Alive(d)
  <2>1. \A d \in Conn : pc'[d] \in {"emplaced", "auth"} => pc[d] \in {"emplaced", "auth"}
    BY <1>1
  <2>2. \A d \in Conn : InRegistry(d)' => InRegistry(d)
    BY DEF InRegistry, ownedVars
  <2> QED
    BY <1>1, <1>5, <2>1, <2>2 DEF Alive
<1>7. Guids' /\ Erased' /\ TokenFound' /\ SlotFound' /\ TwiceNoted' /\ IdsInTurn'
  BY <1>4, <1>5, <1>6, Lookups
<1>8. ~passed[c] /\ ~HasConnected(c)
  BY DEF Inv, AllowedStays, JoinsAllowed
<1>9. Serving'
  <2>1. net.client = c => Alive(c)
    BY DEF Alive
  <2> QED
    BY <1>1, <2>1 DEF Inv, Serving
<1>10. Fresh'
  BY <1>4, <1>6 DEF Inv, Fresh, Onward
<1>11. AllowedStays'
  BY <1>1 DEF Inv, AllowedStays
<1>12. JoinsAllowed'
  BY <1>1, <1>8 DEF Inv, JoinsAllowed, HasConnected
<1>13. Budget'
  <2>1. \A d \in Conn : pc'[d] = "new" <=> pc[d] = "new"
    BY <1>1
  <2> QED
    BY <2>1, SameBegun
<1>14. Turns' /\ Refused'
  BY <1>1, <1>4, RefusedKept DEF Inv, Turns, NotRemoving
<1>15. DropPending'
  BY <1>5, DropsKept DEF ownedVars
<1> QED
  BY <1>3, <1>7, <1>9, <1>10, <1>11, <1>12, <1>13, <1>14, <1>15 DEF Inv

\* The resources are asked, and answer or defer.
LEMMA PlayerConnectingInv ==
  ASSUME Inv, NEW p \in Producer, NEW c \in Conn, PlayerConnecting(p, c)
  PROVE  Inv'
<1>1. /\ Take(p, "connecting", c) /\ "connecting" \in Kinds /\ TypeOK
      /\ main = Nobody /\ checked["main"] = Nobody /\ NotRemoving("main")
      /\ UNCHANGED <<ownedVars, netId, peer, slot, dropping, curNetId, checked, main, net, lastPeer,
                     remote>>
      /\ Refuse(c) \/ RefuseLost(c) \/ Defer(c) \/ AllowClient(c)
      /\ pc \in [Conn -> Places]
  BY DEF PlayerConnecting, Take, MainIdle, enetVars, Kinds, Inv, TypeOK, Places
<1>2. /\ queue' \in [Producer -> Seq(Kinds \X Conn)]
      /\ 1 \in DOMAIN queue[p] /\ queue[p][1] = <<"connecting", c>>
      /\ \A d \in Conn : (Posted(d)' => Posted(d)) /\ (Dropped(d) => Dropped(d)')
  BY <1>1, TakeFacts
<1>3. pc[c] = "connecting"
  BY <1>2 DEF Inv, AskedOnce, Asks
<1>4. PICK l \in {"refused", "deferred", "allowed"} : pc' = [pc EXCEPT ![c] = l]
  BY <1>1 DEF Refuse, RefuseLost, Defer, AllowClient, Goto
<1>5. AskedOnce'
  <2>1. \A d \in Conn : pc[d] = "connecting" /\ (d # c \/ "connecting" # "connecting") =>
                          pc'[d] = "connecting"
    BY <1>1, <1>4
  <2> QED
    BY <1>1, <2>1, AskedTaken
<1>6. CASE Refuse(c)
  <2>1. "main" \in {"http", "main"} /\ Goto(c, "refused") /\ EndHolder("main", c) /\ UNCHANGED passed
    BY <1>6 DEF Refuse
  <2> QED
    BY <1>1, <1>2, <1>3, <1>5, <2>1, EndHolderInv
<1>7. CASE RefuseLost(c) \/ Defer(c)
  <2>1. UNCHANGED <<removing, doubly, onDrop, byPeer, passed>>
    BY <1>7 DEF RefuseLost, Defer, NoRemoval
  <2>2. TypeOK'
    <3>1. pc' \in [Conn -> Places]
      BY <1>1, <1>4 DEF Places
    <3> QED
      BY <1>1, <1>2, <2>1, <3>1 DEF TypeOK, Kinds, Places, ownedVars
  <2>3. Onward
    BY <1>1, <1>3, <1>4 DEF Onward, Early, Places
  <2>4. Beginning /\ \A d \in Conn : Removing(d)' <=> Removing(d)
    BY <1>1, <2>1, NothingBegins
  <2>5. \A d \in Conn : Alive(d)' => Alive(d)
    <3>1. \A d \in Conn : InRegistry(d)' => InRegistry(d)
      BY <1>1 DEF InRegistry, ownedVars
    <3>2. \A d \in Conn : pc'[d] \in {"emplaced", "auth"} => pc[d] \in {"emplaced", "auth"}
      BY <2>3 DEF Onward
    <3> QED
      BY <1>1, <1>2, <2>1, <2>4, <3>1, <3>2 DEF Alive
  <2>6. Budget'
    <3>1. \A d \in Conn : pc'[d] = "new" <=> pc[d] = "new"
      BY <1>1, <1>3, <1>4
    <3> QED
      BY <3>1, SameBegun
  <2>7. Turns' /\ Refused'
    BY <1>1, <2>1, <2>3, RefusedKept DEF Inv, Turns, NotRemoving
  <2>8. DropPending'
    BY <1>1, <1>2, <2>4, DropsKept DEF ownedVars
  <2> QED
    BY <1>1, <1>5, <2>1, <2>2, <2>3, <2>4, <2>5, <2>6, <2>7, <2>8, QueueStep
<1>8. CASE AllowClient(c)
  BY <1>1, <1>2, <1>3, <1>5, <1>8, AllowClientInv
<1> QED
  BY <1>1, <1>6, <1>7, <1>8

\* The last resource answers.
LEMMA DeferralDoneInv ==
  ASSUME Inv, NEW c \in Conn, DeferralDone(c)
  PROVE  Inv'
<1>1. /\ pc[c] = "deferred" /\ (Refuse(c) \/ AllowClient(c))
      /\ main = Nobody /\ checked["main"] = Nobody /\ NotRemoving("main")
      /\ UNCHANGED <<ownedVars, netId, peer, slot, dropping, curNetId, checked, main, net, lastPeer,
                     remote>>
      /\ UNCHANGED queue
      /\ pc \in [Conn -> Places]
  BY DEF DeferralDone, MainIdle, enetVars, Inv, TypeOK, Places
<1>2. queue' \in [Producer -> Seq(Kinds \X Conn)]
  BY <1>1 DEF Inv, TypeOK, Kinds
<1>3. AskedOnce' /\ \A d \in Conn : (Posted(d)' => Posted(d)) /\ (Dropped(d) => Dropped(d)')
  <2>1. PICK l \in {"refused", "allowed"} : pc' = [pc EXCEPT ![c] = l]
    BY <1>1 DEF Refuse, AllowClient, Goto
  <2>2. \A d \in Conn : pc[d] = "connecting" => pc'[d] = "connecting"
    BY <1>1, <2>1
  <2> QED
    BY <1>1, <2>2, SameQueue
<1>4. CASE Refuse(c)
  <2>1. "main" \in {"http", "main"} /\ Goto(c, "refused") /\ EndHolder("main", c) /\ UNCHANGED passed
    BY <1>4 DEF Refuse
  <2> QED
    BY <1>1, <1>2, <1>3, <2>1, EndHolderInv
<1>5. CASE AllowClient(c)
  BY <1>1, <1>2, <1>3, <1>5, AllowClientInv
<1> QED
  BY <1>1, <1>4, <1>5

\* A drop or the joining that was posted is carried out.
LEMMA CallbackInv ==
  ASSUME Inv, NEW p \in Producer, NEW c \in Conn,
         DropClientInternal(p, c) \/ HandleConnectedClient(p, c)
  PROVE  Inv'
<1>1. PICK kind \in {"drop", "connected"} :
        /\ Take(p, kind, c)
        /\ IF kind = "drop" THEN main' = c ELSE main' = main
  BY DEF DropClientInternal, HandleConnectedClient, SignalDrop
<1>2. /\ UNCHANGED <<pc, ownedVars, byPeer, netId, peer, slot, dropping, passed, curNetId, checked,
                     net, removing, doubly, lastPeer, remote>>
      /\ onDrop' \in SUBSET (onDrop \cup {c})
      /\ TypeOK /\ kind \in Kinds /\ kind # "connecting"
  BY DEF DropClientInternal, HandleConnectedClient, SignalDrop, registryVars, clientVars,
         enetVars, Kinds, Inv
<1>3. /\ queue' \in [Producer -> Seq(Kinds \X Conn)] /\ Posted(c)
      /\ \A d \in Conn : Posted(d)' => Posted(d)
      /\ \A d \in Conn : Dropped(d) => Dropped(d)' \/ (kind = "drop" /\ d = c)
  BY <1>1, <1>2, TakeFacts
<1>4. AskedOnce'
  <2>1. \A d \in Conn : pc[d] = "connecting" /\ (d # c \/ kind # "connecting") =>
                          pc'[d] = "connecting"
    BY <1>2
  <2> QED
    BY <1>1, <1>2, <2>1, AskedTaken
<1>5. TypeOK'
  <2>1. main' \in Conn \cup {Nobody} /\ onDrop' \subseteq Conn
    BY <1>1, <1>2 DEF TypeOK
  <2> QED
    BY <1>2, <1>3, <2>1 DEF TypeOK, Kinds, ownedVars
<1>6. Onward /\ Budget'
  BY <1>2, SameBegun DEF Onward
<1>7. Beginning /\ \A d \in Conn : Removing(d)' <=> Removing(d)
  BY <1>2, NothingBegins
<1>8. \A d \in Conn : Alive(d)' => Alive(d)
  <2>1. main' = main \/ main' = c
    BY <1>1
  <2>2. Alive(c)
    BY <1>3 DEF Alive
  <2> QED
    BY <1>2, <1>3, <1>7, <2>1, <2>2 DEF Alive, InRegistry, ownedVars
<1>9. main = Nobody /\ checked["main"] = Nobody /\ NotRemoving("main")
  BY <1>1 DEF Take, MainIdle
<1>10. Turns' /\ Refused'
  BY <1>2, <1>6, <1>9, RefusedKept DEF Inv, Turns, NotRemoving
<1>11. DropPending'
  <2>1. \A d \in Conn : Dropped(d) => Dropped(d)' \/ main' = d
    BY <1>1, <1>3
  <2>2. \A d \in Conn : main # d
    BY <1>9, ConnAssumption
  <2> QED
    BY <1>2, <1>7, <2>1, <2>2, DropsKept DEF ownedVars
<1> QED
  BY <1>2, <1>4, <1>5, <1>6, <1>7, <1>8, <1>10, <1>11, QueueStep

-----------------------------------------------------------------------------
(* The net thread. *)

\* Steps of a handshake that give no slot and no id.
LEMMA NetStep ==
  ASSUME Inv, TypeOK', Serving', Turns',
         UNCHANGED <<pc, ownedVars, netId, slot, dropping, curNetId, passed, queue, main, removing, doubly>>,
         \A d \in Conn : Alive(d)' => Alive(d)
  PROVE  Inv'
<1>1. Onward /\ Budget' /\ \A d \in Conn : pc[d] = "connecting" => pc'[d] = "connecting"
  BY SameBegun DEF Onward
<1>2. AskedOnce' /\ \A d \in Conn : Dropped(d)' <=> Dropped(d)
  BY <1>1, SameQueue
<1>3. Beginning /\ Refused'
  BY <1>1, NothingBegins, RefusedKept
<1>4. DropPending'
  BY <1>2, <1>3, DropsKept DEF ownedVars
<1>5. Guids' /\ Erased' /\ TokenFound' /\ SlotFound' /\ TwiceNoted' /\ IdsInTurn'
  BY <1>1, <1>3, Lookups
<1>6. Fresh' /\ AllowedStays' /\ JoinsAllowed'
  BY DEF Inv, Fresh, AllowedStays, JoinsAllowed, HasConnected
<1> QED
  BY <1>1, <1>2, <1>3, <1>4, <1>5, <1>6 DEF Inv

\* ENet connections come and go.
LEMMA EnetInv ==
  ASSUME Inv, (\E c \in Conn : OnValidateData(c)) \/ (\E p \in PeerIds : OnDisconnect(p))
  PROVE  Inv'
<1>1. /\ UNCHANGED <<pc, ownedVars, byPeer, netId, peer, slot, dropping, passed, curNetId, queue,
                     checked, main, net, removing, doubly, onDrop>>
      /\ \/ \E c \in Conn : /\ lastPeer < MaxPeer /\ lastPeer' = lastPeer + 1
                            /\ remote' = [remote EXCEPT ![lastPeer + 1] = c]
         \/ \E p \in PeerIds : remote' = [remote EXCEPT ![p] = Nobody] /\ lastPeer' = lastPeer
  BY DEF OnValidateData, OnDisconnect, registryVars, clientVars, threadVars
<1>2. lastPeer' \in {0} \cup PeerIds /\ remote' \in [PeerIds -> Conn \cup {Nobody}]
  <2>1. /\ lastPeer \in {0} \cup PeerIds /\ remote \in [PeerIds -> Conn \cup {Nobody}]
        /\ MaxPeer \in Nat /\ PeerIds = 1 .. MaxPeer
    BY SizeAssumption DEF Inv, TypeOK, PeerIds
  <2> QED
    BY <1>1, <2>1
<1>3. TypeOK'
  BY <1>1, <1>2 DEF Inv, TypeOK, ownedVars
<1>4. \A d \in Conn : Alive(d)' => Alive(d)
  BY <1>1 DEF Alive, Posted, InRegistry, Removing, ownedVars
<1>5. Serving' /\ Turns'
  BY <1>1 DEF Inv, Serving, Turns, NotRemoving
<1> QED
  BY <1>1, <1>3, <1>4, <1>5, NetStep

\* The first part of the handshake finds a client that may join, or begins to
\* remove it.
LEMMA ProcessHandshakeInv ==
  ASSUME Inv, NEW p \in PeerIds, ProcessHandshake(p)
  PROVE  Inv'
<1>0. PICK c \in Conn : c = clients[GuidOf[remote[p]]] /\ InRegistry(c)
  <2> DEFINE old == clients[GuidOf[remote[p]]]
  <2>1. old # Nobody /\ remote[p] # Nobody
    BY DEF ProcessHandshake
  <2>2. remote[p] \in Conn /\ GuidOf[remote[p]] \in Guid
    BY <2>1, ConnAssumption DEF Inv, TypeOK
  <2>3. old \in Conn /\ GuidOf[old] = GuidOf[remote[p]]
    BY <2>1, <2>2 DEF Inv, TypeOK, Guids
  <2> QED
    BY <2>3 DEF InRegistry
<1>1. /\ UNCHANGED <<pc, ownedVars, netId, peer, slot, dropping, passed, curNetId, queue, checked, main,
                     lastPeer, remote>>
      /\ net.step = "idle" /\ NotRemoving("net")
      /\ \/ RemoveClient("net", c) /\ UNCHANGED net
         \/ /\ passed[c] /\ net' = [step |-> "found", client |-> c, peer |-> p]
            /\ UNCHANGED <<removing, doubly, onDrop, byPeer>>
  BY <1>0 DEF ProcessHandshake, NetIdle, enetVars, clientVars, NoRemoval
<1>2. TypeOK /\ Alive(c) /\ "net" \in Remover
  BY <1>0 DEF Inv, Alive, Remover
<1>3. Onward /\ Budget' /\ \A d \in Conn : pc[d] = "connecting" => pc'[d] = "connecting"
  BY <1>1, SameBegun DEF Onward
<1>4. AskedOnce' /\ \A d \in Conn : (Posted(d)' <=> Posted(d)) /\ (Dropped(d)' <=> Dropped(d))
  BY <1>1, <1>3, SameQueue
<1>5. \A d \in Conn : InRegistry(d)' => InRegistry(d)
  BY <1>1 DEF InRegistry, ownedVars
<1>6. CASE RemoveClient("net", c) /\ UNCHANGED net
  <2>1. /\ Beginning
        /\ byPeer' \in [PeerIds -> Conn \cup {Nobody}]
        /\ removing' \in [Remover -> [client : Conn \cup {Nobody},
               step : {"netId", "slot", "erase", "unassign", "done"}]]
        /\ doubly' \subseteq Slots \cup {NoSlot}
        /\ onDrop' \subseteq Conn
        /\ \A d \in Conn : Removing(d)' => Removing(d) \/ d = c
        /\ removing' = [removing EXCEPT !["net"] = [client |-> c, step |-> "netId"]]
    BY <1>1, <1>2, <1>6, RemoveClientFacts
  <2>2. TypeOK'
    BY <1>1, <1>2, <1>6, <2>1 DEF TypeOK, ownedVars
  <2>3. \A d \in Conn : Alive(d)' => Alive(d)
    BY <1>1, <1>2, <1>4, <1>5, <1>6, <2>1 DEF Alive
  <2>4. \A t \in Remover : t # "net" => removing'[t] = removing[t]
    BY <1>2, <2>1 DEF TypeOK
  <2>5. Turns'
    BY <1>1, <1>6, <2>4 DEF Inv, Turns, NotRemoving, Remover
  <2>6. Refused'
    BY <1>1, <2>4 DEF Inv, Refused, Remover
  <2>7. DropPending'
    BY <1>1, <1>4, <2>1, <2>4, DropsKept DEF ownedVars
  <2> QED
    BY <1>1, <1>3, <1>4, <1>6, <2>1, <2>2, <2>3, <2>5, <2>6, <2>7, QueueStep
<1>7. CASE /\ passed[c] /\ net' = [step |-> "found", client |-> c, peer |-> p]
           /\ UNCHANGED <<removing, doubly, onDrop, byPeer>>
  <2>1. TypeOK'
    <3>1. net' \in [step : {"idle", "found", "peer", "bound"}, client : Conn \cup {Nobody},
              peer : {0} \cup PeerIds]
      BY <1>7
    <3> QED
      BY <1>1, <1>2, <1>7, <3>1 DEF TypeOK, ownedVars
  <2>2. \A d \in Conn : Alive(d)' => Alive(d)
    <3>1. \A d \in Conn : Removing(d)' <=> Removing(d)
      BY <1>7 DEF Removing
    <3> QED
      BY <1>1, <1>2, <1>4, <1>5, <1>7, <3>1 DEF Alive
  <2>3. Serving'
    BY <1>1, <1>7 DEF Serving
  <2>4. Turns'
    BY <1>1, <1>7 DEF Inv, Turns, NotRemoving
  <2> QED
    BY <1>1, <1>7, <2>1, <2>2, <2>3, <2>4, NetStep
<1> QED
  BY <1>1, <1>6, <1>7

\* The client of the handshake gets its peer.
LEMMA SetPeerInv ==
  ASSUME Inv, SetPeer
  PROVE  Inv'
<1>1. /\ UNCHANGED <<pc, ownedVars, netId, slot, dropping, passed, curNetId, queue, checked, main,
                     removing, doubly, lastPeer, remote, onDrop>>
      /\ net.step = "found" /\ peer' = [peer EXCEPT ![net.client] = net.peer]
      /\ byPeer' = [byPeer EXCEPT ![net.peer] = net.client]
      /\ net' = [net EXCEPT !.step = "peer"]
  BY DEF SetPeer, ownedVars, enetVars
<1>2. /\ net.client \in Conn /\ net.peer \in PeerIds /\ TypeOK /\ passed[net.client]
      /\ net \in [step : {"idle", "found", "peer", "bound"}, client : Conn \cup {Nobody},
                  peer : {0} \cup PeerIds]
  BY <1>1 DEF Inv, Serving, TypeOK
<1>3. net'.client = net.client /\ net'.peer = net.peer /\ net'.step = "peer"
  BY <1>1, <1>2
<1>4. TypeOK'
  <2>1. /\ net' \in [step : {"idle", "found", "peer", "bound"}, client : Conn \cup {Nobody},
                     peer : {0} \cup PeerIds]
        /\ peer' \in [Conn -> {0} \cup PeerIds] /\ byPeer' \in [PeerIds -> Conn \cup {Nobody}]
    BY <1>1, <1>2 DEF TypeOK
  <2> QED
    BY <1>1, <1>2, <2>1 DEF TypeOK, ownedVars
<1>5. \A d \in Conn : Alive(d)' => Alive(d)
  BY <1>1, <1>3 DEF Alive, Posted, InRegistry, Removing, ownedVars
<1>6. Serving' /\ Turns'
  BY <1>1, <1>2, <1>3 DEF Inv, Serving, Turns, NotRemoving
<1> QED
  BY <1>1, <1>4, <1>5, <1>6, NetStep

\* A slot is given to a client only when no living client is found by it.
LEMMA FreeSlotUnused ==
  ASSUME Inv, NEW s \in FreeSlots, NEW d \in Conn, Alive(d)
  PROVE  bySlot[s] # d
<1>1. s \in Slots /\ Lock(bySlot[s]) = Nobody
  BY DEF FreeSlots
<1> QED
  BY <1>1, ConnAssumption DEF Lock

\* While a handshake serves a client, only the main thread can be removing it.
LEMMA ServedRemovedOnce ==
  ASSUME Inv, net.step # "idle", NEW c \in Conn, c = net.client
  PROVE  \A th \in Remover : removing[th].client = c => th = "main"
<1>1. pc[c] = "allowed" /\ removing["net"].client # c
  BY ConnAssumption DEF Inv, Serving, AllowedStays, Turns, NotRemoving
<1>2. \A th \in {"http", "auth"} : removing[th].client # c
  BY <1>1 DEF Inv, Refused
<1> QED
  BY <1>1, <1>2 DEF Remover

\* The client of the handshake gets its slot.
LEMMA AssignSlotInv ==
  ASSUME Inv, AssignSlot
  PROVE  Inv'
<1>0. net.step = "peer"
  BY DEF AssignSlot
<1>1. PICK c \in Conn : c = net.client /\ passed[c]
  BY <1>0 DEF Inv, Serving
<1>2. /\ UNCHANGED <<pc, clients, byNetId, byToken, netId, peer, dropping, passed, curNetId, queue,
                     checked, main, lastPeer, remote>>
      /\ \/ UNCHANGED <<bySlot, slot>> /\ net' = [net EXCEPT !.step = "bound"] /\ NoRemoval
         \/ /\ \E s \in Slots : /\ s \in FreeSlots /\ slot' = [slot EXCEPT ![c] = s]
                                /\ bySlot' = [bySlot EXCEPT ![s] = c]
            /\ net' = [net EXCEPT !.step = "bound"] /\ NoRemoval
  BY <1>1 DEF AssignSlot, IsSlotFor, enetVars, NoRemoval
<1>3. /\ TypeOK /\ Alive(c) /\ "net" \in Remover /\ NotRemoving("net") /\ net.peer \in PeerIds
      /\ net \in [step : {"idle", "found", "peer", "bound"}, client : Conn \cup {Nobody},
                  peer : {0} \cup PeerIds]
  BY <1>0, <1>1 DEF Inv, Alive, Remover, Turns, Serving, TypeOK
<1>4. Onward /\ Budget' /\ \A d \in Conn : pc[d] = "connecting" => pc'[d] = "connecting"
  BY <1>2, SameBegun DEF Onward
<1>5. AskedOnce' /\ \A d \in Conn : (Posted(d)' <=> Posted(d)) /\ (Dropped(d)' <=> Dropped(d))
  BY <1>2, <1>4, SameQueue
<1>6. \A d \in Conn : InRegistry(d)' <=> InRegistry(d)
  BY <1>2 DEF InRegistry
<1>7. ASSUME net' = [net EXCEPT !.step = "bound"], NoRemoval
      PROVE  /\ net'.client = c
             /\ net' \in [step : {"idle", "found", "peer", "bound"}, client : Conn \cup {Nobody},
                          peer : {0} \cup PeerIds]
             /\ Serving' /\ Turns'
             /\ \A d \in Conn : Removing(d)' <=> Removing(d)
             /\ \A d \in Conn : Alive(d)' => Alive(d)
  <2>1. net'.client = c /\ net'.peer = net.peer /\ UNCHANGED <<removing, doubly, onDrop, byPeer>>
    BY <1>1, <1>3, <1>7 DEF NoRemoval
  <2>2. net' \in [step : {"idle", "found", "peer", "bound"}, client : Conn \cup {Nobody},
                  peer : {0} \cup PeerIds]
    BY <1>3, <1>7
  <2>3. Serving' /\ Turns'
    BY <1>0, <1>1, <1>2, <1>3, <2>1 DEF Inv, Serving, Turns, NotRemoving
  <2>4. \A d \in Conn : Removing(d)' <=> Removing(d)
    BY <2>1 DEF Removing
  <2> QED
    BY <1>1, <1>2, <1>5, <1>6, <2>1, <2>2, <2>3, <2>4 DEF Alive
<1>8. CASE UNCHANGED <<bySlot, slot>> /\ net' = [net EXCEPT !.step = "bound"] /\ NoRemoval
  <2>1. UNCHANGED <<removing, doubly, onDrop, byPeer>>
    BY <1>8 DEF NoRemoval
  <2>2. TypeOK'
    BY <1>2, <1>3, <1>7, <1>8, <2>1 DEF TypeOK
  <2> QED
    BY <1>2, <1>7, <1>8, <2>1, <2>2, NetStep DEF ownedVars
<1>9. ASSUME NEW s \in Slots, s \in FreeSlots, slot' = [slot EXCEPT ![c] = s],
             bySlot' = [bySlot EXCEPT ![s] = c],
             net' = [net EXCEPT !.step = "bound"], NoRemoval
      PROVE  Inv'
  <2>1. UNCHANGED <<removing, doubly, onDrop, byPeer>>
    BY <1>9 DEF NoRemoval
  <2>2. slot \in [Conn -> Slots \cup {NoSlot}] /\ bySlot \in [Slots -> Conn \cup {Nobody}]
    BY <1>3 DEF TypeOK
  <2>3. TypeOK'
    <3>1. slot' \in [Conn -> Slots \cup {NoSlot}] /\ bySlot' \in [Slots -> Conn \cup {Nobody}]
      BY <1>9, <2>2
    <3> QED
      BY <1>2, <1>3, <1>7, <1>9, <2>1, <3>1 DEF TypeOK
  <2>4. /\ Serving' /\ Turns'
        /\ \A d \in Conn : Removing(d)' <=> Removing(d)
        /\ \A d \in Conn : Alive(d)' => Alive(d)
    BY <1>7, <1>9
  <2>5. SlotFound'
    <3> SUFFICES ASSUME NEW d \in Conn, Alive(d)', slot'[d] \notin doubly' \cup {NoSlot}
                 PROVE  bySlot'[slot'[d]] = d \/ SlotReset(d)'
      BY DEF SlotFound
    <3>1. CASE d = c
      BY <1>9, <2>2, <3>1
    <3>2. CASE d # c
      <4>1. Alive(d) /\ slot'[d] = slot[d] /\ slot[d] \in Slots /\ slot[d] \notin doubly \cup {NoSlot}
        BY <1>9, <2>1, <2>2, <2>4, <3>2
      <4>2. bySlot[slot[d]] = d \/ SlotReset(d)
        BY <4>1 DEF Inv, SlotFound
      <4>3. SlotReset(d) => SlotReset(d)'
        BY <2>1 DEF SlotReset
      <4>4. bySlot[s] # d
        BY <1>9, <4>1, FreeSlotUnused
      <4> QED
        BY <1>9, <2>2, <4>1, <4>2, <4>3, <4>4
    <3> QED
      BY <3>1, <3>2
  <2>6. TwiceNoted'
    <3> SUFFICES ASSUME NEW t \in Remover, NEW u \in Remover, NEW d \in Conn, t # u,
                        removing'[t].client = d, removing'[u].client = d
                 PROVE  slot'[d] \in doubly' \cup {NoSlot}
      BY DEF TwiceNoted
    <3>1. d # c
      BY <1>0, <1>1, <2>1, ServedRemovedOnce
    <3>2. slot[d] \in doubly \cup {NoSlot} /\ slot'[d] = slot[d]
      BY <1>9, <2>1, <2>2, <3>1 DEF Inv, TwiceNoted
    <3> QED
      BY <2>1, <3>2
  <2>7. /\ \A d \in Conn : HasConnected(d)' <=> HasConnected(d)
        /\ Connected' = Connected
    BY <1>2 DEF HasConnected, Connected
  <2>8. Guids' /\ Erased'
    BY <1>2, <1>6, <2>1 DEF Inv, Guids, Erased
  <2>9. TokenFound'
    BY <1>2, <1>6, <2>4 DEF Inv, TokenFound
  <2>10. IdsInTurn'
    BY <1>2, <1>6, <2>4, <2>7 DEF Inv, IdsInTurn
  <2>11. Fresh'
    <3>1. pc[c] = "allowed"
      BY <1>1 DEF Inv, AllowedStays
    <3> QED
      BY <1>2, <1>9, <2>2, <2>4, <3>1 DEF Inv, Fresh, Early
  <2>12. Refused' /\ AllowedStays' /\ JoinsAllowed'
    BY <1>2, <1>4, <2>1, RefusedKept DEF Inv, AllowedStays, JoinsAllowed, HasConnected
  <2>13. DropPending'
    <3> SUFFICES ASSUME NEW d \in Conn, dropping'[d], InRegistry(d)'
                 PROVE  Dropped(d)' \/ main' = d \/ removing'["main"].client = d
      BY DEF DropPending, Dropped
    <3>1. Dropped(d) \/ main = d \/ removing["main"].client = d
      BY <1>2, <1>6 DEF Inv, DropPending, Dropped
    <3> QED
      BY <1>2, <1>5, <2>1, <3>1
  <2> QED
    BY <1>4, <1>5, <2>3, <2>4, <2>5, <2>6, <2>8, <2>9, <2>10, <2>11, <2>12, <2>13 DEF Inv
<1> QED
  BY <1>2, <1>8, <1>9

\* A client that has no slot when the handshake looks for it begins to be removed.
LEMMA RefuseHandshakeInv ==
  ASSUME Inv, RefuseHandshake
  PROVE  Inv'
<1>0. net.step = "bound"
  BY DEF RefuseHandshake
<1>1. PICK c \in Conn : c = net.client /\ passed[c]
  BY <1>0 DEF Inv, Serving
<1>2. /\ UNCHANGED <<pc, clients, byNetId, bySlot, byToken, netId, peer, slot, dropping, passed, curNetId,
                     queue, checked, main, lastPeer, remote>>
      /\ RemoveClient("net", c) /\ net' = IdleNet
  BY <1>1 DEF RefuseHandshake, ownedVars, clientVars, enetVars
<1>3. TypeOK /\ Alive(c) /\ "net" \in Remover /\ NotRemoving("net")
  BY <1>0, <1>1 DEF Inv, Alive, Remover, Turns
<1>4. Onward /\ Budget' /\ \A d \in Conn : pc[d] = "connecting" => pc'[d] = "connecting"
  BY <1>2, SameBegun DEF Onward
<1>5. AskedOnce' /\ \A d \in Conn : (Posted(d)' <=> Posted(d)) /\ (Dropped(d)' <=> Dropped(d))
  BY <1>2, <1>4, SameQueue
<1>6. UNCHANGED ownedVars /\ \A d \in Conn : InRegistry(d)' <=> InRegistry(d)
  BY <1>2 DEF InRegistry, ownedVars
<1>7. /\ Beginning
      /\ byPeer' \in [PeerIds -> Conn \cup {Nobody}]
      /\ removing' \in [Remover -> [client : Conn \cup {Nobody},
             step : {"netId", "slot", "erase", "unassign", "done"}]]
      /\ doubly' \subseteq Slots \cup {NoSlot}
      /\ onDrop' \subseteq Conn
      /\ \A d \in Conn : Removing(d)' => Removing(d) \/ d = c
      /\ removing' = [removing EXCEPT !["net"] = [client |-> c, step |-> "netId"]]
  BY <1>2, <1>3, RemoveClientFacts
<1>8. TypeOK'
  <2>1. net' \in [step : {"idle", "found", "peer", "bound"}, client : Conn \cup {Nobody},
                  peer : {0} \cup PeerIds]
    BY <1>2 DEF IdleNet
  <2> QED
    BY <1>2, <1>3, <1>7, <2>1 DEF TypeOK
<1>9. \A d \in Conn : Alive(d)' => Alive(d)
  <2>1. \A d \in Conn : net'.client # d
    BY <1>2, ConnAssumption DEF IdleNet
  <2> QED
    BY <1>2, <1>3, <1>5, <1>6, <1>7, <2>1 DEF Alive
<1>10. \A t \in Remover : t # "net" => removing'[t] = removing[t]
  BY <1>3, <1>7 DEF TypeOK
<1>11. Turns'
  BY <1>2, <1>10 DEF Inv, Turns, NotRemoving, Remover, IdleNet
<1>12. Refused'
  BY <1>2, <1>10 DEF Inv, Refused, Remover
<1>13. DropPending'
  BY <1>2, <1>5, <1>7, <1>10, DropsKept
<1> QED
  BY <1>2, <1>4, <1>5, <1>6, <1>7, <1>8, <1>9, <1>11, <1>12, <1>13, QueueStep

\* Ids are given in turn: the next one is m_curNetId, which nobody had before.
LEMMA NextId ==
  ASSUME Inv, EnoughNetIds, NEW c \in Conn, ~HasConnected(c), passed[c], NEW i \in NetIds, IsNetIdFor(i)
  PROVE  /\ Cardinality(Connected) \in Nat
         /\ i = Cardinality(Connected) + 1
         /\ Cardinality(Connected \cup {c}) = Cardinality(Connected) + 1
         /\ \A d \in Connected : netId[d] # i
<1>1. /\ IsFiniteSet(Connected) /\ Cardinality(Connected) \in Nat
      /\ Cardinality(Connected \cup {c}) = Cardinality(Connected) + 1
  BY ConnAssumption, FS_Subset, FS_AddElement, FS_CardinalityType DEF Connected
<1>2. Cardinality(Connected) + 1 <= MaxNetId
  <2>1. Connected \cup {c} \subseteq Begun /\ Begun \subseteq Conn
    BY DEF Inv, JoinsAllowed, AllowedStays, Connected, Begun
  <2>2. Cardinality(Connected \cup {c}) <= Cardinality(Begun) /\ Cardinality(Begun) \in Nat
    BY <2>1, ConnAssumption, FS_Subset, FS_CardinalityType
  <2> QED
    BY <1>1, <2>2, SizeAssumption DEF Inv, Budget, EnoughNetIds
<1>3. curNetId = Cardinality(Connected) + 1 /\ curNetId \in NetIds
  BY <1>1, <1>2, SizeAssumption DEF Inv, IdsInTurn, TypeOK
<1>4. \A d \in Connected : netId[d] # curNetId
  <2>1. \A d \in Connected : netId[d] \in Nat /\ netId[d] <= Cardinality(Connected)
    BY DEF Inv, IdsInTurn, Connected, HasConnected, NetIds
  <2> QED
    BY <1>1, <1>3, <2>1
<1>5. byNetId[curNetId] = Nobody
  <2> SUFFICES ASSUME byNetId[curNetId] # Nobody PROVE FALSE
    OBVIOUS
  <2>1. byNetId[curNetId] \in Conn /\ netId[byNetId[curNetId]] = curNetId
    BY <1>3 DEF Inv, TypeOK, IdsInTurn
  <2> QED
    BY <1>3, <1>4, <2>1 DEF Connected, HasConnected
<1>6. curNetId \in FreeNetIds
  BY <1>3, <1>5, ConnAssumption DEF FreeNetIds, Lock
<1>7. i = curNetId
  <2>1. IdDistance(i) <= IdDistance(curNetId)
    BY <1>6 DEF IsNetIdFor
  <2>2. IdDistance(curNetId) = 0 /\ IdDistance(i) \in Nat /\ (IdDistance(i) = 0 <=> i = curNetId)
    BY <1>3, Distance DEF Inv
  <2> QED
    BY <2>1, <2>2
<1> QED
  BY <1>1, <1>3, <1>4, <1>7

\* The handshake ends: the client has its final id.
LEMMA HandleConnectingClientInv ==
  ASSUME Inv, HandleConnectingClient
  PROVE  Inv'
<1> DEFINE K == Cardinality(Connected)
<1>0. net.step = "bound"
  BY DEF HandleConnectingClient
<1>00. PICK c \in Conn : c = net.client /\ passed[c]
  BY <1>0 DEF Inv, Serving
<1>1. /\ UNCHANGED <<pc, clients, byPeer, bySlot, byToken, peer, slot, dropping, passed, checked, main,
                     removing, doubly, lastPeer, remote, onDrop>>
      /\ net' = IdleNet
  BY DEF HandleConnectingClient, enetVars
<1>2. pc[c] = "allowed" /\ TypeOK /\ Alive(c)
  BY <1>00 DEF Inv, AllowedStays, Alive
<1>3. Onward /\ Budget' /\ \A d \in Conn : pc[d] = "connecting" => pc'[d] = "connecting"
  BY <1>1, SameBegun DEF Onward
<1>4. Serving' /\ AllowedStays' /\ Turns' /\ Refused'
  BY <1>1, <1>3, RefusedKept DEF Inv, Serving, AllowedStays, Turns, NotRemoving, IdleNet
<1>5. /\ \A d \in Conn : InRegistry(d)' <=> InRegistry(d)
      /\ \A d \in Conn : Removing(d)' <=> Removing(d)
      /\ \A d \in Conn : SlotReset(d)' <=> SlotReset(d)
      /\ \A d \in Conn : net'.client # d
  BY <1>1, ConnAssumption DEF InRegistry, Removing, SlotReset, IdleNet
<1>6. net' \in [step : {"idle", "found", "peer", "bound"}, client : Conn \cup {Nobody},
                peer : {0} \cup PeerIds]
  BY <1>1 DEF IdleNet
<1>7. CASE HasConnected(c)
  <2>1. UNCHANGED <<netId, byNetId, curNetId, queue>>
    BY <1>00, <1>7 DEF HandleConnectingClient
  <2>2. TypeOK'
    BY <1>1, <1>2, <1>6, <2>1 DEF TypeOK
  <2>3. \A d \in Conn : Posted(d)' <=> Posted(d)
    BY <2>1 DEF Posted
  <2>4. \A d \in Conn : Alive(d)' => Alive(d)
    BY <1>1, <1>5, <2>3 DEF Alive
  <2> QED
    BY <1>1, <1>4, <2>1, <2>2, <2>4, NetStep DEF ownedVars
<1>8. CASE ~HasConnected(c)
  <2>1. PICK i \in NetIds : /\ IsNetIdFor(i) /\ netId' = [netId EXCEPT ![c] = i]
                            /\ byNetId' = [byNetId EXCEPT ![i] = c] /\ curNetId' = IncrementId(i)
    BY <1>00, <1>8 DEF HandleConnectingClient
  <2>2. Post("net", "connected", c)
    BY <1>00, <1>8 DEF HandleConnectingClient
  <2>3. ASSUME EnoughNetIds
        PROVE  /\ K \in Nat /\ i = K + 1 /\ Cardinality(Connected \cup {c}) = K + 1
               /\ \A d \in Connected : netId[d] # i
    BY <1>00, <1>8, <2>1, <2>3, NextId
  <2>4. /\ netId \in [Conn -> 0 .. Temp] /\ byNetId \in [NetIds -> Conn \cup {Nobody}]
        /\ MaxNetId \in Nat \ {0} /\ NetIds = 1 .. MaxNetId /\ Temp = MaxNetId + 1
    BY <1>2, SizeAssumption DEF TypeOK, NetIds, Temp
  <2>5. /\ queue' \in [Producer -> Seq(Kinds \X Conn)]
        /\ \A d \in Conn : Posted(d)' => Posted(d) \/ d = c
        /\ \A d \in Conn : Dropped(d) => Dropped(d)'
        /\ \A d \in Conn, q \in Producer : \A j \in DOMAIN queue'[q] :
             Asks(q, j, d)' => j \in DOMAIN queue[q] /\ Asks(q, j, d)
    <3>1. "net" \in Producer /\ "connected" \in Kinds /\ "connected" # "connecting"
      BY DEF Producer, Kinds
    <3> QED
      BY <1>2, <2>2, <3>1, PostFacts
  <2>6. TypeOK'
    <3>1. netId' \in [Conn -> 0 .. Temp] /\ byNetId' \in [NetIds -> Conn \cup {Nobody}]
      BY <1>2, <2>1, <2>4
    <3>2. curNetId' \in NetIds
      BY <2>1, <2>4 DEF IncrementId
    <3> QED
      BY <1>1, <1>2, <1>6, <2>5, <3>1, <3>2 DEF TypeOK, Kinds
  <2>7. \A d \in Conn : Alive(d)' => Alive(d)
    BY <1>1, <1>2, <1>5, <2>5 DEF Alive
  <2>8. Connected' = Connected \cup {c}
    BY <1>2, <2>1, <2>4 DEF Connected, HasConnected
  <2>9. \A d \in Connected : d # c /\ netId'[d] = netId[d] /\ netId[d] \in NetIds
    BY <1>8, <2>1, <2>4 DEF Connected, HasConnected
  <2>10. netId'[c] = i /\ byNetId'[i] = c
    BY <1>2, <2>1, <2>4
  <2>11. Guids' /\ Erased' /\ TwiceNoted'
    BY <1>1, <1>5 DEF Inv, Guids, Erased, TwiceNoted
  <2>12. TokenFound'
    BY <1>1, <1>5 DEF Inv, TokenFound
  <2>13. SlotFound'
    <3> SUFFICES ASSUME NEW d \in Conn, Alive(d)', slot'[d] \notin doubly' \cup {NoSlot}
                 PROVE  bySlot'[slot'[d]] = d \/ SlotReset(d)'
      BY DEF SlotFound
    <3>1. Alive(d) /\ slot[d] \notin doubly \cup {NoSlot}
      BY <1>1, <2>7
    <3>2. bySlot[slot[d]] = d \/ SlotReset(d)
      BY <3>1 DEF Inv, SlotFound
    <3> QED
      BY <1>1, <1>5, <3>2
  <2>14. IdsInTurn'
    <3> SUFFICES ASSUME EnoughNetIds PROVE IdsInTurn'
      BY DEF IdsInTurn
    <3>0. /\ K \in Nat /\ i = K + 1 /\ Cardinality(Connected \cup {c}) = K + 1
          /\ \A d \in Connected : netId[d] # i /\ netId[d] <= K
      BY <2>3 DEF Inv, IdsInTurn
    <3>1. \A d \in Connected' : netId'[d] <= Cardinality(Connected')
      <4>1. \A d \in Connected' : netId'[d] <= K + 1
        <5> HIDE DEF K
        <5> QED
          BY <3>0, <2>4, <2>8, <2>9, <2>10
      <4> QED
        BY <3>0, <2>8, <4>1
    <3>2. \A d, e \in Connected' : netId'[d] = netId'[e] => d = e
      BY <3>0, <2>8, <2>9, <2>10 DEF Inv, IdsInTurn
    <3>3. Cardinality(Connected)' < MaxNetId => curNetId' = Cardinality(Connected)' + 1
      <4>1. Cardinality(Connected)' = K + 1
        BY <3>0, <2>8
      <4> HIDE DEF K
      <4> QED
        BY <2>1, <3>0, <2>4, <4>1 DEF IncrementId
    <3>4. ASSUME NEW n \in NetIds, byNetId'[n] # Nobody PROVE netId'[byNetId'[n]] = n
      <4>1. CASE n = i
        BY <2>10, <4>1
      <4>2. CASE n # i
        <5>1. byNetId'[n] = byNetId[n] /\ byNetId[n] \in Conn /\ netId[byNetId[n]] = n
          BY <2>1, <2>4, <3>4, <4>2 DEF Inv, IdsInTurn
        <5>2. byNetId[n] \in Connected
          BY <5>1 DEF Connected, HasConnected
        <5> QED
          BY <2>9, <5>1, <5>2
      <4> QED
        BY <4>1, <4>2
    <3>5. ASSUME NEW d \in Conn, InRegistry(d)', HasConnected(d)'
          PROVE  byNetId'[netId'[d]] = d \/ Removing(d)'
      <4>1. CASE d = c
        BY <2>10, <4>1
      <4>2. CASE d # c
        <5>1. d \in Connected /\ HasConnected(d)
          BY <2>8, <3>5, <4>2 DEF Connected
        <5>2. byNetId[netId[d]] = d \/ Removing(d)
          BY <1>5, <3>5, <5>1 DEF Inv, IdsInTurn
        <5> QED
          BY <1>5, <2>1, <3>0, <2>4, <2>9, <5>1, <5>2
      <4> QED
        BY <4>1, <4>2
    <3> QED
      BY <3>1, <3>2, <3>3, <3>4, <3>5 DEF IdsInTurn
  <2>15. AskedOnce'
    BY <1>3, <2>5, AskedKept
  <2>16. Fresh'
    BY <1>1, <1>2, <2>1, <2>4, <2>7 DEF Inv, Fresh, Early
  <2>17. JoinsAllowed'
    BY <1>00, <1>1, <2>1, <2>4 DEF Inv, JoinsAllowed, HasConnected
  <2>18. DropPending'
    <3> SUFFICES ASSUME NEW d \in Conn, dropping'[d], InRegistry(d)'
                 PROVE  Dropped(d)' \/ main' = d \/ removing'["main"].client = d
      BY DEF DropPending, Dropped
    <3>1. Dropped(d) \/ main = d \/ removing["main"].client = d
      BY <1>1, <1>5 DEF Inv, DropPending, Dropped
    <3> QED
      BY <1>1, <2>5, <3>1
  <2> QED
    BY <1>3, <1>4, <2>6, <2>11, <2>12, <2>13, <2>14, <2>15, <2>16, <2>17, <2>18 DEF Inv
<1> QED
  BY <1>7, <1>8

-----------------------------------------------------------------------------
(* The steps of RemoveClient. *)

Steps == {"netId", "slot", "erase", "unassign", "done"}

\* What every step of a removal keeps, when no other client's slot changes.
LEMMA RemovalFacts ==
  ASSUME Inv, NEW th \in Remover, NEW c \in Conn, NEW step \in Steps, NEW next \in Steps,
         Removal(th, step, next, c),
         \A d \in Conn : InRegistry(d)' => InRegistry(d),
         \A d \in Conn : slot'[d] = slot[d] \/ slot'[d] = NoSlot
  PROVE  /\ removing' \in [Remover -> [client : Conn \cup {Nobody}, step : Steps]]
         /\ UNCHANGED <<pc, byPeer, netId, peer, dropping, passed, curNetId, queue, checked, main, net,
                        doubly, lastPeer, remote, onDrop>>
         /\ \A t \in Remover : t # th => removing'[t] = removing[t]
         /\ removing'[th] = IF next = "done" THEN IdleRemover ELSE [client |-> c, step |-> next]
         /\ Alive(c) /\ Removing(c)
         /\ \A d \in Conn : d # c => Removing(d)' = Removing(d)
         /\ \A d \in Conn : d # c => SlotReset(d)' = SlotReset(d)
         /\ next # "done" => Removing(c)'
         /\ \A d \in Conn : Alive(d)' => Alive(d)
         /\ \A d \in Conn : Dropped(d)' <=> Dropped(d)
         /\ Turns' /\ Refused' /\ TwiceNoted' /\ AskedOnce' /\ Serving' /\ Fresh'
         /\ AllowedStays' /\ JoinsAllowed' /\ Budget'
<1>1. /\ removing[th] = [client |-> c, step |-> step]
      /\ removing' = [removing EXCEPT ![th] = IF next = "done" THEN IdleRemover
                                              ELSE [client |-> c, step |-> next]]
      /\ UNCHANGED <<pc, byPeer, netId, peer, dropping, passed, curNetId, queue, checked, main, net,
                     doubly, lastPeer, remote, onDrop>>
  BY DEF Removal, enetVars
<1>2. removing \in [Remover -> [client : Conn \cup {Nobody}, step : Steps]]
  BY DEF Inv, TypeOK, Steps
<1>3. removing' \in [Remover -> [client : Conn \cup {Nobody}, step : Steps]]
  <2>1. IdleRemover \in [client : Conn \cup {Nobody}, step : Steps]
    BY DEF IdleRemover, Steps
  <2> QED
    BY <1>1, <1>2, <2>1
<1>4. \A t \in Remover : t # th => removing'[t] = removing[t]
  BY <1>1, <1>2
<1>5. removing'[th] = IF next = "done" THEN IdleRemover ELSE [client |-> c, step |-> next]
  BY <1>1, <1>2
<1>6. Removing(c) /\ Alive(c)
  BY <1>1 DEF Removing, Alive
<1>7. removing'[th].client \in {c, Nobody} /\ removing[th].client = c
  BY <1>1, <1>5 DEF IdleRemover
<1>8. \A d \in Conn : d # c => Removing(d)' = Removing(d)
  BY <1>4, <1>7, ConnAssumption DEF Removing
<1>9. \A d \in Conn : d # c => SlotReset(d)' = SlotReset(d)
  BY <1>4, <1>7, ConnAssumption DEF SlotReset
<1>10. next # "done" => Removing(c)'
  BY <1>5 DEF Removing
<1>11. \A d \in Conn : pc[d] = "connecting" => pc'[d] = "connecting"
  BY <1>1
<1>12. AskedOnce' /\ \A d \in Conn : (Posted(d)' <=> Posted(d)) /\ (Dropped(d)' <=> Dropped(d))
  BY <1>1, <1>11, SameQueue
<1>13. \A d \in Conn : Alive(d)' => Alive(d)
  <2>1. \A d \in Conn : Removing(d)' => Removing(d)
    BY <1>6, <1>8
  <2> QED
    BY <1>1, <1>12, <2>1 DEF Alive
<1>14. \A t \in Remover, d \in Conn : removing'[t].client = d => removing[t].client = d
  BY <1>4, <1>7, ConnAssumption
<1>15. \A t \in Remover : removing[t].client = Nobody => removing'[t].client = Nobody
  BY <1>4, <1>7, ConnAssumption
<1>16. Turns'
  BY <1>1, <1>15 DEF Inv, Turns, NotRemoving, Remover
<1>17. Refused'
  BY <1>1, <1>14 DEF Inv, Refused, Remover
<1>18. TwiceNoted'
  <2> SUFFICES ASSUME NEW t \in Remover, NEW u \in Remover, NEW d \in Conn, t # u,
                      removing'[t].client = d, removing'[u].client = d
               PROVE  slot'[d] \in doubly' \cup {NoSlot}
    BY DEF TwiceNoted
  <2>1. slot[d] \in doubly \cup {NoSlot}
    BY <1>14 DEF Inv, TwiceNoted
  <2> QED
    BY <1>1, <2>1
<1>19. Fresh'
  BY <1>1, <1>13 DEF Inv, Fresh
<1>20. Serving' /\ AllowedStays' /\ JoinsAllowed'
  BY <1>1 DEF Inv, Serving, AllowedStays, JoinsAllowed, HasConnected
<1>21. Budget'
  BY <1>1, SameBegun
<1> QED
  BY <1>1, <1>3, <1>4, <1>5, <1>6, <1>8, <1>9, <1>10, <1>12, <1>13, <1>16, <1>17, <1>18, <1>19,
     <1>20, <1>21

\* What the removal's first three steps keep besides.
LEMMA DropsRemoved ==
  ASSUME Inv, NEW th \in Remover, UNCHANGED <<dropping, main>>,
         \A d \in Conn : InRegistry(d)' => InRegistry(d),
         \A d \in Conn : Dropped(d)' <=> Dropped(d),
         \A t \in Remover : t # th => removing'[t] = removing[t],
         \/ removing'[th].client = removing[th].client
         \/ \A d \in Conn : removing[th].client = d => ~InRegistry(d)
  PROVE  DropPending'
<1> SUFFICES ASSUME NEW d \in Conn, dropping'[d], InRegistry(d)'
             PROVE  Dropped(d)' \/ main' = d \/ removing'["main"].client = d
  BY DEF DropPending, Dropped
<1>1. Dropped(d) \/ main = d \/ removing["main"].client = d
  BY DEF Inv, DropPending, Dropped
<1>2. removing["main"].client = d => removing'["main"].client = d
  BY DEF Remover
<1> QED
  BY <1>1, <1>2

\* The net id's alias is reset.
LEMMA RemoveByNetIdInv ==
  ASSUME Inv, NEW th \in Remover, NEW c \in Conn, RemoveByNetId(th, c)
  PROVE  Inv'
<1>1. /\ Removal(th, "netId", "slot", c) /\ UNCHANGED <<clients, bySlot, byToken, slot>>
      /\ byNetId' = [i \in NetIds |-> IF i = netId[c] THEN Nobody ELSE byNetId[i]]
  BY DEF RemoveByNetId
<1>2. \A d \in Conn : InRegistry(d)' <=> InRegistry(d)
  BY <1>1 DEF InRegistry
<1>3. "netId" \in Steps /\ "slot" \in Steps /\ "slot" # "done"
  BY DEF Steps
<1>4. /\ removing' \in [Remover -> [client : Conn \cup {Nobody}, step : Steps]]
      /\ UNCHANGED <<pc, byPeer, netId, peer, dropping, passed, curNetId, queue, checked, main, net,
                     doubly, lastPeer, remote, onDrop>>
      /\ \A t \in Remover : t # th => removing'[t] = removing[t]
      /\ removing'[th] = [client |-> c, step |-> "slot"]
      /\ \A d \in Conn : d # c => Removing(d)' = Removing(d)
      /\ \A d \in Conn : d # c => SlotReset(d)' = SlotReset(d)
      /\ Removing(c)'
      /\ \A d \in Conn : Alive(d)' => Alive(d)
      /\ \A d \in Conn : Dropped(d)' <=> Dropped(d)
      /\ Turns' /\ Refused' /\ TwiceNoted' /\ AskedOnce' /\ Serving' /\ Fresh'
      /\ AllowedStays' /\ JoinsAllowed' /\ Budget'
  BY <1>1, <1>2, <1>3, RemovalFacts
<1>5. removing[th] = [client |-> c, step |-> "netId"]
  BY <1>1 DEF Removal
<1>6. byNetId \in [NetIds -> Conn \cup {Nobody}]
  BY DEF Inv, TypeOK
<1>7. TypeOK'
  <2>1. byNetId' \in [NetIds -> Conn \cup {Nobody}]
    BY <1>1, <1>6
  <2> QED
    BY <1>1, <1>4, <2>1 DEF Inv, TypeOK, Steps
<1>8. Guids'
  BY <1>1 DEF Inv, Guids
<1>9. Erased'
  BY <1>2, <1>4 DEF Inv, Erased
<1>10. TokenFound'
  BY <1>1, <1>2, <1>4 DEF Inv, TokenFound
<1>11. SlotFound'
  <2> SUFFICES ASSUME NEW d \in Conn, Alive(d)', slot'[d] \notin doubly' \cup {NoSlot}
               PROVE  bySlot'[slot'[d]] = d \/ SlotReset(d)'
    BY DEF SlotFound
  <2>1. Alive(d) /\ slot[d] \notin doubly \cup {NoSlot}
    BY <1>1, <1>4
  <2>2. bySlot[slot[d]] = d \/ SlotReset(d)
    BY <2>1 DEF Inv, SlotFound
  <2>3. SlotReset(d) => SlotReset(d)'
    BY <1>4, <1>5 DEF SlotReset
  <2> QED
    BY <1>1, <2>2, <2>3
<1>12. Connected' = Connected /\ \A d \in Conn : HasConnected(d)' <=> HasConnected(d)
  BY <1>4 DEF Connected, HasConnected
<1>13. IdsInTurn'
  <2> SUFFICES ASSUME EnoughNetIds PROVE IdsInTurn'
    BY DEF IdsInTurn
  <2>1. /\ \A d \in Connected : netId[d] <= Cardinality(Connected)
        /\ \A d, e \in Connected : netId[d] = netId[e] => d = e
        /\ Cardinality(Connected) < MaxNetId => curNetId = Cardinality(Connected) + 1
        /\ \A i \in NetIds : byNetId[i] # Nobody => netId[byNetId[i]] = i
        /\ \A d \in Conn : InRegistry(d) /\ HasConnected(d) => byNetId[netId[d]] = d \/ Removing(d)
    BY DEF Inv, IdsInTurn
  <2>2. \A i \in NetIds : byNetId'[i] # Nobody => netId'[byNetId'[i]] = i
    BY <1>1, <1>4, <1>6, <2>1
  <2>3. ASSUME NEW d \in Conn, InRegistry(d)', HasConnected(d)'
        PROVE  byNetId'[netId'[d]] = d \/ Removing(d)'
    <3>1. CASE d = c
      BY <1>4, <3>1
    <3>2. CASE d # c
      <4>1. InRegistry(d) /\ HasConnected(d) /\ netId[d] \in NetIds
        BY <1>2, <1>12, <2>3 DEF HasConnected
      <4>2. netId[d] # netId[c]
        BY <2>1, <3>2, <4>1 DEF Connected, HasConnected
      <4> QED
        BY <1>1, <1>4, <2>1, <3>2, <4>1, <4>2
    <3> QED
      BY <3>1, <3>2
  <2>4. Cardinality(Connected') = Cardinality(Connected) /\ curNetId' = curNetId /\ netId' = netId
    BY <1>4, <1>12
  <2> QED
    BY <1>12, <2>1, <2>2, <2>3, <2>4 DEF IdsInTurn
<1>14. DropPending'
  <2>1. removing'[th].client = removing[th].client
    BY <1>4, <1>5
  <2> QED
    BY <1>2, <1>4, <2>1, DropsRemoved
<1> QED
  BY <1>4, <1>7, <1>8, <1>9, <1>10, <1>11, <1>13, <1>14 DEF Inv

\* The aliases of the token and of the slot are reset.
LEMMA RemoveBySlotInv ==
  ASSUME Inv, NEW th \in Remover, NEW c \in Conn, RemoveBySlot(th, c)
  PROVE  Inv'
<1>1. /\ Removal(th, "slot", "erase", c) /\ UNCHANGED <<clients, byNetId, slot>>
      /\ byToken' = byToken \ {c}
      /\ bySlot' = [s \in Slots |-> IF s = slot[c] THEN Nobody ELSE bySlot[s]]
  BY DEF RemoveBySlot
<1>2. \A d \in Conn : InRegistry(d)' <=> InRegistry(d)
  BY <1>1 DEF InRegistry
<1>3. "slot" \in Steps /\ "erase" \in Steps /\ "erase" # "done"
  BY DEF Steps
<1>4. /\ removing' \in [Remover -> [client : Conn \cup {Nobody}, step : Steps]]
      /\ UNCHANGED <<pc, byPeer, netId, peer, dropping, passed, curNetId, queue, checked, main, net,
                     doubly, lastPeer, remote, onDrop>>
      /\ \A t \in Remover : t # th => removing'[t] = removing[t]
      /\ removing'[th] = [client |-> c, step |-> "erase"]
      /\ Alive(c)
      /\ \A d \in Conn : d # c => Removing(d)' = Removing(d)
      /\ \A d \in Conn : d # c => SlotReset(d)' = SlotReset(d)
      /\ Removing(c)'
      /\ \A d \in Conn : Alive(d)' => Alive(d)
      /\ \A d \in Conn : Dropped(d)' <=> Dropped(d)
      /\ Turns' /\ Refused' /\ TwiceNoted' /\ AskedOnce' /\ Serving' /\ Fresh'
      /\ AllowedStays' /\ JoinsAllowed' /\ Budget'
  BY <1>1, <1>2, <1>3, RemovalFacts
<1>5. removing[th] = [client |-> c, step |-> "slot"]
  BY <1>1 DEF Removal
<1>6. bySlot \in [Slots -> Conn \cup {Nobody}] /\ slot \in [Conn -> Slots \cup {NoSlot}]
  BY DEF Inv, TypeOK
<1>7. TypeOK'
  <2>1. bySlot' \in [Slots -> Conn \cup {Nobody}] /\ byToken' \subseteq Conn
    BY <1>1, <1>6 DEF Inv, TypeOK
  <2> QED
    BY <1>1, <1>4, <2>1 DEF Inv, TypeOK, Steps
<1>8. Guids'
  BY <1>1 DEF Inv, Guids
<1>9. Erased'
  BY <1>2, <1>4 DEF Inv, Erased
<1>10. TokenFound'
  BY <1>1, <1>2, <1>4 DEF Inv, TokenFound
<1>11. SlotFound'
  <2> SUFFICES ASSUME NEW d \in Conn, Alive(d)', slot'[d] \notin doubly' \cup {NoSlot}
               PROVE  bySlot'[slot'[d]] = d \/ SlotReset(d)'
    BY DEF SlotFound
  <2>1. CASE d = c
    BY <1>4, <2>1 DEF SlotReset
  <2>2. CASE d # c
    <3>1. Alive(d) /\ slot[d] \notin doubly \cup {NoSlot} /\ slot[d] \in Slots
      BY <1>1, <1>4, <1>6
    <3>2. bySlot[slot[d]] = d \/ SlotReset(d)
      BY <3>1 DEF Inv, SlotFound
    <3>3. CASE slot[d] # slot[c]
      BY <1>1, <1>4, <2>2, <3>1, <3>2, <3>3
    <3>4. CASE slot[d] = slot[c] /\ bySlot[slot[d]] = d
      <4>1. SlotReset(c)
        BY <1>4, <2>2, <3>1, <3>4 DEF Inv, SlotFound
      <4>2. PICK t \in Remover : removing[t].client = c /\ removing[t].step \in {"erase", "unassign"}
        BY <4>1 DEF SlotReset
      <4>3. t # th /\ removing[th].client = c
        BY <1>5, <4>2
      <4> QED
        BY <3>1, <3>4, <4>2, <4>3 DEF Inv, TwiceNoted
    <3> QED
      BY <1>4, <2>2, <3>2, <3>3, <3>4
  <2> QED
    BY <2>1, <2>2
<1>12. Connected' = Connected /\ \A d \in Conn : HasConnected(d)' <=> HasConnected(d)
  BY <1>4 DEF Connected, HasConnected
<1>13. IdsInTurn'
  <2>1. \A d \in Conn : Removing(d) => Removing(d)'
    BY <1>4
  <2> QED
    BY <1>1, <1>2, <1>4, <1>12, <2>1 DEF Inv, IdsInTurn
<1>14. DropPending'
  <2>1. removing'[th].client = removing[th].client
    BY <1>4, <1>5
  <2> QED
    BY <1>2, <1>4, <2>1, DropsRemoved
<1> QED
  BY <1>4, <1>7, <1>8, <1>9, <1>10, <1>11, <1>13, <1>14 DEF Inv

\* The client, or whichever has its guid, leaves m_clients.
LEMMA EraseClientInv ==
  ASSUME Inv, NEW th \in Remover, NEW c \in Conn, EraseClient(th, c)
  PROVE  Inv'
<1>1. /\ Removal(th, "erase", "unassign", c) /\ UNCHANGED <<byNetId, bySlot, byToken, slot>>
      /\ clients' = [clients EXCEPT ![GuidOf[c]] = Nobody]
      /\ clients \in [Guid -> Conn \cup {Nobody}] /\ GuidOf \in [Conn -> Guid] /\ Nobody \notin Conn
  BY ConnAssumption DEF EraseClient, Inv, TypeOK
<1>2. (\A d \in Conn : InRegistry(d)' => InRegistry(d)) /\ ~InRegistry(c)'
  BY <1>1 DEF InRegistry
<1>3. "erase" \in Steps /\ "unassign" \in Steps /\ "unassign" # "done"
  BY DEF Steps
<1>4. /\ removing' \in [Remover -> [client : Conn \cup {Nobody}, step : Steps]]
      /\ UNCHANGED <<pc, byPeer, netId, peer, dropping, passed, curNetId, queue, checked, main, net,
                     doubly, lastPeer, remote, onDrop>>
      /\ \A t \in Remover : t # th => removing'[t] = removing[t]
      /\ removing'[th] = [client |-> c, step |-> "unassign"]
      /\ \A d \in Conn : d # c => Removing(d)' = Removing(d)
      /\ \A d \in Conn : d # c => SlotReset(d)' = SlotReset(d)
      /\ Removing(c)'
      /\ \A d \in Conn : Alive(d)' => Alive(d)
      /\ \A d \in Conn : Dropped(d)' <=> Dropped(d)
      /\ Turns' /\ Refused' /\ TwiceNoted' /\ AskedOnce' /\ Serving' /\ Fresh'
      /\ AllowedStays' /\ JoinsAllowed' /\ Budget'
  BY <1>1, <1>2, <1>3, RemovalFacts
<1>5. removing[th] = [client |-> c, step |-> "erase"]
  BY <1>1 DEF Removal
<1>6. TypeOK'
  <2>1. clients' \in [Guid -> Conn \cup {Nobody}]
    BY <1>1
  <2> QED
    BY <1>1, <1>4, <2>1 DEF Inv, TypeOK, Steps
<1>7. Guids'
  BY <1>1 DEF Inv, Guids
<1>8. Erased'
  <2> SUFFICES ASSUME NEW t \in Remover, NEW d \in Conn,
                      removing'[t] = [client |-> d, step |-> "unassign"]
               PROVE  ~InRegistry(d)'
    BY DEF Erased
  <2>1. CASE t = th
    <3>1. d = c
      BY <1>4, <2>1
    <3> QED
      BY <1>2, <3>1
  <2>2. CASE t # th
    BY <1>2, <1>4, <2>2 DEF Inv, Erased
  <2> QED
    BY <2>1, <2>2
<1>9. TokenFound'
  BY <1>1, <1>2, <1>4 DEF Inv, TokenFound
<1>10. SlotFound'
  <2> SUFFICES ASSUME NEW d \in Conn, Alive(d)', slot'[d] \notin doubly' \cup {NoSlot}
               PROVE  bySlot'[slot'[d]] = d \/ SlotReset(d)'
    BY DEF SlotFound
  <2>1. CASE d = c
    BY <1>4, <2>1 DEF SlotReset
  <2>2. CASE d # c
    <3>1. Alive(d) /\ slot[d] \notin doubly \cup {NoSlot}
      BY <1>1, <1>4
    <3>2. bySlot[slot[d]] = d \/ SlotReset(d)
      BY <3>1 DEF Inv, SlotFound
    <3> QED
      BY <1>1, <1>4, <2>2, <3>2
  <2> QED
    BY <2>1, <2>2
<1>11. Connected' = Connected /\ \A d \in Conn : HasConnected(d)' <=> HasConnected(d)
  BY <1>4 DEF Connected, HasConnected
<1>12. IdsInTurn'
  <2>1. \A d \in Conn : Removing(d) => Removing(d)'
    BY <1>4
  <2> QED
    BY <1>1, <1>2, <1>4, <1>11, <2>1 DEF Inv, IdsInTurn
<1>13. DropPending'
  <2>1. removing'[th].client = removing[th].client
    BY <1>4, <1>5
  <2> QED
    BY <1>2, <1>4, <2>1, DropsRemoved
<1> QED
  BY <1>4, <1>6, <1>7, <1>8, <1>9, <1>10, <1>12, <1>13 DEF Inv

\* The client gives up its slot.
LEMMA UnassignSlotInv ==
  ASSUME Inv, NEW th \in Remover, NEW c \in Conn, UnassignSlot(th, c)
  PROVE  Inv'
<1>1. /\ Removal(th, "unassign", "done", c) /\ UNCHANGED <<clients, byNetId, bySlot, byToken>>
      /\ slot' = [slot EXCEPT ![c] = NoSlot] /\ slot \in [Conn -> Slots \cup {NoSlot}]
  BY DEF UnassignSlot, Inv, TypeOK
<1>2. /\ \A d \in Conn : InRegistry(d)' <=> InRegistry(d)
      /\ \A d \in Conn : slot'[d] = slot[d] \/ slot'[d] = NoSlot
  BY <1>1 DEF InRegistry
<1>3. "unassign" \in Steps /\ "done" \in Steps
  BY DEF Steps
<1>4. /\ removing' \in [Remover -> [client : Conn \cup {Nobody}, step : Steps]]
      /\ UNCHANGED <<pc, byPeer, netId, peer, dropping, passed, curNetId, queue, checked, main, net,
                     doubly, lastPeer, remote, onDrop>>
      /\ \A t \in Remover : t # th => removing'[t] = removing[t]
      /\ removing'[th] = IdleRemover
      /\ \A d \in Conn : d # c => Removing(d)' = Removing(d)
      /\ \A d \in Conn : d # c => SlotReset(d)' = SlotReset(d)
      /\ \A d \in Conn : Alive(d)' => Alive(d)
      /\ \A d \in Conn : Dropped(d)' <=> Dropped(d)
      /\ Turns' /\ Refused' /\ TwiceNoted' /\ AskedOnce' /\ Serving' /\ Fresh'
      /\ AllowedStays' /\ JoinsAllowed' /\ Budget'
  BY <1>1, <1>2, <1>3, RemovalFacts
<1>5. removing[th] = [client |-> c, step |-> "unassign"]
  BY <1>1 DEF Removal
<1>6. ~InRegistry(c)
  BY <1>5 DEF Inv, Erased
<1>7. TypeOK'
  <2>1. slot' \in [Conn -> Slots \cup {NoSlot}]
    BY <1>1
  <2> QED
    BY <1>1, <1>4, <2>1 DEF Inv, TypeOK, Steps
<1>8. Guids'
  BY <1>1 DEF Inv, Guids
<1>9. Erased'
  BY <1>2, <1>4 DEF Inv, Erased, IdleRemover
<1>10. TokenFound'
  BY <1>1, <1>2, <1>4, <1>6 DEF Inv, TokenFound
<1>11. SlotFound'
  <2> SUFFICES ASSUME NEW d \in Conn, Alive(d)', slot'[d] \notin doubly' \cup {NoSlot}
               PROVE  bySlot'[slot'[d]] = d \/ SlotReset(d)'
    BY DEF SlotFound
  <2>1. d # c /\ slot'[d] = slot[d]
    BY <1>1
  <2>2. Alive(d) /\ slot[d] \notin doubly \cup {NoSlot}
    BY <1>4, <2>1
  <2>3. bySlot[slot[d]] = d \/ SlotReset(d)
    BY <2>2 DEF Inv, SlotFound
  <2> QED
    BY <1>1, <1>4, <2>1, <2>3
<1>12. Connected' = Connected /\ \A d \in Conn : HasConnected(d)' <=> HasConnected(d)
  BY <1>4 DEF Connected, HasConnected
<1>13. IdsInTurn'
  <2>1. \A d \in Conn : InRegistry(d) /\ Removing(d) => Removing(d)'
    BY <1>4, <1>6
  <2> QED
    BY <1>1, <1>2, <1>4, <1>12, <2>1 DEF Inv, IdsInTurn
<1>14. DropPending'
  <2>1. \A d \in Conn : removing[th].client = d => ~InRegistry(d)
    BY <1>5, <1>6
  <2> QED
    BY <1>2, <1>4, <2>1, DropsRemoved
<1> QED
  BY <1>4, <1>7, <1>8, <1>9, <1>10, <1>11, <1>13, <1>14 DEF Inv

-----------------------------------------------------------------------------
(* The theorems. *)

\* The invariant holds before the first connection.
LEMMA InitInv == Init => Inv
<1> SUFFICES ASSUME Init PROVE Inv
  OBVIOUS
<1>1. TypeOK
  BY ConnAssumption, SizeAssumption
     DEF Init, TypeOK, Unset, Temp, NetIds, IdleNet, NoSlot, IdleRemover
<1>2. \A p \in Producer : queue[p] = <<>> /\ DOMAIN queue[p] = {}
  BY DEF Init
<1>3. \A c \in Conn : ~HasConnected(c) /\ slot[c] = NoSlot /\ ~InRegistry(c) /\ netId[c] = Unset
  BY ConnAssumption DEF Init, HasConnected, NetIds, Unset, InRegistry
<1>4. \A th \in Remover : removing[th].client = Nobody /\ removing[th].step = "done"
  BY DEF Init, IdleRemover
<1>5. \A c \in Conn : ~Removing(c) /\ ~Posted(c)
  BY <1>2, <1>4, ConnAssumption DEF Removing, Posted
<1>6. \A c \in Conn : ~Alive(c)
  BY <1>3, <1>5, ConnAssumption DEF Alive, Init, IdleNet
<1>7. Guids /\ Serving /\ AllowedStays /\ JoinsAllowed
  BY <1>3 DEF Init, Guids, Serving, AllowedStays, JoinsAllowed, IdleNet
<1>8. Fresh
  BY <1>3, <1>6 DEF Init, Fresh
<1>9. AskedOnce
  BY <1>2 DEF AskedOnce
<1>10. Budget
  <2>1. Begun = {} /\ Cardinality(Begun) = 0
    BY FS_EmptySet DEF Begun, Init
  <2> QED
    BY <2>1, SizeAssumption DEF Budget
<1>11. Turns /\ Refused
  BY <1>4, ConnAssumption DEF Init, Turns, NotRemoving, Refused, Remover, IdleNet, Thread
<1>12. Erased /\ TokenFound /\ SlotFound /\ TwiceNoted /\ DropPending
  BY <1>3, <1>4, <1>6, ConnAssumption DEF Erased, TokenFound, SlotFound, TwiceNoted, DropPending
<1>13. IdsInTurn
  <2>1. Connected = {} /\ Cardinality(Connected) = 0
    BY <1>3, FS_EmptySet DEF Connected
  <2> QED
    BY <1>3, <2>1, SizeAssumption DEF IdsInTurn, Init
<1> QED
  BY <1>1, <1>7, <1>8, <1>9, <1>10, <1>11, <1>12, <1>13 DEF Inv

\* Every step keeps the invariant.
LEMMA StepInv == Inv /\ [Next]_vars => Inv'
<1> SUFFICES ASSUME Inv, [Next]_vars PROVE Inv'
  OBVIOUS
<1>1. CASE Next
  BY <1>1, InitConnectInv, MakeClientInv, SetConnectionTokenInv, AuthenticationFailsInv,
     AuthenticationDoneInv, CancelRequestInv, DeferralDoneInv, DropOnMainInv, EnetInv,
     PlayerConnectingInv, CallbackInv, DropOnNetInv, ProcessHandshakeInv, DropClientvInv,
     FinishDropInv, SetPeerInv, AssignSlotInv, RefuseHandshakeInv, HandleConnectingClientInv, RemoveByNetIdInv,
     RemoveBySlotInv, EraseClientInv, UnassignSlotInv DEF Next, RemovalStep
<1>2. CASE UNCHANGED vars
  <2>1. UNCHANGED <<pc, ownedVars, byPeer, netId, peer, slot, dropping, passed, curNetId, queue,
                    checked, main, net, removing, doubly, lastPeer, remote, onDrop>>
    BY <1>2 DEF vars, registryVars, clientVars, threadVars, enetVars
  <2>2. TypeOK'
    BY <2>1 DEF Inv, TypeOK, ownedVars
  <2>3. \A d \in Conn : Alive(d)' => Alive(d)
    BY <2>1 DEF Alive, Posted, InRegistry, Removing, ownedVars
  <2>4. Serving' /\ Turns'
    BY <2>1 DEF Inv, Serving, Turns, NotRemoving
  <2> QED
    BY <2>1, <2>2, <2>3, <2>4, NetStep
<1> QED
  BY <1>1, <1>2

\* The invariant holds throughout.
THEOREM Invariant == Spec => []Inv
BY InitInv, StepInv, PTL DEF Spec

\* Every variable keeps its type: ids, slots and peers stay in their ranges.
THEOREM TypeCorrect == Spec => []TypeOK
<1>1. Inv => TypeOK
  BY DEF Inv
<1> QED
  BY <1>1, Invariant, PTL

\* ClientRegistry finds each client by its token and its net id, whatever the
\* other threads remove meanwhile and however their removals interleave.
THEOREM ClientsFound ==
  ASSUME EnoughNetIds
  PROVE  Spec => []LookupsAgree
<1>1. Inv => LookupsAgree
  BY EnoughNetIds DEF Inv, TokenFound, IdsInTurn, LookupsAgree
<1> QED
  BY <1>1, Invariant, PTL

\* A client's slot leads to it, although RemoveClient gives the alias and the slot
\* id back in two steps and the handler of OnAssignPeer may run between them.
THEOREM SlotsKept == Spec => []SlotsExclusive
<1>1. Inv => SlotsExclusive
  <2> SUFFICES ASSUME Inv, NEW c \in Conn, Alive(c), ~Removing(c),
                      slot[c] \notin doubly \cup {NoSlot}
               PROVE  bySlot[slot[c]] = c
    BY DEF SlotsExclusive
  <2>1. bySlot[slot[c]] = c \/ SlotReset(c)
    BY DEF Inv, SlotFound
  <2> QED
    BY <2>1 DEF SlotReset, Removing
<1> QED
  BY <1>1, Invariant, PTL

\* A drop is never lost: whoever marks a client has the main thread remove it.
THEOREM DropsPending == Spec => []DropPending
<1>1. Inv => DropPending
  BY DEF Inv
<1> QED
  BY <1>1, Invariant, PTL

\* No client gets its final id in the handshake unless the resources allowed it.
THEOREM OnlyAllowedJoin == Spec => []JoinsAllowed
<1>1. Inv => JoinsAllowed
  BY DEF Inv
<1> QED
  BY <1>1, Invariant, PTL

=============================================================================
