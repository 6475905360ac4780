-------------------------- MODULE ClientLifecycle --------------------------
(***************************************************************************)
(* The life of a client on the server (citizen-server-impl): initConnect   *)
(* makes a Client and asks the resources whether it may join, the ENet     *)
(* handshake gives it a peer, a slot and its final net id, and a drop      *)
(* takes it out of the ClientRegistry again.                               *)
(*                                                                         *)
(* Four threads do this without a common lock.  The HTTP thread runs       *)
(* initConnect, that of an asynchronous provider its callback, the net     *)
(* thread ProcessPacket, and the main thread the callbacks that the others *)
(* post to it (CallbackListBase), the server frame and the resources'      *)
(* natives.  An action is what a thread does between two points where      *)
(* another one can see the difference, so RemoveClient, which all of them  *)
(* call, takes several.  m_amountConnectedClients, which nothing here      *)
(* reads, is left out.                                                     *)
(*                                                                         *)
(* A connection is one initConnect call, with the Client object it makes   *)
(* and the connection token it hands out.  The registry owns a Client only *)
(* through m_clients; its other maps hold weak references, which stop      *)
(* resolving when the last strong one is gone (Alive).  Remote machines    *)
(* are honest: a peer presents the guid and token it was given.            *)
(***************************************************************************)
EXTENDS Integers, Sequences, FiniteSets

CONSTANTS
  Conn,        \* connection attempts: calls of initConnect
  MaxConn,     \* bound: calls of initConnect in one behaviour
  Guid,        \* guids of the players
  GuidOf,      \* GuidOf[c]: the guid that c is made with
  AuthThread,  \* threads on which the identity providers may call back
  MaxNetId,    \* final net ids are 1 .. MaxNetId (0xFFFE in the code)
  MaxSlot,     \* slot ids are 0 .. MaxSlot, without 31
  MaxPeer,     \* bound: ENet connections in one behaviour
  Nobody       \* the null reference

ASSUME ConnAssumption ==
  /\ IsFiniteSet(Conn)
  /\ Nobody \notin Conn
  /\ GuidOf \in [Conn -> Guid]
  /\ AuthThread \subseteq {"http", "auth"}

ASSUME SizeAssumption ==
  /\ MaxConn \in Nat
  /\ MaxNetId \in Nat \ {0}
  /\ MaxSlot \in Nat
  /\ MaxPeer \in Nat

Unset == 0               \* 0xFFFF, the id of a new Client
Temp == MaxNetId + 1     \* 0x10000 + tempId
NetIds == 1 .. MaxNetId
PeerIds == 1 .. MaxPeer
Slots == (0 .. MaxSlot) \ {31}
NoSlot == -1
Thread == {"http", "net", "main"}
Producer == {"http", "auth", "net"}
Remover == {"http", "auth", "net", "main"}

VARIABLES
  pc,         \* pc[c]: how far initConnect is with c
  clients,    \* m_clients
  byNetId,    \* m_clientsByNetId (final ids)
  byPeer,     \* m_clientsByPeer
  bySlot,     \* m_clientsBySlotId
  byToken,    \* connections in m_clientsByConnectionToken and ...TokenHash
  netId,      \* Client::m_netId
  peer,       \* Client::m_peer, 0 for none
  slot,       \* Client::m_slotId
  dropping,   \* Client::m_dropping
  passed,     \* the client data "passedValidation"
  curNetId,   \* m_curNetId
  queue,      \* queue[p]: callbacks posted to the main thread by producer p
  removing,   \* removing[th]: the RemoveClient that th is in
  checked,    \* checked[th]: client th is about to drop, having seen it not dropping
  main,       \* the client DropClientInternal has signalled and not removed
  net,        \* the handshake the net thread is in
  lastPeer,   \* m_basePeerId
  remote,     \* remote[p]: the connection whose machine opened ENet peer p
  doubly,     \* history: slots whose client two threads were removing at once
  onDrop      \* clients whose OnDrop has fired

ownedVars == <<clients, byNetId, bySlot, byToken>>
registryVars == <<ownedVars, byPeer>>
clientVars == <<netId, peer, slot, dropping, passed>>
threadVars == <<queue, checked, main, net, removing, doubly>>
enetVars == <<lastPeer, remote>>
vars == <<pc, registryVars, clientVars, curNetId, threadVars, enetVars, onDrop>>

IdleRemover == [client |-> Nobody, step |-> "done"]

IdleNet == [step |-> "idle", client |-> Nobody, peer |-> 0]

HasConnected(c) == netId[c] \in NetIds

InRegistry(c) == clients[GuidOf[c]] = c

\* c was posted to the main thread.
Posted(c) == \E p \in Producer : \E i \in DOMAIN queue[p] : queue[p][i][2] = c

\* Some thread is in RemoveClient for c.
Removing(c) == \E th \in Remover : removing[th].client = c

\* Some strong reference to c exists: in m_clients, in a running initConnect,
\* authentication or handshake, in a posted callback, in a drop or a removal.
Alive(c) ==
  \/ InRegistry(c)
  \/ pc[c] \in {"emplaced", "auth"}
  \/ Posted(c)
  \/ Removing(c)
  \/ net.client = c \/ main = c
  \/ \E th \in Thread : checked[th] = c

\* A weak reference resolves to its client while that is alive.
Lock(c) == IF c \in Conn /\ Alive(c) THEN c ELSE Nobody

TypeOK ==
  /\ pc \in [Conn -> {"new", "replace", "replaced", "emplaced", "auth",
                      "connecting", "deferred", "allowed", "refused"}]
  /\ clients \in [Guid -> Conn \cup {Nobody}]
  /\ byNetId \in [NetIds -> Conn \cup {Nobody}]
  /\ byPeer \in [PeerIds -> Conn \cup {Nobody}]
  /\ bySlot \in [Slots -> Conn \cup {Nobody}]
  /\ byToken \subseteq Conn
  /\ netId \in [Conn -> 0 .. Temp]
  /\ peer \in [Conn -> {0} \cup PeerIds]
  /\ slot \in [Conn -> Slots \cup {NoSlot}]
  /\ dropping \in [Conn -> BOOLEAN]
  /\ passed \in [Conn -> BOOLEAN]
  /\ curNetId \in NetIds
  /\ queue \in [Producer -> Seq({"connecting", "connected", "drop"} \X Conn)]
  /\ checked \in [Thread -> Conn \cup {Nobody}]
  /\ main \in Conn \cup {Nobody}
  /\ removing \in [Remover -> [client : Conn \cup {Nobody},
       step : {"netId", "slot", "erase", "unassign", "done"}]]
  /\ doubly \subseteq Slots \cup {NoSlot}
  /\ net \in [step : {"idle", "found", "peer", "bound"}, client : Conn \cup {Nobody},
              peer : {0} \cup PeerIds]
  /\ lastPeer \in {0} \cup PeerIds
  /\ remote \in [PeerIds -> Conn \cup {Nobody}]
  /\ onDrop \subseteq Conn

Init ==
  /\ pc = [c \in Conn |-> "new"]
  /\ clients = [g \in Guid |-> Nobody]
  /\ byNetId = [i \in NetIds |-> Nobody]
  /\ byPeer = [p \in PeerIds |-> Nobody]
  /\ bySlot = [s \in Slots |-> Nobody]
  /\ byToken = {}
  /\ netId = [c \in Conn |-> Unset]
  /\ peer = [c \in Conn |-> 0]
  /\ slot = [c \in Conn |-> NoSlot]
  /\ dropping = [c \in Conn |-> FALSE]
  /\ passed = [c \in Conn |-> FALSE]
  /\ curNetId = 1
  /\ queue = [p \in Producer |-> <<>>]
  /\ checked = [th \in Thread |-> Nobody]
  /\ main = Nobody
  /\ net = IdleNet
  /\ removing = [th \in Remover |-> IdleRemover]
  /\ doubly = {}
  /\ lastPeer = 0
  /\ remote = [p \in PeerIds |-> Nobody]
  /\ onDrop = {}

-----------------------------------------------------------------------------
(* ClientRegistry. *)

\* th enters RemoveClient for c: OnDrop, unless a drop already fires it, and the
\* peer's alias.
RemoveClient(th, c) ==
  /\ removing' = [removing EXCEPT ![th] = [client |-> c, step |-> "netId"]]
  /\ doubly' = IF Removing(c) THEN doubly \cup {slot[c]} ELSE doubly
  /\ onDrop' = IF dropping[c] THEN onDrop ELSE onDrop \cup {c}
  /\ byPeer' = [q \in PeerIds |-> IF q = peer[c] THEN Nobody ELSE byPeer[q]]

NoRemoval == UNCHANGED <<removing, doubly, onDrop, byPeer>>

\* The removal of th goes on to its next step; c is its client.
Removal(th, step, next, c) ==
  /\ removing[th] = [client |-> c, step |-> step]
  /\ removing' = [removing EXCEPT ![th] = IF next = "done" THEN IdleRemover
                                          ELSE [client |-> c, step |-> next]]
  /\ UNCHANGED <<pc, byPeer, netId, peer, dropping, passed, curNetId, queue, checked, main, net,
                 doubly, enetVars, onDrop>>

RemoveByNetId(th, c) ==
  /\ Removal(th, "netId", "slot", c)
  /\ byNetId' = [i \in NetIds |-> IF i = netId[c] THEN Nobody ELSE byNetId[i]]
  /\ UNCHANGED <<clients, bySlot, byToken, slot>>

\* Mutant: the token is looked up by the guid.
RemoveByGuid(th, c) ==
  /\ Removal(th, "slot", "erase", c)
  /\ byToken' = byToken \ {d \in Conn : GuidOf[d] = GuidOf[c]}
  /\ bySlot' = [s \in Slots |-> IF s = slot[c] THEN Nobody ELSE bySlot[s]]
  /\ UNCHANGED <<clients, byNetId, slot>>

\* The aliases of the token, which no other thread sets or asks for together with
\* the slot, and of the slot.
RemoveBySlot(th, c) ==
  /\ Removal(th, "slot", "erase", c)
  /\ byToken' = byToken \ {c}
  /\ bySlot' = [s \in Slots |-> IF s = slot[c] THEN Nobody ELSE bySlot[s]]
  /\ UNCHANGED <<clients, byNetId, slot>>

\* Erases m_clients[guid], whichever client that holds.
EraseClient(th, c) ==
  /\ Removal(th, "erase", "unassign", c)
  /\ clients' = [clients EXCEPT ![GuidOf[c]] = Nobody]
  /\ UNCHANGED <<byNetId, bySlot, byToken, slot>>

\* Mutant: the removed client keeps its slot id.
KeepSlot(th, c) ==
  /\ Removal(th, "unassign", "done", c)
  /\ UNCHANGED <<clients, byNetId, bySlot, byToken, slot>>

\* SetSlotId(-1)
UnassignSlot(th, c) ==
  /\ Removal(th, "unassign", "done", c)
  /\ slot' = [slot EXCEPT ![c] = NoSlot]
  /\ UNCHANGED <<clients, byNetId, bySlot, byToken>>

RemovalStep(th, c) ==
  RemoveByNetId(th, c) \/ RemoveBySlot(th, c) \/ EraseClient(th, c) \/ UnassignSlot(th, c)

NotRemoving(th) == removing[th].client = Nobody

\* The highest free slot other than 31.
FreeSlots == {s \in Slots : Lock(bySlot[s]) = Nobody}
IsSlotFor(s) == s \in FreeSlots /\ \A r \in FreeSlots : r <= s

\* The first id from m_curNetId on, going round, that no living client has.
IdDistance(i) == (i - curNetId + MaxNetId) % MaxNetId
FreeNetIds == {i \in NetIds : Lock(byNetId[i]) = Nobody}
IsNetIdFor(i) == i \in FreeNetIds /\ \A j \in FreeNetIds : IdDistance(i) <= IdDistance(j)

\* Mutant: no wrap-around before the sentinel.
IncrementIdOnly(i) == i + 1

\* "0xFFFF is a sentinel value for 'invalid' ID, 0 is not a valid ID"
IncrementId(i) == IF i = MaxNetId THEN 1 ELSE i + 1

-----------------------------------------------------------------------------
(* The HTTP thread: initConnect, which it runs to the first asynchronous    *)
(* authentication without interruption by another initConnect.             *)

HttpIdle ==
  /\ \A d \in Conn : pc[d] \notin {"replace", "replaced", "emplaced"}
  /\ NotRemoving("http")

AuthIdle(th) == IF th = "http" THEN HttpIdle ELSE NotRemoving(th)

Goto(c, l) == pc' = [pc EXCEPT ![c] = l]

Post(p, kind, c) == queue' = [queue EXCEPT ![p] = Append(@, <<kind, c>>)]

\* Looks for a client of the same guid and starts to drop it.
InitConnect(c) ==
  LET oldClient == clients[GuidOf[c]]
  IN  /\ pc[c] = "new" /\ HttpIdle
      /\ Cardinality({d \in Conn : pc[d] # "new"}) < MaxConn
      /\ IF oldClient # Nobody /\ ~dropping[oldClient]
         THEN Goto(c, "replace") /\ checked' = [checked EXCEPT !["http"] = oldClient]
         ELSE Goto(c, "replaced") /\ UNCHANGED checked
      /\ UNCHANGED <<registryVars, clientVars, curNetId, queue, main, net,
                     removing, doubly, enetVars, onDrop>>

\* emplace does nothing when the guid is still taken.
MakeClient(c) ==
  /\ pc[c] = "replaced"
  /\ Goto(c, "emplaced")
  /\ clients' = [clients EXCEPT ![GuidOf[c]] = IF @ = Nobody THEN c ELSE @]
  /\ UNCHANGED <<byNetId, byPeer, bySlot, byToken, clientVars, curNetId, threadVars,
                 enetVars, onDrop>>

\* The Client that MakeClient returned gets its connection token and its
\* temporary id, whether or not the registry has it.  Then authentication starts,
\* or the ticket's game name does not match: an error is sent, and the Client
\* stays, since no ClientHolder owns it yet.
SetConnectionToken(c) ==
  /\ pc[c] = "emplaced"
  /\ Goto(c, "auth") \/ Goto(c, "refused")
  /\ byToken' = byToken \cup {c}
  /\ netId' = [netId EXCEPT ![c] = Temp]
  /\ UNCHANGED <<clients, byNetId, byPeer, bySlot, peer, slot, dropping, passed, curNetId,
                 threadVars, enetVars, onDrop>>

\* A provider fails, or the identifiers or the game build do not suffice: the
\* ClientHolder goes away and removes the client.
AuthenticationFails(c) ==
  /\ pc[c] = "auth"
  /\ Goto(c, "refused")
  /\ \E th \in AuthThread : AuthIdle(th) /\ RemoveClient(th, c)
  /\ UNCHANGED <<ownedVars, clientVars, curNetId, queue, checked, main, net, enetVars>>

\* done(), on the HTTP thread or on the one of an asynchronous provider.
AuthenticationDone(c) ==
  /\ pc[c] = "auth"
  /\ Goto(c, "connecting")
  /\ \E th \in AuthThread : AuthIdle(th) /\ Post(th, "connecting", c)
  /\ UNCHANGED <<registryVars, clientVars, curNetId, checked, main, net, removing, doubly,
                 enetVars, onDrop>>

\* The end, on thread th, of a ClientHolder that was not disowned: removes the
\* client if its weak reference still resolves.
EndHolder(th, c) == IF Alive(c) THEN RemoveClient(th, c) ELSE NoRemoval

\* The remote machine gives up while the resources defer its connection.
CancelRequest(c) ==
  /\ pc[c] = "deferred" /\ HttpIdle
  /\ Goto(c, "refused")
  /\ EndHolder("http", c)
  /\ UNCHANGED <<ownedVars, clientVars, curNetId, queue, checked, main, net, enetVars>>

-----------------------------------------------------------------------------
(* Dropping.  DropClientv reads m_dropping and sets it without a lock; the *)
(* rest runs on the main thread, at once if that is the caller.            *)

MainIdle == main = Nobody /\ checked["main"] = Nobody /\ NotRemoving("main")

NetIdle == net.step = "idle" /\ checked["net"] = Nobody /\ NotRemoving("net")

\* The main thread drops a client that timed out, or that a resource kicks.
DropOnMain(c) ==
  /\ MainIdle
  /\ InRegistry(c) /\ ~dropping[c]
  /\ checked' = [checked EXCEPT !["main"] = c]
  /\ UNCHANGED <<pc, registryVars, clientVars, curNetId, queue, main, net, removing, doubly,
                 enetVars, onDrop>>

\* A packet handler drops the client it serves: it quits, or exceeds a limit.
DropOnNet(p) ==
  /\ NetIdle
  /\ \E c \in Conn :
       /\ c = Lock(byPeer[p]) /\ remote[p] # Nobody /\ ~dropping[c]
       /\ checked' = [checked EXCEPT !["net"] = c]
  /\ UNCHANGED <<pc, registryVars, clientVars, curNetId, queue, main, net, removing, doubly,
                 enetVars, onDrop>>

\* The first part of DropClientInternal: playerDropped, if the client has its
\* final id, and OnDrop.
SignalDrop(c) ==
  /\ main' = c
  /\ onDrop' = onDrop \cup {c}

\* Mutant: a client that has no final id yet is marked and not posted.
DropClientvForgets(th) ==
  /\ checked[th] # Nobody
  /\ dropping' = [dropping EXCEPT ![checked[th]] = TRUE]
  /\ checked' = [checked EXCEPT ![th] = Nobody]
  /\ pc' = [c \in Conn |-> IF th = "http" /\ pc[c] = "replace" THEN "replaced" ELSE pc[c]]
  /\ IF th = "main"
     THEN SignalDrop(checked[th]) /\ UNCHANGED queue
     ELSE /\ IF HasConnected(checked[th]) THEN Post(th, "drop", checked[th]) ELSE UNCHANGED queue
          /\ UNCHANGED <<main, onDrop>>
  /\ UNCHANGED <<registryVars, netId, peer, slot, passed, curNetId, net, removing, doubly,
                 enetVars>>

\* SetDropping, and the call or the posting of DropClientInternal.
DropClientv(th) ==
  /\ checked[th] # Nobody
  /\ dropping' = [dropping EXCEPT ![checked[th]] = TRUE]
  /\ checked' = [checked EXCEPT ![th] = Nobody]
  /\ pc' = [c \in Conn |-> IF th = "http" /\ pc[c] = "replace" THEN "replaced" ELSE pc[c]]
  /\ IF th = "main"
     THEN SignalDrop(checked[th]) /\ UNCHANGED queue
     ELSE Post(th, "drop", checked[th]) /\ UNCHANGED <<main, onDrop>>
  /\ UNCHANGED <<registryVars, netId, peer, slot, passed, curNetId, net, removing, doubly,
                 enetVars>>

\* The end of DropClientInternal: it removes the client.
FinishDrop ==
  /\ main # Nobody
  /\ main' = Nobody
  /\ RemoveClient("main", main)
  /\ UNCHANGED <<pc, ownedVars, clientVars, curNetId, queue, checked, net, enetVars>>

-----------------------------------------------------------------------------
(* The main thread: callbacks of one producer run in the order they were   *)
(* posted, those of different producers in any order.                      *)

Take(p, kind, c) ==
  /\ MainIdle
  /\ queue[p] # <<>> /\ Head(queue[p]) = <<kind, c>>
  /\ queue' = [queue EXCEPT ![p] = Tail(@)]

Refuse(c) ==
  /\ Goto(c, "refused")
  /\ EndHolder("main", c)
  /\ UNCHANGED passed

\* The callback held the last reference and let go of it before the holder.
RefuseLost(c) ==
  /\ ~InRegistry(c) /\ ~Removing(c)
  /\ Goto(c, "refused")
  /\ NoRemoval /\ UNCHANGED passed

Defer(c) ==
  /\ Goto(c, "deferred")
  /\ NoRemoval /\ UNCHANGED passed

\* allowClient disowns the client and marks it, if it still exists.
AllowClient(c) ==
  /\ Goto(c, "allowed")
  /\ passed' = [passed EXCEPT ![c] = Alive(c)]
  /\ NoRemoval

\* playerConnecting: the resources refuse, defer or allow the connection, or
\* the request was cancelled before.
PlayerConnecting(p, c) ==
  /\ Take(p, "connecting", c)
  /\ Refuse(c) \/ RefuseLost(c) \/ Defer(c) \/ AllowClient(c)
  /\ UNCHANGED <<ownedVars, netId, peer, slot, dropping, curNetId, checked, main, net,
                 enetVars>>

\* The last resource calls deferrals.done.
DeferralDone(c) ==
  /\ pc[c] = "deferred" /\ MainIdle
  /\ Refuse(c) \/ AllowClient(c)
  /\ UNCHANGED <<ownedVars, netId, peer, slot, dropping, curNetId, queue, checked, main,
                 net, enetVars>>

DropClientInternal(p, c) ==
  /\ Take(p, "drop", c)
  /\ SignalDrop(c)
  /\ UNCHANGED <<pc, registryVars, clientVars, curNetId, checked, net, removing, doubly,
                 enetVars>>

\* playerJoining, whether or not the client was dropped in the meantime.
HandleConnectedClient(p, c) ==
  /\ Take(p, "connected", c)
  /\ UNCHANGED <<pc, registryVars, clientVars, curNetId, checked, main, net, removing,
                 doubly, enetVars, onDrop>>

-----------------------------------------------------------------------------
(* The net thread.  ENet accepts a connection for a known token, which the *)
(* remote machine has once its connection is deferred or allowed; each one *)
(* gets a new peer id.                                                     *)

OnValidateData(c) ==
  /\ pc[c] \in {"deferred", "allowed"}
  /\ c \in byToken /\ Alive(c)
  /\ \A p \in PeerIds : remote[p] # c
  /\ lastPeer < MaxPeer
  /\ lastPeer' = lastPeer + 1
  /\ remote' = [remote EXCEPT ![lastPeer + 1] = c]
  /\ UNCHANGED <<pc, registryVars, clientVars, curNetId, threadVars, onDrop>>

OnDisconnect(p) ==
  /\ remote[p] # Nobody
  /\ remote' = [remote EXCEPT ![p] = Nobody]
  /\ UNCHANGED <<pc, registryVars, clientVars, curNetId, threadVars, lastPeer, onDrop>>

\* Mutant: the validation is not checked.
ProcessHandshakeUnchecked(p) ==
  LET client == clients[GuidOf[remote[p]]]
  IN  /\ NetIdle
      /\ remote[p] # Nobody
      /\ Lock(byPeer[p]) = Nobody
      /\ client # Nobody
      /\ IF client # remote[p]
         THEN RemoveClient("net", client) /\ UNCHANGED net
         ELSE net' = [step |-> "found", client |-> client, peer |-> p] /\ NoRemoval
      /\ UNCHANGED <<pc, ownedVars, clientVars, curNetId, queue, checked, main, enetVars>>

\* ProcessPacket of the handshake message, up to the checks of the token and
\* of the validation: a client that fails them is removed.
ProcessHandshake(p) ==
  LET client == clients[GuidOf[remote[p]]]
  IN  /\ NetIdle
      /\ remote[p] # Nobody
      /\ Lock(byPeer[p]) = Nobody
      /\ client # Nobody
      /\ IF client # remote[p] \/ ~passed[client]
         THEN RemoveClient("net", client) /\ UNCHANGED net
         ELSE net' = [step |-> "found", client |-> client, peer |-> p] /\ NoRemoval
      /\ UNCHANGED <<pc, ownedVars, clientVars, curNetId, queue, checked, main, enetVars>>

\* SetPeer, whose OnAssignPeer handler begins with the peer's alias.
SetPeer ==
  /\ net.step = "found"
  /\ peer' = [peer EXCEPT ![net.client] = net.peer]
  /\ byPeer' = [byPeer EXCEPT ![net.peer] = net.client]
  /\ net' = [net EXCEPT !.step = "peer"]
  /\ UNCHANGED <<pc, clients, byNetId, bySlot, byToken, netId, slot, dropping, passed,
                 curNetId, queue, checked, main, removing, doubly, enetVars, onDrop>>

\* The rest of OnAssignPeer: a slot, if one is free, unless the client has one
\* already.
AssignSlot ==
  /\ net.step = "peer"
  /\ net' = [net EXCEPT !.step = "bound"]
  /\ \/ /\ slot[net.client] = NoSlot
        /\ \E s \in Slots :
             /\ IsSlotFor(s)
             /\ slot' = [slot EXCEPT ![net.client] = s]
             /\ bySlot' = [bySlot EXCEPT ![s] = net.client]
     \/ (slot[net.client] # NoSlot \/ FreeSlots = {}) /\ UNCHANGED <<bySlot, slot>>
  /\ UNCHANGED <<pc, clients, byNetId, byPeer, byToken, netId, peer, dropping, passed, curNetId,
                 queue, checked, main, removing, doubly, enetVars, onDrop>>

\* "Not enough client slot IDs": the client is removed.  It may also have lost its
\* slot to a removal by another thread.
RefuseHandshake ==
  /\ net.step = "bound" /\ slot[net.client] = NoSlot
  /\ net' = IdleNet
  /\ RemoveClient("net", net.client)
  /\ UNCHANGED <<pc, ownedVars, clientVars, curNetId, queue, checked, main, enetVars>>

\* HandleConnectingClient and the posting of HandleConnectedClient; nothing
\* for a client that had connected before.
HandleConnectingClient ==
  /\ net.step = "bound" /\ slot[net.client] # NoSlot
  /\ net' = IdleNet
  /\ IF HasConnected(net.client)
     THEN UNCHANGED <<netId, byNetId, curNetId, queue>>
     ELSE /\ \E i \in NetIds :
               /\ IsNetIdFor(i)
               /\ netId' = [netId EXCEPT ![net.client] = i]
               /\ byNetId' = [byNetId EXCEPT ![i] = net.client]
               /\ curNetId' = IncrementId(i)
          /\ Post("net", "connected", net.client)
  /\ UNCHANGED <<pc, clients, byPeer, bySlot, byToken, peer, slot, dropping, passed, checked,
                 main, removing, doubly, enetVars, onDrop>>

Next ==
  \/ \E c \in Conn :
       \/ InitConnect(c) \/ MakeClient(c) \/ SetConnectionToken(c)
       \/ AuthenticationFails(c) \/ AuthenticationDone(c) \/ CancelRequest(c)
       \/ DeferralDone(c) \/ DropOnMain(c) \/ OnValidateData(c)
  \/ \E p \in Producer, c \in Conn :
       PlayerConnecting(p, c) \/ DropClientInternal(p, c) \/ HandleConnectedClient(p, c)
  \/ \E p \in PeerIds : DropOnNet(p) \/ OnDisconnect(p) \/ ProcessHandshake(p)
  \/ \E th \in Thread : DropClientv(th)
  \/ \E th \in Remover, c \in Conn : RemovalStep(th, c)
  \/ FinishDrop \/ SetPeer \/ AssignSlot \/ RefuseHandshake \/ HandleConnectingClient

Spec == Init /\ [][Next]_vars

-----------------------------------------------------------------------------
(* Safety. *)

\* The aliases are right whatever other clients are removed meanwhile: a client
\* in the registry that has its token, and that no thread is removing, is found
\* by the token and by its net id.
LookupsAgree ==
  \A c \in Conn :
    InRegistry(c) /\ ~Removing(c) =>
      /\ pc[c] # "emplaced" => c \in byToken
      /\ HasConnected(c) => byNetId[netId[c]] = c

\* A client that has a slot is the one its slot leads to for as long as any
\* thread can still use it, so no two are in one slot, although a slot is free
\* before its client has given it up.  Excepted are clients being removed, and
\* slots whose client two threads were removing at once: the second reset of
\* such a slot may hit the next client.
SlotsExclusive ==
  \A c \in Conn :
    Alive(c) /\ ~Removing(c) /\ slot[c] \notin doubly \cup {NoSlot} => bySlot[slot[c]] = c

\* A client marked as dropping, by any thread and however often, does not stay in
\* the registry: its drop is posted, or in progress on the main thread.
DropPending ==
  \A c \in Conn : dropping[c] /\ InRegistry(c) =>
    \/ \E p \in Producer : \E i \in DOMAIN queue[p] : queue[p][i] = <<"drop", c>>
    \/ main = c \/ removing["main"].client = c

\* Only a client whose playerConnecting was allowed gets a final net id.
JoinsAllowed == \A c \in Conn : HasConnected(c) => passed[c]

\* "some code expects OnDrop to follow any OnClientCreated": a Client that was
\* made and is gone has had its OnDrop.
OnDropFollowsCreated ==
  \A c \in Conn : pc[c] \notin {"new", "replace", "replaced"} /\ ~Alive(c) => c \in onDrop

=============================================================================
