----------------------------- MODULE StateBags -----------------------------
(***************************************************************************)
(* One state bag (fx::StateBagImpl) and the component that owns it: a map  *)
(* from keys to values that is written by scripts and by packets of its    *)
(* owner and replicated to a changing set of peers.                        *)
(*                                                                         *)
(* Threads.  On the server "main" runs scripts, change handlers and        *)
(* RegisterTarget; "sync" runs the packet handler and the sync tick that   *)
(* adds and removes routing targets; UnregisterTarget runs on whichever    *)
(* thread fires the client's OnDrop.  SetKeyInternal changes m_data under  *)
(* m_dataMutex and sends after it has released the mutex, so a write and   *)
(* its send are two steps.  A send holds the targets lock for the whole    *)
(* loop and is one step.  The game client has one thread.                  *)
(*                                                                         *)
(* Clients come and go by slot (ClientLifecycle), which is freed after     *)
(* OnDrop or without it: several threads may remove a client at once, and  *)
(* a call made with the slot of the last client may reach the next one.    *)
(*                                                                         *)
(* Wire.  A state bag packet travels on a reliable, ordered ENet channel.  *)
(*                                                                         *)
(* History variables: the version of a write counts changes of m_data, its *)
(* number counts accepted packets, "excused" and "stale" hold the pairs    *)
(* and the slots for which the code gives no guarantee (see TargetsAgree). *)
(***************************************************************************)
EXTENDS Naturals, Sequences, SequencesExt, FiniteSets

CONSTANTS
  Peer,        \* slot ids
  Key,
  Val,         \* msgpack values other than nil
  Nil,         \* msgpack nil; also "no entry" in m_data
  None,        \* no owning peer (m_owningPeer has no value); no queued value
  Server,      \* owning peer -1: no client may write
  MaxWrites,   \* bound on writes
  MaxMoves     \* bound on changes of peers, owners and handlers

ASSUME ConstantsDiffer ==
  /\ Nil \notin Val /\ None \notin Val \cup Peer /\ Server \notin Peer
  /\ None # Nil /\ None # Server
  /\ None \notin [key : Key, val : Val \cup {Nil}, ver : Nat]

\* A bag has finitely many entries, and the game client always has its server
\* to send to.
ASSUME SizeAssumption ==
  /\ IsFiniteSet(Key) /\ Peer # {}
  /\ MaxWrites \in Nat /\ MaxMoves \in Nat

VARIABLES
  role,        \* m_role: "Server" or "Client"
  parent,      \* m_useParentTargets
  hooked,      \* OnStateBagChange has a handler
  owner,       \* m_owningPeer
  data,        \* m_data, with the version and the packet number of each value
  enabled,     \* m_replicationEnabled
  queued,      \* m_replicateData
  tasks,       \* writes posted to the main thread (QueueTask)
  out,         \* per thread: updates in m_data that it has yet to send
  connected,   \* slots that resolve to a client (GetClientBySlotID)
  fresh,       \* slots whose client the main thread has not registered
  watched,     \* slots of which a client's OnDrop calls UnregisterTarget
  joining,     \* the slot whose client the main thread is registering
  known,       \* m_targets of the component
  initial,     \* peers in m_targets whose SendAllInitial is outstanding
  routing,     \* m_routingTargets
  channel,     \* per peer: packets under way
  replica,     \* per peer: the values it has been told
  excused,     \* history: <<peer, key>> without a guarantee
  stale,       \* history: slots that were in m_targets when their client came
  direct,      \* history: has "sync" written m_data itself, and past a task?
  writes, packets, moves

bagVars == <<data, queued, out, excused, writes>>
modeVars == <<role, parent, hooked, enabled, owner>>
targetVars == <<known, initial, routing>>
clientVars == <<fresh, watched, joining, stale>>
peerVars == <<connected, channel, replica, clientVars>>
vars == <<bagVars, modeVars, targetVars, peerVars, tasks, direct, packets, moves>>

Thread == {"main", "sync"}

Update(k, v, n) == [key |-> k, val |-> v, ver |-> n]

Init ==
  /\ role \in {"Server", "Client"}
  /\ parent \in {b \in BOOLEAN : role = "Client" => b}
  /\ hooked \in BOOLEAN
  /\ owner = None
  /\ data = [k \in Key |-> [val |-> Nil, ver |-> 0, num |-> 0]]
  /\ enabled = (role = "Server")
  /\ queued = [k \in Key |-> None]
  /\ tasks = <<>>
  /\ out = [t \in Thread |-> <<>>]
  /\ known \in IF role = "Client" THEN {{p} : p \in Peer} ELSE {{}}
  /\ connected = known
  /\ fresh = {} /\ watched = {} /\ joining = {} /\ stale = {}
  /\ initial = {}
  /\ routing = {}
  /\ channel = [p \in Peer |-> <<>>]
  /\ replica = [p \in Peer |-> [k \in Key |-> Update(k, Nil, 0)]]
  /\ excused = {}
  /\ direct = "never"
  /\ writes = 0 /\ packets = 0 /\ moves = 0

-----------------------------------------------------------------------------
(* Sending *)

\* SendKeyValueToAllTargets iterates over the component's or the bag's targets
Targets == IF parent THEN known ELSE routing

\* SendKeyValue, SendPacket: a slot without a client gets nothing
SendKeyValue(S, msgs) ==
  channel' = [p \in Peer |->
                IF p \in S \cap connected THEN channel[p] \o msgs ELSE channel[p]]

\* The packets of SendAll: one for every entry of m_data.
SendAll(S) ==
  LET present == SetToSeq({k \in Key : data[k].val # Nil})
  IN SendKeyValue(S, [i \in DOMAIN present |->
       Update(present[i], data[present[i]].val, data[present[i]].ver)])

Idle(t) == out[t] = <<>> /\ (t = "main" => joining = {})

\* One update leaves a thread: to all targets, under the targets lock.  A
\* deletion is in no later SendAll: a peer that is no target now keeps the
\* value it may have.
Send(t) ==
  /\ out[t] # <<>>
  /\ LET msg == Head(out[t]) IN
       /\ SendKeyValue(Targets, <<msg>>)
       /\ excused' = excused \cup
            (IF msg.val = Nil THEN (Peer \ Targets) \X {msg.key} ELSE {})
  /\ out' = [out EXCEPT ![t] = Tail(@)]
  /\ UNCHANGED <<data, queued, writes, modeVars, targetVars, connected, replica, clientVars,
                 tasks, direct, packets, moves>>

\* A peer takes the next packet off its channel.
Deliver(p) ==
  /\ channel[p] # <<>>
  /\ replica' = [replica EXCEPT ![p][Head(channel[p]).key] = Head(channel[p])]
  /\ channel' = [channel EXCEPT ![p] = Tail(@)]
  /\ UNCHANGED <<bagVars, modeVars, targetVars, connected, clientVars, tasks, direct, packets,
                 moves>>

-----------------------------------------------------------------------------
(* Writing *)

\* The update is sent after the lock is released; with replication disabled it
\* is stored by emplace, which keeps a value already queued for the key.
Replicate(t, update) ==
  /\ out' = IF enabled THEN [out EXCEPT ![t] = Append(@, update)] ELSE out
  /\ queued' = IF ~enabled /\ queued[update.key] = None
               THEN [queued EXCEPT ![update.key] = update] ELSE queued

\* The pairs without a guarantee after a change of k: all of them if the write
\* is not replicated, if another thread's update of k is still unsent (the two
\* sends go out in either order), or if an older value is queued and stays.
Excuse(t, k, replicated) ==
  LET overlaps == \E u \in Thread \ {t} : \E i \in DOMAIN out[u] : out[u][i].key = k
      superseded == ~enabled /\ queued[k] # None
  IN IF ~replicated \/ overlaps \/ superseded
     THEN excused \cup (Peer \X {k})
     ELSE excused \ (Peer \X {k})

\* A value equal to the one stored, and nil for a key that has none, change
\* nothing and are not replicated.
SetKeyInternal(t, k, v, replicated, num) ==
  /\ writes < MaxWrites
  /\ writes' = writes + 1
  /\ IF data[k].val = v
     THEN UNCHANGED <<data, out, queued, excused>>
     ELSE /\ data' = [data EXCEPT ![k] = [val |-> v, ver |-> writes + 1, num |-> num]]
          /\ excused' = Excuse(t, k, replicated)
          /\ IF replicated THEN Replicate(t, Update(k, v, writes + 1))
                           ELSE UNCHANGED <<out, queued>>

\* SET_STATE_BAG_VALUE.  With a handler the task runs at once, for this is the
\* main thread; a handler that refuses leaves no trace.
ScriptSet(k, v, replicated) ==
  /\ Idle("main")
  /\ SetKeyInternal("main", k, v, replicated, data[k].num)
  /\ UNCHANGED <<modeVars, targetVars, peerVars, tasks, direct, packets, moves>>

\* Mutant: the write is applied on the packet's thread in spite of a handler.
HandlePacketOnSync(p, k, v) ==
  /\ role = "Server" /\ Idle("sync") /\ p \in connected
  /\ owner \in {None, p}
  /\ packets < MaxWrites
  /\ packets' = packets + 1
  /\ SetKeyInternal("sync", k, v, TRUE, packets + 1)
  /\ UNCHANGED <<modeVars, targetVars, peerVars, tasks, direct, moves>>

\* HandlePacket and HandlePacketV2: a packet is accepted from anyone if the bag
\* has no owner, else from the owner.  The server replicates it; with a handler
\* it posts the write to the main thread.
HandlePacket(p, k, v) ==
  /\ role = "Server" /\ Idle("sync") /\ p \in connected
  /\ owner \in {None, p}
  /\ packets < MaxWrites
  /\ packets' = packets + 1
  /\ IF hooked
     THEN /\ tasks' = Append(tasks, [key |-> k, val |-> v, num |-> packets + 1])
          /\ UNCHANGED <<bagVars, direct>>
     ELSE /\ SetKeyInternal("sync", k, v, TRUE, packets + 1)
          /\ direct' = IF tasks # <<>> \/ direct = "overtaking" THEN "overtaking" ELSE "inOrder"
          /\ tasks' = tasks
  /\ UNCHANGED <<modeVars, targetVars, peerVars, moves>>

\* On the game client, which has one thread and whose interface is not
\* asynchronous, a packet of the server is applied and not replicated.
HandleServerPacket(k, v) ==
  /\ role = "Client" /\ Idle("main")
  /\ SetKeyInternal("main", k, v, FALSE, data[k].num)
  /\ UNCHANGED <<modeVars, targetVars, peerVars, tasks, direct, packets, moves>>

\* Mutant: the main thread runs the newest task first.
RunNewestTask(accept) ==
  /\ tasks # <<>> /\ Idle("main") /\ accept
  /\ tasks' = Front(tasks)
  /\ SetKeyInternal("main", Last(tasks).key, Last(tasks).val, TRUE, Last(tasks).num)
  /\ UNCHANGED <<modeVars, targetVars, peerVars, direct, packets, moves>>

\* The main thread runs the oldest task: the handlers accept or refuse.
RunTask(accept) ==
  /\ tasks # <<>> /\ Idle("main")
  /\ tasks' = Tail(tasks)
  /\ IF accept THEN SetKeyInternal("main", Head(tasks).key, Head(tasks).val, TRUE, Head(tasks).num)
               ELSE UNCHANGED bagVars
  /\ UNCHANGED <<modeVars, targetVars, peerVars, direct, packets, moves>>

\* Mutant: the queue is sent and not emptied.
CreateAcknowledgedKeepsQueue ==
  LET stored == SetToSeq({k \in Key : queued[k] # None})
  IN /\ role = "Client" /\ ~enabled /\ Idle("main")
     /\ enabled' = TRUE
     /\ out' = [out EXCEPT !["main"] = [i \in DOMAIN stored |-> queued[stored[i]]]]
     /\ UNCHANGED <<data, queued, excused, writes, role, parent, hooked, owner, targetVars,
                    peerVars, tasks, direct, packets, moves>>

\* The creation of the entity is acknowledged: EnableImmediateReplication(true)
\* and SendQueuedUpdates, which empties the queue and sends what was in it.
CreateAcknowledged ==
  LET stored == SetToSeq({k \in Key : queued[k] # None})
  IN /\ role = "Client" /\ ~enabled /\ Idle("main")
     /\ enabled' = TRUE
     /\ queued' = [k \in Key |-> None]
     /\ out' = [out EXCEPT !["main"] = [i \in DOMAIN stored |-> queued[stored[i]]]]
     /\ UNCHANGED <<data, excused, writes, role, parent, hooked, owner, targetVars,
                    peerVars, tasks, direct, packets, moves>>

-----------------------------------------------------------------------------
(* Peers, owners and handlers *)

Move == role = "Server" /\ moves < MaxMoves /\ moves' = moves + 1

\* A slot gets a client (net thread).
Connect(p) ==
  /\ Move /\ p \notin connected
  /\ connected' = connected \cup {p}
  /\ fresh' = fresh \cup {p}
  /\ stale' = IF p \in known THEN stale \cup {p} ELSE stale
  /\ UNCHANGED <<bagVars, modeVars, targetVars, channel, replica, watched, joining, tasks, direct,
                 packets>>

\* OnConnectedClient: RegisterTarget inserts the slot under the unique lock of
\* m_mapMutex, also when the client is being removed and has not lost its slot
\* id yet.  Only a slot that is new there will be sent the bags.
RegisterTarget(p) ==
  /\ role = "Server" /\ Idle("main") /\ p \in fresh
  /\ fresh' = fresh \ {p}
  /\ joining' = {p}
  /\ known' = known \cup {p}
  /\ initial' = {p} \ known
  /\ UNCHANGED <<bagVars, modeVars, routing, connected, channel, replica, watched, stale, tasks,
                 direct, packets, moves>>

\* Mutant: only a bag that is routed to the peer is sent.
SendAllInitialRouted(p) ==
  /\ p \in initial
  /\ initial' = initial \ {p}
  /\ SendAll({p} \cap routing)
  /\ UNCHANGED <<bagVars, modeVars, known, routing, connected, replica, clientVars, tasks,
                 direct, packets, moves>>

\* ... and sends the bag under a shared one, unless the bag is routed to others.
SendAllInitial(p) ==
  /\ p \in initial
  /\ initial' = initial \ {p}
  /\ SendAll(IF routing # {} /\ p \notin routing THEN {} ELSE {p})
  /\ UNCHANGED <<bagVars, modeVars, known, routing, connected, replica, clientVars, tasks,
                 direct, packets, moves>>

\* ... and last connects the handler of OnDrop.
ConnectOnDrop ==
  /\ joining # {} /\ initial = {}
  /\ watched' = watched \cup joining
  /\ joining' = {}
  /\ UNCHANGED <<bagVars, modeVars, targetVars, connected, channel, replica, fresh, stale, tasks,
                 direct, packets, moves>>

\* A client's OnDrop, on any thread that removes it and at any moment, also
\* within RegisterTarget: once or twice, and perhaps late.
UnregisterTarget(p) ==
  /\ p \in watched
  /\ known' = known \ {p}
  /\ routing' = routing \ {p}
  /\ stale' = stale \ {p}
  /\ UNCHANGED <<bagVars, modeVars, initial, connected, channel, replica, fresh, watched, joining,
                 tasks, direct, packets, moves>>

\* RemoveClient frees the slot: with OnDrop done, or without, if that had no
\* handler yet or is still to come.
FreeSlot(p) ==
  /\ Move /\ p \in connected
  /\ connected' = connected \ {p}
  /\ channel' = [channel EXCEPT ![p] = <<>>]
  /\ replica' = [replica EXCEPT ![p] = [k \in Key |-> Update(k, Nil, 0)]]
  /\ UNCHANGED <<bagVars, modeVars, targetVars, clientVars, tasks, direct, packets>>

\* The sync tick routes the bag to a client.  The tick may have started before
\* the client was dropped.
AddRoutingTarget(p) ==
  /\ Move /\ ~parent /\ Idle("sync") /\ p \notin routing
  /\ routing' = routing \cup {p}
  /\ SendAll({p})
  /\ UNCHANGED <<bagVars, modeVars, known, initial, connected, replica, clientVars, tasks, direct,
                 packets>>

RemoveRoutingTarget(p) ==
  /\ Move /\ ~parent /\ Idle("sync") /\ p \in routing
  /\ routing' = routing \ {p}
  /\ UNCHANGED <<bagVars, modeVars, known, initial, peerVars, tasks, direct, packets>>

\* ENSURE_ENTITY_STATE_BAG sets all targets of the bag at once.
SetRoutingTargets(S) ==
  /\ Move /\ ~parent /\ Idle("main") /\ S # routing
  /\ routing' = S
  /\ SendAll(S \ routing)
  /\ UNCHANGED <<bagVars, modeVars, known, initial, connected, replica, clientVars, tasks, direct,
                 packets>>

\* The entity changes hands (ReassignEntity), or the server takes it.
SetOwningPeer(o) ==
  /\ Move /\ o # owner
  /\ owner' = o
  /\ UNCHANGED <<bagVars, role, parent, hooked, enabled, targetVars, peerVars, tasks,
                 direct, packets>>

\* ADD_STATE_BAG_CHANGE_HANDLER, and the removal of the last handler.
SetHooked(b) ==
  /\ Move /\ Idle("main") /\ b # hooked
  /\ hooked' = b
  /\ UNCHANGED <<bagVars, role, parent, enabled, owner, targetVars, peerVars, tasks,
                 direct, packets>>

Next ==
  \/ \E k \in Key, v \in Val \cup {Nil} :
       \/ \E b \in BOOLEAN : ScriptSet(k, v, b)
       \/ \E p \in Peer : HandlePacket(p, k, v)
       \/ HandleServerPacket(k, v)
  \/ \E b \in BOOLEAN : RunTask(b) \/ SetHooked(b)
  \/ \E t \in Thread : Send(t)
  \/ CreateAcknowledged \/ ConnectOnDrop
  \/ \E p \in Peer :
       \/ Deliver(p) \/ Connect(p) \/ RegisterTarget(p) \/ SendAllInitial(p)
       \/ UnregisterTarget(p) \/ FreeSlot(p) \/ AddRoutingTarget(p) \/ RemoveRoutingTarget(p)
  \/ \E S \in SUBSET Peer : SetRoutingTargets(S)
  \/ \E o \in Peer \cup {Server} : SetOwningPeer(o)

Spec == Init /\ [][Next]_vars

-----------------------------------------------------------------------------
(* Properties *)

Versions == 0 .. MaxWrites
Updates == [key : Key, val : Val \cup {Nil}, ver : Versions]

\* Types.  A bag of the server never queues an update (m_replicateData is the
\* client's), and the first values await only the peer being registered.
TypeOK ==
  /\ role \in {"Server", "Client"} /\ parent \in BOOLEAN /\ hooked \in BOOLEAN
  /\ owner \in Peer \cup {None, Server}
  /\ data \in [Key -> [val : Val \cup {Nil}, ver : Versions, num : Versions]]
  /\ enabled \in BOOLEAN
  /\ queued \in [Key -> Updates \cup {None}]
  /\ enabled => queued = [k \in Key |-> None]
  /\ tasks \in Seq([key : Key, val : Val \cup {Nil}, num : Versions])
  /\ out \in [Thread -> Seq(Updates)]
  /\ connected \cup fresh \cup watched \cup joining \cup stale \subseteq Peer
  /\ known \cup routing \subseteq Peer
  /\ initial \subseteq joining
  /\ channel \in [Peer -> Seq(Updates)]
  /\ replica \in [Peer -> [Key -> Updates]]
  /\ excused \subseteq Peer \X Key
  /\ direct \in {"never", "inOrder", "overtaking"}
  /\ writes \in Versions /\ packets \in Versions /\ moves \in 0 .. MaxMoves

\* The targets of the bag that the code keeps up to date.
Served == (Targets \cap known \cap connected) \ stale

Settled(p) ==
  /\ \A t \in Thread : out[t] = <<>>
  /\ p \notin initial /\ channel[p] = <<>>
  /\ \A k \in Key : queued[k] = None

\* No update is lost: once all is sent and delivered, every target of the bag
\* that is registered has exactly the bag's values, however the registration,
\* the routing, the drops and the writes of two threads interleave.  Excused
\* are a value that was not to be replicated, one that two threads wrote at
\* once, one that replaced a queued one, and a deletion while the peer was no
\* target: the code drops those, until the next change of the key is
\* replicated.  Excepted too is a client whose slot was left in m_targets by
\* the last one, whose OnDrop came before it had its handler: to
\* RegisterTarget the slot is not new, and the client is sent no bag.
TargetsAgree ==
  \A p \in Served, k \in Key :
    Settled(p) /\ <<p, k>> \notin excused => replica[p][k].val = data[k].val

\* A peer never sees an older value after a newer one, as long as the main
\* thread does all writing: the values sent on joining and the updates that
\* are sent after the data lock is released come in the order of the writes.
NeverBack ==
  [][direct' = "never" =>
       \A p \in connected', k \in Key : replica'[p][k].ver >= replica[p][k].ver]_vars

\* The packets of clients take effect in the order in which they were accepted,
\* also when the bag changes hands while the old owner's write waits for the
\* main thread: the new owner's write wins.  Only the removal of the last
\* handler lets a packet overtake the tasks that wait.
AcceptedOrder ==
  [][direct' # "overtaking" => \A k \in Key : data'[k].num >= data[k].num]_vars

=============================================================================
