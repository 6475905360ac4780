----------------------------- MODULE ObjectIds -----------------------------
(***************************************************************************)
(* OneSync's object ids and the life of the entities that use them         *)
(* (fx::ServerGameState): an id is lent to a client (sent), carried by an  *)
(* entity (used), marked to return to the server (stolen), and free again. *)
(*                                                                         *)
(* Threads.  "sync" runs the tick, the packets and HandleClientDrop; "main"*)
(* runs scripts, drops clients and triggers the events of an entity; "net" *)
(* looks up the sender of a packet and posts it, and lends ids at the      *)
(* handshake.  The callback list of a thread keeps the order of each       *)
(* producer and none between producers, so "sync" has one queue per        *)
(* producer: fromNet and fromMain.  A callback that takes locks one after  *)
(* another is several steps: the ids, the entities by id, the ids of a     *)
(* client and the registry each have their own.                            *)
(*                                                                         *)
(* Abstractions.  Geometry, routing buckets and the creation filter decide *)
(* what is relevant to whom: any set of clients.  A slot is its client: a  *)
(* client of this model never shares its slot with an earlier one.  An     *)
(* entity is created on a client in the tick that makes it relevant.  Sync *)
(* style NAK.  Players, trains and orphan modes other than "delete when    *)
(* not relevant" and "keep" are left out.                                  *)
(***************************************************************************)
EXTENDS Naturals, Sequences, FiniteSets

CONSTANTS
  Client,
  None,
  Kinds,       \* what a client creates: script ("none", "client") and keep
  MaxId,       \* object ids are 1 .. MaxId
  MaxEntity,   \* bound on entities ever made
  MaxPosted    \* bound on each of the queues of the sync thread

ASSUME NoneIsNoClient == None \notin Client
ASSUME MaxIdAssumption == MaxId \in Nat /\ None \notin 1 .. MaxId
ASSUME MaxEntityAssumption == MaxEntity \in Nat
ASSUME KindsAssumption == Kinds \subseteq [script : {"none", "client"}, keep : BOOLEAN]

VARIABLES
  conn,        \* per client: "new", "on"; "leaving" once OnDrop has posted
               \* HandleClientDrop, then "dropped" if it leaves the registry
               \* before that has run and "handled" if after, last "gone"
  granting,    \* the net thread is about to lend ids to this new client
  sent, used, stolen,   \* m_objectIdsSent, m_objectIdsUsed, m_objectIdsStolen
  objectIds,   \* per client: ClientData::objectIds
  entity,      \* per id: m_entitiesById and m_entityList
  pool,        \* per client: its own free list (g_objectIds of the game client)
  synced,      \* per client: the entities it has (syncedEntities)
  marking,     \* an id whose entity is inserted and not yet marked as used
  creating,    \* an id that is marked and whose entity is not yet inserted
  freeing,     \* an id whose entity is removed and which is not yet free
  mainQueue,   \* posted by the sync thread to the main thread
  fromMain, fromNet,    \* posted to the sync thread
  made,        \* entities made so far: uniqifiers
  raced,       \* history: a clone packet was handled, or the tick came, after
               \* the drop of a client was, or an id was lent to the client
               \* from which it was being taken
  lost         \* history: ids lent to a client after its drop was handled

idVars == <<sent, used, stolen, objectIds>>
entityVars == <<entity, synced, pool, marking, creating, freeing, made>>
queueVars == <<mainQueue, fromMain, fromNet>>
vars == <<conn, granting, idVars, entityVars, queueVars, raced, lost>>

Id == 1 .. MaxId
Uniqifier == 1 .. MaxEntity
Registered == {c \in Client : conn[c] \in {"on", "leaving", "handled"}}
Handled(c) == conn[c] \in {"handled", "gone"}

\* The weak reference to an owner resolves.
Live(c) == c # None /\ conn[c] # "gone"

NoEntity == [uniq |-> 0]
Exists(i) == entity[i].uniq # 0

NewEntity(u, owner, script, keep) ==
  [uniq |-> u, owner |-> owner, first |-> owner, firstDropped |-> FALSE,
   script |-> script, keep |-> keep, deleting |-> FALSE, finalizing |-> FALSE,
   relevantTo |-> IF owner = None THEN {} ELSE {owner}, deletedFor |-> {}, outOfScopeFor |-> {}]

NotFreeing == [step |-> "none"]

\* The id is about to be erased from the ids of c.
BeingTaken(c, i) == freeing.step = "holder" /\ freeing.id = i /\ freeing.owner = c

\* A thread that is in the midst of a callback takes no other.
SyncIdle == marking = None /\ freeing = NotFreeing
MainIdle == creating = NoEntity /\ \A c \in Client : conn[c] \notin {"leaving", "handled"}

ShouldServerKeep(e) == e.script = "server" \/ e.keep

Init ==
  /\ conn = [c \in Client |-> "new"]
  /\ granting = None
  /\ sent = {} /\ used = {} /\ stolen = {}
  /\ objectIds = [c \in Client |-> {}]
  /\ entity = [i \in Id |-> NoEntity]
  /\ synced = [c \in Client |-> {}]
  /\ pool = [c \in Client |-> {}]
  /\ marking = None /\ creating = NoEntity /\ freeing = NotFreeing
  /\ mainQueue = <<>> /\ fromMain = <<>> /\ fromNet = <<>>
  /\ made = 0
  /\ raced = FALSE
  /\ lost = {}

-----------------------------------------------------------------------------
(* Ids *)

Free == Id \ (sent \cup used)
Lowest(S) == CHOOSE i \in S : \A j \in S : i <= j
Highest(S) == CHOOSE i \in S : \A j \in S : j <= i

\* GetFreeObjectIds for one id; with none free the client gets none.
GetFreeObjectIds(c) ==
  IF Free = {}
  THEN UNCHANGED <<sent, objectIds, pool, raced, lost>>
  ELSE LET i == Lowest(Free) IN
         /\ sent' = sent \cup {i}
         /\ objectIds' = [objectIds EXCEPT ![c] = @ \cup {i}]
         /\ pool' = [pool EXCEPT ![c] = @ \cup {i}]
         /\ raced' = (raced \/ BeingTaken(c, i))
         /\ lost' = IF Handled(c) THEN lost \cup {i} ELSE lost

\* The handshake: the client is registered ...
Connect(c) ==
  /\ conn[c] = "new" /\ granting = None
  /\ conn' = [conn EXCEPT ![c] = "on"]
  /\ granting' = c
  /\ UNCHANGED <<idVars, entityVars, queueVars, raced, lost>>

\* ... and gets its first ids, on the net thread, dropped or not.
GrantFirstIds ==
  /\ granting # None
  /\ GetFreeObjectIds(granting)
  /\ granting' = None
  /\ UNCHANGED <<conn, used, stolen, entity, synced, marking, creating, freeing, made, queueVars>>

-----------------------------------------------------------------------------
(* The net thread posts the packets of clients *)

Post(m) == Len(fromNet) < MaxPosted /\ fromNet' = Append(fromNet, m)

\* A client asks for ids; creates an entity under an id of its free list; and
\* syncs, gives away or removes an entity that it has.
SendPacket(c) ==
  /\ c \in Registered /\ granting = None
  /\ \/ Post([op |-> "requestIds", from |-> c]) /\ UNCHANGED <<made, pool>>
     \/ \E i \in pool[c], k \in Kinds :
          /\ pool' = [pool EXCEPT ![c] = @ \ {i}]
          /\ made < MaxEntity /\ made' = made + 1
          /\ Post([op |-> "create", from |-> c, id |-> i, uniq |-> made + 1, kind |-> k])
     \/ \E i \in Id, op \in {"sync", "takeover", "remove"} :
          /\ entity[i].uniq \in synced[c]
          /\ Post([op |-> op, from |-> c, id |-> i, uniq |-> entity[i].uniq])
          /\ UNCHANGED <<made, pool>>
  /\ UNCHANGED <<conn, granting, idVars, entity, synced, marking, creating, freeing, mainQueue,
                 fromMain, raced, lost>>

-----------------------------------------------------------------------------
(* Owners *)

\* ReassignEntity for the entities of a set: each id leaves its old owner, if
\* that one still exists, and goes to the new one.
Holders(moved, new) ==
  [c \in Client |->
     (objectIds[c] \ {i \in moved : entity[i].owner = c /\ Live(c)})
       \cup {i \in moved : new[i] = c}]

-----------------------------------------------------------------------------
(* The sync thread handles packets *)

\* A duplicate is ignored.  The create is refused (lockdown, an invalid type) and
\* the client told to remove the entity, or the entity is inserted and its
\* creation announced on the main thread.
CloneCreate(m) ==
  \/ Exists(m.id) /\ UNCHANGED <<entity, synced, pool, marking, mainQueue>>
  \/ /\ ~Exists(m.id)
     /\ pool' = [pool EXCEPT ![m.from] = @ \cup {m.id}]
     /\ UNCHANGED <<entity, synced, marking, mainQueue>>
  \/ /\ ~Exists(m.id)
     /\ pool' = pool
     /\ entity' = [entity EXCEPT ![m.id] = NewEntity(m.uniq, m.from, m.kind.script, m.kind.keep)]
     /\ synced' = [synced EXCEPT ![m.from] = @ \cup {m.uniq}]
     /\ marking' = m.id
     /\ mainQueue' = Append(mainQueue, [op |-> "creating", id |-> m.id, uniq |-> m.uniq])

\* Mutant: relevantTo is set for a client that was told of the deletion.
CloneSyncAlways(m) ==
  /\ entity' = IF entity[m.id].uniq = m.uniq
               THEN [entity EXCEPT ![m.id].relevantTo = @ \cup {m.from}] ELSE entity
  /\ UNCHANGED <<synced, pool, marking, mainQueue>>

\* ProcessClonePacket for a sync: the sender becomes one the entity is relevant
\* to, unless the server has told it to remove the entity.
CloneSync(m) ==
  LET e == entity[m.id] IN
    /\ entity' = IF e.uniq = m.uniq /\ m.from \notin e.deletedFor \cup e.outOfScopeFor
                 THEN [entity EXCEPT ![m.id].relevantTo = @ \cup {m.from}]
                 ELSE entity
    /\ UNCHANGED <<synced, pool, marking, mainQueue>>

\* ProcessCloneTakeover, with any target: the sender, or a client in the registry.
CloneTakeover(m) ==
  LET e == entity[m.id] IN
    \E c \in Registered \cup {m.from} :
      IF Exists(m.id) /\ ~(Live(e.owner) /\ e.owner \in {c} \cup (Client \ {m.from}))
      THEN /\ entity' = [entity EXCEPT ![m.id].owner = c]
           /\ objectIds' = Holders({m.id}, [i \in {m.id} |-> c])
           /\ stolen' = stolen \cup {m.id}
      ELSE UNCHANGED <<entity, objectIds, stolen>>

\* RemoveClone marks whatever entity has the id by now.
RemoveClone(i) ==
  entity' = IF Exists(i) THEN [entity EXCEPT ![i].deleting = TRUE] ELSE entity

\* ProcessCloneRemove: from its owner, with the right uniqifier, and unless the
\* entity is a server script's and those are protected.
CloneRemove(m) ==
  LET e == entity[m.id] IN
    IF Exists(m.id) /\ Live(e.owner) /\ e.owner = m.from /\ e.uniq = m.uniq
    THEN RemoveClone(m.id) \/ (e.script = "server" /\ entity' = entity)
    ELSE entity' = entity

HandlePacket ==
  /\ fromNet # <<>> /\ SyncIdle
  /\ fromNet' = Tail(fromNet)
  /\ LET m == Head(fromNet) IN
       \/ /\ m.op = "requestIds"
          /\ GetFreeObjectIds(m.from)
          /\ UNCHANGED <<stolen, entity, synced, marking, mainQueue>>
       \/ /\ m.op # "requestIds"
          /\ raced' = (raced \/ Handled(m.from))
          /\ \/ m.op = "create" /\ CloneCreate(m) /\ UNCHANGED <<objectIds, stolen>>
             \/ m.op = "sync" /\ CloneSync(m) /\ UNCHANGED <<objectIds, stolen>>
             \/ m.op = "takeover" /\ CloneTakeover(m)
                  /\ UNCHANGED <<synced, pool, marking, mainQueue>>
             \/ m.op = "remove" /\ CloneRemove(m)
                  /\ UNCHANGED <<objectIds, stolen, synced, pool, marking, mainQueue>>
          /\ UNCHANGED <<sent, lost>>
  /\ UNCHANGED <<conn, granting, used, creating, freeing, made, fromMain>>

\* ProcessCloneCreate marks the id as used after the entity was inserted.
MarkUsed ==
  /\ marking # None
  /\ used' = used \cup {marking}
  /\ marking' = None
  /\ UNCHANGED <<conn, granting, sent, stolen, objectIds, entity, synced, pool, creating, freeing,
                 made, queueVars, raced, lost>>

-----------------------------------------------------------------------------
(* The sync thread handles what the main thread posted *)

\* MoveEntityToCandidate while c is dropped: an entity without an owner, or of
\* c, goes to another client it is relevant to, or to nobody if the server
\* keeps it; the first owner may get it back; or it is removed.
DropFor(e, c) ==
  [e EXCEPT !.firstDropped = @ \/ (Live(e.first) /\ e.first = c),
            !.relevantTo = @ \ {c}, !.deletedFor = @ \ {c}, !.outOfScopeFor = @ \ {c}]

Heirs(e, c) ==
  LET candidates == (e.relevantTo \cap Registered) \ {c} IN
    IF Live(e.owner) /\ e.owner # c THEN {e.owner}
    ELSE IF candidates # {} THEN candidates
    ELSE IF ShouldServerKeep(e) THEN {None}
    ELSE IF e.script = "client" /\ ~e.firstDropped THEN {IF Live(e.first) THEN e.first ELSE None}
    ELSE {}

\* Mutant: the ids of the client stay marked as sent.
SentAfterDropKept(c, holders) == sent

\* The ids that the client still holds when its entities are dealt with.
SentAfterDrop(c, holders) == sent \ holders[c]

\* HandleClientDrop: a new owner for every entity that needs one, or its removal,
\* then the ids.
HandleClientDrop(c) ==
  \E heir \in [Id -> Client \cup {None}] :
    LET live == {i \in Id : Exists(i)}
        dropped == [i \in live |-> DropFor(entity[i], c)]
        orphans == {i \in live : Heirs(dropped[i], c) = {}}
        moved == {i \in live \ orphans : ~(Live(entity[i].owner) /\ entity[i].owner # c)}
        holders == Holders(moved, heir)
    IN /\ \A i \in Id : heir[i] \in (IF i \in moved THEN Heirs(dropped[i], c) ELSE {None})
       /\ entity' = [i \in Id |->
            IF i \in moved THEN [dropped[i] EXCEPT !.owner = heir[i]]
            ELSE IF i \in orphans THEN [dropped[i] EXCEPT !.deleting = TRUE]
            ELSE IF i \in live THEN dropped[i] ELSE NoEntity]
       /\ objectIds' = holders
       /\ stolen' = stolen \cup moved
       /\ sent' = SentAfterDrop(c, holders)
       /\ conn' = [conn EXCEPT ![c] = IF @ = "leaving" THEN "handled" ELSE "gone"]
       /\ synced' = [synced EXCEPT ![c] = {}]
       /\ pool' = [pool EXCEPT ![c] = {}]

\* Mutant: the entity leaves m_entitiesById and stays in m_entityList.
DoRemoveKeepsListed(i) ==
  /\ entity' = [entity EXCEPT ![i].uniq = 0]
  /\ freeing' = [step |-> "ids", id |-> i, owner |-> entity[i].owner]

\* The second half of FinalizeClone.  The entity leaves m_entitiesById; that it
\* leaves m_entityList at the end is seen by this thread only.
DoRemove(i) ==
  /\ freeing' = [step |-> "ids", id |-> i, owner |-> IF Exists(i) THEN entity[i].owner ELSE None]
  /\ entity' = [entity EXCEPT ![i] = NoEntity]

RunPosted ==
  /\ fromMain # <<>> /\ SyncIdle
  /\ fromMain' = Tail(fromMain)
  /\ LET m == Head(fromMain) IN
       \/ m.op = "drop" /\ HandleClientDrop(m.from) /\ UNCHANGED <<used, freeing>>
       \/ m.op = "doRemove" /\ DoRemove(m.id) /\ UNCHANGED <<conn, synced, pool, idVars>>
       \/ m.op = "delete" /\ RemoveClone(m.id) /\ UNCHANGED <<conn, synced, pool, idVars, freeing>>
  /\ UNCHANGED <<granting, marking, creating, made, mainQueue, fromNet, raced, lost>>

\* ... The id is free, or its client's again.
FreeObjectId ==
  /\ freeing.step = "ids"
  /\ used' = used \ {freeing.id}
  /\ sent' = IF freeing.id \in stolen THEN sent \ {freeing.id} ELSE sent
  /\ stolen' = stolen \ {freeing.id}
  /\ freeing' = IF freeing.id \in stolen THEN [freeing EXCEPT !.step = "holder"] ELSE NotFreeing
  /\ UNCHANGED <<conn, granting, objectIds, entity, synced, pool, marking, creating, made,
                 queueVars, raced, lost>>

\* Mutant: the owner keeps an id that went back to the server.
EraseHolderNot ==
  /\ freeing.step = "holder"
  /\ freeing' = NotFreeing
  /\ UNCHANGED <<conn, granting, idVars, entity, synced, pool, marking, creating, made,
                 queueVars, raced, lost>>

\* ... A stolen id is erased from the ids of the owner.
EraseHolder ==
  /\ freeing.step = "holder"
  /\ objectIds' = IF Live(freeing.owner)
                  THEN [objectIds EXCEPT ![freeing.owner] = @ \ {freeing.id}] ELSE objectIds
  /\ freeing' = NotFreeing
  /\ UNCHANGED <<conn, granting, sent, used, stolen, entity, synced, pool, marking, creating, made,
                 queueVars, raced, lost>>

-----------------------------------------------------------------------------
(* The tick *)

\* Mutant: whom the entity is relevant to is not looked at.
CollectableAnyway(e) ==
  \/ e.deleting
  \/ e.script = "client" /\ ~e.keep /\ e.firstDropped
  \/ e.script = "none" /\ ~e.keep /\ ~Live(e.owner)

\* Relevant to nobody, and to be deleted or of no use to anyone.
Collectable(e) ==
  /\ e.relevantTo = {}
  /\ \/ e.deleting
     \/ e.script = "client" /\ ~e.keep /\ e.firstDropped
     \/ e.script = "none" /\ ~e.keep

\* The tick for an entity that is being deleted: its owner and the clients that
\* have it are told, and it is relevant to no connected client any more.
TickDeleting(e) ==
  [e EXCEPT !.relevantTo = @ \ (Registered \ e.deletedFor),
            !.deletedFor = @ \cup {c \in Registered : c = e.owner \/ e.uniq \in synced[c]}]

\* The ids that a client puts back on its free list when it is told of the
\* deletion: not one that it gave away, nor one marked as stolen.
Returned(c, ending) ==
  {i \in ending \ stolen :
     /\ c \in Registered \ entity[i].deletedFor /\ c = entity[i].owner
     /\ \A n \in DOMAIN fromNet :
          ~(fromNet[n].op = "takeover" /\ fromNet[n].from = c /\ fromNet[n].id = i)}

\* The tick for another entity and the clients R to which it is relevant.
Leaving(e, R) == {c \in Registered \ R : e.uniq \in synced[c]}

TickRelevant(e, R, owner) ==
  [e EXCEPT !.relevantTo = (@ \ Leaving(e, R)) \cup {c \in R : e.uniq \notin synced[c]},
            !.outOfScopeFor = (@ \cup Leaving(e, R)) \ {c \in R : e.uniq \notin synced[c]},
            !.owner = owner]

\* An entity without an owner, or one that is not relevant to its owner, goes to
\* a client that has it, also if a client's script keeps it for its owner; the
\* server takes it from an owner who leaves its scope.
OwnersAfter(e, R) ==
  LET wanted == ~Live(e.owner) \/ e.owner \in Registered \ R IN
    IF wanted /\ R \ {e.owner} # {} THEN R \ {e.owner}
    ELSE IF e.owner \in Leaving(e, R) /\ ShouldServerKeep(e) THEN {None}
    ELSE {e.owner} \cup (IF e.owner \in R THEN R ELSE {})

StolenByTick(i, R, owner) ==
  owner # entity[i].owner \/ entity[i].owner \in Leaving(entity[i], R)

Tick ==
  /\ SyncIdle
  /\ LET collected == {i \in Id : Exists(i) /\ Collectable(entity[i])}
         fresh == {i \in collected : ~entity[i].finalizing}
         ending == {i \in Id \ collected : Exists(i) /\ entity[i].deleting}
         others == {i \in Id \ collected : Exists(i) /\ ~entity[i].deleting}
     IN \E R \in [others -> SUBSET Registered] : \E owner \in [others -> Client \cup {None}] :
          LET taken == {i \in others : owner[i] # entity[i].owner} IN
          /\ \A i \in others : owner[i] \in OwnersAfter(entity[i], R[i])
          /\ entity' = [i \in Id |->
               IF i \in collected THEN [entity[i] EXCEPT !.finalizing = TRUE]
               ELSE IF i \in ending THEN TickDeleting(entity[i])
               ELSE IF i \in others THEN TickRelevant(entity[i], R[i], owner[i])
               ELSE NoEntity]
          /\ synced' = [c \in Client |->
               IF c \in Registered THEN {entity[i].uniq : i \in {j \in others : c \in R[j]}} ELSE synced[c]]
          /\ objectIds' = Holders(taken, owner)
          /\ pool' = [c \in Client |-> pool[c] \cup Returned(c, ending)]
          /\ stolen' = stolen \cup {i \in others : StolenByTick(i, R[i], owner[i])}
          /\ raced' = (raced \/ \E i \in others : \E c \in R[i] : Handled(c))
          /\ \E order \in [1 .. Cardinality(fresh) -> fresh] :
               /\ {order[n] : n \in DOMAIN order} = fresh
               /\ mainQueue' = mainQueue \o [n \in DOMAIN order |->
                    [op |-> "removed", id |-> order[n], uniq |-> entity[order[n]].uniq]]
  /\ UNCHANGED <<conn, granting, sent, used, marking, creating, freeing, made, fromMain, fromNet, lost>>

-----------------------------------------------------------------------------
(* The main thread *)

\* Scripts and drops stop at the bound; the callbacks of the main thread go on.
PostFromMain(m) == Len(fromMain) < MaxPosted /\ fromMain' = Append(fromMain, m)

\* Mutant: the second half of FinalizeClone does not wait for entityCreating.
RunMainAnyOrder ==
  MainIdle /\ \E n \in DOMAIN mainQueue :
    /\ mainQueue' = [k \in 1 .. Len(mainQueue) - 1 |-> mainQueue[IF k < n THEN k ELSE k + 1]]
    /\ LET m == mainQueue[n] IN
         \/ m.op = "creating" /\ fromMain' = fromMain
         \/ m.op = "creating"
              /\ fromMain' = Append(fromMain,
                   [op |-> "delete", id |-> m.id, uniq |-> m.uniq, by |-> "filter"])
         \/ m.op = "removed"
              /\ fromMain' = Append(fromMain, [op |-> "doRemove", id |-> m.id, uniq |-> m.uniq])
    /\ UNCHANGED <<conn, granting, idVars, entityVars, fromNet, raced, lost>>

\* entityCreating may be cancelled, which posts the removal of the entity;
\* entityRemoved is followed by the second half of FinalizeClone.
RunMain ==
  /\ MainIdle /\ mainQueue # <<>> /\ mainQueue' = Tail(mainQueue)
  /\ LET m == Head(mainQueue) IN
       \/ m.op = "creating" /\ fromMain' = fromMain
       \/ m.op = "creating"
            /\ fromMain' = Append(fromMain,
                 [op |-> "delete", id |-> m.id, uniq |-> m.uniq, by |-> "filter"])
       \/ m.op = "removed"
            /\ fromMain' = Append(fromMain, [op |-> "doRemove", id |-> m.id, uniq |-> m.uniq])
  /\ UNCHANGED <<conn, granting, idVars, entityVars, fromNet, raced, lost>>

\* DELETE_ENTITY, for any entity that still exists.
DeleteEntity(i) ==
  /\ MainIdle /\ Exists(i)
  /\ PostFromMain([op |-> "delete", id |-> i, uniq |-> entity[i].uniq, by |-> "script"])
  /\ UNCHANGED <<conn, granting, idVars, entityVars, mainQueue, fromNet, raced, lost>>

\* CreateEntityFromTree marks the highest free id ...
CreateEntityFromTree ==
  /\ MainIdle /\ made < MaxEntity /\ Free # {}
  /\ LET i == Highest(Free) IN
       /\ sent' = sent \cup {i} /\ used' = used \cup {i} /\ stolen' = stolen \cup {i}
       /\ creating' = [uniq |-> made + 1, id |-> i]
  /\ made' = made + 1
  /\ UNCHANGED <<conn, granting, objectIds, entity, synced, pool, marking, freeing, queueVars,
                 raced, lost>>

\* ... and inserts the entity.
InsertEntity ==
  /\ creating # NoEntity
  /\ entity' = [entity EXCEPT ![creating.id] = NewEntity(creating.uniq, None, "server", FALSE)]
  /\ creating' = NoEntity
  /\ UNCHANGED <<conn, granting, idVars, synced, pool, marking, freeing, made, queueVars,
                 raced, lost>>

\* DropClientInternal: OnDrop posts HandleClientDrop ...
DropClient(c) ==
  /\ MainIdle /\ conn[c] = "on"
  /\ conn' = [conn EXCEPT ![c] = "leaving"]
  /\ PostFromMain([op |-> "drop", from |-> c])
  /\ UNCHANGED <<granting, idVars, entityVars, mainQueue, fromNet, raced, lost>>

\* ... and the client leaves the registry.
RemoveClient(c) ==
  /\ conn[c] \in {"leaving", "handled"}
  /\ conn' = [conn EXCEPT ![c] = IF @ = "leaving" THEN "dropped" ELSE "gone"]
  /\ UNCHANGED <<granting, idVars, entityVars, queueVars, raced, lost>>

Next ==
  \/ \E c \in Client : Connect(c) \/ SendPacket(c) \/ DropClient(c) \/ RemoveClient(c)
  \/ GrantFirstIds
  \/ HandlePacket \/ MarkUsed \/ RunPosted \/ FreeObjectId \/ EraseHolder \/ Tick
  \/ RunMain \/ CreateEntityFromTree \/ InsertEntity
  \/ \E i \in Id : DeleteEntity(i)

Spec == Init /\ [][Next]_vars

\* The threads go on: each finishes what it is in the midst of, the main and the
\* sync thread run what is posted to them, and the sync timer fires.
Fairness ==
  /\ WF_vars(GrantFirstIds) /\ WF_vars(RunMain) /\ WF_vars(InsertEntity)
  /\ \A c \in Client : WF_vars(RemoveClient(c))
  /\ WF_vars(HandlePacket) /\ WF_vars(MarkUsed) /\ WF_vars(RunPosted) /\ WF_vars(Tick)
  /\ WF_vars(FreeObjectId) /\ WF_vars(EraseHolder)

FairSpec == Spec /\ Fairness

-----------------------------------------------------------------------------
(* Properties *)

Packets ==
  [op : {"requestIds"}, from : Client]
    \cup [op : {"create"}, from : Client, id : Id, uniq : Uniqifier, kind : Kinds]
    \cup [op : {"sync", "takeover", "remove"}, from : Client, id : Id, uniq : Uniqifier]

Posted ==
  [op : {"drop"}, from : Client]
    \cup [op : {"doRemove"}, id : Id, uniq : Uniqifier]
    \cup [op : {"delete"}, id : Id, uniq : Uniqifier, by : {"filter", "script"}]

Entities ==
  [uniq : Uniqifier, owner : Client \cup {None}, first : Client \cup {None},
   firstDropped : BOOLEAN, script : {"none", "client", "server"}, keep : BOOLEAN,
   deleting : BOOLEAN, finalizing : BOOLEAN,
   relevantTo : SUBSET Client, deletedFor : SUBSET Client, outOfScopeFor : SUBSET Client]

\* Types.  Only an entity that is being deleted has clients it is deleted for.
TypeOK ==
  /\ conn \in [Client -> {"new", "on", "leaving", "dropped", "handled", "gone"}]
  /\ granting \in Client \cup {None}
  /\ sent \subseteq Id /\ used \subseteq Id /\ stolen \subseteq Id /\ lost \subseteq Id
  /\ objectIds \in [Client -> SUBSET Id]
  /\ entity \in [Id -> Entities \cup {NoEntity}]
  /\ \A i \in Id : Exists(i) /\ ~entity[i].deleting => entity[i].deletedFor = {}
  /\ synced \in [Client -> SUBSET Uniqifier] /\ pool \in [Client -> SUBSET Id]
  /\ marking \in Id \cup {None}
  /\ creating \in [uniq : Uniqifier, id : Id] \cup {NoEntity}
  /\ freeing \in [step : {"ids", "holder"}, id : Id, owner : Client \cup {None}] \cup {NotFreeing}
  /\ mainQueue \in Seq([op : {"creating", "removed"}, id : Id, uniq : Uniqifier])
  /\ fromMain \in Seq(Posted) /\ fromNet \in Seq(Packets)
  /\ made \in 0 .. MaxEntity
  /\ raced \in BOOLEAN

Holds(c, i) == ~Handled(c) /\ i \in objectIds[c] /\ ~BeingTaken(c, i)

\* An id is lent to one client at a time, and an id that is lent or carried by an
\* entity is not given out again, by any thread.  An id that is about to be
\* erased from a client's ids is no longer lent to that client.
HeldOnce ==
  ~raced => /\ \A c, d \in Client, i \in Id : Holds(c, i) /\ Holds(d, i) => c = d
            /\ \A c \in Client, i \in Id : Holds(c, i) => i \notin Free
            /\ \A i \in Id : Exists(i) => i \notin Free

\* A thread has marked the id and not inserted the entity, or removed the entity
\* and not freed the id.
InHand(i) ==
  \/ creating # NoEntity /\ creating.id = i
  \/ freeing.step = "ids" /\ freeing.id = i

\* No id leaks: one that is not free is held by a client, carried by an entity or
\* in the hands of a thread.  The exceptions are an id lent to a client whose
\* drop had been handled and one lent to a client, by its handshake, between the
\* two steps that take it from that client (raced).
NoIdLeak ==
  ~raced => \A i \in Id \ (Free \cup lost) :
              Exists(i) \/ InHand(i) \/ \E c \in Client : Holds(c, i)

\* The tick gives an entity up, after which nobody is told of its end, only when
\* no connected client still has it: the client would keep it for ever, and
\* confuse it with the next entity of that id.
NoGhost ==
  [][~raced' => \A i \in Id :
       Exists(i) /\ ~entity[i].finalizing /\ (entity'[i] = NoEntity \/ entity'[i].finalizing)
         => \A c \in Registered : entity[i].uniq \notin synced[c]]_vars

Meant(m) == entity[m.id].uniq \in {0, m.uniq}

\* A creation that a script cancels removes the entity it was about, although
\* RemoveClone goes by the id alone and runs two queues later.
CancelsOwnCreation ==
  ~raced /\ fromMain # <<>> /\ Head(fromMain).op = "delete" /\ Head(fromMain).by = "filter"
    => Meant(Head(fromMain))

Deleting(u) == \E i \in Id : entity[i].uniq = u /\ entity[i].deleting
Gone(u) == \A i \in Id : entity[i].uniq # u

\* A deletion ends: every client is told, the entity is finalized, and its id is
\* free, whatever is dropped or arrives meanwhile.  The exceptions are a packet
\* that was handled after its sender's drop and the tick that finds a client in
\* the registry whose drop was handled: nobody clears relevantTo of it again.
DeletionEnds == \A u \in Uniqifier : Deleting(u) ~> (Gone(u) \/ raced)

=============================================================================
