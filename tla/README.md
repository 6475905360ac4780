# Verification of the server's client protocol

TLA+ models of the parts of this code base (a multiplayer modification
framework: a server, a client and the resources both run) that carry its own
protocol logic, checked with TLC on small instances and, where it matters most,
proved with TLAPS for every instance. Source paths below are relative to
`code/components/`.

## 1. The system

| Part | State | Operations | Hard behaviour |
|---|---|---|---|
| Latent events, `citizen-resources-core/src/EventReassemblyComponent.cpp` | targets with a quota of pending events; a send list per protocol, with acknowledged bits per target; receives with acknowledged bits | RegisterTarget, UnregisterTarget, TriggerEvent(V2), HandlePacket(V2), NetworkTick | lost, duplicated, reordered packets; drops in the middle of a send; two lock scopes in one TriggerEvent; quota and counters at their limits |
| Client registry, `citizen-server-impl/{src,include}/ClientRegistry.*` | owned clients by guid; weak aliases by net id, peer, slot, token; next net id | MakeClient, HandleConnectingClient, HandleConnectedClient, RemoveClient | four threads without a common lock, and a removal that resets one map after another; weak references that outlive or lose their client; id wrap-around |
| Connecting, `InitConnectMethod.cpp`, `ClientDeferral.cpp` | the progress of a connection attempt, its ClientHolder, its deferral | initConnect, authentication, playerConnecting, done, cancel | a second connection of the same player, cancellation at any moment |
| Handshake and drop, `GameServer.cpp`, `GameServerNet.ENet.cpp` | ENet peers; the dropping flag; callbacks posted to the main thread | ProcessPacket, DropClientv, DropClientInternal, server frame | check-then-set of the dropping flag; callbacks of different threads are not ordered; a drop overtakes a handshake |
| Deferrals, `ClientDeferral.cpp`, `InitConnectMethod.cpp` | the state of each resource that deferred; whether the event has run, an update is pending, a verdict was given; the shared slot that keeps it all alive | defer, update, presentCard, done, RanEvents, cancel handler | calls before the event has returned; the HTTP thread cancels between any two steps of the main thread; two ways to answer |
| Object ids and entities, `ServerGameState.cpp` | ids sent, used, stolen; entities with their owner, whom they are relevant to, deleted for, out of scope for | clone create, sync, takeover, remove, id requests, the tick, HandleClientDrop, scripts' creations and deletions | three threads, their queues and a lock per table: an entity is freed two queues after the decision, its id in three critical sections; packets and ticks after a client's drop |
| State bags, `StateBagComponent.cpp` | values per key, owner, routing targets, queued updates | set, handle packet, register, unregister and route targets | stores under a lock, sends after it; two writing threads; a client dropped by any thread while it registers; a write from a former owner |
| Resources, `Resource.cpp`, `ResourceDependencyLoader.cpp`, `ResourceBuildTasks.cpp`, `ServerResources.cpp` | state of a resource; who depends on and who waits for whom; running builds; the list for joining clients | start, stop, build, refresh, and the events that may cancel | one thread but nested calls: dependencies, wake-ups, builds and scripts start and stop resources inside a start or stop |
| Host election (OneSync off), `HeHostPacketHandler.h` | votes per candidate, current host | vouch, claim | votes of clients that have gone, repeated votes |
| Rate limiters, `KeyedRateLimiter.h` | tokens and cooldown per key | consume | boundary of the cooldown |

How they interact. A player calls `initConnect` over HTTP; the server makes a
`Client`, lets identity providers and then the resources (`playerConnecting`,
deferrals) decide, and keeps the client in the registry. The player's machine
then opens an ENet connection with its token and sends the handshake: the net
thread gives the client its peer, slot and final net id, registers the net id as
a target of latent events, and posts `playerJoining` to the main thread. A drop,
from any thread, ends in a main-thread callback that triggers `playerDropped`,
fires `OnDrop` (which unregisters the latent-event target) and removes the
client. From the handshake on the client also has object ids, with which it creates
entities that the sync thread replicates to the others; `HandleClientDrop`, posted
by `OnDrop`, gives its entities and ids to somebody else. Entities, players and
the global state have state bags, whose targets are the clients' slots. Resources
handle the events of all these parts, and are started and stopped by commands and
by each other.

`PROJECT.json` lists all parts, modelled or not, and the hazards, each at its line
with the properties that cover it.

## 2. Modules

| Module | Models |
|---|---|
| `EventReassembly` | the latent-event channel between the server and its clients, both ends |
| `MCEventReassembly` | its instances: who sends what, in how many fragments |
| `EventReassemblyProofs` | theorems about it |
| `LatentDelivery` | what the channel promises: an abstract specification without fragments, lists or ticks |
| `DeliveryProofs` | that `EventReassembly` implements `LatentDelivery` |
| `ClientLifecycle` | registry, initConnect, handshake and drop over four threads |
| `MCClientLifecycle` | its instance: one player who connects twice, or two players |
| `ClientLifecycleProofs` | theorems about it |
| `ClientDeferral`, `MCClientDeferral` | one connection attempt from `playerConnecting` to its answer, with the deferrals of three resources |
| `DeferralProofs` | theorems about it |
| `ObjectIds`, `MCObjectIds` | object ids and the life of entities over three threads |
| `ObjectIdsProofs` | theorems about it |
| `StateBags`, `MCStateBags` | one state bag, its writers and its targets |
| `StateBagsProofs` | theorems about it |
| `Resources`, `MCResources` | start and stop of resources with the call stack |
| `ResourcesProofs` | theorems about it |
| `ResourcesDepthProofs` | the bound on the nesting of its calls |

### EventReassembly

A critical section of `m_listMutex` is one action. `TriggerEvent` has two
(`ReadTargets` copies the target set, `InsertSend` inserts the event), and
`HandleReceivedPacket` runs after the lock is released, so these are separate
actions. The loop of `NetworkTickSendList` over events and targets is a sequence
of rounds that touch disjoint state, so a round is an action: `TickGone`,
`TickDone`, `TickWrap`, `TickSend` (a burst of any length) and `TickErase`. The
handlers of one node run on one thread (`Idle`).

Data: the payload is its number of fragments, a bit vector the set of its set
bits, a packet a triple (event, target, index). The network is a set of packets,
from which any may be lost, taken in any order, and taken while a copy stays.
`WireTotal` is what the count becomes in its field on the wire; the quota is a
uint8 with its wrap-around.

Time: any target may be due in any tick. A completed receive may be collected at
any moment; the code waits two minutes after the last acknowledgement, and the
constant `TimelyLinks` says whether the network may hold a copy longer than
that. With `TimelyLinks = FALSE`, `collectedEarly` records the collections that
were too early, and `AtMostOnce` makes its promise for the others.

A net id is registered at most once (`retired`): ids are given out in turn and
65534 others come before one is used again. Client ids are never 0, which is the
server.

### ClientLifecycle

An action is what a thread does between two points where another thread can see
the difference; the sources are in `PROJECT.json`. `RemoveClient`
(`ClientRegistry.h:90`) takes no lock around its steps and is called by the HTTP
thread, the thread of an asynchronous identity provider, the net thread and the main
thread, so it is a sequence of actions: `RemoveClient` itself (`OnDrop` and the
peer's alias), `RemoveByNetId`, `RemoveBySlot`, `EraseClient`, `UnassignSlot`.
`removing` has, per thread, the removal it is in. The token's two aliases are reset
with the slot's: no action asks for both.

`MakeClient` is the emplace into `m_clients`, `SetConnectionToken` what `initConnect`
does next with the new client (token, temporary id, game name). `DropClientv` is
split between the check of `m_dropping` (`DropOnMain`, `DropOnNet`, `InitConnect`)
and the assignment (`DropClientv`), `DropClientInternal` between its signals and
`FinishDrop`, which enters `RemoveClient`. The handshake is `ProcessHandshake` (its
checks), `SetPeer` and `AssignSlot` (the handler of `OnAssignPeer`), then
`RefuseHandshake` or `HandleConnectingClient`. The callback list is a queue per
producing thread: a multi-producer queue keeps the order of one producer only.

`Alive` is reference counting: a weak alias resolves while the registry, a running
thread, a removal or a posted callback holds the client. `EraseClient` erases
`m_clients` by guid, whichever client that holds, as the code does. `doubly` is
history: the slots whose client two threads were removing at the same time.

Abstractions: OneSync mode; a client may time out at any moment (the clock of
`IsDead` is not modelled); a remote machine presents the guid and token it was given,
and opens its connection once it has the token, deferred or allowed;
`m_amountConnectedClients`, which nothing modelled reads, is left out.

### ClientDeferral

The detail behind the `deferred` step of `ClientLifecycle`. `pc` is where the
main-thread callback of `playerConnecting` is; a function that a resource calls
(`Defer`, `Update`, `Done`, `DoneWithReason`, `PresentCard`) is one step, in its
handler (`pc = "event"`) or later. `UpdateDeferrals`, `Settle` and `RanEvents`
are the functions of `ClientDeferral.cpp`, `Resolve` and `Reject` the callbacks
that `InitConnectMethod.cpp` sets, `Refuse`, `Decide` and `Answer` the rest of the
event's callback. `held` and `cbRef` are the shared pointers `*deferrals` and
`*cbRef`, which the cancel handler clears on the HTTP thread in two steps (`Close`,
`CancelHandler`). Weak references resolve as the reference counts say: `Callable`,
`ClientLocked`.

### ObjectIds

`sent`, `used`, `stolen` and `objectIds` are the three bitsets and
`ClientData::objectIds`. An action is what one thread does under one critical
section. `CloneCreate` and `MarkUsed` are two, since the id is marked as used after
the entity was inserted; a script's creation is `CreateEntityFromTree` (the id) and
`InsertEntity`; the second half of `FinalizeClone` is `DoRemove` (`m_entitiesById`),
`FreeObjectId` (the bitsets) and `EraseHolder` (the last owner's `objectIds`); a drop
is `DropClient`, whose `OnDrop` posts `HandleClientDrop`, and `RemoveClient`, after
which the registry does not find the client any more. `conn` tells which of the two
came first: `dropped` or `handled`. The three queues (`mainQueue`, `fromMain`,
`fromNet`) are the callback lists, one per producer. `Tick` is the whole pass of the
sync timer over entities and clients: which clients an entity is relevant to is any
set (that is geometry), what follows from it (`TickRelevant`, `OwnersAfter`,
`Collectable`, `TickDeleting`) is the code. `pool` is the client's own free list.

`raced` records that the code has lost one of three races, none of which it
excludes:

- a clone packet is handled after its sender's `HandleClientDrop`: the net thread
  looked the sender up before, and the two queues are not ordered;
- the tick finds a client in the registry whose `HandleClientDrop` has run, and makes
  an entity relevant to it again (`ServerGameState.cpp:1368`; the comment at 1401
  fears as much);
- a handshake lends an id to the very client from which `FinalizeClone` is taking it,
  after it was freed (line 3245) and before it is erased from the client's ids
  (line 3253), and the erasure takes the new loan.

They put ids and entities in the hands of a client that is gone, or an id in nobody's,
and the properties make their promise for behaviours without them; TLC finds
`DeletionEnds` and `NoIdLeak` violated when the second and the third exception is
left out. `lost` holds the ids lent to a client after its drop was handled.

### StateBags

A write of `SetKeyInternal` stores under `m_dataMutex` and sends afterwards, so
`ScriptSet`, `HandlePacket` and `RunTask` put the update into `out` and `Send` is a
step of its own; a send holds the targets' lock for its loop and is one step.
`RegisterTarget` inserts under one lock and sends under another
(`SendAllInitial`); after it, `ConnectOnDrop` hangs `UnregisterTarget` on the client's
`OnDrop`. That fires on whichever thread removes the client, also while the main
thread is in `RegisterTarget`, before the handler is there, twice, or when the slot is
already the next client's: `UnregisterTarget` is possible for any slot that ever had
the handler (`watched`), and `FreeSlot` with or without it. `Connect` is the slot's
assignment on the net thread; `fresh` and `joining` are the clients that the main
thread has still to register and is registering. `HandlePacket` applies a client's write on the sync thread, or
posts it to the main thread when a change handler exists. `role` chooses between a
bag of the server and one of the game client, whose updates are queued until the
creation of its entity is acknowledged. `excused`, `stale` and `direct` are history:
they name the cases in which the code gives no guarantee. A slot is `stale` when its
client came while the slot was still in `m_targets`.

### Resources

Everything runs on the main thread, but calls nest, so the call stack is state: a
frame has the resource, the operation, where it is (`pc`) and what it has still to
go through. A step is what happens between two calls, in the order in which the
handlers of `OnBeforeStart`, `OnStart` and `OnStop` are registered: the events of
`ResourceEventComponent`, the loader, the builds, the game check, the list for the
clients. A script may call `StartResource` or `StopResource` in any handler of an
event (`ScriptCalls`). `misfits` are the resources whose manifest cannot be met,
changed by `Refresh`. All resources are ones that clients are told of (not
`server_only`), and dependencies are acyclic: the loader's comment says it is
"bad for cyclic dependencies".

## 3. Runs

| Run | Result | What it shows |
|---|---|---|
| `latent_safety` | passes, 848 620 states | `FinishedMeansReceived`, `AtMostOnce`, `SlotsAccounted`, `NoOrphanReceive`: two events, of two fragments in protocol 1 and of one in protocol 2, compete for one slot |
| `latent_live` | passes, 38 142 states | `SendsEnd`: an event of three fragments stops being retransmitted |
| `latent_broadcast` | passes, 17 971 states | `TypeOK`; `ReachesEveryTarget`: an event for all of two clients reaches each that stays; `ImplementsDelivery`: the channel implements `LatentDelivery` |
| `latent_v2_ack` | violated | `SendsEnd` fails for protocol 2: acknowledgements are looked up in the wrong list |
| `client_lifecycle` | passes, 3 412 012 states | `TypeOK`, `LookupsAgree`, `SlotsExclusive`, `JoinsAllowed`, `DropPending`: two connections of one or two players, while four threads interleave inside removals and handshakes |
| `client_on_drop` | violated | a client can vanish without `OnDrop` |
| `client_deferral` | passes, 3 352 states | `TypeOK`, `PassedMeansAllDone`, `OneVerdict`, `AnsweredWhenDone`, `SlotCleared`: three resources, the player and the registry in any order |
| `deferral_canceled` | violated | a player is let in by an event that a resource cancelled |
| `object_ids` | passes, 2 667 537 states | `TypeOK`, `HeldOnce`, `NoIdLeak`, `CancelsOwnCreation`, `NoGhost`: one id, two clients, two entities, all three threads |
| `entity_deletion` | passes, 123 003 states | `DeletionEnds`: an entity that is being deleted is gone in the end |
| `state_bags` | passes, 4 024 176 states | `TypeOK`, `TargetsAgree`, `NeverBack`, `AcceptedOrder`: two peers, one key, two writes, four changes of peers, owners and handlers |
| `resources` | passes, 6 238 115 states | `TypeOK`, `StartingIsCalled`, `StopReaches`, `WaitersWoken`, `ListAgrees`, `NoRunaway`: three layered resources, one call of a script |

The violated runs each check a sentence of the code base; `findings` in
`PROJECT.json` quotes it and tells the story of the counterexample.

Bounds. Latent events: two events and a quota of one make refusal, waiting and
giving back happen; two fragments make partial receives and overtaking happen,
three make `lastBit` wrap behind a lost fragment; `MaxReassemblies = 2` lets an
event be reassembled twice, which is what `AtMostOnce` forbids, and stops there.
The wire field has two bits (`CountLimit = 4`) instead of 17 and 16. Clients: three
connections of two players are given, of which a behaviour has two (`MaxConn`): both
of one guid are the replacement case, of different guids the case in which one's
removal meets the other's handshake. One slot makes the slots run out; two net ids
make the id counter wrap; two ENet connections (`MaxPeer`) serve one each. The
providers call back on a thread of their own (`AuthThread`), the harder case; the
proofs allow both. The two connections of one player are symmetric.

Deferrals: three resources let one defer, one finish and one refuse; their number
is no bound in the proofs. Object ids: one id is the hardest case, for every
entity has to reuse it; two entities make a later one meet what was posted for an
earlier one (`MaxEntity`), and each queue of the sync thread holds two callbacks
(`MaxPosted`). The constraint `NotRaced` cuts behaviours off where the properties
cease to promise anything. The safety run has entities that the server does not keep
(`PlainKinds`), of scripts and of clients, and the liveness run those that it does
(`KeptKinds`). State bags: two writes (`MaxWrites`) are enough for one
to overtake the other, four moves (`MaxMoves`) for a client to come, be routed and
leave while another stays. Resources: `app` needs `lib` and `core`, `lib` needs
`core`, so a dependency is shared and nested; one call by a script (`MaxNested`) at
any event and one manifest at a time that does not fit (`MaxMisfit`).

`CHECK_DEADLOCK FALSE`: the behaviours may end, when all events are sent and
erased, all connections made and gone, all bounds used up or the attempt answered.

Fairness. Both ends call `NetworkTick` on every tick or frame and its loop visits
every target, so each round of an event and target, and the insertion after the
copy of targets, is weakly fair. A packet that is sent again and again gets
through and its handler runs: strong fairness for handling a fragment and an
acknowledgement, which is the usual assumption on a lossy link. Losses,
registrations and drops are not fair. In `ObjectIds` the net thread ends a handshake,
the main and the sync thread run what is posted to them, each finishes what it is in
the midst of (`MarkUsed`, `InsertEntity`, `RemoveClient`, `FreeObjectId`,
`EraseHolder`), and the sync timer fires; clients and scripts need not do anything.
`ClientLifecycle` has no fairness: that a drop is not lost is the invariant
`DropPending`.

### The refinement

`ImplementsDelivery` maps the channel to `LatentDelivery`: an event is offered when
its targets are read; its candidates are the nodes that a copy may still reach and
that have not reassembled it; received and served are the reassembled pairs and
the targets the sender is done with. Reading the targets is `Offer`, the fragment
that completes an event `Deliver`, `TickDone` a `Serve`; every other step, losses,
drops and collections included, gives some candidates up or changes nothing.

### What the code does not promise

Three sentences of the code base are refuted by a run (`findings`). While the
models were written these came up as well; the models have them, and the
properties say where they are excepted:

- With a quota of 255, "infinite amount of events", the slot that is given back
  when an event completes was never taken, and the uint8 wraps to 0
  (`EventReassemblyComponent.cpp:856` and `1042`): the next event is refused.
- The largest payload that passes "skip oversized packets" (line 251) has a
  fragment count that the wire field turns into 0, which receivers discard.
- When two threads remove one client at the same time (the net thread at
  `GameServer.cpp:681` and the main thread at 1180), the second may reset the slot's
  alias after the slot was given to the next client, and a third is then put into the
  same slot (`ClientRegistry.h:108`; `doubly`). The slot id is also read twice there,
  so that it may have become -1 between the comparison and its use as an index.
- A client that is dropped after `RegisterTarget` and before its `OnDrop` has the
  handler leaves its slot in `m_targets` of the state bags. To `RegisterTarget` the
  next client of that slot is not new, and it is not sent the values (`stale`; TLC
  finds this in eight steps when the exception is left out).
- `playerDropped` may run before `playerJoining`: the client has its final id, which
  `DROP_PLAYER` asks for, before `playerJoining` is posted.
- When the player gives up between the event and the answer, `*deferrals` is null
  where the handover data is read from it (`InitConnectMethod.cpp:1186`):
  `pc = "crashed"`. The same between two uses inside one call of a resource is not
  caught, since such a call is one step. A connection that is closed before its cancel
  handler is set keeps its deferral until the resources are done; `SlotCleared`
  excepts it.
- The three races of object ids (`raced`, above), and ids granted by a handshake after
  the drop (`lost`), leave ids that nobody gives back, or an entity that is never
  finalized.
- Two threads that write one key of a state bag at once may send in the other order
  than they stored; a key set twice before the creation is acknowledged is sent with
  the first value, because `emplace` keeps it (`StateBagComponent.cpp:318`); a
  deletion is never told to a client that is no target at that time.
- A resource that is woken by a dependency while it is itself starting skips the
  loader and runs `OnStart`, and the outer call runs it again: it is listed twice,
  and its other dependencies were not looked at. A build that ends inside its own
  start makes `Start` return false for a resource that has started, and its
  dependant waits for ever. A dependency that is still starting counts as running,
  and its dependant stays started if it is then refused. `stop` of a resource that
  waits for a build does nothing, and it starts later all the same. Resources that
  were woken are listed before the one that woke them. `skipped` is the history
  variable for these.

Every property of a passing run has a mutant of the code model that breaks it; the
mutated definitions stand before the real ones, marked "Mutant".

## 4. Proofs

`EventReassemblyProofs` proves, for any sets of clients and events, any number of
fragments and any quota:

- `TypeCorrect`: `TypeOK`, with the quota in 0 .. 255;
- `NoOrphanReceiveInvariant`: with `Ids`, that no id is both registered and retired;
- `SlotsAccountedInvariant`: by case on what an action does to one client's quota
  and to the set of its pending receives, whose cardinality changes by one;
- `AtMostOnceInvariant` and `FinishedMeansReceivedInvariant`, which relate the two
  ends and are not inductive. `Pairs` is their strengthening, per target and event:
  while the target has not reassembled the event, every acknowledgement that exists
  is of a fragment it holds (`AckedOK`), and not all are acknowledged; once it has,
  its completed receive stands guard, or the source is gone for good, or no copy is
  around (`OnceOK`). `AckedOK` needs the case of a target that unregistered its
  source: it has forgotten its bits, and will never accept another fragment.

`DeliveryProofs` proves `DeliveryImplemented`, `Spec => Delivery!Spec`: one lemma per
kind of abstract step (`ReadTargetsOffers`, `FragmentDelivers`, `TickDoneServes`, and
the steps that give up). It needs `TypeCorrect`, and `Pairs` for `TickDone` (a target
with all bits set has the event).

`DeferralProofs` proves, for any set of resources, `TypeOK`, `PassedMeansAllDone`,
`OneVerdict`, `AnsweredWhenDone` and `SlotCleared`. Their common inductive invariant
`Inv` says what each stage of the attempt knows: nothing is decided until the
handlers have run (`Fresh`); an update before that is remembered in `m_pending`, so
that an unanswered deferral always has a resource that is not done (`Waiting`); what
a verdict leaves behind, so that there is no second one (`Decided`); whatever ends
the response also clears the slot (`Released`); and an open connection whose `cbRef`
is gone has its answer (`Answered`). None of the five properties is inductive
without them: the verdict of `UpdateDeferrals` is written through `cbRef`, that of
`Refuse` past it, and only the flags tell that one excludes the other. `SettleInv`
and `CallInv` treat a call of a resource, `StepInv` has one step per action.

`ClientLifecycleProofs` proves, for any sets of connections, guids, slots and peers,
`TypeOK`, `SlotsExclusive`, `JoinsAllowed`, `DropPending` and, with enough net ids,
`LookupsAgree`. The argument turns on references: no step but `MakeClient` brings a
client back to life, since every thread has its reference from one that exists. A
removal therefore always concerns a living client, and a slot that counts as free is
in nobody's hands but a client's whose removal has reset it (`SlotFound`). A removal
that resets a slot which another client has by now must be the second one at work on
its client, and two at work are noted (`TwiceNoted`); that nothing escapes the note
needs that, while a handshake gives a client its slot, only the main thread can be
removing that client (`Refused`, `Turns`). `DropPending` is inductive with the order of
one removal (`Erased`). `JoinsAllowed` needs the whole chain before it: the resources
are asked once per connection (`AskedOnce`), what they allowed stays allowed
(`AllowedStays`), a handshake serves a client that passed (`Serving`).
`EnoughNetIds` (as many ids as connections) is a hypothesis of `LookupsAgree` only.
The code has 65534 ids, used in turn, and without the hypothesis the clause about
ids is false: a client that two threads drop at once is removed twice, and an id that
is given anew between the two loses its entry in `m_clientsByNetId` to the second.

`ResourcesProofs` proves, for any resources with acyclic dependencies and any
nesting of calls, `TypeOK`, `StartingIsCalled`, `StopReaches`, `WaitersWoken` and
`ListAgrees`. The properties speak of the state when no call is in progress; the
invariant says what each frame of the stack still owes: which dependants a start has
recorded at each point of the loader, whom a waking start has still to wake, which
entries a stop has still to clear. While no script has called from inside an event,
starts and stops do not mix on the stack, and a start inside a start of the same
resource has skipped the loader. What the recursive `Without` returns is proved from
the least index at which it could fail.

`ResourcesDepthProofs` proves `NoRunaway`. The bound depends on the dependencies: a
resource can be in two calls of `Start` and in one more for each resource it needs,
directly or not (TLC finds more than three starts of one resource among six). The
calls in progress are divided into old ones, below the last call that a script made,
which have had their share of the bound, and recent ones, which are all starts or all
stops. Stops go up the dependencies (`StopsRise`), so no resource comes twice. Starts
go down to a dependency that has stopped and up to a resource that waits. A start
comes back to a resource only by way of something that the resource needs, was
stopped, has been loaded in between, and has come as far as to wake others (lemma
`Between`); what fits the server is not loaded again while it is being started
(`LoadedOnce`). The starts of a resource are therefore counted by what it needs and
has been started (`Counted`). A resource that does not fit needs more: an inner start
may stop it, and it is loaded again inside its own start, but only once there is one
more running resource to count it by (`LoadedAgain`, `MayLoadAgain`). Which calls are
old and which have loaded is history that the specification does not keep; the
invariant says that some division exists. TLC checked it with the history as variables,
on graphs of three to six resources, before it was proved.

`StateBagsProofs` proves, for any peers, any finite set of keys and any number of
writes, `TypeOK`, `TargetsAgree` and the action properties `NeverBack` and
`AcceptedOrder`. `TargetsAgree` is about a settled bag; the invariant says of every
state where the last value of a key is: at the target, in its channel, among the
unsent updates, or in the first values that it still awaits (`TargetsReach`). A
deleted key is in no `SendAll`, so a peer that is not yet a target must already be
free of the old value (`DeletionsReach`), and what is unsent must be current
(`PendingIsCurrent`). All of it is about `Served` targets: a slot that its last client
left behind is not one until it is unregistered. `NeverBack` follows from `SentInOrder`, the order of versions
from a replica through its channel and the unsent updates to `m_data`;
`AcceptedOrder` from `TasksInOrder`.

`ObjectIdsProofs` proves, for any sets of clients and kinds of entities and any
number of ids, entities and queued tasks, `TypeOK`, `HeldOnce`, `NoIdLeak`,
`CancelsOwnCreation` and the action property `NoGhost`. What `sent`, `used`, `stolen`
and `objectIds` mean together depends on whether an entity has the id (`Carried`), a
thread has it in its hands between two critical sections (`Handed`), or neither
(`Idle`): a carried or handed id is held by the owner and nobody else, and is `sent`
only if it will go back to that owner. An id that waits for `EraseHolder` is no longer
held by that owner (`BeingTaken`), which is right as long as it is not lent to him
once more (`raced`). The hard part is an id that a client reuses while
the entity it belonged to is still being deleted. `Tokens` says when it may: the
client holds the id, was told of the deletion, has not given the entity away in a
packet that is still queued, and has the id once, on its free list or in one creation
under way. `CancelsOwnCreation` needs the order of two queues: `Removals` says that a
removal concerns an entity that is being finalized and is the last task about it in
either queue, so that an id is not carried by the next entity while an announcement
or a filter's deletion of the last one is under way (`Announced`). `NoGhost` follows
from `Relevant`, an entity being relevant to every connected client that has it,
which the tick keeps only because a uniqifier names one entity (`Uniques`).
TLC checked the invariant before it was proved, with one and with two ids. `Drops`,
`Uniques`, `Relevant` and the types hold whether or not a race was lost.

Assumptions: those that the modules state of their constants. For the channel the
server is no client, there are finitely many events, at least one fragment each, and
the quota is a uint8; for state bags there are finitely many keys and at least one
peer (the game client's server), and the special values are none of the others; for
resources the dependencies are acyclic; for object ids the numbers of ids and
entities are natural numbers and `None` is neither a client nor an id; none for
deferrals. The theorems about the
channel hold for both values of `TimelyLinks` and for both protocols.

Only model-checked: the liveness properties (fairness is outside the prover's
fragment). Every invariant and every action property of a passing run is proved.

## 5. Not modelled, and the plan

Not modelled: script runtimes, user interface, file systems, launcher and game
patches (foreign code, no protocol); the voice server (third-party); HTTP and file
endpoints (I/O); sync-tree contents, culling and the world grid (data and geometry).
These are by far the most of the 675 000 lines: generated protocol buffers, tables,
bindings and patches of the games' executables. The modules cover the server's own
protocol logic, and the map names the lines of it that they translate.

Next, in this order:

1. `HostElection`: votes against the 60 per cent threshold while clients drop;
   `RateLimiter` as a pure function.
2. The composition of `ClientLifecycle` and `EventReassembly` at `OnAssignNetId` and
   `OnDrop`, where a drop that overtakes a handshake leaves a target registered.
