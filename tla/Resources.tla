----------------------------- MODULE Resources -----------------------------
(***************************************************************************)
(* Starting and stopping resources on the server: the state of a resource, *)
(* the dependency loader, build tasks and the list of started resources    *)
(* that clients are given.                                                 *)
(*                                                                         *)
(* All of it runs on the main thread, but calls nest: a start starts the   *)
(* dependencies, a resource that has started starts the resources that     *)
(* were waiting for it, a stop stops the dependants, a build task may end  *)
(* while it is being started, and script handlers of the events in between *)
(* may start and stop resources themselves.  The call stack is therefore   *)
(* part of the state, and a step is what happens between two calls.        *)
(***************************************************************************)
EXTENDS Naturals, FiniteSets, SequencesExt

CONSTANTS
    Resource,   \* the resources the server has found
    Deps,       \* Deps[r]: the resources r's manifest names as dependencies
    MaxNested,  \* bound on the calls scripts make from inside an event
    MaxMisfit   \* bound on the manifests that do not fit at a time

VARIABLES
    state,      \* ResourceImpl::m_state
    dependants, \* resourceDependants: pairs <<dependency, dependant>>
    waiting,    \* resourceDependencies: pairs <<dependency, dependant>>
    misfits,    \* resources whose manifest does not fit the server: it asks for
                \* another build of the server or game, for another game, or for
                \* a resource that is not there
    building,   \* resources whose build tasks were started and have not ended
    order,      \* g_resourceStartOrder
    stack,      \* the calls of Start and Stop in progress, innermost last
    result,     \* what the start of a dependency has returned to the loader
    nested,     \* the number of calls made by scripts from inside an event
    skipped     \* history: resources that, since they last stopped, were started
                \* again while they were starting

resourceVars == <<state, order, skipped>>
inputVars == <<building, misfits>>
loaderVars == <<dependants, waiting>>
callVars == <<stack, result, nested>>
vars == <<resourceVars, loaderVars, inputVars, callVars>>

ASSUME ResourcesAssumption ==
    /\ IsFiniteSet(Resource)
    /\ Deps \in [Resource -> SUBSET Resource]
    /\ MaxNested \in Nat /\ MaxMisfit \in Nat

\* The loader is "bad for cyclic dependencies" (ResourceDependencyLoader.cpp:135):
\* stopping a resource on a cycle would not return.
ASSUME AcyclicAssumption ==
    \E rank \in [Resource -> 0 .. Cardinality(Resource)] :
        \A r \in Resource : \A d \in Deps[r] : rank[d] < rank[r]

States == {"Stopped", "Starting", "Started"}

StartSteps == {"enter", "starting", "deps", "depWait", "build", "refused",
               "onStart", "startEvent", "wake"}
StopSteps == {"enter", "dependants", "stopEvent"}

Frame == [op : {"start"}, res : Resource, pc : StartSteps, todo : SUBSET Resource]
           \cup [op : {"stop"}, res : Resource, pc : StopSteps, todo : SUBSET Resource]

NoResult == [none |-> TRUE]

\* The list without any entry of r: erase(remove_if(...)).
Without(list, r) ==
    LET kept[i \in 0 .. Len(list)] ==
          IF i = 0 THEN <<>>
          ELSE IF list[i] = r THEN kept[i - 1] ELSE Append(kept[i - 1], list[i])
    IN kept[Len(list)]

Init ==
    /\ state = [r \in Resource |-> "Stopped"]
    /\ dependants = {} /\ waiting = {}
    /\ building = {} /\ skipped = {}
    /\ misfits = {}
    /\ order = <<>> /\ stack = <<>> /\ nested = 0
    /\ result = NoResult

-----------------------------------------------------------------------------
(* The call stack. *)

Call(op, r) == [op |-> op, res |-> r, pc |-> "enter", todo |-> {}]

Top == Last(stack)

At(op, pc) == /\ stack # <<>>
              /\ Top.op = op /\ Top.pc = pc

\* The innermost call goes on at pc with what it still has to go through.
Goto(pc, todo) ==
    [stack EXCEPT ![Len(stack)].pc = pc, ![Len(stack)].todo = todo]

GoOn(pc, todo) == /\ stack' = Goto(pc, todo)
                  /\ UNCHANGED <<result, nested>>

\* The innermost call goes on at pc after a call of op for r.
GoOnAfter(pc, todo, op, r) == /\ stack' = Append(Goto(pc, todo), Call(op, r))
                              /\ UNCHANGED <<result, nested>>

Return(ok) == /\ stack' = Front(stack)
              /\ result' = IF Len(stack) > 1 /\ stack[Len(stack) - 1].pc = "depWait"
                           THEN [res |-> Top.res, ok |-> ok] ELSE NoResult
              /\ UNCHANGED nested

\* A script that handles the event calls StartResource or StopResource.
ScriptCalls(op, pc) ==
    /\ At(op, pc)
    /\ nested < MaxNested
    /\ nested' = nested + 1
    /\ \E call \in {"start", "stop"}, r \in Resource :
          stack' = Append(stack, Call(call, r))
    /\ UNCHANGED <<result, resourceVars, loaderVars, inputVars>>

-----------------------------------------------------------------------------
(* ResourceImpl::Start with the handlers of OnBeforeStart and OnStart. *)

\* Mutant: Start runs the starting stage again for a resource that is starting.
EnterStartAgain ==
    /\ At("start", "enter")
    /\ IF state[Top.res] = "Started"
       THEN Return(TRUE) /\ UNCHANGED state
       ELSE GoOn("starting", {}) /\ state' = [state EXCEPT ![Top.res] = "Starting"]
    /\ UNCHANGED <<order, skipped, loaderVars, inputVars>>

EnterStart ==
    /\ At("start", "enter")
    /\ \/ /\ state[Top.res] = "Started"
          /\ Return(TRUE)
          /\ UNCHANGED <<state, skipped>>
       \/ /\ state[Top.res] = "Starting"
          /\ GoOn("onStart", {})
          /\ skipped' = skipped \cup {Top.res}
          /\ UNCHANGED state
       \/ /\ state[Top.res] = "Stopped"
          /\ GoOn("starting", {})
          /\ state' = [state EXCEPT ![Top.res] = "Starting"]
          /\ UNCHANGED skipped
    /\ UNCHANGED <<order, loaderVars, inputVars>>

\* onResourceStarting, which a handler may cancel.
OnResourceStarting ==
    /\ At("start", "starting")
    /\ \/ GoOn("deps", Deps[Top.res])
       \/ GoOn("refused", {})
    /\ UNCHANGED <<resourceVars, loaderVars, inputVars>>

\* Mutant: a dependency that is running is passed over before it is noted.
LoadDepLate ==
    /\ At("start", "deps")
    /\ \E d \in Top.todo :
          IF state[d] \in {"Starting", "Started"}
          THEN GoOn("deps", Top.todo \ {d}) /\ UNCHANGED dependants
          ELSE /\ GoOnAfter("depWait", Top.todo \ {d}, "start", d)
               /\ dependants' = dependants \cup {<<d, Top.res>>}
    /\ UNCHANGED <<waiting, resourceVars, inputVars>>

\* One round of loadDeps; the manifest lists the dependencies in any order.
LoadDep ==
    /\ At("start", "deps")
    /\ \E d \in Top.todo :
          /\ dependants' = dependants \cup {<<d, Top.res>>}
          /\ IF state[d] \in {"Starting", "Started"}
             THEN GoOn("deps", Top.todo \ {d})
             ELSE GoOnAfter("depWait", Top.todo \ {d}, "start", d)
    /\ UNCHANGED <<waiting, resourceVars, inputVars>>

\* The start of a dependency has returned; one that failed may succeed later,
\* when its build has ended.
DepReturned ==
    /\ At("start", "depWait")
    /\ \/ /\ result.ok
          /\ stack' = Goto("deps", Top.todo)
          /\ UNCHANGED waiting
       \/ /\ ~result.ok
          /\ stack' = Goto("refused", {})
          /\ waiting' = waiting \cup {<<result.res, Top.res>>}
    /\ result' = NoResult
    /\ UNCHANGED <<nested, dependants, resourceVars, inputVars>>

\* All dependencies are loaded; or one of them does not exist, which ends the
\* loading at once; or they are loaded and a constraint among them is not met.
DepsLoaded ==
    /\ At("start", "deps")
    /\ \/ Top.todo = {} /\ GoOn("build", {})
       \/ Top.res \in misfits /\ GoOn("refused", {})
    /\ UNCHANGED <<resourceVars, loaderVars, inputVars>>

\* TriggerBuild: no provider wants to build the resource, or a build sequence is
\* kicked off.  It ends later, or before Build returns, and then starts the
\* resource from inside its own start; either way this start is refused.
\* External: a provider does not build a resource it is still building.
TriggerBuild ==
    /\ At("start", "build")
    /\ \/ /\ GoOn("onStart", {})
          /\ UNCHANGED building
       \/ /\ Top.res \notin building
          /\ building' = building \cup {Top.res}
          /\ GoOn("refused", {})
       \/ /\ Top.res \notin building
          /\ GoOnAfter("refused", {}, "start", Top.res)
          /\ UNCHANGED building
    /\ UNCHANGED <<misfits, resourceVars, loaderVars>>

\* Mutant: a start that fails leaves the state as it is.
RefusedKeeps ==
    /\ At("start", "refused")
    /\ Return(FALSE)
    /\ UNCHANGED <<resourceVars, loaderVars, inputVars>>

\* OnBeforeStart or OnStart has returned false.
Refused ==
    /\ At("start", "refused")
    /\ state' = [state EXCEPT ![Top.res] = IF @ = "Started" THEN @ ELSE "Stopped"]
    /\ skipped' = IF state[Top.res] = "Started" THEN skipped ELSE skipped \ {Top.res}
    /\ Return(FALSE)
    /\ UNCHANGED <<order, loaderVars, inputVars>>

\* The first handler of OnStart checks the manifest against the game; the
\* others create the script runtimes.
OnStart ==
    /\ At("start", "onStart")
    /\ GoOn(IF Top.res \in misfits THEN "refused" ELSE "startEvent", {})
    /\ UNCHANGED <<resourceVars, loaderVars, inputVars>>

\* onResourceStart has been handled; the resources that wait are copied.
OnResourceStart ==
    /\ At("start", "startEvent")
    /\ GoOn("wake", {r \in Resource : <<Top.res, r>> \in waiting})
    /\ UNCHANGED <<resourceVars, loaderVars, inputVars>>

\* A resource that waited for this one is started; what it returns is not
\* looked at.
Wake ==
    /\ At("start", "wake")
    /\ \E r \in Top.todo : GoOnAfter("wake", Top.todo \ {r}, "start", r)
    /\ UNCHANGED <<resourceVars, loaderVars, inputVars>>

\* Mutant: the resources that waited are not forgotten.
WokenKeeps ==
    /\ At("start", "wake") /\ Top.todo = {}
    /\ order' = Append(order, Top.res)
    /\ state' = [state EXCEPT ![Top.res] = "Started"]
    /\ Return(TRUE)
    /\ UNCHANGED <<skipped, loaderVars, inputVars>>

\* All that waited have been started; the clients are told and the start ends.
Woken ==
    /\ At("start", "wake")
    /\ Top.todo = {}
    /\ waiting' = {w \in waiting : w[1] # Top.res}
    /\ order' = Append(order, Top.res)
    /\ state' = [state EXCEPT ![Top.res] = "Started"]
    /\ Return(TRUE)
    /\ UNCHANGED <<skipped, dependants, inputVars>>

-----------------------------------------------------------------------------
(* ResourceImpl::Stop with the handlers of OnStop. *)

EnterStop ==
    /\ At("stop", "enter")
    /\ \/ /\ state[Top.res] = "Stopped"
          /\ Return(TRUE)
       \/ /\ state[Top.res] # "Stopped"
          /\ GoOn("dependants", {r \in Resource \ {Top.res} : <<Top.res, r>> \in dependants})
    /\ UNCHANGED <<resourceVars, loaderVars, inputVars>>

StopDependant ==
    /\ At("stop", "dependants")
    /\ \E r \in Top.todo : GoOnAfter("dependants", Top.todo \ {r}, "stop", r)
    /\ UNCHANGED <<resourceVars, loaderVars, inputVars>>

DependantsStopped ==
    /\ At("stop", "dependants")
    /\ Top.todo = {}
    /\ dependants' = {p \in dependants : p[1] # Top.res}
    /\ GoOn("stopEvent", {})
    /\ UNCHANGED <<waiting, resourceVars, inputVars>>

\* Mutant: the list for the clients keeps a resource that stops.
StoppedStaysListed ==
    /\ At("stop", "stopEvent")
    /\ state' = [state EXCEPT ![Top.res] = "Stopped"]
    /\ skipped' = skipped \ {Top.res}
    /\ Return(TRUE)
    /\ UNCHANGED <<order, loaderVars, inputVars>>

\* Mutant: a resource that stops is left as if it had never been loaded.
StoppedUninitialized ==
    /\ At("stop", "stopEvent")
    /\ order' = Without(order, Top.res)
    /\ state' = [state EXCEPT ![Top.res] = "Uninitialized"]
    /\ skipped' = skipped \ {Top.res}
    /\ Return(TRUE)
    /\ UNCHANGED <<loaderVars, inputVars>>

\* onResourceStop has been handled; the list is trimmed, the runtimes go.
Stopped ==
    /\ At("stop", "stopEvent")
    /\ order' = Without(order, Top.res)
    /\ state' = [state EXCEPT ![Top.res] = "Stopped"]
    /\ skipped' = skipped \ {Top.res}
    /\ Return(TRUE)
    /\ UNCHANGED <<loaderVars, inputVars>>

-----------------------------------------------------------------------------
(* What makes the calls. *)

\* The commands start and stop; restart and ensure are a stop and a start.
Command ==
    /\ stack = <<>>
    /\ \E op \in {"start", "stop"}, r \in Resource : stack' = <<Call(op, r)>>
    /\ UNCHANGED <<result, nested, resourceVars, loaderVars, inputVars>>

\* The last build task of a resource calls back: the resource is started again,
\* or, when a task has failed, nothing happens.
BuildEnds ==
    /\ stack = <<>>
    /\ \E r \in building :
          /\ building' = building \ {r}
          /\ stack' \in {<<Call("start", r)>>, <<>>}
    /\ UNCHANGED <<result, nested, misfits, resourceVars, loaderVars>>

\* The command refresh reads the manifests again.
Refresh ==
    /\ stack = <<>>
    /\ misfits' \in {m \in SUBSET Resource : Cardinality(m) <= MaxMisfit}
    /\ UNCHANGED <<building, resourceVars, loaderVars, callVars>>

Next ==
    \/ EnterStart \/ OnResourceStarting \/ LoadDep \/ DepReturned \/ DepsLoaded
    \/ TriggerBuild \/ Refused \/ OnStart \/ OnResourceStart \/ Wake \/ Woken
    \/ EnterStop \/ StopDependant \/ DependantsStopped \/ Stopped
    \/ ScriptCalls("start", "starting")
    \/ ScriptCalls("start", "startEvent")
    \/ ScriptCalls("stop", "stopEvent")
    \/ Command \/ BuildEnds \/ Refresh

Spec == Init /\ [][Next]_vars

-----------------------------------------------------------------------------
(* Properties *)

Quiet == stack = <<>>

IsStarted(r) == state[r] = "Started"

\* The type invariant; a resource the server has found is never uninitialized.
TypeOK ==
    /\ state \in [Resource -> States]
    /\ dependants \subseteq Resource \X Resource
    /\ waiting \subseteq Resource \X Resource
    /\ misfits \subseteq Resource
    /\ building \subseteq Resource /\ skipped \subseteq Resource
    /\ order \in Seq(Resource)
    /\ stack \in Seq(Frame)
    /\ result \in [res : Resource, ok : BOOLEAN] \cup {NoResult}
    /\ nested \in 0 .. MaxNested

\* No start is left half-way: whatever refuses, fails, is stopped or builds, a
\* resource is "Starting" only while a call of Start for it is on the stack.  A
\* stale "Starting" would be taken for a running dependency by the loader.
StartingIsCalled ==
    \A r \in Resource : state[r] = "Starting" =>
        \E i \in 1 .. Len(stack) : stack[i].op = "start" /\ stack[i].res = r

\* Stopping a dependency reaches every resource that needs it: when nothing is in
\* progress, a started resource is among the dependants of each of its
\* dependencies, through failed and deferred starts, builds and earlier stops.
\* Two ways around the loader are excepted: scripts that start or stop resources
\* from inside another one's start or stop, and a resource that was started while
\* it was starting, for which Start skips the loader.
StopReaches ==
    Quiet /\ nested = 0 =>
        \A r \in Resource \ skipped : IsStarted(r) =>
            \A d \in Deps[r] : <<d, r>> \in dependants

\* A resource whose start failed for a dependency is not forgotten: it does not
\* go on waiting for one that has started since ("store for deferred use (e.g.
\* build systems)").  The exception is a dependency whose build ended inside its
\* own start: that start returns false although the resource has started.
WaitersWoken ==
    Quiet /\ nested = 0 => \A w \in waiting : IsStarted(w[1]) => w[1] \in skipped

\* The list of resources that joining clients are given holds the started
\* resources and no other, each once (again but for the ways around the loader:
\* a resource started while it was starting is listed twice).
ListAgrees ==
    Quiet => /\ ToSet(order) = {r \in Resource : IsStarted(r)}
             /\ nested = 0 => \A r \in Resource \ skipped :
                    Cardinality({i \in 1 .. Len(order) : order[i] = r}) <= 1

\* Everything r depends on, directly or not: the least set that holds its
\* dependencies and theirs.
Needs == [r \in Resource |->
    {d \in Resource : \A S \in SUBSET Resource :
        Deps[r] \subseteq S /\ (\A x \in S : Deps[x] \subseteq S) => d \in S}]

\* The nesting is bounded, whatever waits for what and however builds end: a
\* resource is in one call of Stop at most, and in two calls of Start (one inside
\* another when its build ends in it) and one more for each resource it needs
\* (which, when it starts, wakes the resources that wait for it); and each call
\* that a script makes adds at most as many again.  Without a bound the stack of
\* the server's main thread would overflow.
NoRunaway ==
    \A op \in {"start", "stop"}, r \in Resource :
        Cardinality({i \in 1 .. Len(stack) : stack[i].op = op /\ stack[i].res = r})
            <= (nested + 1) * (IF op = "start" THEN 2 + Cardinality(Needs[r]) ELSE 1)

=============================================================================
