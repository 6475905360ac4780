------------------------ MODULE ResourcesDepthProofs ------------------------
(***************************************************************************)
(* The depth of the call stack in Resources is bounded, for every set of   *)
(* resources and every acyclic set of dependencies.                        *)
(*                                                                         *)
(* Of the calls in progress, the recent ones have been made since a script *)
(* last made a call; the old ones below them have had their share of the   *)
(* bound.  Recent calls are all starts or all stops.  Stops go from a      *)
(* resource to one that needs it, so none comes up twice.  Starts go both  *)
(* ways: down to a dependency that has stopped, and up to a resource that  *)
(* waits.  A start loads when it found its resource stopped; loaded is the *)
(* set of the recent calls that have.  To come back to a resource, a chain *)
(* of starts has to load something the resource needs, which has then      *)
(* started and is not loaded again: so the starts of a resource, but for   *)
(* two, can be counted by what it needs.  What makes this hard is a        *)
(* resource that does not fit, whose inner start may stop it again.        *)
(*                                                                         *)
(* Which calls are old and which have loaded is history, and no variable   *)
(* of the specification: the invariant says that there are an old and a    *)
(* loaded with which the rest of it holds.                                 *)
(***************************************************************************)
EXTENDS ResourcesProofs

\* The calls made since a script last made one.
Recent(old) == old + 1 .. Depth

\* Call i has loaded its resource, or is about to find it stopped.
Loads(loaded, i) ==
  \/ i \in loaded
  \/ stack[i].pc = "enter" /\ state[stack[i].res] = "Stopped"

\* The calls of a list up to j, from low on, that are for the same resource as call j.
SameIn(list, low, j) == {i \in low .. j : list[i].res = list[j].res}

\* How many recent calls up to j are for the resource of call j.
Count(old, j) == Cardinality(SameIn(stack, old + 1, j))

\* What the resource of call j needs and fits the server.
Fitting(j) == Needs[stack[j].res] \ misfits

\* What the resource of call j needs and has been started, but for what is loaded
\* inside call j.
Up(loaded, j) ==
  {x \in Fitting(j) : state[x] # "Stopped" /\ \A k \in loaded : k > j => stack[k].res # x}

\* The same with what has come inside call j as far as to wake others.
Done(loaded, j) ==
  Up(loaded, j) \cup {x \in Fitting(j) : \/ IsStarted(x)
                                         \/ \E k \in j + 1 .. Depth :
                                               stack[k].res = x /\ stack[k].pc = "wake"}

\* Where a start loads, and where a call is that has made a call.
Loading == {"starting", "deps", "depWait", "build"}
Calling == {"depWait", "wake", "refused", "dependants"}

\* Who waits for whom, and who is started or stopped because of whom, follows the
\* dependencies.
PairsAreDeps == \A w \in waiting \cup dependants : w[1] \in Deps[w[2]]

TodoAreDeps ==
  \A i \in 1 .. Depth :
    /\ stack[i].pc \in {"deps", "depWait"} => stack[i].todo \subseteq Deps[stack[i].res]
    /\ stack[i].pc \in {"wake", "dependants"} =>
         \A q \in stack[i].todo : stack[i].res \in Deps[q]

ResultIsDep == stack # <<>> /\ Top.pc = "depWait" => result.res \in Deps[Top.res]

Because(c, d) ==
  /\ c.pc = "depWait" => d.op = "start" /\ d.res \in Deps[c.res]
  /\ c.pc = "wake" => d.op = "start" /\ c.res \in Deps[d.res]
  /\ c.pc = "refused" => d.op = "start" /\ d.res = c.res
  /\ c.pc = "dependants" => d.op = "stop" /\ c.res \in Deps[d.res]

Follows == \A i \in 1 .. Depth - 1 : Because(stack[i], stack[i + 1])

Loader == PairsAreDeps /\ TodoAreDeps /\ ResultIsDep /\ Follows

\* The old calls take up no more than their share of the bound.
Limit(op, r) == IF op = "start" THEN 2 + Cardinality(Needs[r]) ELSE 1

CallsOf(op, r, n) == {i \in 1 .. n : stack[i].op = op /\ stack[i].res = r}

OldBounded(old) ==
  \A op \in {"start", "stop"}, r \in Resource :
    Cardinality(CallsOf(op, r, old)) <= nested * Limit(op, r)

\* Recent calls that have made a call, calls that have loaded, and others.
Shape(old, loaded) ==
  /\ \A i, j \in Recent(old) : stack[i].op = stack[j].op
  /\ \A i \in loaded : stack[i].op = "start" /\ stack[i].pc # "enter"
  /\ \A i \in Recent(old) \ {Depth} :
       /\ stack[i].pc \in Calling
       /\ stack[i].pc = "depWait" => Loads(loaded, i + 1)
       /\ stack[i].pc = "refused" => i \in loaded
  /\ \A i \in Recent(old) \ loaded : stack[i].op = "start" =>
       /\ stack[i].pc \in {"enter", "onStart", "startEvent", "wake", "refused"}
       /\ stack[i].pc = "refused" => stack[i].res \in misfits

\* A stop is called for what needs the resources that are being stopped.
StopsRise(old) ==
  \A i, j \in Recent(old) :
    i < j /\ stack[i].op = "stop" => stack[i].res \in Needs[stack[j].res]

\* A resource that fits does not stop during its start, and is not loaded again.
LoadedOnce(old, loaded) ==
  \A i \in Recent(old) : \A r \in Resource \ misfits :
    Running(i, r) =>
      /\ state[r] # "Stopped"
      /\ \A j \in loaded : i < j => stack[j].res # r

\* The calls for a resource are counted by what it needs: each but two of them has
\* a resource of its own, loaded between the previous call and it.
CountedAt(old, loaded, j) ==
  stack[j].op = "start" =>
    /\ Count(old, j) <= 2 + Cardinality(Up(loaded, j))
    /\ stack[j].res \in misfits /\ Loads(loaded, j) =>
         Count(old, j) <= 1 + Cardinality(Up(loaded, j))

Counted(old, loaded) == \A j \in Recent(old) : CountedAt(old, loaded, j)

\* A resource that does not fit can be stopped by an inner start of it; then there
\* is one more that it needs and that has started, before it is loaded again.
Settled(old, loaded, i) == Count(old, i) <= Cardinality(Done(loaded, i))

Reloads(loaded, i, j) ==
  /\ i < j /\ stack[i].op = "start" /\ stack[i].res = stack[j].res
  /\ stack[i].res \in misfits /\ Loads(loaded, j)

LoadedAgain(old, loaded) ==
  \A i, j \in Recent(old) : Reloads(loaded, i, j) => Settled(old, loaded, i)

Undone(i) ==
  /\ stack[i].op = "start" /\ stack[i].pc \in Loading
  /\ stack[i].res \in misfits /\ state[stack[i].res] = "Stopped"
  /\ \A j \in i + 1 .. Depth : stack[j].res # stack[i].res

MayLoadAgain(old, loaded) ==
  \A i \in Recent(old) : Undone(i) => Settled(old, loaded, i)

\* The part of the invariant that is about a given history.
Bounded(old, loaded) ==
  /\ old \in 0 .. Depth /\ loaded \in SUBSET Recent(old)
  /\ OldBounded(old) /\ Shape(old, loaded) /\ StopsRise(old) /\ LoadedOnce(old, loaded)
  /\ Counted(old, loaded) /\ LoadedAgain(old, loaded) /\ MayLoadAgain(old, loaded)

\* The inductive invariant.
DepthInv == Inv /\ Loader /\ \E old, loaded : Bounded(old, loaded)

\* A non-empty set of numbers up to n has a greatest element.
LEMMA Greatest ==
  ASSUME NEW n \in Nat, NEW T \in SUBSET (0 .. n), T # {}
  PROVE  \E m \in T : \A k \in T : k <= m
<1> DEFINE M == {n - k : k \in T}
<1>1. M \in SUBSET Nat /\ M # {}
  <2>1. \A k \in T : n - k \in Nat
    OBVIOUS
  <2>2. PICK k \in T : TRUE
    OBVIOUS
  <2> QED
    BY <2>1, <2>2
<1>2. PICK l \in M : \A k \in M : l <= k
  BY <1>1, Least, Zenon
<1>3. PICK m \in T : l = n - m
  OBVIOUS
<1>4. ASSUME NEW k \in T PROVE k <= m
  <2>1. n - k \in M
    OBVIOUS
  <2>2. n - m <= n - k
    BY <1>2, <1>3, <2>1
  <2> QED
    BY <2>2
<1> QED
  BY <1>4

\* What a resource needs: its dependencies and what they need, and never itself.
LEMMA NeedsFacts ==
  ASSUME NEW r \in Resource
  PROVE  /\ Needs[r] \in SUBSET Resource
         /\ Deps[r] \in SUBSET Resource
         /\ Deps[r] \subseteq Needs[r]
         /\ \A x \in Needs[r] : Deps[x] \subseteq Needs[r]
         /\ \A x \in Needs[r] : Needs[x] \subseteq Needs[r]
         /\ r \notin Needs[r]
         /\ IsFiniteSet(Needs[r]) /\ Cardinality(Needs[r]) \in Nat
<1> DEFINE Closed(q, S) == Deps[q] \subseteq S /\ \A x \in S : Deps[x] \subseteq S
<1>1. \A q \in Resource : Needs[q] = {d \in Resource : \A S \in SUBSET Resource : Closed(q, S) => d \in S}
  BY DEF Needs
<1>2. \A q \in Resource : Deps[q] \in SUBSET Resource
  BY ResourcesAssumption
<1>3. \A q \in Resource : Needs[q] \in SUBSET Resource
  BY <1>1
<1>4. \A q \in Resource : Deps[q] \subseteq Needs[q]
  BY <1>1, <1>2
<1>5. ASSUME NEW x \in Needs[r] PROVE Deps[x] \subseteq Needs[r]
  <2> SUFFICES ASSUME NEW d \in Deps[x], NEW S \in SUBSET Resource, Closed(r, S) PROVE d \in S
    BY <1>1, <1>2, <1>3
  <2>1. x \in S
    BY <1>1
  <2> QED
    BY <2>1
<1>6. Closed(r, Needs[r])
  BY <1>4, <1>5
<1>7. ASSUME NEW x \in Needs[r] PROVE Needs[x] \subseteq Needs[r]
  <2>1. Closed(x, Needs[r])
    BY <1>5, <1>7
  <2>2. x \in Resource
    BY <1>3
  <2> HIDE DEF Closed
  <2> QED
    BY <1>1, <1>3, <2>1, <2>2
<1>8. r \notin Needs[r]
  <2>1. PICK rank \in [Resource -> 0 .. Cardinality(Resource)] :
          \A q \in Resource : \A d \in Deps[q] : rank[d] < rank[q]
    BY AcyclicAssumption
  <2>2. \A q \in Resource : rank[q] \in Nat
    BY <2>1, ResourcesAssumption, FS_CardinalityType
  <2> DEFINE S == {d \in Resource : rank[d] < rank[r]}
  <2>3. \A x \in S : Deps[x] \subseteq S
    BY <1>2, <2>1, <2>2
  <2>4. Deps[r] \subseteq S
    BY <1>2, <2>1
  <2>5. r \notin S
    BY <2>2
  <2>6. S \in SUBSET Resource
    OBVIOUS
  <2> HIDE DEF S
  <2> QED
    BY <1>1, <2>3, <2>4, <2>5, <2>6
<1>9. IsFiniteSet(Needs[r]) /\ Cardinality(Needs[r]) \in Nat
  BY <1>3, ResourcesAssumption, FS_Subset, FS_CardinalityType
<1> QED
  BY <1>2, <1>3, <1>4, <1>5, <1>7, <1>8, <1>9

\* Counting the calls for the resource of call j: the first one.
LEMMA CountFacts ==
  ASSUME NEW list, NEW low \in Nat, NEW j \in Nat, low <= j
  PROVE  /\ IsFiniteSet(SameIn(list, low, j)) /\ Cardinality(SameIn(list, low, j)) \in Nat
         /\ (\A k \in low .. j - 1 : list[k].res # list[j].res)
              => Cardinality(SameIn(list, low, j)) = 1
<1> DEFINE S(i) == SameIn(list, low, i)
<1>1. \A i \in Nat : IsFiniteSet(S(i)) /\ Cardinality(S(i)) \in Nat
  <2> SUFFICES ASSUME NEW i \in Nat PROVE IsFiniteSet(S(i)) /\ Cardinality(S(i)) \in Nat
    OBVIOUS
  <2>1. IsFiniteSet(low .. i) /\ S(i) \in SUBSET (low .. i)
    BY FS_Interval DEF SameIn
  <2> QED
    BY <2>1, FS_Subset, FS_CardinalityType
<1>2. ASSUME \A k \in low .. j - 1 : list[k].res # list[j].res PROVE Cardinality(S(j)) = 1
  <2>1. S(j) = {j}
    BY <1>2 DEF SameIn
  <2> QED
    BY <2>1, FS_Singleton
<1> QED
  BY <1>1, <1>2

\* Of two calls for a resource with none in between, the second counts one more.
LEMMA CountNext ==
  ASSUME NEW list, NEW low \in Nat, NEW i \in Nat, NEW j \in Nat, low <= i, i < j,
         list[i].res = list[j].res, \A k \in i + 1 .. j - 1 : list[k].res # list[j].res
  PROVE  Cardinality(SameIn(list, low, j)) = Cardinality(SameIn(list, low, i)) + 1
<1>1. low <= j /\ i \in low .. j - 1
  OBVIOUS
<1>2. SameIn(list, low, j) = SameIn(list, low, i) \cup {j} /\ j \notin SameIn(list, low, i)
  BY DEF SameIn
<1>3. IsFiniteSet(SameIn(list, low, i))
  BY CountFacts
<1> QED
  BY <1>2, <1>3, FS_AddElement

\* Sets that grow, and grow by an element.
LEMMA GrowFacts ==
  ASSUME NEW S, NEW T, S \subseteq T, IsFiniteSet(T)
  PROVE  /\ IsFiniteSet(S) /\ Cardinality(S) \in Nat /\ Cardinality(T) \in Nat
         /\ Cardinality(S) <= Cardinality(T)
         /\ \A x \in T : x \notin S => Cardinality(S) + 1 <= Cardinality(T)
<1>1. S \in SUBSET T
  OBVIOUS
<1>2. IsFiniteSet(S) /\ Cardinality(S) \in Nat /\ Cardinality(T) \in Nat /\ Cardinality(S) <= Cardinality(T)
  BY <1>1, FS_Subset, FS_CardinalityType
<1>3. ASSUME NEW x \in T, x \notin S PROVE Cardinality(S) + 1 <= Cardinality(T)
  <2>1. S \cup {x} \in SUBSET T
    OBVIOUS
  <2>2. Cardinality(S \cup {x}) <= Cardinality(T)
    BY <2>1, FS_Subset
  <2>3. Cardinality(S \cup {x}) = Cardinality(S) + 1
    BY <1>2, <1>3, FS_AddElement
  <2> QED
    BY <2>2, <2>3
<1> QED
  BY <1>2, <1>3

\* What an old and a loaded are.
LEMMA RecentFacts ==
  ASSUME Inv, NEW old \in 0 .. Depth
  PROVE  /\ Depth \in Nat /\ old \in Nat
         /\ \A i \in Recent(old) : /\ i \in Nat /\ i \in 1 .. Depth /\ i > old
                                   /\ stack[i] \in Frame /\ stack[i].res \in Resource
                                   /\ stack[i].op \in {"start", "stop"}
         /\ \A i \in Recent(old) : i # Depth => i + 1 \in Recent(old) /\ i \in 1 .. Depth - 1
<1>1. stack \in Seq(Frame)
  BY DEF Inv, TypeOK
<1>2. Depth \in Nat /\ \A i \in 1 .. Depth : stack[i] \in Frame
  BY <1>1, LenProperties, ElementOfSeq DEF Depth
<1>3. \A i \in Recent(old) : i \in 1 .. Depth /\ i \in Nat /\ i > old
  BY <1>2 DEF Recent
<1>4. \A f \in Frame : f.res \in Resource /\ f.op \in {"start", "stop"}
  BY DEF Frame
<1>5. \A i \in Recent(old) : i # Depth => i + 1 \in Recent(old) /\ i \in 1 .. Depth - 1
  BY <1>2 DEF Recent
<1> QED
  BY <1>2, <1>3, <1>4, <1>5

\* A call that wakes r, inside another start of r: in between a resource that r needs
\* has been loaded, and has come as far as to wake others.
LEMMA Between ==
  ASSUME Inv, Follows, NEW old \in 0 .. Depth, NEW loaded \in SUBSET Recent(old),
         Shape(old, loaded),
         NEW i \in Recent(old), NEW p \in Recent(old), i <= p,
         stack[p].op = "start", stack[p].pc = "wake",
         NEW r \in Resource, stack[i].res = r, stack[p].res \in Deps[r]
  PROVE  \E x \in Needs[r] \ misfits, k \in loaded, m \in Recent(old) :
           /\ i < k /\ k <= m /\ m <= p
           /\ stack[k].res = x /\ stack[m].res = x /\ stack[m].pc = "wake"
<1>1. /\ Depth \in Nat /\ old \in Nat /\ p \in Nat /\ i \in Nat
      /\ \A l \in Recent(old) : /\ l \in Nat /\ l \in 1 .. Depth /\ l > old
                                /\ stack[l].res \in Resource
      /\ \A l \in Recent(old) : l # Depth => l + 1 \in Recent(old) /\ l \in 1 .. Depth - 1
  BY RecentFacts
<1>2. /\ Needs[r] \in SUBSET Resource /\ Deps[r] \subseteq Needs[r] /\ r \notin Needs[r]
      /\ \A x \in Needs[r] : Deps[x] \subseteq Needs[r]
  BY NeedsFacts
<1>3. \A l \in Recent(old) : stack[l].op = "start"
  BY DEF Shape
<1>4. \A l \in i .. p : l \in Recent(old)
  BY <1>1 DEF Recent
<1>5. \A l \in i .. p : l # p => l # Depth /\ l + 1 \in i .. p
  BY <1>1 DEF Recent
\* A call below p has made a call: it loads it, wakes it or has built it.
<1>6. ASSUME NEW l \in i .. p, l # p
      PROVE  \/ stack[l].pc = "depWait" /\ l + 1 \in loaded
             \/ stack[l].pc = "wake" /\ stack[l].res \in Deps[stack[l + 1].res]
             \/ stack[l].pc = "refused" /\ stack[l + 1].res = stack[l].res /\ l \in loaded
  <2>1. l \in Recent(old) /\ l # Depth /\ l + 1 \in Recent(old) /\ l \in 1 .. Depth - 1 /\ l + 1 \in i .. p
    BY <1>1, <1>4, <1>5, <1>6
  <2>2. /\ stack[l].pc \in Calling
        /\ stack[l].pc = "depWait" => Loads(loaded, l + 1)
        /\ stack[l].pc = "refused" => l \in loaded
    BY <2>1 DEF Shape
  <2>3. Because(stack[l], stack[l + 1])
    BY <2>1 DEF Follows
  <2>4. stack[l + 1].pc # "enter"
    <3>1. CASE l + 1 = p
      BY <3>1
    <3>2. CASE l + 1 # p
      <4>1. l + 1 \in Recent(old) /\ l + 1 # Depth
        BY <1>4, <1>5, <2>1, <3>2
      <4>2. stack[l + 1].pc \in Calling
        BY <4>1 DEF Shape
      <4> QED
        BY <4>2 DEF Calling
    <3> QED
      BY <3>1, <3>2
  <2>5. stack[l].pc # "dependants"
    BY <1>3, <2>1, <2>3 DEF Because
  <2> QED
    BY <2>2, <2>3, <2>4, <2>5 DEF Because, Calling, Loads
\* The last call before p that is for something r does not need.
<1>7. PICK o \in i .. p : /\ stack[o].res \notin Needs[r]
                          /\ \A l \in i .. p : l > o => stack[l].res \in Needs[r]
  <2> DEFINE T == {l \in i .. p : stack[l].res \notin Needs[r]}
  <2>1. T \in SUBSET (0 .. p) /\ T # {}
    BY <1>1, <1>2
  <2>2. PICK o \in T : \A l \in T : l <= o
    BY <1>1, <2>1, Greatest
  <2>3. \A l \in i .. p : l > o => l \notin T
    BY <1>1, <2>2
  <2> QED
    BY <2>2, <2>3
<1>8. o # p /\ o \in Nat /\ o + 1 \in i .. p /\ o + 1 > o
  BY <1>1, <1>2, <1>5, <1>7
<1>9. o + 1 \in loaded
  <2>1. stack[o + 1].res \in Needs[r]
    BY <1>7, <1>8
  <2>2. ~(stack[o].res \in Deps[stack[o + 1].res])
    BY <1>2, <1>7, <2>1
  <2>3. stack[o + 1].res # stack[o].res
    BY <1>7, <2>1
  <2> QED
    BY <1>6, <1>8, <2>2, <2>3
<1>10. PICK k \in loaded : /\ k \in i .. p /\ k > o
                           /\ \A l \in loaded : l \in i .. p => l <= k
  <2> DEFINE T == loaded \cap (i .. p)
  <2>1. T \in SUBSET (0 .. p) /\ o + 1 \in T
    BY <1>1, <1>8, <1>9
  <2>2. PICK k \in T : \A l \in T : l <= k
    BY <1>1, <2>1, Greatest
  <2>3. k > o
    BY <1>8, <2>1, <2>2
  <2> QED
    BY <2>2, <2>3
<1>11. /\ k \in Nat /\ k \in Recent(old) /\ i < k /\ k <= p
       /\ stack[k].res \in Needs[r]
  BY <1>1, <1>4, <1>7, <1>10
<1>12. ASSUME NEW m \in Recent(old), stack[m].pc = "wake", stack[m].res = stack[k].res
       PROVE  stack[k].res \in Needs[r] \ misfits
  <2>1. Running(m, stack[k].res) /\ stack[k].res \in Resource
    BY <1>1, <1>3, <1>11, <1>12 DEF Running
  <2>2. stack[k].res \notin misfits
    BY <1>1, <1>12, <2>1 DEF Inv, Unfit
  <2> QED
    BY <1>11, <2>2
<1>13. CASE k = p
  BY <1>11, <1>12, <1>13
<1>14. CASE k # p
  <2>1. k + 1 \in i .. p /\ k + 1 \in Recent(old) /\ k + 1 \notin loaded /\ k <= k + 1 /\ k + 1 <= p
    BY <1>1, <1>4, <1>5, <1>10, <1>11, <1>14
  <2>2. CASE stack[k].pc = "wake"
    BY <1>11, <1>12, <2>2
  <2>3. CASE stack[k].pc = "refused" /\ stack[k + 1].res = stack[k].res
    <3>1. stack[k + 1].pc = "wake"
      <4>1. CASE k + 1 = p
        BY <4>1
      <4>2. CASE k + 1 # p
        BY <1>6, <2>1, <4>2 DEF Shape, Calling
      <4> QED
        BY <4>1, <4>2
    <3> QED
      BY <1>11, <1>12, <2>1, <2>3, <3>1
  <2> QED
    BY <1>6, <1>10, <1>14, <2>1, <2>2, <2>3
<1> QED
  BY <1>13, <1>14

\* A step keeps the first n calls, except for where they are, and takes nothing away
\* from what their counts rest on; newer is the set of calls that have loaded after it.
Keeps(old, loaded, newer, n) ==
  /\ misfits' = misfits
  /\ n \in 0 .. Depth /\ n <= Len(stack')
  /\ \A i \in 1 .. n : stack'[i].res = stack[i].res /\ stack'[i].op = stack[i].op
  /\ \A x \in Resource : state[x] = "Started" => state'[x] = "Started"
  /\ \A j \in Recent(old) : j <= n =>
       /\ \A x \in Up(loaded, j) : state'[x] # "Stopped"
       /\ \A k \in newer : k > j => (k \in loaded /\ k <= n) \/ state[stack'[k].res] = "Stopped"
       /\ \A k \in j + 1 .. Depth : stack[k].pc = "wake" =>
            (k <= n /\ stack'[k].pc = "wake") \/ state'[stack[k].res] = "Started"
       /\ Loads(newer, j)' => Loads(loaded, j)

\* What is counted and what it is counted by are finite.
LEMMA FiniteFacts ==
  ASSUME Inv, NEW old \in 0 .. Depth, NEW loaded, NEW j \in Recent(old)
  PROVE  /\ Count(old, j) \in Nat
         /\ Fitting(j) \in SUBSET Resource
         /\ IsFiniteSet(Up(loaded, j)) /\ Cardinality(Up(loaded, j)) \in Nat
         /\ IsFiniteSet(Done(loaded, j)) /\ Cardinality(Done(loaded, j)) \in Nat
         /\ Up(loaded, j) \subseteq Fitting(j) /\ Done(loaded, j) \subseteq Fitting(j)
         /\ Up(loaded, j) \subseteq Done(loaded, j)
<1>1. /\ old + 1 \in Nat /\ j \in Nat /\ old + 1 <= j /\ stack[j].res \in Resource
  BY RecentFacts
<1>2. Count(old, j) \in Nat
  BY <1>1, CountFacts DEF Count
<1>3. Needs[stack[j].res] \in SUBSET Resource /\ IsFiniteSet(Needs[stack[j].res])
  BY <1>1, NeedsFacts
<1>4. Fitting(j) \in SUBSET Resource /\ IsFiniteSet(Fitting(j))
  <2>1. Fitting(j) \in SUBSET Needs[stack[j].res]
    BY DEF Fitting
  <2> QED
    BY <1>3, <2>1, FS_Subset
<1>5. Up(loaded, j) \in SUBSET Fitting(j)
  BY DEF Up
<1>6. Done(loaded, j) \in SUBSET Fitting(j) /\ Up(loaded, j) \subseteq Done(loaded, j)
  BY <1>5 DEF Done
<1> QED
  BY <1>2, <1>4, <1>5, <1>6, FS_Subset, FS_CardinalityType

\* What such a step does to the counts.
LEMMA KeepsFacts ==
  ASSUME Inv, Inv', NEW old \in 0 .. Depth, NEW loaded \in SUBSET Recent(old), NEW newer,
         NEW n, Keeps(old, loaded, newer, n), NEW j \in Recent(old), j <= n
  PROVE  /\ j \in Recent(old)' /\ old \in 0 .. Len(stack')
         /\ Count(old, j)' = Count(old, j)
         /\ Cardinality(Up(loaded, j)) <= Cardinality(Up(newer, j)')
         /\ Cardinality(Done(loaded, j)) <= Cardinality(Done(newer, j)')
         /\ Up(loaded, j) \subseteq Up(newer, j)'
         /\ Done(loaded, j) \subseteq Done(newer, j)'
<1>1. /\ Depth \in Nat /\ old \in Nat /\ j \in Nat /\ j > old /\ j \in 1 .. Depth
      /\ stack[j].res \in Resource
  BY RecentFacts
<1>2. stack' \in Seq(Frame) /\ Depth' = Len(stack') /\ Len(stack') \in Nat
  BY LenProperties DEF Inv, TypeOK, Depth
<1>3. n \in Nat /\ n <= Len(stack') /\ n <= Depth /\ j \in 1 .. n
  BY <1>1, <1>2 DEF Keeps
<1>4. j \in Recent(old)' /\ old \in 0 .. Len(stack')
  BY <1>1, <1>2, <1>3 DEF Recent
<1>5. SameIn(stack, old + 1, j)' = SameIn(stack, old + 1, j)
  <2>1. \A i \in old + 1 .. j : i \in 1 .. n
    BY <1>1, <1>3
  <2>2. \A i \in old + 1 .. j : stack'[i].res = stack[i].res
    BY <2>1 DEF Keeps
  <2>3. stack'[j].res = stack[j].res
    BY <1>3 DEF Keeps
  <2> QED
    BY <2>2, <2>3 DEF SameIn
<1>6. Fitting(j)' = Fitting(j)
  BY <1>3 DEF Fitting, Keeps
<1>7. Up(loaded, j) \subseteq Up(newer, j)'
  <2> SUFFICES ASSUME NEW x \in Up(loaded, j) PROVE x \in Up(newer, j)'
    OBVIOUS
  <2>1. /\ x \in Fitting(j) /\ state[x] # "Stopped" /\ state'[x] # "Stopped"
        /\ \A k \in loaded : k > j => stack[k].res # x
    BY <1>3 DEF Up, Keeps
  <2>2. ASSUME NEW k \in newer, k > j PROVE stack'[k].res # x
    <3>1. CASE k \in loaded /\ k <= n
      <4>1. k \in 1 .. n
        BY <1>3, <3>1, RecentFacts
      <4> QED
        BY <2>1, <2>2, <3>1, <4>1 DEF Keeps
    <3>2. CASE state[stack'[k].res] = "Stopped"
      BY <2>1, <3>2
    <3> QED
      BY <1>3, <2>2, <3>1, <3>2 DEF Keeps
  <2> QED
    BY <1>6, <2>1, <2>2 DEF Up
<1>8. Done(loaded, j) \subseteq Done(newer, j)'
  <2> SUFFICES ASSUME NEW x \in Done(loaded, j), x \notin Up(loaded, j) PROVE x \in Done(newer, j)'
    BY <1>7 DEF Done
  <2>1. /\ x \in Fitting(j)
        /\ \/ IsStarted(x)
           \/ \E k \in j + 1 .. Depth : stack[k].res = x /\ stack[k].pc = "wake"
    BY DEF Done
  <2>2. x \in Resource
    BY <2>1, FiniteFacts
  <2>3. CASE IsStarted(x)
    BY <1>6, <2>1, <2>2, <2>3 DEF Done, IsStarted, Keeps
  <2>4. ASSUME NEW k \in j + 1 .. Depth, stack[k].res = x, stack[k].pc = "wake"
        PROVE  x \in Done(newer, j)'
    <3>1. CASE k <= n /\ stack'[k].pc = "wake"
      <4>1. k \in 1 .. n /\ k \in j + 1 .. Depth'
        BY <1>1, <1>2, <1>3, <2>4, <3>1
      <4>2. stack'[k].res = x
        BY <2>4, <4>1 DEF Keeps
      <4> QED
        BY <1>6, <2>1, <3>1, <4>1, <4>2 DEF Done
    <3>2. CASE state'[x] = "Started"
      BY <1>6, <2>1, <3>2 DEF Done, IsStarted
    <3> QED
      BY <1>3, <2>4, <3>1, <3>2 DEF Keeps
  <2> QED
    BY <2>1, <2>3, <2>4
<1>9. /\ IsFiniteSet(Up(newer, j)') /\ IsFiniteSet(Done(newer, j)')
  <2>1. /\ stack'[j].res \in Resource
    BY <1>1, <1>3 DEF Keeps
  <2>2. IsFiniteSet(Needs[stack'[j].res])
    BY <2>1, NeedsFacts
  <2>3. /\ Up(newer, j)' \in SUBSET Needs[stack'[j].res]
        /\ Done(newer, j)' \in SUBSET Needs[stack'[j].res]
    BY DEF Up, Done, Fitting
  <2> QED
    BY <2>2, <2>3, FS_Subset
<1>10. /\ Cardinality(Up(loaded, j)) <= Cardinality(Up(newer, j)')
       /\ Cardinality(Done(loaded, j)) <= Cardinality(Done(newer, j)')
  BY <1>7, <1>8, <1>9, GrowFacts
<1>11. Count(old, j)' = Count(old, j)
  BY <1>5 DEF Count
<1> QED
  BY <1>4, <1>7, <1>8, <1>10, <1>11

\* Such a step keeps what is said of the counts of the calls it keeps.
LEMMA KeepsCounts ==
  ASSUME Inv, Inv', NEW old, NEW loaded, Bounded(old, loaded), NEW newer,
         NEW n, Keeps(old, loaded, newer, n),
         \A i \in Recent(old) : i <= n /\ Undone(i)' => Settled(old, loaded, i)
  PROVE  /\ \A j \in Recent(old) : j <= n => CountedAt(old, newer, j)'
         /\ \A i, j \in Recent(old) : i <= n /\ j <= n /\ Reloads(newer, i, j)' => Settled(old, newer, i)'
         /\ \A i \in Recent(old) : i <= n /\ Undone(i)' => Settled(old, newer, i)'
         /\ \A i \in Recent(old) : i <= n /\ Settled(old, loaded, i) => Settled(old, newer, i)'
<1>1. /\ old \in 0 .. Depth /\ loaded \in SUBSET Recent(old) /\ misfits' = misfits
      /\ \A j \in Recent(old) : j \in Nat /\ j >= 1
      /\ \A j \in 1 .. n : stack'[j].res = stack[j].res /\ stack'[j].op = stack[j].op
      /\ \A j \in Recent(old) : j <= n /\ Loads(newer, j)' => Loads(loaded, j)
      /\ n \in Nat
  BY RecentFacts DEF Bounded, Keeps
<1>2. ASSUME NEW j \in Recent(old), j <= n
      PROVE  /\ stack'[j].res = stack[j].res /\ stack'[j].op = stack[j].op
             /\ Count(old, j)' = Count(old, j) /\ Count(old, j) \in Nat
             /\ Cardinality(Up(loaded, j)) \in Nat /\ Cardinality(Up(newer, j)') \in Nat
             /\ Cardinality(Done(loaded, j)) \in Nat /\ Cardinality(Done(newer, j)') \in Nat
             /\ Cardinality(Up(loaded, j)) <= Cardinality(Up(newer, j)')
             /\ Cardinality(Done(loaded, j)) <= Cardinality(Done(newer, j)')
  <2>1. j \in 1 .. n
    BY <1>1, <1>2
  <2>2. j \in Recent(old)' /\ old \in 0 .. Len(stack') /\ Depth' = Len(stack')
    BY <1>1, <1>2, KeepsFacts DEF Depth
  <2>3. Cardinality(Up(newer, j)') \in Nat /\ Cardinality(Done(newer, j)') \in Nat
    <3>1. stack'[j].res \in Resource
      BY <1>1, <2>1, RecentFacts
    <3>2. IsFiniteSet(Needs[stack'[j].res])
      BY <3>1, NeedsFacts
    <3>3. /\ Up(newer, j)' \in SUBSET Needs[stack'[j].res]
          /\ Done(newer, j)' \in SUBSET Needs[stack'[j].res]
      BY DEF Up, Done, Fitting
    <3> QED
      BY <3>2, <3>3, FS_Subset, FS_CardinalityType
  <2> QED
    BY <1>1, <1>2, <2>1, <2>3, KeepsFacts, FiniteFacts
<1>3. ASSUME NEW j \in Recent(old), j <= n PROVE CountedAt(old, newer, j)'
  <2>1. CountedAt(old, loaded, j)
    BY DEF Bounded, Counted
  <2>2. Loads(newer, j)' => Loads(loaded, j)
    BY <1>1, <1>3
  <2> DEFINE u == Cardinality(Up(loaded, j))
             v == Cardinality(Up(newer, j)')
  <2>3. /\ stack'[j].res = stack[j].res /\ stack'[j].op = stack[j].op
        /\ Count(old, j)' = Count(old, j) /\ Count(old, j) \in Nat
        /\ u \in Nat /\ v \in Nat /\ u <= v
    BY <1>2, <1>3
  <2>4. CountedAt(old, loaded, j) <=>
          (stack[j].op = "start" =>
             /\ Count(old, j) <= 2 + u
             /\ stack[j].res \in misfits /\ Loads(loaded, j) => Count(old, j) <= 1 + u)
    BY DEF CountedAt
  <2>5. CountedAt(old, newer, j)' <=>
          (stack'[j].op = "start" =>
             /\ Count(old, j)' <= 2 + v
             /\ stack'[j].res \in misfits' /\ Loads(newer, j)' => Count(old, j)' <= 1 + v)
    BY DEF CountedAt
  <2> HIDE DEF u, v
  <2> QED
    BY <1>1, <2>1, <2>2, <2>3, <2>4, <2>5
<1>4. ASSUME NEW i \in Recent(old), i <= n, Settled(old, loaded, i) PROVE Settled(old, newer, i)'
  <2>1. Settled(old, newer, i)' <=> Count(old, i)' <= Cardinality(Done(newer, i)')
    BY DEF Settled
  <2> QED
    BY <1>2, <1>4, <2>1 DEF Settled
<1>5. ASSUME NEW i \in Recent(old), NEW j \in Recent(old), i <= n, j <= n, Reloads(newer, i, j)'
      PROVE  Settled(old, newer, i)'
  <2>1. Reloads(loaded, i, j)
    BY <1>1, <1>2, <1>5 DEF Reloads
  <2>2. Settled(old, loaded, i)
    BY <2>1 DEF Bounded, LoadedAgain
  <2> QED
    BY <1>4, <1>5, <2>2
<1> QED
  BY <1>3, <1>4, <1>5

\* The old calls that are left are bounded as before.
LEMMA OldKeeps ==
  ASSUME Inv, NEW old \in 0 .. Depth, OldBounded(old), nested' = nested,
         NEW m \in 0 .. old,
         \A i \in 1 .. m : stack'[i].res = stack[i].res /\ stack'[i].op = stack[i].op
  PROVE  OldBounded(m)'
<1> SUFFICES ASSUME NEW op \in {"start", "stop"}, NEW r \in Resource
             PROVE  Cardinality(CallsOf(op, r, m)') <= nested * Limit(op, r)
  BY DEF OldBounded, Limit
<1>1. old \in Nat /\ m \in Nat
  BY RecentFacts
<1>2. CallsOf(op, r, m)' \subseteq CallsOf(op, r, old)
  BY <1>1 DEF CallsOf
<1>3. IsFiniteSet(CallsOf(op, r, old))
  <2>1. IsFiniteSet(1 .. old) /\ CallsOf(op, r, old) \in SUBSET (1 .. old)
    BY <1>1, FS_Interval DEF CallsOf
  <2> QED
    BY <2>1, FS_Subset
<1>4. /\ Cardinality(CallsOf(op, r, m)') <= Cardinality(CallsOf(op, r, old))
      /\ Cardinality(CallsOf(op, r, m)') \in Nat /\ Cardinality(CallsOf(op, r, old)) \in Nat
  BY <1>2, <1>3, GrowFacts
<1>5. Cardinality(CallsOf(op, r, old)) <= nested * Limit(op, r)
  BY DEF OldBounded
<1>6. nested * Limit(op, r) \in Nat
  <2>1. nested \in Nat /\ Limit(op, r) \in Nat
    BY NeedsFacts DEF Inv, TypeOK, Limit
  <2> QED
    BY <2>1
<1> QED
  BY <1>4, <1>5, <1>6

\* Where no recent call is a start, nothing has loaded and little is to be said.
LEMMA StopsBounded ==
  ASSUME NEW old \in 0 .. Depth, OldBounded(old),
         \A i \in Recent(old) : stack[i].op = "stop",
         \A i \in Recent(old) \ {Depth} : stack[i].pc = "dependants",
         StopsRise(old)
  PROVE  Bounded(old, {})
<1>1. Shape(old, {})
  BY DEF Shape, Calling
<1>2. LoadedOnce(old, {})
  BY DEF LoadedOnce, Running
<1>3. Counted(old, {}) /\ LoadedAgain(old, {}) /\ MayLoadAgain(old, {})
  BY DEF Counted, CountedAt, LoadedAgain, Reloads, MayLoadAgain, Undone
<1> QED
  BY <1>1, <1>2, <1>3 DEF Bounded

\* The first recent call.
LEMMA FirstBounded ==
  ASSUME Inv, stack # <<>>, stack[Depth].pc = "enter",
         NEW old \in Nat, Depth = old + 1, OldBounded(old)
  PROVE  Bounded(old, {})
<1>1. Depth \in Nat /\ Depth # 0 /\ Depth \in 1 .. Depth /\ stack[Depth].res \in Resource
  BY TopFacts DEF Inv
<1>2. old \in 0 .. Depth /\ old \in Nat /\ Recent(old) = {Depth}
  BY <1>1 DEF Recent
<1>3. Shape(old, {}) /\ StopsRise(old)
  BY <1>1, <1>2 DEF Shape, StopsRise
<1>4. LoadedOnce(old, {})
  BY <1>2 DEF LoadedOnce, Running
<1>5. Count(old, Depth) = 1 /\ Cardinality(Up({}, Depth)) \in Nat
  <2>1. Depth \in Recent(old)
    BY <1>2
  <2>2. Cardinality(Up({}, Depth)) \in Nat
    BY <1>2, <2>1, FiniteFacts
  <2>3. old + 1 \in Nat /\ old + 1 <= Depth /\ (old + 1 .. Depth - 1) = {}
    BY <1>1
  <2>4. Cardinality(SameIn(stack, old + 1, Depth)) = 1
    BY <1>1, <2>3, CountFacts
  <2> QED
    BY <2>2, <2>4 DEF Count
<1>6. Counted(old, {})
  <2>1. CountedAt(old, {}, Depth)
    BY <1>5 DEF CountedAt
  <2> QED
    BY <1>2, <2>1 DEF Counted
<1>7. LoadedAgain(old, {}) /\ MayLoadAgain(old, {})
  BY <1>1, <1>2 DEF LoadedAgain, Reloads, MayLoadAgain, Undone, Loading
<1> QED
  BY <1>2, <1>3, <1>4, <1>6, <1>7 DEF Bounded

\* The last two lemmas as formulas.
OnlyStops ==
  \A old \in 0 .. Depth :
    /\ OldBounded(old) /\ StopsRise(old)
    /\ \A i \in Recent(old) : stack[i].op = "stop"
    /\ \A i \in Recent(old) \ {Depth} : stack[i].pc = "dependants"
    => Bounded(old, {})

OnlyFirst ==
  \A old \in Nat :
    Inv /\ stack # <<>> /\ stack[Depth].pc = "enter" /\ Depth = old + 1 /\ OldBounded(old)
    => Bounded(old, {})

\* They hold in every state.
LEMMA Stationary == OnlyStops /\ OnlyFirst
<1>1. OnlyStops
  BY StopsBounded DEF OnlyStops
<1>2. OnlyFirst
  BY FirstBounded DEF OnlyFirst
<1> QED
  BY <1>1, <1>2

\* They hold after a step.
LEMMA StationaryNext == OnlyStops' /\ OnlyFirst'
BY Stationary, PTL

\* A step inside the last of the old calls: the call it makes is the first recent one,
\* and when it ends it no longer counts.
LEMMA OldTopBounded ==
  ASSUME Inv, Inv', NEW old, NEW loaded, Bounded(old, loaded), old = Depth, stack # <<>>,
         nested' = nested,
         \/ \E pc, todo : GoesOn(pc, todo, 0) \/ GoesOn(pc, todo, 1)
         \/ stack' = Front(stack)
  PROVE  \E o, l : Bounded(o, l)'
<1>1. TypeOK /\ TypeOK' /\ OldBounded(old) /\ Depth' = Len(stack') /\ stack' \in Seq(Frame)
  BY DEF Inv, Bounded, Depth, TypeOK
<1>2. /\ old \in Nat /\ old # 0 /\ Top = stack[old]
      /\ old \in 0 .. Depth
  BY <1>1, TopFacts
<1>3. ASSUME NEW m \in 0 .. old, m = Depth', 
             \A i \in 1 .. m : stack'[i].res = stack[i].res /\ stack'[i].op = stack[i].op
      PROVE  Bounded(m, {})'
  <2>1. Recent(m)' = {} /\ m \in 0 .. Depth'
    <3>1. m \in Nat /\ (m + 1 .. m) = {} /\ m \in 0 .. m
      BY <1>2
    <3> QED
      BY <1>3, <3>1 DEF Recent
  <2>2. StopsRise(m)'
    BY <2>1 DEF StopsRise
  <2>3. OldBounded(m)'
    BY <1>1, <1>2, <1>3, OldKeeps
  <2> QED
    BY <2>1, <2>2, <2>3, StationaryNext DEF OnlyStops
<1>4. ASSUME NEW pc, NEW todo, NEW n \in {0, 1}, GoesOn(pc, todo, n)
      PROVE  \E o, l : Bounded(o, l)'
  <2>1. /\ Depth' = old + n
        /\ \A i \in 1 .. old - 1 : stack'[i] = stack[i]
        /\ stack'[old].res = Top.res /\ stack'[old].op = Top.op
        /\ n = 1 => stack'[old + 1].pc = "enter"
    <3>1. \A op, r : Call(op, r).pc = "enter"
      BY DEF Call
    <3> QED
      BY <1>1, <1>4, <3>1 DEF GoesOn, KeepsOuter
  <2>2. \A i \in 1 .. old : stack'[i].res = stack[i].res /\ stack'[i].op = stack[i].op
    BY <1>2, <2>1
  <2>3. CASE n = 0
    BY <1>2, <1>3, <2>1, <2>2, <2>3
  <2>4. CASE n = 1
    <3>1. OldBounded(old)' /\ old \in 0 .. old
      BY <1>1, <1>2, <2>2, OldKeeps
    <3>2. stack' # <<>> /\ stack'[Depth'].pc = "enter"
      <4>1. Depth' # 0 /\ Depth' = old + 1
        BY <1>2, <2>1, <2>4
      <4> QED
        BY <1>1, <2>1, <2>4, <4>1, EmptySeq
    <3>3. Bounded(old, {})'
      BY <1>2, <2>1, <2>4, <3>1, <3>2, StationaryNext DEF OnlyFirst
    <3> QED
      BY <3>3
  <2> QED
    BY <2>3, <2>4
<1>5. ASSUME stack' = Front(stack) PROVE  \E o, l : Bounded(o, l)'
  <2>1. Depth' = old - 1 /\ \A i \in 1 .. old - 1 : stack'[i] = stack[i]
    BY <1>1, <1>5, ReturnFacts DEF KeepsOuter, Depth
  <2>2. old - 1 \in 0 .. old
    BY <1>2
  <2>3. Bounded(old - 1, {})'
    BY <1>3, <2>1, <2>2
  <2> QED
    BY <2>3
<1> QED
  BY <1>4, <1>5

\* Where the innermost call may go on without making a call.
MayGo(pc) ==
  /\ pc # "enter"
  /\ Top.op = "start" =>
       /\ Top.pc # "wake"
       /\ Top.pc = "enter" => state[Top.res] = "Starting"
       /\ \/ Top.pc \in Loading
          \/ /\ pc \in {"onStart", "startEvent", "wake", "refused"}
             /\ pc = "refused" => Top.res \in misfits

\* The innermost call goes on.
LEMMA GotoBounded ==
  ASSUME Inv, Inv', NEW old, NEW loaded, Bounded(old, loaded), old # Depth, stack # <<>>, Follows,
         NEW pc, NEW todo, GoesOn(pc, todo, 0), MayGo(pc), UNCHANGED <<state, misfits, nested>>
  PROVE  Bounded(old, loaded)'
<1>1. /\ old \in 0 .. Depth /\ loaded \in SUBSET Recent(old) /\ OldBounded(old)
      /\ Shape(old, loaded) /\ StopsRise(old) /\ LoadedOnce(old, loaded)
      /\ Counted(old, loaded) /\ LoadedAgain(old, loaded) /\ MayLoadAgain(old, loaded)
  BY DEF Bounded
<1>2. /\ Depth \in Nat /\ Depth # 0 /\ old \in Nat /\ Top = stack[Depth] /\ Top.res \in Resource
      /\ Top.op \in {"start", "stop"} /\ Depth \in Recent(old)
      /\ Top.op = "stop" => Top.pc # "wake"
  BY <1>1, TopFacts, RecentFacts DEF Inv, Recent, StopSteps
<1>3. /\ Depth' = Depth /\ Len(stack') = Depth
      /\ \A i \in 1 .. Depth - 1 : stack'[i] = stack[i]
      /\ stack'[Depth].res = Top.res /\ stack'[Depth].op = Top.op /\ stack'[Depth].pc = pc
  BY <1>2 DEF GoesOn, KeepsOuter, Depth
<1>4. /\ \A i \in 1 .. Depth : stack'[i].res = stack[i].res /\ stack'[i].op = stack[i].op
      /\ \A i \in 1 .. Depth : i # Depth => stack'[i] = stack[i]
  <2>1. \A i \in 1 .. Depth : i # Depth => i \in 1 .. Depth - 1
    BY <1>2
  <2> QED
    BY <1>2, <1>3, <2>1
<1>5. /\ Recent(old)' = Recent(old)
      /\ \A i \in Recent(old) : /\ i \in 1 .. Depth /\ i \in Nat /\ stack[i].res \in Resource
                                /\ i # Depth => i + 1 \in Recent(old) /\ i \in 1 .. Depth - 1
                                /\ i <= Depth
  BY <1>1, <1>3, RecentFacts DEF Recent
<1>6. \A j \in Recent(old) : Loads(loaded, j)' => Loads(loaded, j)
  BY <1>2, <1>3, <1>4, <1>5 DEF Loads, MayGo
<1>7. ASSUME NEW j \in Recent(old), Loads(loaded, j), j # Depth \/ Top.op = "start"
      PROVE  Loads(loaded, j)'
  <2>1. CASE j # Depth
    BY <1>4, <1>5, <1>7, <2>1 DEF Loads
  <2>2. CASE j = Depth
    BY <1>2, <1>7, <2>2 DEF Loads, MayGo
  <2> QED
    BY <2>1, <2>2
<1>8. Keeps(old, loaded, loaded, Depth)
  <2>1. Depth \in 0 .. Depth /\ Depth <= Len(stack')
    BY <1>2, <1>3
  <2>2. ASSUME NEW j \in Recent(old)
        PROVE  /\ \A x \in Up(loaded, j) : state'[x] # "Stopped"
               /\ \A k \in loaded : k <= Depth
    BY <1>1, <1>5 DEF Up
  <2>3. ASSUME NEW j \in Recent(old), NEW k \in j + 1 .. Depth, stack[k].pc = "wake"
        PROVE  k <= Depth /\ stack'[k].pc = "wake"
    <3>1. k \in 1 .. Depth /\ k <= Depth
      BY <1>2, <1>5
    <3>2. k # Depth
      BY <1>2, <2>3 DEF MayGo
    <3> QED
      BY <1>4, <2>3, <3>1, <3>2
  <2> QED
    BY <1>4, <1>6, <2>1, <2>2, <2>3 DEF Keeps
<1>9. ASSUME NEW i \in Recent(old), Undone(i)' PROVE Settled(old, loaded, i)
  <2>1. stack[i].pc \in Loading
    <3>1. CASE i # Depth
      BY <1>4, <1>5, <1>9, <3>1 DEF Undone
    <3>2. CASE i = Depth
      BY <1>2, <1>3, <1>9, <3>2 DEF Undone, MayGo, Loading
    <3> QED
      BY <3>1, <3>2
  <2>2. \A j \in i + 1 .. Depth : j \in 1 .. Depth
    BY <1>2, <1>5
  <2>3. Undone(i)
    BY <1>3, <1>4, <1>5, <1>9, <2>1, <2>2 DEF Undone
  <2> QED
    BY <1>1, <2>3 DEF MayLoadAgain
<1>10. Counted(old, loaded)' /\ LoadedAgain(old, loaded)' /\ MayLoadAgain(old, loaded)'
  <2>1. /\ \A j \in Recent(old) : j <= Depth => CountedAt(old, loaded, j)'
        /\ \A i, j \in Recent(old) : i <= Depth /\ j <= Depth /\ Reloads(loaded, i, j)'
                                       => Settled(old, loaded, i)'
        /\ \A i \in Recent(old) : i <= Depth /\ Undone(i)' => Settled(old, loaded, i)'
    <3>1. PICK n : n = Depth
      OBVIOUS
    <3> QED
      BY <1>8, <1>9, <3>1, KeepsCounts
  <2> QED
    BY <1>5, <2>1 DEF Counted, LoadedAgain, MayLoadAgain
<1>11. Shape(old, loaded)'
  <2>1. \A i, j \in Recent(old) : stack'[i].op = stack'[j].op
    BY <1>1, <1>4, <1>5 DEF Shape
  <2>2. ASSUME NEW i \in loaded PROVE stack'[i].op = "start" /\ stack'[i].pc # "enter"
    BY <1>1, <1>3, <1>4, <1>5 DEF Shape, MayGo
  <2>3. ASSUME NEW i \in Recent(old), i # Depth
        PROVE  /\ stack'[i].pc \in Calling
               /\ stack'[i].pc = "depWait" => Loads(loaded, i + 1)'
               /\ stack'[i].pc = "refused" => i \in loaded
    <3>1. /\ stack[i].pc \in Calling
          /\ stack[i].pc = "depWait" => Loads(loaded, i + 1)
          /\ stack[i].pc = "refused" => i \in loaded
      BY <1>1, <2>3 DEF Shape
    <3>2. stack'[i] = stack[i] /\ i + 1 \in Recent(old) /\ i \in 1 .. Depth - 1
      BY <1>4, <1>5, <2>3
    <3>3. stack[i].pc = "depWait" => stack[i + 1].op = "start"
      BY <3>2 DEF Follows, Because
    <3> QED
      BY <1>2, <1>7, <3>1, <3>2, <3>3
  <2>4. ASSUME NEW i \in Recent(old), i \notin loaded, stack'[i].op = "start"
        PROVE  /\ stack'[i].pc \in {"enter", "onStart", "startEvent", "wake", "refused"}
               /\ stack'[i].pc = "refused" => stack'[i].res \in misfits
    <3>1. /\ stack[i].op = "start"
          /\ stack[i].pc \in {"enter", "onStart", "startEvent", "wake", "refused"}
          /\ stack[i].pc = "refused" => stack[i].res \in misfits
      BY <1>1, <1>4, <1>5, <2>4 DEF Shape
    <3>2. CASE i # Depth
      BY <1>4, <1>5, <3>1, <3>2
    <3>3. CASE i = Depth
      BY <1>2, <1>3, <3>1, <3>3 DEF MayGo, Loading
    <3> QED
      BY <3>2, <3>3
  <2> QED
    BY <1>3, <1>5, <2>1, <2>2, <2>3, <2>4 DEF Shape
<1>12. StopsRise(old)'
  BY <1>1, <1>4, <1>5 DEF StopsRise
<1>13. LoadedOnce(old, loaded)'
  <2> SUFFICES ASSUME NEW i \in Recent(old), NEW r \in Resource \ misfits, Running(i, r)'
               PROVE  /\ state[r] # "Stopped"
                      /\ \A j \in loaded : i < j => stack'[j].res # r
    BY <1>5 DEF LoadedOnce
  <2>1. i \in 1 .. Depth /\ stack[i].op = "start" /\ stack[i].res = r
    BY <1>4, <1>5 DEF Running
  <2>2. CASE Running(i, r)
    BY <1>1, <1>4, <1>5, <2>2 DEF LoadedOnce
  <2>3. CASE stack[i].pc = "enter"
    <3>1. i = Depth
      BY <1>4, <2>1, <2>3 DEF Running
    <3>2. state[r] = "Starting"
      BY <1>2, <2>1, <2>3, <3>1 DEF MayGo
    <3>3. \A j \in loaded : ~(i < j)
      BY <1>1, <1>2, <1>5, <3>1
    <3> QED
      BY <3>2, <3>3
  <2> QED
    BY <2>1, <2>2, <2>3 DEF Running
<1>14. OldBounded(old)'
  <2>1. old \in 0 .. old /\ \A i \in 1 .. old : i \in 1 .. Depth
    BY <1>1, <1>2
  <2> QED
    BY <1>1, <1>4, <2>1, OldKeeps
<1> QED
  BY <1>1, <1>3, <1>5, <1>10, <1>11, <1>12, <1>13, <1>14 DEF Bounded

\* What is known of the recent calls when there are some.
LEMMA RecentTop ==
  ASSUME Inv, Follows, NEW old, NEW loaded, Bounded(old, loaded), old # Depth, stack # <<>>,
         NEW t, t = Depth
  PROVE  /\ t \in Nat /\ t # 0 /\ old \in Nat /\ old < t /\ t \in Recent(old)
         /\ Top = stack[t] /\ Top.res \in Resource
         /\ Recent(old) = old + 1 .. t
         /\ \A i \in Recent(old) : /\ i \in Nat /\ i \in 1 .. t /\ i <= t /\ i > old
                                   /\ stack[i].res \in Resource
                                   /\ stack[i].op = Top.op
         /\ \A i \in Recent(old) : i # t =>
              /\ i + 1 \in Recent(old) /\ i + 1 <= t /\ i < t
              /\ stack[i].pc \in Calling /\ stack[i].pc # "enter"
              /\ stack[i].pc = "depWait" => Loads(loaded, i + 1)
              /\ stack[i].pc = "refused" => i \in loaded
              /\ Because(stack[i], stack[i + 1])
              /\ Top.op = "start" => stack[i].pc # "dependants"
              /\ Top.op = "stop" => stack[i].pc = "dependants"
         /\ \A i \in loaded : i \in Recent(old)
         /\ Top.op = "stop" => loaded = {}
         /\ \A i \in Recent(old) : Top.op = "start" /\ i \notin loaded =>
              /\ stack[i].pc \in {"enter", "onStart", "startEvent", "wake", "refused"}
              /\ stack[i].pc = "refused" => stack[i].res \in misfits
         /\ \A i \in Recent(old) : Top.op = "start" /\ stack[i].pc # "enter" =>
              Running(i, stack[i].res)
         /\ \A i \in Recent(old) : Top.op = "start" /\ stack[i].res \in misfits =>
              stack[i].pc # "wake"
<1>1. old \in 0 .. Depth /\ loaded \in SUBSET Recent(old) /\ Shape(old, loaded)
  BY DEF Bounded
<1>2. /\ t \in Nat /\ t # 0 /\ old \in Nat /\ old < t /\ t \in Recent(old)
      /\ Top = stack[t] /\ Top.res \in Resource /\ Recent(old) = old + 1 .. t
  BY <1>1, TopFacts, RecentFacts DEF Inv, Recent
<1>3. ASSUME NEW i \in Recent(old)
      PROVE  /\ i \in Nat /\ i \in 1 .. t /\ i <= t /\ i > old /\ stack[i] \in Frame
             /\ stack[i].res \in Resource
             /\ stack[i].op = Top.op
             /\ i # t => i + 1 \in Recent(old) /\ i + 1 <= t /\ i < t /\ i \in 1 .. Depth - 1
  BY <1>1, <1>2, RecentFacts DEF Shape
<1>4. \A f \in Frame : f.op = "stop" => f.pc \in StopSteps
  BY DEF Frame
<1>5. ASSUME NEW i \in Recent(old), i # t
      PROVE  /\ stack[i].pc \in Calling /\ stack[i].pc # "enter"
             /\ stack[i].pc = "depWait" => Loads(loaded, i + 1)
             /\ stack[i].pc = "refused" => i \in loaded
             /\ Because(stack[i], stack[i + 1])
             /\ Top.op = "start" => stack[i].pc # "dependants"
             /\ Top.op = "stop" => stack[i].pc = "dependants"
  <2>1. /\ stack[i].pc \in Calling
        /\ stack[i].pc = "depWait" => Loads(loaded, i + 1)
        /\ stack[i].pc = "refused" => i \in loaded
    BY <1>1, <1>5 DEF Shape
  <2>2. Because(stack[i], stack[i + 1]) /\ stack[i + 1].op = Top.op /\ stack[i].op = Top.op
    BY <1>3, <1>5 DEF Follows
  <2>3. Top.op = "start" => stack[i].pc # "dependants"
    BY <2>2 DEF Because
  <2>4. Top.op = "stop" => stack[i].pc = "dependants"
    BY <1>3, <1>4, <2>1, <2>2 DEF Calling, StopSteps
  <2> QED
    BY <2>1, <2>2, <2>3, <2>4 DEF Calling
<1>6. Top.op = "stop" => loaded = {}
  <2>1. \A i \in loaded : stack[i].op = "start" /\ i \in Recent(old)
    BY <1>1 DEF Shape
  <2> QED
    BY <1>3, <2>1
<1>7. \A i \in Recent(old) : Top.op = "start" /\ i \notin loaded =>
        /\ stack[i].pc \in {"enter", "onStart", "startEvent", "wake", "refused"}
        /\ stack[i].pc = "refused" => stack[i].res \in misfits
  BY <1>1, <1>3 DEF Shape
<1>8. \A i \in Recent(old) : Top.op = "start" /\ stack[i].pc # "enter" => Running(i, stack[i].res)
  BY <1>3 DEF Running
<1>9. \A i \in Recent(old) : Top.op = "start" /\ stack[i].res \in misfits => stack[i].pc # "wake"
  BY <1>3, <1>8 DEF Inv, Unfit
<1> QED
  BY <1>1, <1>2, <1>3, <1>5, <1>6, <1>7, <1>8, <1>9

\* A start that finds its resource stopped begins to load it.
LEMMA LoadBounded ==
  ASSUME Inv, Inv', NEW old, NEW loaded, Bounded(old, loaded), old # Depth, stack # <<>>, Follows,
         Top.op = "start", Top.pc = "enter", state[Top.res] = "Stopped",
         GoesOn("starting", {}, 0), state' = [state EXCEPT ![Top.res] = "Starting"],
         UNCHANGED <<misfits, nested>>
  PROVE  \E l : Bounded(old, l)'
<1> PICK t : t = Depth
  OBVIOUS
<1> PICK r : r = Top.res
  OBVIOUS
<1> DEFINE newer == loaded \cup {t}
<1>1. /\ old \in 0 .. Depth /\ loaded \in SUBSET Recent(old) /\ OldBounded(old)
      /\ Shape(old, loaded) /\ LoadedOnce(old, loaded) /\ MayLoadAgain(old, loaded)
  BY DEF Bounded
<1>2. /\ t \in Nat /\ t # 0 /\ old \in Nat /\ old < t /\ t \in Recent(old)
      /\ Top = stack[t] /\ r \in Resource
      /\ Recent(old) = old + 1 .. t
      /\ \A i \in Recent(old) : /\ i \in Nat /\ i \in 1 .. t /\ i <= t /\ i > old
                                /\ stack[i].res \in Resource
                                /\ stack[i].op = "start"
      /\ \A i \in Recent(old) : i # t =>
           /\ i + 1 \in Recent(old) /\ i + 1 <= t /\ i < t
           /\ stack[i].pc \in Calling /\ stack[i].pc # "enter"
           /\ stack[i].pc = "depWait" => Loads(loaded, i + 1)
           /\ stack[i].pc = "refused" => i \in loaded
  BY RecentTop
<1>3. /\ Depth' = t /\ Len(stack') = t
      /\ \A i \in 1 .. t - 1 : stack'[i] = stack[i]
      /\ stack'[t].res = r /\ stack'[t].op = "start" /\ stack'[t].pc = "starting"
  <2>1. Len(stack') = t /\ \A i \in 1 .. t - 1 : stack'[i] = stack[i]
    BY <1>2 DEF GoesOn, KeepsOuter
  <2>2. stack'[t] = [op |-> Top.op, res |-> Top.res, pc |-> "starting", todo |-> {}]
    BY DEF GoesOn
  <2> QED
    BY <2>1, <2>2 DEF Depth
<1>4. /\ \A i \in 1 .. t : stack'[i].res = stack[i].res /\ stack'[i].op = stack[i].op
      /\ \A i \in 1 .. t : i # t => stack'[i] = stack[i]
  <2>1. \A i \in 1 .. t : i # t => i \in 1 .. t - 1
    BY <1>2
  <2> QED
    BY <1>2, <1>3, <2>1
<1>5. Recent(old)' = Recent(old)
  BY <1>2, <1>3 DEF Recent
<1>6. \A x \in Resource : state'[x] = IF x = r THEN "Starting" ELSE state[x]
  BY DEF Inv, TypeOK
<1>7. state[r] = "Stopped" /\ stack[t].pc = "enter" /\ stack[t].res = r
  BY <1>2
<1>8. Keeps(old, loaded, newer, t)
  <2>1. t \in 0 .. Depth /\ t <= Len(stack')
    BY <1>2, <1>3
  <2>2. \A x \in Resource : state[x] = "Started" => state'[x] = "Started"
    BY <1>6, <1>7
  <2>3. ASSUME NEW j \in Recent(old)
        PROVE  /\ \A x \in Up(loaded, j) : state'[x] # "Stopped"
               /\ \A k \in newer : (k \in loaded /\ k <= t) \/ state[stack'[k].res] = "Stopped"
    <3>1. \A x \in Up(loaded, j) : x \in Resource /\ state[x] # "Stopped"
      BY <1>1, FiniteFacts DEF Up
    <3>2. \A k \in loaded : k <= t
      BY <1>1, <1>2
    <3> QED
      BY <1>3, <1>6, <1>7, <3>1, <3>2
  <2>4. ASSUME NEW j \in Recent(old), NEW k \in j + 1 .. Depth, stack[k].pc = "wake"
        PROVE  k <= t /\ stack'[k].pc = "wake"
    <3>1. k \in 1 .. t /\ k <= t /\ k # t
      BY <1>2, <1>7, <2>4
    <3> QED
      BY <1>4, <2>4, <3>1
  <2>5. ASSUME NEW j \in Recent(old), Loads(newer, j)' PROVE Loads(loaded, j)
    <3>1. CASE j = t
      BY <1>7, <3>1 DEF Loads
    <3>2. CASE j # t
      BY <1>2, <1>4, <1>6, <2>5, <3>2 DEF Loads
    <3> QED
      BY <3>1, <3>2
  <2> QED
    BY <1>4, <2>1, <2>2, <2>3, <2>4, <2>5 DEF Keeps
<1>9. ASSUME NEW i \in Recent(old), Undone(i)' PROVE Settled(old, loaded, i)
  <2>1. stack'[i].res = stack[i].res /\ stack'[i].op = stack[i].op /\ stack[i].res \in Resource
    BY <1>2, <1>4
  <2>2. state'[stack[i].res] = "Stopped"
    BY <1>9, <2>1 DEF Undone
  <2>3. stack[i].res # r /\ state[stack[i].res] = "Stopped"
    BY <1>6, <2>1, <2>2
  <2>4. stack'[i] = stack[i]
    BY <1>2, <1>4, <1>7, <2>3
  <2>5. \A j \in i + 1 .. Depth : j \in 1 .. t
    BY <1>2
  <2>6. Undone(i)
    BY <1>3, <1>4, <1>9, <2>3, <2>4, <2>5 DEF Undone
  <2> QED
    BY <1>1, <2>6 DEF MayLoadAgain
<1>10. Counted(old, newer)' /\ LoadedAgain(old, newer)' /\ MayLoadAgain(old, newer)'
  <2> HIDE DEF newer
  <2>1. /\ \A j \in Recent(old) : j <= t => CountedAt(old, newer, j)'
        /\ \A i, j \in Recent(old) : i <= t /\ j <= t /\ Reloads(newer, i, j)'
                                       => Settled(old, newer, i)'
        /\ \A i \in Recent(old) : i <= t /\ Undone(i)' => Settled(old, newer, i)'
    BY <1>8, <1>9, KeepsCounts
  <2> QED
    BY <1>2, <1>5, <2>1 DEF Counted, LoadedAgain, MayLoadAgain
<1>11. Shape(old, newer)'
  <2>1. \A i \in Recent(old) : stack'[i].op = "start"
    BY <1>2, <1>4
  <2>2. ASSUME NEW i \in newer PROVE stack'[i].op = "start" /\ stack'[i].pc # "enter"
    <3>1. CASE i = t
      BY <1>3, <3>1
    <3>2. CASE i # t
      BY <1>1, <1>2, <1>4, <3>2 DEF Shape
    <3> QED
      BY <3>1, <3>2
  <2>3. ASSUME NEW i \in Recent(old), i # t
        PROVE  /\ stack'[i].pc \in Calling
               /\ stack'[i].pc = "depWait" => Loads(newer, i + 1)'
               /\ stack'[i].pc = "refused" => i \in newer
    <3>1. stack'[i] = stack[i]
      BY <1>2, <1>4, <2>3
    <3>2. stack[i].pc = "depWait" => i + 1 \in newer
      BY <1>2, <2>3 DEF Loads
    <3> QED
      BY <1>2, <2>3, <3>1, <3>2 DEF Loads
  <2>4. ASSUME NEW i \in Recent(old), i \notin newer
        PROVE  /\ stack'[i].pc \in {"enter", "onStart", "startEvent", "wake", "refused"}
               /\ stack'[i].pc = "refused" => stack'[i].res \in misfits
    <3>1. i # t /\ i \notin loaded /\ stack'[i] = stack[i]
      BY <1>2, <1>4, <2>4
    <3> QED
      BY <1>1, <1>2, <3>1 DEF Shape
  <2> QED
    BY <1>3, <1>5, <2>1, <2>2, <2>3, <2>4 DEF Shape
<1>12. StopsRise(old)'
  BY <1>2, <1>4, <1>5 DEF StopsRise
<1>13. LoadedOnce(old, newer)'
  <2> SUFFICES ASSUME NEW i \in Recent(old), NEW q \in Resource \ misfits, Running(i, q)'
               PROVE  /\ state'[q] # "Stopped"
                      /\ \A j \in newer : i < j => stack'[j].res # q
    BY <1>5 DEF LoadedOnce
  <2>1. CASE i = t
    <3>1. q = r
      BY <1>3, <2>1 DEF Running
    <3>2. \A j \in newer : ~(i < j)
      BY <1>1, <1>2, <2>1
    <3> QED
      BY <1>6, <3>1, <3>2
  <2>2. CASE i # t
    <3>1. Running(i, q)
      BY <1>2, <1>3, <1>4, <2>2 DEF Running
    <3>2. state[q] # "Stopped" /\ \A j \in loaded : i < j => stack[j].res # q
      BY <1>1, <3>1 DEF LoadedOnce
    <3>3. q # r
      BY <1>7, <3>2
    <3>4. \A j \in newer : j = t \/ (j \in loaded /\ j \in 1 .. t)
      BY <1>1, <1>2
    <3> QED
      BY <1>3, <1>4, <1>6, <3>2, <3>3, <3>4
  <2> QED
    BY <2>1, <2>2
<1>14. OldBounded(old)'
  <2>1. old \in 0 .. old /\ \A i \in 1 .. old : i \in 1 .. t
    BY <1>2
  <2> QED
    BY <1>1, <1>4, <2>1, OldKeeps
<1>15. Bounded(old, newer)'
  <2>1. newer \in SUBSET Recent(old) /\ old \in 0 .. Depth'
    BY <1>1, <1>2, <1>3
  <2> QED
    BY <1>5, <1>10, <1>11, <1>12, <1>13, <1>14, <2>1 DEF Bounded
<1> QED
  BY <1>15

\* How a start ends: its resource had started before, is refused, or has started.
StartEnds ==
  \/ Top.pc = "enter" /\ state[Top.res] = "Started" /\ state' = state
  \/ /\ Top.pc = "refused"
     /\ state' = [state EXCEPT ![Top.res] = IF @ = "Started" THEN @ ELSE "Stopped"]
  \/ Top.pc = "wake" /\ state' = [state EXCEPT ![Top.res] = "Started"]

\* The innermost call, a start, ends.
LEMMA EndBounded ==
  ASSUME Inv, Inv', NEW old, NEW loaded, Bounded(old, loaded), old # Depth, stack # <<>>, Follows,
         Top.op = "start", stack' = Front(stack), StartEnds, UNCHANGED <<misfits, nested>>
  PROVE  \E l : Bounded(old, l)'
<1> PICK t : t = Depth
  OBVIOUS
<1> PICK r : r = Top.res
  OBVIOUS
<1> DEFINE newer == loaded \ {t}
<1>1. /\ old \in 0 .. Depth /\ loaded \in SUBSET Recent(old) /\ OldBounded(old)
      /\ Shape(old, loaded) /\ LoadedOnce(old, loaded) /\ MayLoadAgain(old, loaded)
      /\ Counted(old, loaded) /\ LoadedAgain(old, loaded)
  BY DEF Bounded
<1>2. /\ t \in Nat /\ t # 0 /\ old \in Nat /\ old < t /\ t \in Recent(old)
      /\ Top = stack[t] /\ r \in Resource
      /\ Recent(old) = old + 1 .. t
      /\ \A i \in Recent(old) : /\ i \in Nat /\ i \in 1 .. t /\ i <= t /\ i > old
                                /\ stack[i].res \in Resource
                                /\ stack[i].op = "start"
      /\ \A i \in Recent(old) : i # t =>
           /\ i + 1 \in Recent(old) /\ i + 1 <= t /\ i < t
           /\ stack[i].pc \in Calling /\ stack[i].pc # "enter" /\ stack[i].pc # "dependants"
           /\ stack[i].pc = "depWait" => Loads(loaded, i + 1)
           /\ stack[i].pc = "refused" => i \in loaded
           /\ Because(stack[i], stack[i + 1])
      /\ \A i \in Recent(old) : i \notin loaded =>
           /\ stack[i].pc \in {"enter", "onStart", "startEvent", "wake", "refused"}
           /\ stack[i].pc = "refused" => stack[i].res \in misfits
      /\ \A i \in Recent(old) : stack[i].pc # "enter" => Running(i, stack[i].res)
  BY RecentTop
<1>3. /\ Depth' = t - 1 /\ Len(stack') = t - 1
      /\ \A i \in 1 .. t - 1 : stack'[i] = stack[i]
  BY ReturnFacts DEF Inv, KeepsOuter, Depth
<1>4. /\ Recent(old)' = old + 1 .. t - 1
      /\ \A i \in Recent(old)' : /\ i \in Recent(old) /\ i # t /\ i \in 1 .. t - 1 /\ i <= t - 1
                                 /\ stack'[i] = stack[i]
      /\ \A i \in Recent(old) : i # t => i \in Recent(old)' /\ i <= t - 1
  BY <1>2, <1>3 DEF Recent
<1>5. \A x \in Resource : x # r => state'[x] = state[x]
  BY DEF Inv, TypeOK, StartEnds
<1>6. /\ stack[t].res = r
      /\ state[r] = "Started" => state'[r] = "Started"
      /\ stack[t].pc = "wake" => state'[r] = "Started"
      /\ state'[r] = "Stopped" => stack[t].pc = "refused"
      /\ stack[t].pc = "refused" => stack[t].pc # "wake"
      /\ state'[r] = "Stopped" \/ state'[r] = "Started"
  BY <1>2 DEF Inv, TypeOK, StartEnds
\* A resource that fits and is refused has been loading.
<1>7. state'[r] = "Stopped" /\ r \notin misfits => t \in loaded
  BY <1>2, <1>6
<1>8. Keeps(old, loaded, newer, t - 1)
  <2>1. t - 1 \in 0 .. Depth /\ t - 1 <= Len(stack')
    BY <1>2, <1>3
  <2>2. \A x \in Resource : state[x] = "Started" => state'[x] = "Started"
    BY <1>5, <1>6
  <2>3. ASSUME NEW j \in Recent(old), j <= t - 1, NEW x \in Up(loaded, j) PROVE state'[x] # "Stopped"
    <3>1. /\ x \in Resource /\ x \notin misfits /\ state[x] # "Stopped"
          /\ \A k \in loaded : k > j => stack[k].res # x
      BY <1>1, FiniteFacts DEF Up, Fitting
    <3>2. t > j
      BY <1>2, <2>3
    <3> QED
      BY <1>5, <1>6, <1>7, <3>1, <3>2
  <2>4. \A k \in newer : k \in loaded /\ k <= t - 1
    BY <1>1, <1>4
  <2>5. ASSUME NEW j \in Recent(old), NEW k \in j + 1 .. Depth, stack[k].pc = "wake"
        PROVE  (k <= t - 1 /\ stack'[k].pc = "wake") \/ state'[stack[k].res] = "Started"
    <3>1. k \in 1 .. t /\ (k # t => k \in 1 .. t - 1 /\ k <= t - 1)
      BY <1>2
    <3> QED
      BY <1>3, <1>6, <2>5, <3>1
  <2>6. ASSUME NEW j \in Recent(old), j <= t - 1, Loads(newer, j)' PROVE Loads(loaded, j)
    <3>1. j # t /\ stack'[j] = stack[j] /\ stack[j].pc # "enter"
      BY <1>2, <1>4, <2>6
    <3> QED
      BY <2>6, <3>1 DEF Loads
  <2> QED
    BY <1>3, <2>1, <2>2, <2>3, <2>4, <2>5, <2>6 DEF Keeps
<1>9. ASSUME NEW i \in Recent(old), i <= t - 1, Undone(i)' PROVE Settled(old, loaded, i)
  <2>1. /\ i # t /\ stack'[i] = stack[i] /\ stack[i].res \in Resource /\ i < t /\ i \in Nat
    BY <1>2, <1>4, <1>9
  <2>2. /\ stack[i].pc \in Loading /\ stack[i].res \in misfits /\ state'[stack[i].res] = "Stopped"
        /\ \A j \in i + 1 .. t - 1 : stack[j].res # stack[i].res
    <3>1. \A j \in i + 1 .. t - 1 : j \in 1 .. t - 1
      BY <2>1
    <3> QED
      BY <1>3, <1>9, <2>1, <3>1 DEF Undone
  <2>3. CASE stack[i].res # r
    <3>1. \A j \in i + 1 .. Depth : stack[j].res # stack[i].res
      <4>1. \A j \in i + 1 .. t : j = t \/ j \in i + 1 .. t - 1
        BY <2>1, <1>2
      <4> QED
        BY <1>6, <2>2, <2>3, <4>1
    <3>2. Undone(i)
      BY <1>2, <1>5, <2>1, <2>2, <2>3, <3>1 DEF Undone
    <3> QED
      BY <1>1, <3>2 DEF MayLoadAgain
  <2>4. CASE stack[i].res = r /\ t \in loaded
    <3>1. Reloads(loaded, i, t)
      BY <1>2, <1>6, <2>1, <2>2, <2>4 DEF Reloads, Loads
    <3> QED
      BY <1>1, <1>2, <3>1 DEF LoadedAgain
  <2>5. CASE stack[i].res = r /\ t \notin loaded
    <3> PICK p : p = t - 1
      OBVIOUS
    <3>1. p \in Recent(old) /\ p # t /\ p + 1 = t /\ i <= p /\ p \in Nat
      BY <1>2, <1>9
    <3>2. stack[t].pc = "refused"
      BY <1>6, <2>2, <2>5
    <3>3. stack[p].pc # "depWait"
      BY <1>2, <2>5, <3>1, <3>2 DEF Loads
    <3>4. stack[p].pc # "refused"
      <4> SUFFICES ASSUME stack[p].pc = "refused" PROVE FALSE
        OBVIOUS
      <4>1. stack[p].res = r
        BY <1>2, <1>6, <3>1 DEF Because
      <4>2. p = i
        BY <1>2, <2>1, <2>2, <2>5, <3>1, <4>1
      <4> QED
        BY <2>2, <4>2 DEF Loading
    <3>5. stack[p].pc = "wake" /\ stack[p].res \in Deps[r]
      BY <1>2, <1>6, <3>1, <3>3, <3>4 DEF Because, Calling
    <3>6. PICK x \in Needs[r] \ misfits, k \in loaded, m \in Recent(old) :
            /\ i < k /\ k <= m /\ m <= p
            /\ stack[k].res = x /\ stack[m].res = x /\ stack[m].pc = "wake"
      <4>1. stack[p].op = "start" /\ stack[i].res = r
        BY <1>2, <2>5, <3>1
      <4>2. /\ r \in Resource /\ old \in 0 .. Depth /\ loaded \in SUBSET Recent(old)
            /\ Shape(old, loaded)
        BY <1>1, <1>2
      <4> HIDE DEF newer
      <4> QED
        BY <3>1, <3>5, <4>1, <4>2, Between
    <3>7. /\ Count(old, i) \in Nat
          /\ Cardinality(Up(loaded, i)) \in Nat /\ Cardinality(Done(loaded, i)) \in Nat
          /\ IsFiniteSet(Done(loaded, i)) /\ Up(loaded, i) \subseteq Done(loaded, i)
      BY <1>1, FiniteFacts
    <3>8. x \in Done(loaded, i) /\ x \notin Up(loaded, i)
      <4>1. x \in Fitting(i) /\ m \in i + 1 .. Depth /\ k > i
        BY <1>1, <1>2, <2>5, <3>6 DEF Fitting
      <4> QED
        BY <3>6, <4>1 DEF Done, Up
    <3>9. Cardinality(Up(loaded, i)) + 1 <= Cardinality(Done(loaded, i))
      BY <3>7, <3>8, GrowFacts
    <3>10. Count(old, i) <= 1 + Cardinality(Up(loaded, i))
      <4>1. i \in loaded
        BY <1>2, <2>2 DEF Loading
      <4>2. CountedAt(old, loaded, i)
        BY <1>1 DEF Counted
      <4> QED
        BY <1>2, <2>2, <4>1, <4>2 DEF CountedAt, Loads
    <3> QED
      BY <3>7, <3>9, <3>10 DEF Settled
  <2> QED
    BY <2>3, <2>4, <2>5
<1>10. Counted(old, newer)' /\ LoadedAgain(old, newer)' /\ MayLoadAgain(old, newer)'
  <2> HIDE DEF newer
  <2> PICK n : n = t - 1
    OBVIOUS
  <2>1. /\ \A j \in Recent(old) : j <= n => CountedAt(old, newer, j)'
        /\ \A i, j \in Recent(old) : i <= n /\ j <= n /\ Reloads(newer, i, j)'
                                       => Settled(old, newer, i)'
        /\ \A i \in Recent(old) : i <= n /\ Undone(i)' => Settled(old, newer, i)'
    BY <1>8, <1>9, KeepsCounts
  <2> QED
    BY <1>4, <2>1 DEF Counted, LoadedAgain, MayLoadAgain
<1>11. Shape(old, newer)'
  <2>1. \A i \in Recent(old)' : stack'[i].op = "start"
    BY <1>2, <1>4
  <2>2. ASSUME NEW i \in newer PROVE stack'[i].op = "start" /\ stack'[i].pc # "enter"
    <3>1. i \in Recent(old)' /\ i \in loaded
      BY <1>1, <1>4
    <3> QED
      BY <1>1, <1>4, <3>1 DEF Shape
  <2>3. ASSUME NEW i \in Recent(old)', i # t - 1
        PROVE  /\ stack'[i].pc \in Calling
               /\ stack'[i].pc = "depWait" => Loads(newer, i + 1)'
               /\ stack'[i].pc = "refused" => i \in newer
    <3>1. stack'[i] = stack[i] /\ i \in Recent(old) /\ i # t /\ i + 1 \in Recent(old) /\ i + 1 # t
      BY <1>2, <1>4, <2>3
    <3>2. stack[i].pc = "depWait" => i + 1 \in newer
      BY <1>2, <3>1 DEF Loads
    <3> QED
      BY <1>2, <3>1, <3>2 DEF Loads
  <2>4. ASSUME NEW i \in Recent(old)', i \notin newer
        PROVE  /\ stack'[i].pc \in {"enter", "onStart", "startEvent", "wake", "refused"}
               /\ stack'[i].pc = "refused" => stack'[i].res \in misfits
    <3>1. i # t /\ i \notin loaded /\ stack'[i] = stack[i] /\ i \in Recent(old)
      BY <1>4, <2>4
    <3> QED
      BY <1>2, <3>1
  <2> QED
    BY <1>3, <2>1, <2>2, <2>3, <2>4 DEF Shape
<1>12. StopsRise(old)'
  BY <1>2, <1>4 DEF StopsRise
<1>13. LoadedOnce(old, newer)'
  <2> SUFFICES ASSUME NEW i \in Recent(old)', NEW q \in Resource \ misfits, Running(i, q)'
               PROVE  /\ state'[q] # "Stopped"
                      /\ \A j \in newer : i < j => stack'[j].res # q
    BY DEF LoadedOnce
  <2>1. Running(i, q) /\ i \in Recent(old) /\ i < t
    BY <1>2, <1>4 DEF Running
  <2>2. state[q] # "Stopped" /\ \A j \in loaded : i < j => stack[j].res # q
    BY <1>1, <2>1 DEF LoadedOnce
  <2>3. state'[q] # "Stopped"
    BY <1>5, <1>6, <1>7, <2>1, <2>2
  <2>4. \A j \in newer : j \in loaded /\ stack'[j] = stack[j]
    BY <1>1, <1>4
  <2> QED
    BY <2>2, <2>3, <2>4
<1>14. OldBounded(old)'
  <2>1. old \in 0 .. old /\ \A i \in 1 .. old : i \in 1 .. t - 1
    BY <1>2
  <2> QED
    BY <1>1, <1>3, <2>1, OldKeeps
<1>15. Bounded(old, newer)'
  <2>1. newer \in SUBSET Recent(old)' /\ old \in 0 .. Depth'
    BY <1>1, <1>2, <1>3, <1>4
  <2> QED
    BY <1>10, <1>11, <1>12, <1>13, <1>14, <2>1 DEF Bounded
<1> QED
  BY <1>15

\* For what a start makes a start of q, and where it goes on.
StartsBecause(pc, q) ==
  \/ pc = "depWait" /\ Top.pc \in Loading /\ state[q] = "Stopped" /\ q \in Deps[Top.res]
  \/ pc = "wake" /\ Top.pc = "wake" /\ Top.res \in Deps[q]
  \/ pc = "refused" /\ Top.pc = "build" /\ q = Top.res

\* What can be said of the last start of q when another is to be made: there is room
\* for one more.
LEMMA RoomForOne ==
  ASSUME Inv, Follows, NEW old, NEW loaded, Bounded(old, loaded), old # Depth, stack # <<>>,
         Top.op = "start", Top.pc # "enter",
         NEW pc, NEW q \in Resource, StartsBecause(pc, q),
         NEW i \in Recent(old), stack[i].res = q,
         \A k \in i + 1 .. Depth : stack[k].res # q
  PROVE  LET up == {x \in Needs[q] \ misfits : state[x] # "Stopped"} IN
         /\ Count(old, i) + 1 <= 2 + Cardinality(up)
         /\ state[q] = "Stopped" => /\ q \in misfits /\ Settled(old, loaded, i)
                                    /\ Count(old, i) + 1 <= 1 + Cardinality(up)
<1> PICK t : t = Depth
  OBVIOUS
<1> DEFINE up == {x \in Needs[q] \ misfits : state[x] # "Stopped"}
<1>1. /\ old \in 0 .. Depth /\ loaded \in SUBSET Recent(old)
      /\ Shape(old, loaded) /\ LoadedOnce(old, loaded) /\ MayLoadAgain(old, loaded)
      /\ Counted(old, loaded)
  BY DEF Bounded
<1>2. /\ t \in Nat /\ t # 0 /\ old \in Nat /\ old < t /\ t \in Recent(old)
      /\ Top = stack[t] /\ Top.res \in Resource
      /\ Recent(old) = old + 1 .. t
      /\ \A j \in Recent(old) : /\ j \in Nat /\ j \in 1 .. t /\ j <= t /\ j > old
                                /\ stack[j].res \in Resource
                                /\ stack[j].op = "start"
      /\ \A j \in Recent(old) : j # t =>
           /\ j + 1 \in Recent(old) /\ j + 1 <= t /\ j < t
           /\ stack[j].pc \in Calling /\ stack[j].pc # "enter" /\ stack[j].pc # "dependants"
           /\ Because(stack[j], stack[j + 1])
      /\ \A j \in Recent(old) : j \notin loaded =>
           /\ stack[j].pc \in {"enter", "onStart", "startEvent", "wake", "refused"}
           /\ stack[j].pc = "refused" => stack[j].res \in misfits
      /\ \A j \in Recent(old) : stack[j].pc # "enter" => Running(j, stack[j].res)
      /\ \A j \in Recent(old) : stack[j].res \in misfits => stack[j].pc # "wake"
  BY RecentTop
<1>3. \A j \in Recent(old) : Running(j, stack[j].res)
  BY <1>2
<1>4. /\ Count(old, i) \in Nat /\ Fitting(i) = Needs[q] \ misfits
      /\ Cardinality(Up(loaded, i)) \in Nat /\ Cardinality(Done(loaded, i)) \in Nat
      /\ Done(loaded, i) \subseteq Fitting(i) /\ Fitting(i) \in SUBSET Resource
      /\ Up(loaded, i) \subseteq Done(loaded, i)
  BY <1>1, FiniteFacts DEF Fitting
<1>5. Done(loaded, i) \subseteq up
  <2> SUFFICES ASSUME NEW x \in Done(loaded, i) PROVE state[x] # "Stopped"
    BY <1>4
  <2>1. x \in Resource \ misfits
    BY <1>4
  <2>2. ASSUME NEW k \in i + 1 .. Depth, stack[k].res = x, stack[k].pc = "wake"
        PROVE  state[x] # "Stopped"
    <3>1. k \in Recent(old)
      BY <1>2
    <3> QED
      BY <1>1, <1>3, <2>1, <2>2, <3>1 DEF LoadedOnce
  <2> QED
    BY <2>2 DEF Done, Up, IsStarted
<1>6. IsFiniteSet(up)
  <2>1. up \in SUBSET Needs[q] /\ IsFiniteSet(Needs[q])
    BY NeedsFacts
  <2> QED
    BY <2>1, FS_Subset
<1>7. /\ Cardinality(up) \in Nat
      /\ Cardinality(Up(loaded, i)) <= Cardinality(up)
      /\ Cardinality(Done(loaded, i)) <= Cardinality(up)
      /\ \A x \in up : x \notin Up(loaded, i) => Cardinality(Up(loaded, i)) + 1 <= Cardinality(up)
  <2> HIDE DEF up
  <2>1. Up(loaded, i) \subseteq up
    BY <1>4, <1>5
  <2> QED
    BY <1>5, <1>6, <2>1, GrowFacts
<1>8. q \notin Deps[q]
  BY NotOwnDep
<1>9. \A k \in i + 1 .. t : stack[k].res # q
  OBVIOUS
<1>10. /\ Count(old, i) <= 2 + Cardinality(Up(loaded, i))
       /\ q \in misfits /\ i \in loaded => Count(old, i) <= 1 + Cardinality(Up(loaded, i))
  <2>1. CountedAt(old, loaded, i)
    BY <1>1 DEF Counted
  <2> QED
    BY <1>2, <2>1 DEF CountedAt, Loads
<1>11. ASSUME state[q] = "Stopped"
       PROVE  /\ q \in misfits /\ Settled(old, loaded, i)
              /\ Count(old, i) + 1 <= 1 + Cardinality(up)
  <2>1. q \in misfits
    BY <1>1, <1>3, <1>11 DEF LoadedOnce
  <2>2. stack[i].pc \in Loading
    <3>1. CASE i = t
      BY <1>2, <1>8, <2>1, <3>1 DEF StartsBecause, Loading
    <3>2. CASE i # t
      <4>1. i + 1 \in i + 1 .. t
        BY <1>2, <3>2
      <4>2. stack[i].pc # "refused"
        BY <1>2, <1>9, <3>2, <4>1 DEF Because
      <4> QED
        BY <1>2, <2>1, <3>2, <4>2 DEF Calling, Loading
    <3> QED
      BY <3>1, <3>2
  <2>3. Settled(old, loaded, i)
    <3>1. Undone(i)
      BY <1>2, <1>11, <2>1, <2>2 DEF Undone
    <3> QED
      BY <1>1, <3>1 DEF MayLoadAgain
  <2> HIDE DEF up
  <2> QED
    BY <1>4, <1>7, <2>1, <2>3 DEF Settled
<1>12. CASE state[q] = "Stopped"
  BY <1>4, <1>7, <1>11, <1>12
<1>13. CASE state[q] # "Stopped" /\ pc = "wake"
  <2>1. Top.pc = "wake" /\ Top.res \in Deps[q]
    BY <1>13 DEF StartsBecause
  <2>2. PICK x \in Needs[q] \ misfits, k \in loaded, m \in Recent(old) :
          /\ i < k /\ k <= m /\ m <= t
          /\ stack[k].res = x /\ stack[m].res = x /\ stack[m].pc = "wake"
    <3>1. /\ t \in Recent(old) /\ i <= t /\ stack[t].op = "start" /\ stack[t].pc = "wake"
          /\ stack[t].res \in Deps[q]
      BY <1>2, <2>1
    <3> QED
      BY <1>1, <3>1, Between
  <2>3. x \in up
    <3>1. x \in Resource \ misfits
      BY NeedsFacts
    <3> QED
      BY <1>1, <1>3, <2>2, <3>1 DEF LoadedOnce
  <2>4. x \notin Up(loaded, i)
    BY <1>1, <1>2, <2>2 DEF Up
  <2> QED
    BY <1>4, <1>7, <1>10, <1>13, <2>3, <2>4
<1>14. CASE state[q] # "Stopped" /\ pc = "refused"
  <2>1. Top.pc = "build" /\ q = Top.res
    BY <1>14 DEF StartsBecause
  <2>2. i = t /\ t \in loaded
    BY <1>2, <1>9, <2>1
  <2>3. CASE q \in misfits
    <3> QED
      BY <1>4, <1>7, <1>10, <1>14, <2>2, <2>3
  <2>4. CASE q \notin misfits
    <3>1. \A k \in old + 1 .. t - 1 : stack[k].res # stack[t].res
      <4> SUFFICES ASSUME NEW k \in old + 1 .. t - 1, stack[k].res = q PROVE FALSE
        BY <1>2, <2>1
      <4>1. k \in Recent(old) /\ k < t
        BY <1>2
      <4>2. Running(k, q) /\ q \in Resource \ misfits
        BY <1>3, <2>4, <4>1
      <4> QED
        BY <1>1, <1>2, <2>1, <2>2, <4>1, <4>2 DEF LoadedOnce
    <3>2. Count(old, t) = 1
      <4>1. old + 1 \in Nat /\ t \in Nat /\ old + 1 <= t
        BY <1>2
      <4> QED
        BY <3>1, <4>1, CountFacts DEF Count
    <3> QED
      BY <1>7, <1>14, <2>2, <3>2
  <2> QED
    BY <2>3, <2>4
<1> QED
  BY <1>12, <1>13, <1>14 DEF StartsBecause

\* A start makes a start.
LEMMA CallBounded ==
  ASSUME Inv, Inv', NEW old, NEW loaded, Bounded(old, loaded), old # Depth, stack # <<>>, Follows,
         Top.op = "start", Top.pc # "enter",
         NEW pc, NEW todo, NEW q \in Resource, GoesOn(pc, todo, 1),
         stack'[Depth + 1] = Call("start", q), StartsBecause(pc, q),
         UNCHANGED <<state, misfits, nested>>
  PROVE  Bounded(old, loaded)'
<1> PICK t : t = Depth
  OBVIOUS
<1> PICK u : u = t + 1
  OBVIOUS
<1>1. /\ old \in 0 .. Depth /\ loaded \in SUBSET Recent(old) /\ OldBounded(old)
      /\ Shape(old, loaded) /\ LoadedOnce(old, loaded) /\ MayLoadAgain(old, loaded)
      /\ LoadedAgain(old, loaded)
  BY DEF Bounded
<1>2. /\ t \in Nat /\ t # 0 /\ old \in Nat /\ old < t /\ t \in Recent(old)
      /\ Top = stack[t] /\ Top.res \in Resource
      /\ Recent(old) = old + 1 .. t
      /\ \A i \in Recent(old) : /\ i \in Nat /\ i \in 1 .. t /\ i <= t /\ i > old
                                /\ stack[i].res \in Resource
                                /\ stack[i].op = "start"
      /\ \A i \in Recent(old) : i # t =>
           /\ i + 1 \in Recent(old) /\ i + 1 <= t /\ i < t
           /\ stack[i].pc \in Calling /\ stack[i].pc # "enter" /\ stack[i].pc # "dependants"
           /\ stack[i].pc = "depWait" => Loads(loaded, i + 1)
           /\ stack[i].pc = "refused" => i \in loaded
      /\ \A i \in Recent(old) : i \notin loaded =>
           /\ stack[i].pc \in {"enter", "onStart", "startEvent", "wake", "refused"}
           /\ stack[i].pc = "refused" => stack[i].res \in misfits
      /\ \A i \in Recent(old) : stack[i].pc # "enter" => Running(i, stack[i].res)
      /\ \A i \in Recent(old) : stack[i].res \in misfits => stack[i].pc # "wake"
  BY RecentTop
<1>3. /\ Depth' = u /\ Len(stack') = u /\ u \in Nat
      /\ \A i \in 1 .. t - 1 : stack'[i] = stack[i]
      /\ stack'[t].res = Top.res /\ stack'[t].op = "start" /\ stack'[t].pc = pc
      /\ stack'[u].res = q /\ stack'[u].op = "start" /\ stack'[u].pc = "enter"
  BY <1>2 DEF GoesOn, KeepsOuter, Depth, Call
<1>4. /\ \A i \in 1 .. t : stack'[i].res = stack[i].res /\ stack'[i].op = stack[i].op
      /\ \A i \in 1 .. t : i # t => stack'[i] = stack[i]
  <2>1. \A i \in 1 .. t : i # t => i \in 1 .. t - 1
    BY <1>2
  <2> QED
    BY <1>2, <1>3, <2>1
<1>5. /\ Recent(old)' = old + 1 .. u
      /\ \A i \in Recent(old)' : i = u \/ i \in Recent(old)
      /\ u \in Recent(old)' /\ u \notin Recent(old)
      /\ \A i \in Recent(old) : i \in Recent(old)' /\ i # u /\ i < u
      /\ u \notin loaded
  BY <1>1, <1>2, <1>3 DEF Recent
<1>6. \A i \in Recent(old) : stack[i].pc # "enter" /\ stack'[i].pc # "enter"
  <2>1. pc # "enter"
    BY DEF StartsBecause
  <2> QED
    BY <1>2, <1>3, <1>4, <2>1
<1>7. Keeps(old, loaded, loaded, t)
  <2>1. t \in 0 .. Depth /\ t <= Len(stack')
    BY <1>2, <1>3
  <2>2. ASSUME NEW j \in Recent(old)
        PROVE  /\ \A x \in Up(loaded, j) : state'[x] # "Stopped"
               /\ \A k \in loaded : k <= t
    BY <1>1, <1>2 DEF Up
  <2>3. ASSUME NEW j \in Recent(old), NEW k \in j + 1 .. Depth, stack[k].pc = "wake"
        PROVE  k <= t /\ stack'[k].pc = "wake"
    <3>1. k \in 1 .. t /\ k <= t
      BY <1>2
    <3>2. k = t => pc = "wake"
      BY <1>2, <2>3 DEF StartsBecause, Loading
    <3> QED
      BY <1>3, <1>4, <2>3, <3>1, <3>2
  <2>4. \A j \in Recent(old) : Loads(loaded, j)' => Loads(loaded, j)
    BY <1>6 DEF Loads
  <2> QED
    BY <1>4, <2>1, <2>2, <2>3, <2>4 DEF Keeps
<1>8. ASSUME NEW i \in Recent(old), Undone(i)' PROVE Settled(old, loaded, i)
  <2>1. stack[i].pc \in Loading
    <3>1. CASE i # t
      BY <1>2, <1>4, <1>8, <3>1 DEF Undone
    <3>2. CASE i = t
      BY <1>2, <1>3, <1>8, <3>2 DEF Undone, StartsBecause, Loading
    <3> QED
      BY <3>1, <3>2
  <2>2. \A j \in i + 1 .. t : j \in 1 .. t /\ j \in i + 1 .. u
    BY <1>2
  <2>3. Undone(i)
    BY <1>2, <1>3, <1>4, <1>8, <2>1, <2>2 DEF Undone
  <2> QED
    BY <1>1, <2>3 DEF MayLoadAgain
<1>9. /\ \A j \in Recent(old) : CountedAt(old, loaded, j)'
      /\ \A i, j \in Recent(old) : Reloads(loaded, i, j)' => Settled(old, loaded, i)'
      /\ \A i \in Recent(old) : Undone(i)' => Settled(old, loaded, i)'
      /\ \A i \in Recent(old) : Settled(old, loaded, i) => Settled(old, loaded, i)'
  <2>1. \A i \in Recent(old) : i <= t
    BY <1>2
  <2> QED
    BY <1>7, <1>8, <2>1, KeepsCounts
\* The last start of q that is in progress.
<1> DEFINE up == {x \in Needs[q] \ misfits : state[x] # "Stopped"}
           LastOf(i) == i \in Recent(old) /\ stack[i].res = q /\ \A k \in i + 1 .. t : stack[k].res # q
<1>10. ASSUME NEW j \in Recent(old), stack[j].res = q PROVE \E i : LastOf(i) /\ j <= i
  <2> DEFINE T == {k \in old + 1 .. t : stack[k].res = q}
  <2>1. T \in SUBSET (0 .. t) /\ T # {} /\ j \in T
    BY <1>2, <1>10
  <2>2. PICK i \in T : \A k \in T : k <= i
    BY <1>2, <2>1, Greatest
  <2>3. ASSUME NEW k \in i + 1 .. t PROVE stack[k].res # q
    <3>1. k \in old + 1 .. t /\ ~(k <= i)
      BY <1>2
    <3> QED
      BY <2>2, <3>1
  <2> QED
    BY <1>2, <2>1, <2>2, <2>3
<1>11. ASSUME NEW i, LastOf(i)
       PROVE  /\ Count(old, i) + 1 <= 2 + Cardinality(up)
              /\ state[q] = "Stopped" => /\ q \in misfits /\ Settled(old, loaded, i)
                                         /\ Count(old, i) + 1 <= 1 + Cardinality(up)
  BY <1>11, RoomForOne
<1>12. Up(loaded, u)' = up
  <2>1. \A k \in loaded : ~(k > u)
    BY <1>1, <1>2, <1>3, <1>5
  <2> QED
    BY <1>3, <2>1 DEF Up, Fitting
<1>13. Cardinality(up) \in Nat
  <2>1. up \in SUBSET Needs[q] /\ IsFiniteSet(Needs[q])
    BY NeedsFacts
  <2> HIDE DEF up
  <2> QED
    BY <2>1, FS_Subset, FS_CardinalityType
<1>14. Loads(loaded, u)' => state[q] = "Stopped"
  BY <1>3, <1>5 DEF Loads
<1>15. /\ Count(old, u)' <= 2 + Cardinality(up)
       /\ state[q] = "Stopped" => Count(old, u)' <= 1 + Cardinality(up)
  <2>1. old + 1 \in Nat /\ old + 1 <= u /\ u \in Nat
    BY <1>2, <1>3
  <2>2. Count(old, u)' = Cardinality(SameIn(stack', old + 1, u))
    BY DEF Count, SameIn
  <2>3. \A k \in old + 1 .. u - 1 : k \in Recent(old) /\ k \in 1 .. t
    BY <1>2
  <2>4. CASE \A j \in Recent(old) : stack[j].res # q
    <3>1. \A k \in old + 1 .. u - 1 : stack'[k].res # stack'[u].res
      BY <1>3, <1>4, <2>3, <2>4
    <3>2. Count(old, u)' = 1
      BY <2>1, <2>2, <3>1, CountFacts
    <3> HIDE DEF up
    <3> QED
      BY <1>13, <3>2
  <2>5. CASE \E j \in Recent(old) : stack[j].res = q
    <3>1. PICK i : LastOf(i)
      BY <1>10, <2>5
    <3>2. i \in old + 1 .. u - 1 /\ i <= t /\ i \in 1 .. t
      BY <1>2, <3>1
    <3>3. stack'[i].res = stack'[u].res
      BY <1>3, <1>4, <3>1, <3>2
    <3>4. \A k \in i + 1 .. u - 1 : stack'[k].res # stack'[u].res
      <4>1. \A k \in i + 1 .. u - 1 : k \in i + 1 .. t /\ k \in 1 .. t
        BY <1>2, <3>2
      <4> QED
        BY <1>3, <1>4, <3>1, <4>1
    <3>5. Count(old, u)' = Cardinality(SameIn(stack', old + 1, i)) + 1
      <4> PICK list : list = stack'
        OBVIOUS
      <4>1. /\ list[i].res = list[u].res
            /\ \A k \in i + 1 .. u - 1 : list[k].res # list[u].res
        BY <3>3, <3>4
      <4> PICK low : low = old + 1
        OBVIOUS
      <4>2. low \in Nat /\ u \in Nat /\ i \in Nat /\ low <= i /\ i < u
        BY <2>1, <3>2
      <4> HIDE DEF LastOf, up
      <4>3. Cardinality(SameIn(list, low, u)) = Cardinality(SameIn(list, low, i)) + 1
        BY <4>1, <4>2, CountNext
      <4> QED
        BY <2>2, <4>3
    <3>6. Cardinality(SameIn(stack', old + 1, i)) = Count(old, i)
      <4>1. Count(old, i)' = Count(old, i)
        BY <1>1, <1>7, <3>1, <3>2, KeepsFacts
      <4> QED
        BY <4>1 DEF Count, SameIn
    <3> HIDE DEF up
    <3> QED
      BY <1>11, <3>1, <3>5, <3>6
  <2> QED
    BY <2>4, <2>5
<1>16. CountedAt(old, loaded, u)'
  <2>1. CountedAt(old, loaded, u)' <=>
          (stack'[u].op = "start" =>
             /\ Count(old, u)' <= 2 + Cardinality(Up(loaded, u)')
             /\ stack'[u].res \in misfits' /\ Loads(loaded, u)' =>
                  Count(old, u)' <= 1 + Cardinality(Up(loaded, u)'))
    BY DEF CountedAt
  <2> HIDE DEF up
  <2> QED
    BY <1>12, <1>14, <1>15, <2>1
<1>17. ASSUME NEW i \in Recent(old), Reloads(loaded, i, u)' PROVE Settled(old, loaded, i)'
  <2>1. stack[i].res = q /\ q \in misfits /\ state[q] = "Stopped"
    BY <1>2, <1>3, <1>4, <1>14, <1>17 DEF Reloads
  <2>2. PICK g : LastOf(g) /\ i <= g
    BY <1>10, <2>1
  <2>3. CASE i = g
    BY <1>9, <1>11, <2>1, <2>2, <2>3
  <2>4. CASE i # g
    <3>1. i < g /\ g \in Recent(old) /\ stack[g].res = q
      BY <1>2, <2>2, <2>4
    <3>2. g \in loaded
      <4>1. CASE g = t
        BY <1>2, <2>1, <3>1, <4>1, NotOwnDep DEF StartsBecause, Loading
      <4>2. CASE g # t
        BY <1>2, <2>1, <3>1, <4>2 DEF Calling
      <4> QED
        BY <4>1, <4>2
    <3>3. Reloads(loaded, i, g)
      BY <1>2, <2>1, <3>1, <3>2 DEF Reloads, Loads
    <3> QED
      BY <1>1, <1>9, <3>1, <3>3 DEF LoadedAgain
  <2> QED
    BY <2>3, <2>4
<1>18. Counted(old, loaded)'
  BY <1>5, <1>9, <1>16 DEF Counted
<1>19. LoadedAgain(old, loaded)'
  <2> SUFFICES ASSUME NEW i \in Recent(old)', NEW j \in Recent(old)', Reloads(loaded, i, j)'
               PROVE  Settled(old, loaded, i)'
    BY DEF LoadedAgain
  <2>1. i < j
    BY DEF Reloads
  <2>2. i # u
    BY <1>2, <1>3, <1>5, <2>1
  <2> QED
    BY <1>5, <1>9, <1>17, <2>2
<1>20. MayLoadAgain(old, loaded)'
  <2>1. ~Undone(u)'
    BY <1>3 DEF Undone, Loading
  <2> QED
    BY <1>5, <1>9, <2>1 DEF MayLoadAgain
<1>21. Shape(old, loaded)'
  <2>1. \A i \in Recent(old)' : stack'[i].op = "start"
    BY <1>2, <1>3, <1>4, <1>5
  <2>2. ASSUME NEW i \in loaded PROVE stack'[i].op = "start" /\ stack'[i].pc # "enter"
    BY <1>1, <1>2, <1>4, <1>6
  <2>3. ASSUME NEW i \in Recent(old)', i # u
        PROVE  /\ stack'[i].pc \in Calling
               /\ stack'[i].pc = "depWait" => Loads(loaded, i + 1)'
               /\ stack'[i].pc = "refused" => i \in loaded
    <3>1. i \in Recent(old)
      BY <1>5, <2>3
    <3>2. CASE i # t
      <4>1. stack'[i] = stack[i] /\ i + 1 \in Recent(old)
        BY <1>2, <1>4, <3>1, <3>2
      <4>2. stack[i].pc = "depWait" => i + 1 \in loaded
        BY <1>2, <1>6, <3>1, <3>2, <4>1 DEF Loads
      <4> QED
        BY <1>2, <3>1, <3>2, <4>1, <4>2 DEF Loads
    <3>3. CASE i = t
      <4>1. stack'[i].pc = pc /\ i + 1 = u
        BY <1>3, <3>3
      <4>2. pc = "depWait" => Loads(loaded, u)'
        BY <1>3 DEF StartsBecause, Loads
      <4>3. pc = "refused" => t \in loaded
        BY <1>2 DEF StartsBecause
      <4> QED
        BY <3>3, <4>1, <4>2, <4>3 DEF StartsBecause, Calling
    <3> QED
      BY <3>2, <3>3
  <2>4. ASSUME NEW i \in Recent(old)', i \notin loaded
        PROVE  /\ stack'[i].pc \in {"enter", "onStart", "startEvent", "wake", "refused"}
               /\ stack'[i].pc = "refused" => stack'[i].res \in misfits
    <3>1. CASE i = u
      BY <1>3, <3>1
    <3>2. CASE i = t
      BY <1>2, <1>3, <2>4, <3>2 DEF StartsBecause, Loading
    <3>3. CASE i # t /\ i # u
      BY <1>2, <1>4, <1>5, <2>4, <3>3
    <3> QED
      BY <3>1, <3>2, <3>3
  <2> QED
    BY <1>3, <2>1, <2>2, <2>3, <2>4 DEF Shape
<1>22. StopsRise(old)'
  BY <1>2, <1>3, <1>4, <1>5 DEF StopsRise
<1>23. LoadedOnce(old, loaded)'
  <2> SUFFICES ASSUME NEW i \in Recent(old)', NEW r \in Resource \ misfits, Running(i, r)'
               PROVE  /\ state[r] # "Stopped"
                      /\ \A j \in loaded : i < j => stack'[j].res # r
    BY DEF LoadedOnce
  <2>1. i # u
    BY <1>3 DEF Running
  <2>2. i \in Recent(old) /\ Running(i, r)
    BY <1>2, <1>4, <1>5, <1>6, <2>1 DEF Running
  <2>3. \A j \in loaded : j \in 1 .. t
    BY <1>1, <1>2
  <2> QED
    BY <1>1, <1>4, <2>2, <2>3 DEF LoadedOnce
<1>24. OldBounded(old)'
  <2>1. old \in 0 .. old /\ \A i \in 1 .. old : i \in 1 .. t
    BY <1>2
  <2> QED
    BY <1>1, <1>4, <2>1, OldKeeps
<1>25. loaded \in SUBSET Recent(old)' /\ old \in 0 .. Depth'
  BY <1>1, <1>2, <1>3, <1>5
<1> QED
  BY <1>18, <1>19, <1>20, <1>21, <1>22, <1>23, <1>24, <1>25 DEF Bounded

\* A stop makes a stop, of what needs its resource.
LEMMA StopCallBounded ==
  ASSUME Inv, Inv', NEW old, NEW loaded, Bounded(old, loaded), old # Depth, stack # <<>>, Follows,
         Top.op = "stop", NEW todo, NEW q \in Resource, GoesOn("dependants", todo, 1),
         stack'[Depth + 1] = Call("stop", q), Top.res \in Deps[q], nested' = nested
  PROVE  Bounded(old, {})'
<1> PICK t : t = Depth
  OBVIOUS
<1> PICK u : u = t + 1
  OBVIOUS
<1>1. old \in 0 .. Depth /\ OldBounded(old) /\ StopsRise(old)
  BY DEF Bounded
<1>2. /\ t \in Nat /\ t # 0 /\ old \in Nat /\ old < t /\ t \in Recent(old)
      /\ Top = stack[t] /\ Top.res \in Resource /\ Recent(old) = old + 1 .. t
      /\ \A i \in Recent(old) : /\ i \in Nat /\ i \in 1 .. t /\ i <= t /\ i > old
                                /\ stack[i].res \in Resource /\ stack[i].op = "stop"
      /\ \A i \in Recent(old) : i # t => stack[i].pc = "dependants" /\ i < t
  BY RecentTop
<1>3. /\ Depth' = u /\ Len(stack') = u /\ u \in Nat
      /\ \A i \in 1 .. t - 1 : stack'[i] = stack[i]
      /\ stack'[t].res = Top.res /\ stack'[t].op = "stop" /\ stack'[t].pc = "dependants"
      /\ stack'[u].res = q /\ stack'[u].op = "stop"
  BY <1>2 DEF GoesOn, KeepsOuter, Depth, Call
<1>4. /\ \A i \in 1 .. t : stack'[i].res = stack[i].res /\ stack'[i].op = stack[i].op
      /\ \A i \in 1 .. t : i # t => stack'[i] = stack[i]
  <2>1. \A i \in 1 .. t : i # t => i \in 1 .. t - 1
    BY <1>2
  <2> QED
    BY <1>2, <1>3, <2>1
<1>5. /\ Recent(old)' = old + 1 .. u
      /\ \A i \in Recent(old)' : i = u \/ i \in Recent(old)
      /\ \A i \in Recent(old) : i < u
      /\ old \in 0 .. Depth'
  BY <1>2, <1>3 DEF Recent
<1>6. /\ \A i \in Recent(old)' : stack'[i].op = "stop"
      /\ \A i \in Recent(old)' \ {u} : stack'[i].pc = "dependants"
  BY <1>2, <1>3, <1>4, <1>5
<1>7. StopsRise(old)'
  <2> SUFFICES ASSUME NEW i \in Recent(old)', NEW j \in Recent(old)', i < j
               PROVE  stack'[i].res \in Needs[stack'[j].res]
    BY DEF StopsRise
  <2>1. i \in Recent(old)
    BY <1>2, <1>3, <1>5
  <2>2. stack'[i].res = stack[i].res
    BY <1>2, <1>4, <2>1
  <2>3. CASE j # u
    <3>1. j \in Recent(old) /\ stack'[j].res = stack[j].res
      BY <1>2, <1>4, <1>5, <2>3
    <3> QED
      BY <1>1, <1>2, <2>1, <2>2, <3>1 DEF StopsRise
  <2>4. CASE j = u
    <3>1. Top.res \in Needs[q] /\ Needs[Top.res] \subseteq Needs[q]
      BY NeedsFacts
    <3>2. i # t => stack[i].res \in Needs[Top.res]
      BY <1>1, <1>2, <2>1 DEF StopsRise
    <3> QED
      BY <1>2, <1>3, <2>2, <2>4, <3>1, <3>2
  <2> QED
    BY <2>3, <2>4
<1>8. OldBounded(old)'
  <2>1. old \in 0 .. old /\ \A i \in 1 .. old : i \in 1 .. t
    BY <1>2
  <2> QED
    BY <1>1, <1>4, <2>1, OldKeeps
<1> QED
  BY <1>3, <1>5, <1>6, <1>7, <1>8, StationaryNext DEF OnlyStops

\* The innermost call, a stop, ends.
LEMMA StopEndBounded ==
  ASSUME Inv, Inv', NEW old, NEW loaded, Bounded(old, loaded), old # Depth, stack # <<>>, Follows,
         Top.op = "stop", stack' = Front(stack), nested' = nested
  PROVE  Bounded(old, {})'
<1> PICK t : t = Depth
  OBVIOUS
<1>1. old \in 0 .. Depth /\ OldBounded(old) /\ StopsRise(old)
  BY DEF Bounded
<1>2. /\ t \in Nat /\ t # 0 /\ old \in Nat /\ old < t
      /\ Recent(old) = old + 1 .. t
      /\ \A i \in Recent(old) : stack[i].op = "stop"
      /\ \A i \in Recent(old) : i # t => stack[i].pc = "dependants"
  BY RecentTop
<1>3. /\ Depth' = t - 1 /\ Len(stack') = t - 1
      /\ \A i \in 1 .. t - 1 : stack'[i] = stack[i]
  BY ReturnFacts DEF Inv, KeepsOuter, Depth
<1>4. /\ Recent(old)' = old + 1 .. t - 1 /\ old \in 0 .. Depth'
      /\ \A i \in Recent(old)' : i \in Recent(old) /\ i # t /\ stack'[i] = stack[i]
  BY <1>2, <1>3 DEF Recent
<1>5. StopsRise(old)'
  BY <1>1, <1>4 DEF StopsRise
<1>6. OldBounded(old)'
  <2>1. old \in 0 .. old /\ \A i \in 1 .. old : i \in 1 .. t - 1
    BY <1>2
  <2> QED
    BY <1>1, <1>3, <2>1, OldKeeps
<1> QED
  BY <1>2, <1>4, <1>5, <1>6, StationaryNext DEF OnlyStops

\* The loader's part of the invariant, when the innermost call goes on.
LEMMA GoesOnLoader ==
  ASSUME Inv, Inv', Loader, stack # <<>>, NEW pc, NEW todo, NEW n \in {0, 1}, GoesOn(pc, todo, n),
         PairsAreDeps',
         pc \in {"deps", "depWait"} => todo \subseteq Deps[Top.res],
         pc \in {"wake", "dependants"} => \A q \in todo : Top.res \in Deps[q],
         n = 0 => pc # "depWait",
         n = 1 => Because(stack'[Depth], stack'[Depth + 1])
  PROVE  Loader'
<1> PICK t : t = Depth
  OBVIOUS
<1>1. t \in Nat /\ t # 0 /\ Top = stack[t]
  BY TopFacts DEF Inv
<1>2. /\ Depth' = t + n /\ Len(stack') = t + n
      /\ \A i \in 1 .. t - 1 : stack'[i] = stack[i]
      /\ stack'[t].res = Top.res /\ stack'[t].op = Top.op
      /\ stack'[t].pc = pc /\ stack'[t].todo = todo
      /\ n = 1 => stack'[t + 1].pc = "enter"
  <2>1. \A op, r : Call(op, r).pc = "enter"
    BY DEF Call
  <2> QED
    BY <1>1, <2>1 DEF GoesOn, KeepsOuter, Depth
<1>3. \A i \in 1 .. t + n : i \in 1 .. t - 1 \/ i = t \/ (n = 1 /\ i = t + 1)
  BY <1>1
<1>4. TodoAreDeps'
  <2> SUFFICES ASSUME NEW i \in 1 .. t + n
               PROVE  /\ stack'[i].pc \in {"deps", "depWait"} => stack'[i].todo \subseteq Deps[stack'[i].res]
                      /\ stack'[i].pc \in {"wake", "dependants"} =>
                           \A q \in stack'[i].todo : stack'[i].res \in Deps[q]
    BY <1>2 DEF TodoAreDeps
  <2>1. CASE i \in 1 .. t - 1
    <3>1. stack'[i] = stack[i] /\ i \in 1 .. Depth
      BY <1>1, <1>2, <2>1
    <3> QED
      BY <3>1 DEF Loader, TodoAreDeps
  <2>2. CASE i = t
    BY <1>2, <2>2
  <2>3. CASE n = 1 /\ i = t + 1
    BY <1>2, <2>3
  <2> QED
    BY <1>3, <2>1, <2>2, <2>3
<1>5. ResultIsDep'
  <2>1. Top' = stack'[Depth']
    BY DEF Top, Last, Depth
  <2> QED
    BY <1>1, <1>2, <2>1 DEF ResultIsDep
<1>6. Follows'
  <2> PICK m : m = t + n
    OBVIOUS
  <2> SUFFICES ASSUME NEW i \in 1 .. m - 1 PROVE Because(stack'[i], stack'[i + 1])
    BY <1>2 DEF Follows
  <2>1. CASE i = t
    <3>1. n = 1 /\ i = Depth
      BY <1>1, <2>1
    <3> QED
      BY <3>1
  <2>2. CASE i # t
    <3>1. i \in 1 .. t - 1 /\ i \in 1 .. Depth - 1 /\ stack'[i] = stack[i]
      BY <1>1, <1>2, <2>2
    <3>2. Because(stack[i], stack[i + 1])
      BY <3>1 DEF Loader, Follows
    <3>3. stack'[i + 1].op = stack[i + 1].op /\ stack'[i + 1].res = stack[i + 1].res
      <4>1. i + 1 = t \/ i + 1 \in 1 .. t - 1
        BY <1>1, <3>1
      <4> QED
        BY <1>1, <1>2, <4>1
    <3> QED
      BY <3>1, <3>2, <3>3 DEF Because
  <2> QED
    BY <2>1, <2>2
<1> QED
  BY <1>4, <1>5, <1>6 DEF Loader

\* The same when the innermost call ends: the loader gets the result of the
\* dependency it has called.
LEMMA ReturnLoader ==
  ASSUME Inv, Loader, stack # <<>>, NEW ok, Return(ok), PairsAreDeps'
  PROVE  Loader'
<1> PICK t : t = Depth
  OBVIOUS
<1>1. t \in Nat /\ t # 0 /\ Top = stack[t]
  BY TopFacts DEF Inv
<1>2. /\ Depth' = t - 1 /\ stack' \in Seq(Frame)
      /\ \A i \in 1 .. t - 1 : stack'[i] = stack[i] /\ i \in 1 .. t
  BY <1>1, ReturnFacts DEF Inv, Return, KeepsOuter, Depth
<1>3. TodoAreDeps'
  BY <1>2 DEF Loader, TodoAreDeps
<1>4. Follows'
  <2> SUFFICES ASSUME NEW i \in 1 .. t - 2 PROVE Because(stack'[i], stack'[i + 1])
    <3>1. t - 1 - 1 = t - 2
      BY <1>1
    <3> QED
      BY <1>2, <3>1 DEF Follows
  <2>1. i \in 1 .. t - 1 /\ i + 1 \in 1 .. t - 1
    BY <1>1
  <2> QED
    BY <1>2, <2>1 DEF Loader, Follows
<1>5. ResultIsDep'
  <2> SUFFICES ASSUME stack' # <<>>, Top'.pc = "depWait" PROVE result'.res \in Deps[Top'.res]
    BY DEF ResultIsDep
  <2>1. t - 1 # 0
    BY <1>1, <1>2, EmptySeq DEF Depth
  <2>2. t - 1 \in 1 .. t - 1 /\ t - 1 + 1 = t /\ t > 1
    BY <1>1, <2>1
  <2>3. Top' = stack[t - 1]
    <3>1. Top' = stack'[Depth']
      BY DEF Top, Last, Depth
    <3> QED
      BY <1>2, <2>2, <3>1
  <2>4. result'.res = Top.res
    BY <2>2, <2>3 DEF Return, Depth
  <2>5. Because(stack[t - 1], stack[t])
    BY <2>2 DEF Loader, Follows
  <2> QED
    BY <1>1, <2>3, <2>4, <2>5 DEF Because
<1> QED
  BY <1>3, <1>4, <1>5 DEF Loader

\* Old and recent calls together: the bound on all of them.
AllBounded ==
  \A op \in {"start", "stop"}, r \in Resource :
    Cardinality(CallsOf(op, r, Depth)) <= (nested + 1) * Limit(op, r)

\* The recent calls are at most as many as the bound has for a call of a script.
LEMMA SharesBounded ==
  ASSUME Inv, NEW old, NEW loaded, Bounded(old, loaded)
  PROVE  AllBounded
<1> SUFFICES ASSUME NEW op \in {"start", "stop"}, NEW r \in Resource
             PROVE  Cardinality(CallsOf(op, r, Depth)) <= (nested + 1) * Limit(op, r)
  BY DEF AllBounded
<1> PICK t : t = Depth
  OBVIOUS
<1>1. /\ old \in 0 .. Depth /\ loaded \in SUBSET Recent(old) /\ OldBounded(old)
      /\ Shape(old, loaded) /\ StopsRise(old) /\ Counted(old, loaded)
  BY DEF Bounded
<1>2. /\ t \in Nat /\ old \in Nat /\ old <= t /\ Recent(old) = old + 1 .. t
      /\ \A i \in Recent(old) : i \in Nat /\ i > old /\ i <= t
  BY <1>1, RecentFacts DEF Recent
<1>3. /\ nested \in Nat /\ Limit(op, r) \in Nat
      /\ Needs[r] \in SUBSET Resource /\ IsFiniteSet(Needs[r]) /\ Cardinality(Needs[r]) \in Nat
      /\ r \notin Needs[r]
  BY NeedsFacts, ResourcesAssumption DEF Inv, TypeOK, Limit
<1> DEFINE R == {i \in Recent(old) : stack[i].op = op /\ stack[i].res = r}
<1>4. IsFiniteSet(R) /\ Cardinality(R) <= Limit(op, r)
  <2>1. CASE R = {}
    BY <1>3, <2>1, FS_EmptySet
  <2>2. CASE R # {}
    <3>1. R \in SUBSET (0 .. t)
      BY <1>2
    <3>2. PICK j \in R : \A k \in R : k <= j
      BY <1>2, <2>2, <3>1, Greatest
    <3>3. /\ j \in Recent(old) /\ stack[j].op = op /\ stack[j].res = r
          /\ \A i \in Recent(old) : stack[i].op = op
      BY <1>1, <3>2 DEF Shape
    <3>4. CASE op = "start"
      <4>1. R = SameIn(stack, old + 1, j)
        <5>1. \A i \in R : i \in old + 1 .. j /\ stack[i].res = stack[j].res
          BY <1>2, <3>2, <3>3
        <5>2. \A i \in old + 1 .. j : i \in Recent(old)
          BY <1>2, <3>3
        <5>3. \A i \in old + 1 .. j : stack[i].res = stack[j].res => i \in R
          BY <3>3, <5>2
        <5> HIDE DEF R
        <5> QED
          BY <3>2, <5>1, <5>3 DEF SameIn
      <4>2. Cardinality(R) = Count(old, j)
        BY <4>1 DEF Count
      <4>3. Count(old, j) <= 2 + Cardinality(Up(loaded, j))
        BY <1>1, <3>3, <3>4 DEF Counted, CountedAt
      <4>4. Cardinality(Up(loaded, j)) <= Cardinality(Needs[r]) /\ Cardinality(Up(loaded, j)) \in Nat
        <5>1. Up(loaded, j) \subseteq Needs[r]
          BY <3>3 DEF Up, Fitting
        <5> QED
          BY <1>3, <5>1, GrowFacts
      <4>5. Count(old, j) \in Nat
        BY <1>1, <3>3, FiniteFacts
      <4>6. IsFiniteSet(R)
        <5>1. IsFiniteSet(0 .. t)
          <6>1. 0 \in Int /\ t \in Int
            BY <1>2
          <6> QED
            BY <6>1, FS_Interval
        <5> QED
          BY <3>1, <5>1, FS_Subset
      <4> HIDE DEF R
      <4> QED
        BY <1>3, <3>4, <4>2, <4>3, <4>4, <4>5, <4>6 DEF Limit
    <3>5. CASE op = "stop"
      <4>1. R = {j}
        <5> SUFFICES ASSUME NEW i \in R, i # j PROVE FALSE
          BY <3>2
        <5>1. i < j
          BY <1>2, <3>2
        <5> QED
          BY <1>1, <1>3, <3>3, <3>5, <5>1 DEF StopsRise
      <4>2. IsFiniteSet({j}) /\ Cardinality({j}) = 1
        BY FS_Singleton
      <4>3. Limit(op, r) = 1
        BY <3>5 DEF Limit
      <4> HIDE DEF R
      <4> QED
        BY <4>1, <4>2, <4>3
    <3> QED
      BY <3>4, <3>5
  <2> QED
    BY <2>1, <2>2
<1> DEFINE O == CallsOf(op, r, old)
<1>5. IsFiniteSet(O)
  <2>1. IsFiniteSet(1 .. old) /\ O \in SUBSET (1 .. old)
    BY <1>2, FS_Interval DEF CallsOf
  <2> QED
    BY <2>1, FS_Subset
<1>6. CallsOf(op, r, Depth) = O \cup R
  <2>1. (1 .. t) = (1 .. old) \cup (old + 1 .. t)
    BY <1>2
  <2> QED
    BY <1>2, <2>1 DEF CallsOf
<1>7. Cardinality(O) <= nested * Limit(op, r)
  BY <1>1 DEF OldBounded
<1> HIDE DEF R, O
<1>8. Cardinality(O \cup R) <= Cardinality(O) + Cardinality(R) /\ Cardinality(O \cup R) \in Nat
  <2>1. /\ IsFiniteSet(O \cup R)
        /\ Cardinality(O \cup R) = Cardinality(O) + Cardinality(R) - Cardinality(O \cap R)
    BY <1>4, <1>5, FS_Union
  <2>2. IsFiniteSet(O \cap R)
    BY <1>4, <1>5, FS_Intersection
  <2>3. Cardinality(O) \in Nat /\ Cardinality(R) \in Nat /\ Cardinality(O \cap R) \in Nat
        /\ Cardinality(O \cup R) \in Nat
    BY <1>4, <1>5, <2>1, <2>2, FS_CardinalityType
  <2> QED
    BY <2>1, <2>3
<1>9. (nested + 1) * Limit(op, r) = nested * Limit(op, r) + Limit(op, r) /\ nested * Limit(op, r) \in Nat
  <2>1. \A a, b \in Nat : (a + 1) * b = a * b + b /\ a * b \in Nat
    OBVIOUS
  <2> QED
    BY <1>3, <2>1
<1>10. Cardinality(O) \in Nat /\ Cardinality(R) \in Nat
  BY <1>4, <1>5, FS_CardinalityType
<1> QED
  BY <1>3, <1>4, <1>6, <1>7, <1>8, <1>9, <1>10

\* A step that makes no call and ends none.
LEMMA GotoDepth ==
  ASSUME DepthInv, Inv', stack # <<>>, NEW pc, NEW todo \in SUBSET Resource, stack' = Goto(pc, todo),
         \/ Top.op = "start" /\ pc \in StartSteps
         \/ Top.op = "stop" /\ pc \in StopSteps,
         MayGo(pc), pc # "depWait", PairsAreDeps',
         pc = "deps" => todo \subseteq Deps[Top.res],
         pc \in {"wake", "dependants"} => \A q \in todo : Top.res \in Deps[q],
         UNCHANGED <<state, misfits, nested>>
  PROVE  DepthInv'
<1>1. PICK old, loaded : Bounded(old, loaded)
  BY DEF DepthInv
<1>2. Inv /\ Loader /\ Follows
  BY DEF DepthInv, Loader
<1>3. GoesOn(pc, todo, 0)
  BY <1>2, GoOnFacts DEF Inv
<1>4. Loader'
  BY <1>2, <1>3, GoesOnLoader
<1>5. CASE old = Depth
  BY <1>1, <1>2, <1>3, <1>4, <1>5, OldTopBounded DEF DepthInv
<1>6. CASE old # Depth
  <2>1. Bounded(old, loaded)'
    BY <1>1, <1>2, <1>3, <1>6, GotoBounded
  <2> QED
    BY <1>4, <2>1 DEF DepthInv
<1> QED
  BY <1>5, <1>6

\* A step that makes a call.
LEMMA CallDepth ==
  ASSUME DepthInv, Inv', stack # <<>>, NEW pc, NEW todo \in SUBSET Resource, NEW q \in Resource,
         stack' = Append(Goto(pc, todo), Call(Top.op, q)),
         \/ Top.op = "start" /\ pc \in StartSteps /\ Top.pc # "enter" /\ StartsBecause(pc, q)
         \/ Top.op = "stop" /\ pc = "dependants" /\ Top.res \in Deps[q],
         PairsAreDeps',
         pc = "depWait" => todo \subseteq Deps[Top.res],
         pc \in {"wake", "dependants"} => \A r \in todo : Top.res \in Deps[r],
         UNCHANGED <<state, misfits, nested>>
  PROVE  DepthInv'
<1>1. PICK old, loaded : Bounded(old, loaded)
  BY DEF DepthInv
<1>2. Inv /\ Loader /\ Follows
  BY DEF DepthInv, Loader
<1>3. pc # "deps" /\ Top.op \in {"start", "stop"} /\ (Top.op = "stop" => pc \in StopSteps)
  BY DEF StartsBecause, StopSteps
<1>4. GoesOn(pc, todo, 1) /\ stack'[Depth + 1] = Call(Top.op, q)
  BY <1>2, <1>3, GoOnFacts DEF Inv
<1>5. Because(stack'[Depth], stack'[Depth + 1])
  <2>1. /\ stack'[Depth].pc = pc /\ stack'[Depth].res = Top.res
        /\ stack'[Depth + 1].op = Top.op /\ stack'[Depth + 1].res = q
    <3>1. stack'[Depth].pc = pc /\ stack'[Depth].res = Top.res
      BY <1>4 DEF GoesOn
    <3>2. \A op, r : Call(op, r).op = op /\ Call(op, r).res = r
      BY DEF Call
    <3> QED
      BY <1>4, <3>1, <3>2
  <2>2. CASE Top.op = "start" /\ StartsBecause(pc, q)
    BY <2>1, <2>2 DEF StartsBecause, Because
  <2>3. CASE Top.op = "stop" /\ pc = "dependants" /\ Top.res \in Deps[q]
    BY <2>1, <2>3 DEF Because
  <2> QED
    BY <2>2, <2>3
<1>6. Loader'
  BY <1>2, <1>3, <1>4, <1>5, GoesOnLoader
<1>7. CASE old = Depth
  BY <1>1, <1>2, <1>4, <1>6, <1>7, OldTopBounded DEF DepthInv
<1>8. CASE old # Depth
  <2>1. CASE Top.op = "start" /\ Top.pc # "enter" /\ StartsBecause(pc, q)
    <3>1. Bounded(old, loaded)'
      BY <1>1, <1>2, <1>4, <1>8, <2>1, CallBounded
    <3> QED
      BY <1>6, <3>1 DEF DepthInv
  <2>2. CASE Top.op = "stop" /\ pc = "dependants" /\ Top.res \in Deps[q]
    <3>1. Bounded(old, {})'
      BY <1>1, <1>2, <1>4, <1>8, <2>2, StopCallBounded
    <3> QED
      BY <1>6, <3>1 DEF DepthInv
  <2> QED
    BY <2>1, <2>2
<1> QED
  BY <1>7, <1>8

\* A step that ends the innermost call.
LEMMA ReturnDepth ==
  ASSUME DepthInv, Inv', stack # <<>>, NEW ok, Return(ok), PairsAreDeps',
         Top.op = "stop" \/ (Top.op = "start" /\ StartEnds), misfits' = misfits
  PROVE  DepthInv'
<1>1. PICK old, loaded : Bounded(old, loaded)
  BY DEF DepthInv
<1>2. Inv /\ Loader /\ Follows
  BY DEF DepthInv, Loader
<1>3. stack' = Front(stack) /\ nested' = nested
  BY DEF Return
<1>4. Loader'
  BY <1>2, ReturnLoader
<1>5. CASE old = Depth
  BY <1>1, <1>2, <1>3, <1>4, <1>5, OldTopBounded DEF DepthInv
<1>6. CASE old # Depth
  <2>1. CASE Top.op = "start" /\ StartEnds
    <3>1. \E l : Bounded(old, l)'
      BY <1>1, <1>2, <1>3, <1>6, <2>1, EndBounded
    <3> QED
      BY <1>4, <3>1 DEF DepthInv
  <2>2. CASE Top.op = "stop"
    <3>1. Bounded(old, {})'
      BY <1>1, <1>2, <1>3, <1>6, <2>2, StopEndBounded
    <3> QED
      BY <1>4, <3>1 DEF DepthInv
  <2> QED
    BY <2>1, <2>2
<1> QED
  BY <1>5, <1>6

\* What is known of the innermost call in the steps below.
LEMMA TopLoader ==
  ASSUME DepthInv, stack # <<>>
  PROVE  /\ TypeOK /\ Top.res \in Resource /\ Top.todo \in SUBSET Resource
         /\ Deps[Top.res] \in SUBSET Resource
         /\ Top.pc \in {"deps", "depWait"} => Top.todo \subseteq Deps[Top.res]
         /\ Top.pc \in {"wake", "dependants"} => \A q \in Top.todo : Top.res \in Deps[q]
         /\ \A w \in waiting \cup dependants : w[1] \in Deps[w[2]]
<1>1. TypeOK /\ TodoAreDeps /\ PairsAreDeps
  BY DEF DepthInv, Inv, Loader
<1>2. Depth \in 1 .. Depth /\ Top = stack[Depth] /\ Top.res \in Resource /\ Top.todo \in SUBSET Resource
  BY <1>1, TopFacts
<1> QED
  BY <1>1, <1>2, ResourcesAssumption DEF TodoAreDeps, PairsAreDeps

\* The steps of a start that make no call and end none.
LEMMA StartGoesDepth ==
  ASSUME DepthInv, Inv',
         OnResourceStarting \/ DepReturned \/ DepsLoaded \/ OnStart \/ OnResourceStart
  PROVE  DepthInv'
<1>1. /\ stack # <<>> /\ Top.op = "start" /\ UNCHANGED <<state, misfits, nested>>
      /\ dependants' = dependants
  BY DEF OnResourceStarting, DepReturned, DepsLoaded, OnStart, OnResourceStart, At, GoOn,
         resourceVars, loaderVars, inputVars
<1>2. /\ TypeOK /\ Top.res \in Resource /\ Top.todo \in SUBSET Resource
      /\ Deps[Top.res] \in SUBSET Resource
      /\ Top.pc \in {"deps", "depWait"} => Top.todo \subseteq Deps[Top.res]
      /\ \A w \in waiting \cup dependants : w[1] \in Deps[w[2]]
  BY <1>1, TopLoader
<1>3. waiting' = waiting => PairsAreDeps'
  BY <1>1, <1>2 DEF PairsAreDeps
<1>4. ASSUME NEW pc \in StartSteps, NEW todo \in SUBSET Resource, stack' = Goto(pc, todo),
             pc \notin {"enter", "depWait"}, Top.pc \notin {"enter", "wake"}, PairsAreDeps',
             \/ Top.pc \in Loading
             \/ /\ pc \in {"onStart", "startEvent", "wake", "refused"}
                /\ pc = "refused" => Top.res \in misfits,
             pc = "deps" => todo \subseteq Deps[Top.res],
             pc = "wake" => \A q \in todo : Top.res \in Deps[q]
      PROVE  DepthInv'
  <2>1. MayGo(pc)
    BY <1>4 DEF MayGo
  <2>2. pc # "dependants"
    BY DEF StartSteps
  <2> QED
    BY <1>1, <1>4, <2>1, <2>2, GotoDepth
<1>5. CASE OnResourceStarting
  <2>1. Top.pc = "starting" /\ waiting' = waiting
    BY <1>5 DEF OnResourceStarting, At, loaderVars
  <2>2. stack' = Goto("deps", Deps[Top.res]) \/ stack' = Goto("refused", {})
    BY <1>5 DEF OnResourceStarting, GoOn
  <2>3. {} \subseteq Resource
    OBVIOUS
  <2> QED
    BY <1>2, <1>3, <1>4, <2>1, <2>2, <2>3 DEF StartSteps, Loading
<1>6. CASE DepReturned
  <2>1. Top.pc = "depWait"
    BY <1>6 DEF DepReturned, At
  <2>2. result.res \in Deps[Top.res]
    BY <1>1, <2>1 DEF DepthInv, Loader, ResultIsDep
  <2>3. PairsAreDeps'
    <3>1. CASE waiting' = waiting
      BY <1>3, <3>1
    <3>2. CASE waiting' = waiting \cup {<<result.res, Top.res>>}
      BY <1>1, <1>2, <2>2, <3>2 DEF PairsAreDeps
    <3> QED
      BY <1>6, <3>1, <3>2 DEF DepReturned
  <2>4. stack' = Goto("deps", Top.todo) \/ stack' = Goto("refused", {})
    BY <1>6 DEF DepReturned
  <2>5. {} \subseteq Resource
    OBVIOUS
  <2> QED
    BY <1>2, <1>4, <2>1, <2>3, <2>4, <2>5 DEF StartSteps, Loading
<1>7. CASE DepsLoaded
  <2>1. Top.pc = "deps" /\ waiting' = waiting
    BY <1>7 DEF DepsLoaded, At, loaderVars
  <2>2. stack' = Goto("build", {}) \/ stack' = Goto("refused", {})
    BY <1>7 DEF DepsLoaded, GoOn
  <2>3. {} \subseteq Resource
    OBVIOUS
  <2> QED
    BY <1>2, <1>3, <1>4, <2>1, <2>2, <2>3 DEF StartSteps, Loading
<1>8. CASE OnStart
  <2>1. Top.pc = "onStart" /\ waiting' = waiting
    BY <1>8 DEF OnStart, At, loaderVars
  <2>2. \/ stack' = Goto("refused", {}) /\ Top.res \in misfits
        \/ stack' = Goto("startEvent", {})
    BY <1>8 DEF OnStart, GoOn
  <2>3. {} \subseteq Resource
    OBVIOUS
  <2> QED
    BY <1>2, <1>3, <1>4, <2>1, <2>2, <2>3 DEF StartSteps
<1>9. CASE OnResourceStart
  <2> DEFINE W == {r \in Resource : <<Top.res, r>> \in waiting}
  <2>1. Top.pc = "startEvent" /\ waiting' = waiting
    BY <1>9 DEF OnResourceStart, At, loaderVars
  <2>2. stack' = Goto("wake", W)
    BY <1>9 DEF OnResourceStart, GoOn
  <2>3. W \subseteq Resource /\ \A q \in W : Top.res \in Deps[q]
    BY <1>2
  <2> HIDE DEF W
  <2> QED
    BY <1>2, <1>3, <1>4, <2>1, <2>2, <2>3 DEF StartSteps
<1> QED
  BY <1>5, <1>6, <1>7, <1>8, <1>9

\* The steps of a start that make a start.
LEMMA StartCallsDepth ==
  ASSUME DepthInv, Inv', LoadDep \/ TriggerBuild \/ Wake
  PROVE  DepthInv'
<1>1. /\ stack # <<>> /\ Top.op = "start" /\ UNCHANGED <<state, misfits, nested, waiting>>
      /\ Top.pc # "enter"
  BY DEF LoadDep, TriggerBuild, Wake, At, GoOn, GoOnAfter, resourceVars, loaderVars, inputVars
<1>2. /\ TypeOK /\ Top.res \in Resource /\ Top.todo \in SUBSET Resource
      /\ Top.pc \in {"deps", "depWait"} => Top.todo \subseteq Deps[Top.res]
      /\ Top.pc \in {"wake", "dependants"} => \A q \in Top.todo : Top.res \in Deps[q]
      /\ \A w \in waiting \cup dependants : w[1] \in Deps[w[2]]
  BY <1>1, TopLoader
<1>3. dependants' = dependants => PairsAreDeps'
  BY <1>1, <1>2 DEF PairsAreDeps
<1>4. CASE LoadDep
  <2>1. Top.pc = "deps" /\ Top.todo \subseteq Deps[Top.res]
    BY <1>2, <1>4 DEF LoadDep, At
  <2>2. PICK d \in Top.todo :
          /\ dependants' = dependants \cup {<<d, Top.res>>}
          /\ IF state[d] \in {"Starting", "Started"}
             THEN GoOn("deps", Top.todo \ {d})
             ELSE GoOnAfter("depWait", Top.todo \ {d}, "start", d)
    BY <1>4 DEF LoadDep
  <2>3. PairsAreDeps'
    BY <1>1, <1>2, <2>1, <2>2 DEF PairsAreDeps
  <2>4. d \in Resource /\ d \in Deps[Top.res]
    BY <1>2, <2>1, <2>2
  <2> PICK todo : todo = Top.todo \ {d}
    OBVIOUS
  <2>5. todo \in SUBSET Resource /\ todo \subseteq Deps[Top.res]
    BY <1>2, <2>1
  <2>6. CASE stack' = Goto("deps", todo)
    <3>1. MayGo("deps")
      BY <2>1 DEF MayGo, Loading
    <3>2. "deps" \in StartSteps
      BY DEF StartSteps
    <3> QED
      BY <1>1, <2>3, <2>5, <2>6, <3>1, <3>2, GotoDepth
  <2>7. CASE /\ stack' = Append(Goto("depWait", todo), Call("start", d))
             /\ state[d] \notin {"Starting", "Started"}
    <3>1. StartsBecause("depWait", d)
      <4>1. state[d] = "Stopped"
        BY <1>2, <2>4, <2>7 DEF TypeOK, States
      <4> QED
        BY <2>1, <2>4, <4>1 DEF StartsBecause, Loading
    <3> PICK pc : pc = "depWait"
      OBVIOUS
    <3>2. pc \in StartSteps /\ pc \notin {"wake", "dependants"} /\ StartsBecause(pc, d)
      BY <3>1 DEF StartSteps
    <3>3. stack' = Append(Goto(pc, todo), Call(Top.op, d))
      BY <1>1, <2>7
    <3> QED
      BY <1>1, <2>3, <2>4, <2>5, <3>2, <3>3, CallDepth
  <2> QED
    BY <2>2, <2>6, <2>7 DEF GoOn, GoOnAfter
<1>5. CASE TriggerBuild
  <2>1. Top.pc = "build" /\ dependants' = dependants
    BY <1>5 DEF TriggerBuild, At, loaderVars
  <2>2. \/ stack' = Goto("onStart", {}) \/ stack' = Goto("refused", {})
        \/ stack' = Append(Goto("refused", {}), Call("start", Top.res))
    BY <1>5 DEF TriggerBuild, GoOn, GoOnAfter
  <2>3. {} \in SUBSET Resource /\ "onStart" \in StartSteps /\ "refused" \in StartSteps
    BY DEF StartSteps
  <2>4. ASSUME NEW pc \in {"onStart", "refused"}, stack' = Goto(pc, {}) PROVE DepthInv'
    <3>1. MayGo(pc)
      BY <2>1 DEF MayGo, Loading
    <3> QED
      BY <1>1, <1>3, <2>1, <2>3, <2>4, <3>1, GotoDepth
  <2>5. CASE stack' = Append(Goto("refused", {}), Call("start", Top.res))
    <3> PICK q : q = Top.res
      OBVIOUS
    <3>1. StartsBecause("refused", q) /\ q \in Resource
      BY <1>2, <2>1 DEF StartsBecause
    <3> QED
      BY <1>1, <1>3, <2>1, <2>3, <2>5, <3>1, CallDepth
  <2> QED
    BY <2>2, <2>4, <2>5
<1>6. CASE Wake
  <2>1. Top.pc = "wake" /\ dependants' = dependants
    BY <1>6 DEF Wake, At, loaderVars
  <2>2. PICK q \in Top.todo : stack' = Append(Goto("wake", Top.todo \ {q}), Call("start", q))
    BY <1>6 DEF Wake, GoOnAfter
  <2> PICK todo : todo = Top.todo \ {q}
    OBVIOUS
  <2>3. /\ todo \in SUBSET Resource /\ q \in Resource /\ \A r \in todo : Top.res \in Deps[r]
        /\ StartsBecause("wake", q) /\ "wake" \in StartSteps
    BY <1>2, <2>1, <2>2 DEF StartsBecause, StartSteps
  <2> QED
    BY <1>1, <1>3, <2>1, <2>2, <2>3, CallDepth
<1> QED
  BY <1>4, <1>5, <1>6

\* Start looks at the state of its resource.
LEMMA EnterStartDepth == ASSUME DepthInv, Inv', EnterStart PROVE DepthInv'
<1>1. /\ stack # <<>> /\ Top.op = "start" /\ Top.pc = "enter"
      /\ UNCHANGED <<misfits, nested, waiting, dependants>>
  BY DEF EnterStart, At, Return, GoOn, loaderVars, inputVars
<1>2. /\ TypeOK /\ Top.res \in Resource
      /\ \A w \in waiting \cup dependants : w[1] \in Deps[w[2]]
  BY <1>1, TopLoader
<1>3. PairsAreDeps'
  BY <1>1, <1>2 DEF PairsAreDeps
<1>4. {} \in SUBSET Resource /\ "onStart" \in StartSteps /\ "starting" \in StartSteps
  BY DEF StartSteps
<1>5. CASE state[Top.res] = "Started" /\ Return(TRUE) /\ UNCHANGED state
  <2>1. StartEnds
    BY <1>1, <1>5 DEF StartEnds
  <2> QED
    BY <1>1, <1>3, <1>5, <2>1, ReturnDepth
<1>6. CASE state[Top.res] = "Starting" /\ GoOn("onStart", {}) /\ UNCHANGED state
  <2>1. MayGo("onStart")
    BY <1>1, <1>6 DEF MayGo
  <2> QED
    BY <1>1, <1>3, <1>4, <1>6, <2>1, GotoDepth DEF GoOn
<1>7. CASE /\ state[Top.res] = "Stopped" /\ GoOn("starting", {})
           /\ state' = [state EXCEPT ![Top.res] = "Starting"]
  <2>1. PICK old, loaded : Bounded(old, loaded)
    BY DEF DepthInv
  <2>2. Inv /\ Loader /\ Follows
    BY DEF DepthInv, Loader
  <2>3. GoesOn("starting", {}, 0)
    BY <1>1, <1>2, <1>4, <1>7, GoOnFacts DEF GoOn
  <2>4. Loader'
    BY <1>1, <1>3, <2>2, <2>3, GoesOnLoader
  <2>5. CASE old = Depth
    BY <1>1, <2>1, <2>2, <2>3, <2>4, <2>5, OldTopBounded DEF DepthInv
  <2>6. CASE old # Depth
    <3>1. \E l : Bounded(old, l)'
      BY <1>1, <1>7, <2>1, <2>2, <2>3, <2>6, LoadBounded
    <3> QED
      BY <2>4, <3>1 DEF DepthInv
  <2> QED
    BY <2>5, <2>6
<1> QED
  BY <1>5, <1>6, <1>7 DEF EnterStart

\* A start is refused, or has woken all that waited.
LEMMA StartEndsDepth == ASSUME DepthInv, Inv', Refused \/ Woken PROVE DepthInv'
<1>1. /\ stack # <<>> /\ Top.op = "start" /\ misfits' = misfits /\ StartEnds
      /\ Return(TRUE) \/ Return(FALSE)
      /\ dependants' = dependants /\ waiting' \subseteq waiting
  BY DEF Refused, Woken, At, StartEnds, loaderVars, inputVars
<1>2. \A w \in waiting \cup dependants : w[1] \in Deps[w[2]]
  BY <1>1, TopLoader
<1>3. PairsAreDeps'
  BY <1>1, <1>2 DEF PairsAreDeps
<1> QED
  BY <1>1, <1>3, ReturnDepth

\* The steps of a stop.
LEMMA StopDepth ==
  ASSUME DepthInv, Inv', EnterStop \/ StopDependant \/ DependantsStopped \/ Stopped
  PROVE  DepthInv'
<1>1. /\ stack # <<>> /\ Top.op = "stop" /\ misfits' = misfits /\ waiting' = waiting
      /\ dependants' \subseteq dependants
  BY DEF EnterStop, StopDependant, DependantsStopped, Stopped, At, loaderVars, inputVars
<1>2. /\ TypeOK /\ Top.res \in Resource /\ Top.todo \in SUBSET Resource
      /\ Top.pc \in {"wake", "dependants"} => \A q \in Top.todo : Top.res \in Deps[q]
      /\ \A w \in waiting \cup dependants : w[1] \in Deps[w[2]]
  BY <1>1, TopLoader
<1>3. PairsAreDeps'
  BY <1>1, <1>2 DEF PairsAreDeps
<1>4. CASE Return(TRUE)
  BY <1>1, <1>3, <1>4, ReturnDepth
<1>5. \A pc : pc # "enter" => MayGo(pc)
  BY <1>1 DEF MayGo
<1>6. CASE EnterStop /\ ~Return(TRUE)
  <2> DEFINE D == {r \in Resource \ {Top.res} : <<Top.res, r>> \in dependants}
  <2>1. stack' = Goto("dependants", D) /\ UNCHANGED <<state, nested>>
    BY <1>6 DEF EnterStop, GoOn, resourceVars
  <2>2. D \in SUBSET Resource /\ (\A q \in D : Top.res \in Deps[q]) /\ "dependants" \in StopSteps
    BY <1>2 DEF StopSteps
  <2> HIDE DEF D
  <2> QED
    BY <1>1, <1>3, <1>5, <2>1, <2>2, GotoDepth
<1>7. CASE StopDependant
  <2>1. Top.pc = "dependants"
    BY <1>7 DEF StopDependant, At
  <2>2. PICK q \in Top.todo : GoOnAfter("dependants", Top.todo \ {q}, "stop", q)
    BY <1>7 DEF StopDependant
  <2> PICK todo : todo = Top.todo \ {q}
    OBVIOUS
  <2>3. /\ stack' = Append(Goto("dependants", todo), Call("stop", q)) /\ UNCHANGED <<state, nested>>
        /\ todo \in SUBSET Resource /\ q \in Resource /\ Top.res \in Deps[q]
        /\ \A r \in todo : Top.res \in Deps[r]
    BY <1>2, <1>7, <2>1, <2>2 DEF StopDependant, GoOnAfter, resourceVars
  <2> QED
    BY <1>1, <1>3, <2>3, CallDepth
<1>8. CASE DependantsStopped
  <2>1. stack' = Goto("stopEvent", {}) /\ UNCHANGED <<state, nested>>
    BY <1>8 DEF DependantsStopped, GoOn, resourceVars
  <2>2. {} \in SUBSET Resource /\ "stopEvent" \in StopSteps
    BY DEF StopSteps
  <2> QED
    BY <1>1, <1>3, <1>5, <2>1, <2>2, GotoDepth
<1> QED
  BY <1>4, <1>6, <1>7, <1>8 DEF Stopped

\* A script makes a call: all the calls in progress are old from now on.
LEMMA ScriptDepth ==
  ASSUME DepthInv, Inv',
         \/ ScriptCalls("start", "starting") \/ ScriptCalls("start", "startEvent")
         \/ ScriptCalls("stop", "stopEvent")
  PROVE  DepthInv'
<1>1. /\ stack # <<>> /\ nested' = nested + 1 /\ UNCHANGED <<waiting, dependants>>
      /\ \E op \in {"start", "stop"}, r \in Resource : stack' = Append(stack, Call(op, r))
      /\ Top.pc \in {"starting", "startEvent", "stopEvent"}
  BY DEF ScriptCalls, At, loaderVars
<1>2. Inv /\ Loader /\ TypeOK
  BY DEF DepthInv, Inv
<1>3. PICK op \in {"start", "stop"}, r \in Resource : stack' = Append(stack, Call(op, r))
  BY <1>1
<1> PICK t : t = Depth
  OBVIOUS
<1>4. /\ t \in Nat /\ t # 0 /\ Top = stack[t]
  BY <1>1, <1>2, TopFacts
<1>5. GoesOn(Top.pc, Top.todo, 1) /\ stack'[Depth + 1] = Call(op, r)
  BY <1>1, <1>2, <1>3, ScriptGoesOn
<1>6. /\ Depth' = t + 1 /\ stack'[t + 1].pc = "enter"
      /\ \A i \in 1 .. t : stack'[i].op = stack[i].op /\ stack'[i].res = stack[i].res
      /\ stack'[t].pc = Top.pc /\ stack' \in Seq(Frame)
  <2>1. /\ Depth' = t + 1 /\ (\A i \in 1 .. t - 1 : stack'[i] = stack[i])
        /\ stack'[t].op = Top.op /\ stack'[t].res = Top.res /\ stack'[t].pc = Top.pc
        /\ stack' \in Seq(Frame)
    BY <1>5 DEF GoesOn, KeepsOuter, Depth
  <2>2. stack'[t + 1].pc = "enter"
    BY <1>5 DEF Call
  <2>3. \A i \in 1 .. t : i = t \/ i \in 1 .. t - 1
    BY <1>4
  <2> QED
    BY <1>4, <2>1, <2>2, <2>3
<1>7. Loader'
  <2>1. PairsAreDeps'
    BY <1>1, <1>2 DEF Loader, PairsAreDeps
  <2>2. Because(stack'[Depth], stack'[Depth + 1])
    BY <1>1, <1>6 DEF Because
  <2> PICK pc, todo : pc = Top.pc /\ todo = Top.todo
    OBVIOUS
  <2>3. GoesOn(pc, todo, 1) /\ pc \in {"starting", "startEvent", "stopEvent"}
    BY <1>1, <1>5
  <2> QED
    BY <1>1, <1>2, <2>1, <2>2, <2>3, GoesOnLoader
<1>8. OldBounded(t)'
  <2>1. AllBounded
    BY <1>2, SharesBounded DEF DepthInv
  <2>2. ASSUME NEW o \in {"start", "stop"}, NEW q \in Resource
        PROVE  Cardinality(CallsOf(o, q, t)') <= nested' * Limit(o, q)
    <3>1. CallsOf(o, q, t)' = CallsOf(o, q, t)
      BY <1>6 DEF CallsOf
    <3> QED
      BY <1>1, <2>1, <3>1 DEF AllBounded
  <2> QED
    BY <2>2 DEF OldBounded, Limit
<1>9. stack' # <<>> /\ stack'[Depth'].pc = "enter"
  BY <1>4, <1>6, EmptySeq DEF Depth
<1>10. Bounded(t, {})'
  BY <1>4, <1>6, <1>8, <1>9, StationaryNext DEF OnlyFirst
<1> QED
  BY <1>7, <1>10 DEF DepthInv

\* With no call in progress there is nothing to count.
LEMMA EmptyDepth == ASSUME Inv, PairsAreDeps, stack = <<>> PROVE DepthInv
<1>1. Depth = 0
  BY EmptySeq DEF Depth
<1>2. Loader
  BY <1>1 DEF Loader, TodoAreDeps, ResultIsDep, Follows
<1>3. OldBounded(0) /\ StopsRise(0) /\ Recent(0) = {} /\ 0 \in 0 .. Depth
  <2>1. ASSUME NEW op \in {"start", "stop"}, NEW r \in Resource
        PROVE  Cardinality(CallsOf(op, r, 0)) <= nested * Limit(op, r)
    <3>1. CallsOf(op, r, 0) = {}
      BY DEF CallsOf
    <3>2. nested * Limit(op, r) \in Nat
      <4>1. nested \in Nat /\ Limit(op, r) \in Nat
        BY NeedsFacts, ResourcesAssumption DEF Inv, TypeOK, Limit
      <4> QED
        BY <4>1
    <3> QED
      BY <3>1, <3>2, FS_EmptySet
  <2> QED
    BY <1>1, <2>1 DEF OldBounded, StopsRise, Recent
<1>4. Bounded(0, {})
  BY <1>3, Stationary DEF OnlyStops
<1> QED
  BY <1>2, <1>4 DEF DepthInv

\* The same as a formula.
EmptyHolds == Inv /\ PairsAreDeps /\ stack = <<>> => DepthInv

\* It holds after a step.
LEMMA EmptyNext == EmptyHolds'
<1>1. EmptyHolds
  BY EmptyDepth DEF EmptyHolds
<1> QED
  BY <1>1, PTL

\* With no call in progress: commands, ends of builds, and reading the manifests again.
LEMMA QuietDepth == ASSUME DepthInv, Inv', Command \/ BuildEnds \/ Refresh PROVE DepthInv'
<1>1. /\ stack = <<>> /\ UNCHANGED <<dependants, waiting, nested>>
      /\ stack' = <<>> \/ \E op \in {"start", "stop"}, r \in Resource : stack' = <<Call(op, r)>>
  BY DEF Command, BuildEnds, Refresh, loaderVars, callVars, DepthInv, Inv, TypeOK
<1>2. Inv /\ PairsAreDeps
  BY DEF DepthInv, Loader
<1>3. PairsAreDeps'
  BY <1>1, <1>2 DEF PairsAreDeps
<1>4. CASE stack' = <<>>
  BY <1>3, <1>4, EmptyNext DEF EmptyHolds
<1>5. ASSUME NEW op \in {"start", "stop"}, NEW r \in Resource, stack' = <<Call(op, r)>>
      PROVE  DepthInv'
  <2>1. Depth' = 1 /\ stack'[1].pc = "enter" /\ stack' # <<>> /\ Top' = stack'[1]
    BY <1>5 DEF Depth, Call, Top, Last
  <2>2. Loader'
    BY <1>3, <2>1 DEF Loader, TodoAreDeps, ResultIsDep, Follows
  <2>3. OldBounded(0)'
    <3>1. ASSUME NEW o \in {"start", "stop"}, NEW q \in Resource
          PROVE  Cardinality(CallsOf(o, q, 0)') <= nested' * Limit(o, q)
      <4>1. CallsOf(o, q, 0)' = {}
        BY DEF CallsOf
      <4>2. nested' * Limit(o, q) \in Nat
        <5>1. nested' \in Nat /\ Limit(o, q) \in Nat
          BY <1>1, <1>2, NeedsFacts, ResourcesAssumption DEF Inv, TypeOK, Limit
        <5> QED
          BY <5>1
      <4> QED
        BY <4>1, <4>2, FS_EmptySet
    <3> QED
      BY <3>1 DEF OldBounded, Limit
  <2>4. Bounded(0, {})'
    BY <2>1, <2>3, StationaryNext DEF OnlyFirst
  <2> QED
    BY <2>2, <2>4 DEF DepthInv
<1> QED
  BY <1>1, <1>4, <1>5

\* The part of the invariant that is about the depth is kept by every step.
LEMMA StepDepth == DepthInv /\ [Next]_vars => DepthInv'
<1> SUFFICES ASSUME DepthInv, [Next]_vars PROVE DepthInv'
  OBVIOUS
<1>1. Inv'
  BY StepInv DEF DepthInv
<1>2. CASE Next
  BY <1>1, <1>2, EnterStartDepth, StartGoesDepth, StartCallsDepth, StartEndsDepth, StopDepth,
     ScriptDepth, QuietDepth DEF Next
<1>3. CASE UNCHANGED vars
  <2>1. UNCHANGED <<state, dependants, waiting, misfits, stack, result, nested>>
    BY <1>3 DEF vars, resourceVars, loaderVars, inputVars, callVars
  <2>2. Depth' = Depth /\ Top' = Top
    BY <2>1 DEF Depth, Top
  <2>3. Loader'
    BY <2>1, <2>2 DEF DepthInv, Loader, PairsAreDeps, TodoAreDeps, ResultIsDep, Follows
  <2>4. PICK old, loaded : Bounded(old, loaded)
    BY DEF DepthInv
  <2>5. Bounded(old, loaded)'
    BY <2>1, <2>2, <2>4
      DEF Bounded, OldBounded, Shape, StopsRise, LoadedOnce, Counted, CountedAt, LoadedAgain,
          MayLoadAgain, Recent, Loads, Running, Count, SameIn, Up, Done, Fitting, IsStarted,
          CallsOf, Limit, Settled, Reloads, Undone
  <2> QED
    BY <1>1, <2>3, <2>5 DEF DepthInv
<1> QED
  BY <1>2, <1>3

\* The nesting of starts and stops is bounded: a resource is in one call of Stop at most
\* and in no more calls of Start than two and one for each resource it needs, and as
\* many again for each call made by a script.
THEOREM NestingBounded == Spec => []NoRunaway
<1>1. Init => DepthInv
  <2> SUFFICES ASSUME Init PROVE DepthInv
    OBVIOUS
  <2>1. Inv /\ PairsAreDeps /\ stack = <<>>
    BY InitInv DEF Init, PairsAreDeps
  <2> QED
    BY <2>1, EmptyDepth
<1>2. DepthInv => NoRunaway
  <2> SUFFICES ASSUME DepthInv PROVE NoRunaway
    OBVIOUS
  <2>1. AllBounded
    BY SharesBounded DEF DepthInv
  <2> QED
    BY <2>1 DEF AllBounded, NoRunaway, CallsOf, Limit, Depth
<1> QED
  BY <1>1, <1>2, StepDepth, PTL DEF Spec

=============================================================================
