-------------------------- MODULE ResourcesProofs --------------------------
(***************************************************************************)
(* Theorems about Resources, for every set of resources and every acyclic  *)
(* set of dependencies.                                                    *)
(*                                                                         *)
(* The properties speak of what is left when no call is in progress; the   *)
(* invariant says what each call on the stack still owes.  Its first part  *)
(* holds whatever scripts do, its second (Plain) while no script has made  *)
(* a call from inside an event: starts and stops then never mix on the     *)
(* stack, and a resource is started inside its own start only where Start  *)
(* skips the loader, which makes it a member of skipped.                   *)
(*                                                                         *)
(* Stack and list are sequences, and Without is recursive.  What it        *)
(* returns is proved by the least counterexample (lemma Least).            *)
(***************************************************************************)
EXTENDS Resources, SequenceTheorems, FiniteSetTheorems, WellFoundedInduction, TLAPS

\* How many calls are in progress.
Depth == Len(stack)

\* Call i of the stack is a start of r that has got past the first test of Start.
Running(i, r) ==
  /\ i \in 1 .. Depth
  /\ stack[i].op = "start" /\ stack[i].res = r /\ stack[i].pc # "enter"

\* The loader looks at a result only when there is one.
Ready ==
  stack # <<>> /\ Top.pc = "depWait" => result \in [res : Resource, ok : BOOLEAN]

\* OnStart and OnStop keep the list in step with the states.
Listed == ToSet(order) = {r \in Resource : IsStarted(r)}

\* A resource whose manifest does not fit gets no further than OnStart.
Unfit ==
  \A r \in misfits, i \in 1 .. Depth :
    Running(i, r) => state[r] # "Started" /\ stack[i].pc \notin {"startEvent", "wake"}

\* Starts make starts, and stops make stops.
OneKind == \A i, j \in 1 .. Depth : stack[i].op = stack[j].op

\* A resource whose start has begun is not stopped meanwhile, and a start of it
\* inside that one has skipped the loader.
Again ==
  \A r \in Resource \ misfits, i, j \in 1 .. Depth :
    Running(i, r) =>
      /\ state[r] # "Stopped"
      /\ i < j /\ Running(j, r) => stack[j].pc \in {"onStart", "startEvent", "wake"}

\* Without such a second start the resource is in one start and is starting.
Alone ==
  \A r \in Resource \ (misfits \cup skipped), i \in 1 .. Depth :
    Running(i, r) => /\ state[r] = "Starting"
                     /\ \A j \in 1 .. Depth : Running(j, r) => j = i

\* A resource that was not started twice is on the list once.
ListedOnce ==
  \A r \in Resource \ skipped : \A i, j \in 1 .. Len(order) :
    order[i] = r /\ order[j] = r => i = j

\* r is among the dependants of each resource of D.
Noted(r, D) == \A d \in D : <<d, r>> \in dependants

\* loadDeps notes r for every dependency it has passed, and for all of them
\* once it is done.
NotedSoFar ==
  \A i \in 1 .. Depth : stack[i].op = "start" =>
    /\ stack[i].pc \in {"deps", "depWait"} =>
         Noted(stack[i].res, Deps[stack[i].res] \ stack[i].todo)
    /\ /\ stack[i].pc \in {"build", "onStart", "startEvent", "wake"}
       /\ stack[i].res \notin misfits \cup skipped
       => Noted(stack[i].res, Deps[stack[i].res])

\* What StopReaches says, at every moment.
Reached == \A r \in Resource \ skipped : IsStarted(r) => Noted(r, Deps[r])

\* A stop forgets the dependants only when each of them is still to be stopped,
\* has stopped, or is being stopped by the next call.
StopsDependants ==
  \A i \in 1 .. Depth : stack[i].op = "stop" /\ stack[i].pc = "dependants" =>
    \A r \in Resource \ {stack[i].res} : <<stack[i].res, r>> \in dependants =>
      \/ r \in stack[i].todo
      \/ state[r] = "Stopped"
      \/ i < Depth /\ stack[i + 1].res = r

\* A dependency whose start returned false and that has started nevertheless
\* ended its build inside its own start.
FailedDep ==
  stack # <<>> /\ Top.pc = "depWait" /\ ~result.ok /\ IsStarted(result.res) =>
    result.res \in skipped

\* What WaitersWoken says, at every moment.
Woke == \A w \in waiting : IsStarted(w[1]) => w[1] \in skipped

\* The part that holds while no script has made a call from inside an event.
Plain ==
  nested = 0 =>
    /\ OneKind /\ Again /\ Alone /\ ListedOnce
    /\ NotedSoFar /\ Reached /\ StopsDependants
    /\ FailedDep /\ Woke

\* The inductive invariant.
Inv == TypeOK /\ Ready /\ StartingIsCalled /\ Listed /\ Unfit /\ Plain

-----------------------------------------------------------------------------
(* The list that clients are given. *)

\* A non-empty set of natural numbers has a least element.
LEMMA Least ==
  ASSUME NEW T \in SUBSET Nat, T # {}
  PROVE  \E m \in T : \A k \in T : m <= k
<1>1. \E m \in T : \A k \in T : ~(<<k, m>> \in OpToRel(<, Nat))
  BY WFMin, NatLessThanWellFounded
<1>2. PICK m \in T : \A k \in T : ~(<<k, m>> \in OpToRel(<, Nat))
  BY <1>1, Zenon
<1>3. ASSUME NEW k \in T PROVE m <= k
  <2>1. k \in Nat /\ m \in Nat
    OBVIOUS
  <2>2. ~(k < m)
    <3> SUFFICES ASSUME k < m PROVE FALSE
      OBVIOUS
    <3>1. <<k, m>> \in Nat \X Nat /\ <<k, m>>[1] < <<k, m>>[2]
      BY <2>1
    <3>2. <<k, m>> \in OpToRel(<, Nat)
      BY <3>1, Zenon DEF OpToRel
    <3> QED
      BY <1>2, <3>2, Zenon
  <2> QED
    BY <2>1, <2>2
<1> QED
  BY <1>3

\* The list built by Without obeys its recursion.
LEMMA WithoutDef ==
  ASSUME NEW S, NEW list \in Seq(S), NEW r
  PROVE  \E kept \in [0 .. Len(list) -> Seq(S)] :
           /\ Without(list, r) = kept[Len(list)]
           /\ kept[0] = <<>>
           /\ \A i \in 1 .. Len(list) :
                kept[i] = IF list[i] = r THEN kept[i - 1] ELSE Append(kept[i - 1], list[i])
<1> DEFINE N == Len(list)
           Step(f, i) == IF list[i] = r THEN f[i - 1] ELSE Append(f[i - 1], list[i])
           Upto(n) == {f \in [0 .. n -> Seq(S)] : f[0] = <<>> /\ \A i \in 1 .. n : f[i] = Step(f, i)}
           Bad == {n \in 0 .. N : Upto(n) = {}}
           Body(f) == [i \in 0 .. N |-> IF i = 0 THEN <<>> ELSE Step(f, i)]
<1>1. N \in Nat /\ \A i \in 1 .. N : list[i] \in S
  BY ElementOfSeq, LenProperties
<1>2. Bad = {}
  <2> SUFFICES ASSUME Bad # {} PROVE FALSE
    OBVIOUS
  <2>1. PICK n \in Bad : \A k \in Bad : n <= k
    <3>1. Bad \in SUBSET Nat
      BY <1>1
    <3> QED
      BY <3>1, Least
  <2>2. n # 0
    <3>1. [i \in 0 .. 0 |-> <<>>] \in Upto(0)
      BY EmptySeq
    <3> QED
      BY <3>1
  <2>3. n - 1 \in 0 .. N /\ n \in 1 .. N /\ n - 1 \notin Bad
    <3>1. n \in 0 .. N
      BY <2>1
    <3>2. n - 1 \in 0 .. N /\ n \in 1 .. N /\ ~(n <= n - 1)
      <4> HIDE DEF N, Bad
      <4> QED
        BY <1>1, <2>2, <3>1
    <3> HIDE DEF Bad
    <3> QED
      BY <2>1, <3>2
  <2>4. PICK f \in Upto(n - 1) : TRUE
    BY <2>3
  <2>5. f \in [0 .. n - 1 -> Seq(S)] /\ f[0] = <<>> /\ \A i \in 1 .. n - 1 : f[i] = Step(f, i)
    BY <2>4
  <2> DEFINE g == [i \in 0 .. n |-> IF i = n THEN Step(f, n) ELSE f[i]]
  <2>6. Step(f, n) \in Seq(S)
    BY <1>1, <2>3, <2>5, AppendProperties
  <2>7. g \in [0 .. n -> Seq(S)] /\ g[0] = <<>>
    <3>1. n \in Nat /\ n # 0 /\ \A i \in 0 .. n : i # n => i \in 0 .. n - 1
      <4> HIDE DEF N
      <4> QED
        BY <1>1, <2>3
    <3> HIDE DEF Step
    <3> QED
      BY <2>5, <2>6, <3>1
  <2>8. ASSUME NEW i \in 1 .. n PROVE g[i] = Step(g, i)
    <3>1. n \in Nat /\ i - 1 \in 0 .. n /\ i - 1 # n /\ i \in 0 .. n /\ (i # n => i \in 1 .. n - 1)
      <4> HIDE DEF N
      <4> QED
        BY <1>1, <2>3
    <3>2. g[i - 1] = f[i - 1]
      <4> HIDE DEF Step
      <4> QED
        BY <3>1
    <3>3. Step(g, i) = Step(f, i)
      <4> HIDE DEF g
      <4> QED
        BY <3>2
    <3>4. g[i] = Step(f, i)
      <4> HIDE DEF Step
      <4> QED
        BY <2>5, <3>1
    <3> QED
      BY <3>3, <3>4
  <2>9. g \in Upto(n)
    BY <2>7, <2>8
  <2> QED
    BY <2>1, <2>9
<1>3. PICK f \in Upto(N) : TRUE
  <2> HIDE DEF Upto
  <2>1. N \in 0 .. N
    BY <1>1
  <2> QED
    BY <1>2, <2>1
<1>4. f = Body(f)
  <2>1. f \in [0 .. N -> Seq(S)] /\ f[0] = <<>> /\ \A i \in 1 .. N : f[i] = Step(f, i)
    BY <1>3
  <2>2. \A i \in 0 .. N : i # 0 => i \in 1 .. N
    BY <1>1
  <2>3. \A i \in 0 .. N : f[i] = IF i = 0 THEN <<>> ELSE Step(f, i)
    <3> HIDE DEF Step, N
    <3> QED
      BY <2>1, <2>2
  <2> HIDE DEF Step, N
  <2> QED
    BY <2>1, <2>3
<1> DEFINE kept == CHOOSE g : g = Body(g)
<1>5. kept = Body(kept)
  <2> HIDE DEF Body
  <2> QED
    BY <1>4, Zenon
<1>6. Without(list, r) = kept[N]
  BY Zenon DEF Without
<1> HIDE DEF kept
<1>7. kept = f
  <2> DEFINE Diff == {i \in 0 .. N : kept[i] # f[i]}
  <2>1. Diff = {}
    <3> SUFFICES ASSUME Diff # {} PROVE FALSE
      OBVIOUS
    <3>1. PICK m \in Diff : \A k \in Diff : m <= k
      <4>1. Diff \in SUBSET Nat
        BY <1>1
      <4> QED
        BY <4>1, Least
    <3>2. m \in 0 .. N /\ kept[m] # f[m]
      BY <3>1
    <3>3. m # 0 /\ kept[m] = Step(kept, m) /\ f[m] = Step(f, m)
      <4>1. kept[m] = Body(kept)[m] /\ f[m] = Body(f)[m]
        <5> HIDE DEF Body
        <5> QED
          BY <1>4, <1>5, Zenon
      <4> HIDE DEF Step
      <4> QED
        BY <3>2, <4>1
    <3>4. kept[m - 1] = f[m - 1]
      <4>1. m - 1 \in 0 .. N /\ ~(m <= m - 1)
        BY <1>1, <3>2, <3>3
      <4> QED
        BY <3>1, <4>1
    <3> QED
      BY <3>2, <3>3, <3>4
  <2>2. kept = [i \in 0 .. N |-> kept[i]] /\ f = [i \in 0 .. N |-> f[i]]
    <3>1. kept = Body(kept) /\ f = Body(f)
      BY <1>4, <1>5
    <3> HIDE DEF Step
    <3>2. Body(kept) = [i \in 0 .. N |-> Body(kept)[i]] /\ Body(f) = [i \in 0 .. N |-> Body(f)[i]]
      OBVIOUS
    <3> HIDE DEF Body
    <3> QED
      BY <3>1, <3>2, Zenon
  <2> QED
    BY <2>1, <2>2
<1> QED
  BY <1>1, <1>3, <1>6, <1>7

\* x is among the first n entries of a list; and it is there once at most.
Among(x, list, n) == \E i \in 1 .. n : list[i] = x
Single(x, list, n) == \A i, j \in 1 .. n : list[i] = x /\ list[j] = x => i = j

\* An entry at the end of a list: what it adds to the entries that are there.
LEMMA AppendEntry ==
  ASSUME NEW S, NEW list \in Seq(S), NEW e \in S
  PROVE  LET longer == Append(list, e) IN
         /\ longer \in Seq(S) /\ Len(longer) = Len(list) + 1
         /\ \A x : Among(x, longer, Len(longer)) <=> x = e \/ Among(x, list, Len(list))
         /\ \A x : Single(x, list, Len(list)) /\ (x = e => ~Among(x, list, Len(list)))
                  => Single(x, longer, Len(longer))
<1> DEFINE longer == Append(list, e)
           N == Len(list)
<1>1. /\ longer \in Seq(S) /\ Len(longer) = N + 1 /\ N \in Nat
      /\ \A i \in 1 .. N : longer[i] = list[i]
      /\ longer[N + 1] = e
  BY AppendProperties, LenProperties
<1>2. \A i \in 1 .. N + 1 : i \in 1 .. N \/ i = N + 1
  BY <1>1
<1>3. 1 .. N \subseteq 1 .. N + 1 /\ N + 1 \in 1 .. N + 1
  BY <1>1
<1> HIDE DEF longer, N
<1>4. \A x : Among(x, longer, N + 1) <=> x = e \/ Among(x, list, N)
  BY <1>1, <1>2, <1>3 DEF Among
<1>5. \A x : Single(x, list, N) /\ (x = e => ~Among(x, list, N)) => Single(x, longer, N + 1)
  BY <1>1, <1>2, <1>3 DEF Among, Single
<1> QED
  BY <1>1, <1>4, <1>5 DEF longer, N

\* Without takes the entries of r out of a list and leaves the others as often as they
\* were there: what a stop does to g_resourceStartOrder.
LEMMA WithoutFacts ==
  ASSUME NEW S, NEW list \in Seq(S), NEW r
  PROVE  LET shorter == Without(list, r) IN
         /\ shorter \in Seq(S)
         /\ \A x : Among(x, shorter, Len(shorter)) <=> x # r /\ Among(x, list, Len(list))
         /\ \A x : Single(x, list, Len(list)) => Single(x, shorter, Len(shorter))
<1>1. PICK kept \in [0 .. Len(list) -> Seq(S)] :
        /\ Without(list, r) = kept[Len(list)]
        /\ kept[0] = <<>>
        /\ \A i \in 1 .. Len(list) :
             kept[i] = IF list[i] = r THEN kept[i - 1] ELSE Append(kept[i - 1], list[i])
  BY WithoutDef
<1> DEFINE N == Len(list)
           L(n) == Len(kept[n])
           Same(n) == \A x : Among(x, kept[n], L(n)) <=> x # r /\ Among(x, list, n)
           Once(n) == \A x : Single(x, list, n) => Single(x, kept[n], L(n))
           Bad == {n \in 0 .. N : ~(Same(n) /\ Once(n))}
<1>2. N \in Nat /\ \A i \in 1 .. N : list[i] \in S
  BY ElementOfSeq, LenProperties
<1>3. Bad = {}
  <2> SUFFICES ASSUME Bad # {} PROVE FALSE
    OBVIOUS
  <2>1. PICK n \in Bad : \A k \in Bad : n <= k
    <3>1. Bad \in SUBSET Nat
      BY <1>2
    <3> HIDE DEF Bad
    <3> QED
      BY <3>1, Least
  <2>2. n \in 0 .. N /\ ~(Same(n) /\ Once(n))
    BY <2>1
  <2>3. n # 0
    <3>1. kept[0] = <<>> /\ L(0) = 0
      BY <1>1, EmptySeq
    <3>2. Same(0)
      BY <3>1 DEF Among
    <3>3. Once(0)
      BY <3>1 DEF Single
    <3> HIDE DEF Same, Once
    <3> QED
      BY <2>2, <3>2, <3>3
  <2>4. n - 1 \in 0 .. N /\ n \in 1 .. N /\ ~(n <= n - 1) /\ n - 1 \in Nat
    <3> HIDE DEF N, Same, Once, Bad
    <3> QED
      BY <1>2, <2>2, <2>3
  <2>5. Same(n - 1) /\ Once(n - 1)
    <3> HIDE DEF Same, Once
    <3> QED
      BY <2>1, <2>4
  <2>6. \A i \in 1 .. n : i \in 1 .. n - 1 \/ i = n
    BY <2>4
  <2>7. 1 .. n - 1 \subseteq 1 .. n /\ n \in 1 .. n /\ n \notin 1 .. n - 1
    BY <2>4
  <2>8. \A x : Among(x, list, n) <=> x = list[n] \/ Among(x, list, n - 1)
    BY <2>6, <2>7 DEF Among
  <2>9. \A x : Single(x, list, n) => Single(x, list, n - 1) /\ (x = list[n] => ~Among(x, list, n - 1))
    BY <2>6, <2>7 DEF Among, Single
  <2>10. CASE list[n] = r
    <3>1. kept[n] = kept[n - 1]
      BY <1>1, <2>4, <2>10
    <3>2. Same(n) /\ Once(n)
      BY <2>5, <2>8, <2>9, <2>10, <3>1
    <3> QED
      BY <2>2, <3>2
  <2>11. CASE list[n] # r
    <3>1. kept[n] = Append(kept[n - 1], list[n])
      BY <1>1, <2>4, <2>11
    <3>2. kept[n - 1] \in Seq(S) /\ list[n] \in S
      BY <1>1, <1>2, <2>4
    <3>3. /\ \A x : Among(x, kept[n], L(n)) <=> x = list[n] \/ Among(x, kept[n - 1], L(n - 1))
          /\ \A x : /\ Single(x, kept[n - 1], L(n - 1))
                    /\ x = list[n] => ~Among(x, kept[n - 1], L(n - 1))
                    => Single(x, kept[n], L(n))
      <4> HIDE DEF Same, Once, Bad
      <4> DEFINE before == kept[n - 1]
                 e == list[n]
      <4>1. before \in Seq(S) /\ e \in S
        BY <3>2
      <4> HIDE DEF before, e
      <4>2. LET longer == Append(before, e) IN
            /\ \A x : Among(x, longer, Len(longer)) <=> x = e \/ Among(x, before, Len(before))
            /\ \A x : Single(x, before, Len(before)) /\ (x = e => ~Among(x, before, Len(before)))
                     => Single(x, longer, Len(longer))
        BY <4>1, AppendEntry
      <4> QED
        BY <3>1, <4>2 DEF before, e
    <3>4. Same(n)
      BY <2>5, <2>8, <2>11, <3>3
    <3>5. Once(n)
      BY <2>5, <2>9, <2>11, <3>3
    <3> QED
      BY <2>2, <3>4, <3>5
  <2> QED
    BY <2>10, <2>11
<1>4. Same(N) /\ Once(N)
  <2>1. N \in 0 .. N
    BY <1>2
  <2> HIDE DEF Same, Once, N
  <2> QED
    BY <1>3, <2>1
<1>5. kept[N] \in Seq(S)
  BY <1>1, <1>2
<1> QED
  BY <1>1, <1>4, <1>5

-----------------------------------------------------------------------------
(* The call stack. *)

\* A step keeps the calls below the innermost one.
KeepsOuter == \A i \in 1 .. Depth - 1 : stack'[i] = stack[i]

\* The innermost call goes on at pc with todo and, if n = 1, makes a call.
GoesOn(pc, todo, n) ==
  /\ n \in {0, 1}
  /\ stack' \in Seq(Frame) /\ Len(stack') = Depth + n /\ KeepsOuter
  /\ stack'[Depth] = [op |-> Top.op, res |-> Top.res, pc |-> pc, todo |-> todo]
  /\ n = 1 => \E op \in {"start", "stop"}, r \in Resource : stack'[Depth + 1] = Call(op, r)

\* The innermost call is the last of the stack.
LEMMA TopFacts ==
  ASSUME TypeOK, stack # <<>>
  PROVE  /\ Depth \in Nat /\ Depth # 0 /\ Depth \in 1 .. Depth
         /\ Top = stack[Depth] /\ Top \in Frame
         /\ Top.res \in Resource /\ Top.todo \in SUBSET Resource
         /\ Top.op = "start" => Top.pc \in StartSteps
         /\ Top.op = "stop" => Top.pc \in StopSteps
         /\ \A i \in 1 .. Depth : stack[i] \in Frame
<1>1. stack \in Seq(Frame)
  BY DEF TypeOK
<1>2. Depth \in Nat /\ Depth # 0 /\ Depth \in 1 .. Depth
  BY <1>1, EmptySeq, LenProperties DEF Depth
<1>3. \A i \in 1 .. Depth : stack[i] \in Frame
  BY <1>1, ElementOfSeq DEF Depth
<1>4. Top = stack[Depth] /\ Top \in Frame
  BY <1>2, <1>3 DEF Top, Last, Depth
<1> QED
  BY <1>2, <1>3, <1>4 DEF Frame

\* GoOn: the innermost call moves and nothing is called.
LEMMA GotoFacts ==
  ASSUME TypeOK, stack # <<>>, NEW pc, NEW todo \in SUBSET Resource,
         \/ Top.op = "start" /\ pc \in StartSteps
         \/ Top.op = "stop" /\ pc \in StopSteps
  PROVE  /\ Goto(pc, todo) \in Seq(Frame) /\ Len(Goto(pc, todo)) = Depth
         /\ \A i \in 1 .. Depth - 1 : Goto(pc, todo)[i] = stack[i]
         /\ Goto(pc, todo)[Depth] = [op |-> Top.op, res |-> Top.res, pc |-> pc, todo |-> todo]
<1> DEFINE f == [op |-> Top.op, res |-> Top.res, pc |-> pc, todo |-> todo]
<1>1. /\ Depth \in Nat /\ Depth \in 1 .. Depth /\ Top = stack[Depth] /\ Top \in Frame
      /\ Top.res \in Resource
  BY TopFacts
<1>2. f \in Frame
  BY <1>1 DEF Frame
<1>3. stack \in Seq(Frame) /\ Len(stack) = Depth
  BY DEF TypeOK, Depth
<1>4. Goto(pc, todo) = [stack EXCEPT ![Depth] = f]
  <2>1. Goto(pc, todo) = [stack EXCEPT ![Depth] = [[@ EXCEPT !.pc = pc] EXCEPT !.todo = todo]]
    BY <1>1, <1>3, LenProperties DEF Goto
  <2>2. [[Top EXCEPT !.pc = pc] EXCEPT !.todo = todo] = f
    <3>1. PICK P \in {StartSteps, StopSteps}, O \in {{"start"}, {"stop"}} :
             Top \in [op : O, res : Resource, pc : P, todo : SUBSET Resource]
      BY <1>1 DEF Frame
    <3> DEFINE u == [Top EXCEPT !.pc = pc]
    <3> HIDE DEF Top
    <3>2. /\ u \in [op : O, res : Resource, pc : P \cup {pc}, todo : SUBSET Resource]
          /\ u.op = Top.op /\ u.res = Top.res /\ u.pc = pc
      BY <3>1
    <3> HIDE DEF u
    <3>3. [u EXCEPT !.todo = todo] = f
      BY <3>2
    <3> QED
      BY <3>3 DEF u
  <2> QED
    BY <1>1, <2>1, <2>2
<1>5. /\ [stack EXCEPT ![Depth] = f] \in Seq(Frame) /\ Len([stack EXCEPT ![Depth] = f]) = Depth
      /\ \A i \in 1 .. Depth : [stack EXCEPT ![Depth] = f][i] = IF i = Depth THEN f ELSE stack[i]
  BY <1>1, <1>2, <1>3, ExceptSeq
<1>6. \A i \in 1 .. Depth - 1 : i \in 1 .. Depth /\ i # Depth
  BY <1>1
<1> QED
  BY <1>1, <1>4, <1>5, <1>6

\* GoOn and GoOnAfter in terms of GoesOn.
LEMMA GoOnFacts ==
  ASSUME TypeOK, stack # <<>>, NEW pc, NEW todo \in SUBSET Resource,
         \/ Top.op = "start" /\ pc \in StartSteps
         \/ Top.op = "stop" /\ pc \in StopSteps
  PROVE  /\ stack' = Goto(pc, todo) => GoesOn(pc, todo, 0)
         /\ \A op \in {"start", "stop"}, r \in Resource :
              stack' = Append(Goto(pc, todo), Call(op, r)) =>
                GoesOn(pc, todo, 1) /\ stack'[Depth + 1] = Call(op, r)
<1> DEFINE g == Goto(pc, todo)
<1>1. /\ g \in Seq(Frame) /\ Len(g) = Depth
      /\ \A i \in 1 .. Depth - 1 : g[i] = stack[i]
      /\ g[Depth] = [op |-> Top.op, res |-> Top.res, pc |-> pc, todo |-> todo]
      /\ Depth \in Nat /\ Depth \in 1 .. Depth
  BY GotoFacts, TopFacts
<1>2. stack' = g => GoesOn(pc, todo, 0)
  BY <1>1 DEF GoesOn, KeepsOuter
<1>3. ASSUME NEW op \in {"start", "stop"}, NEW r \in Resource, stack' = Append(g, Call(op, r))
      PROVE  GoesOn(pc, todo, 1) /\ stack'[Depth + 1] = Call(op, r)
  <2> HIDE DEF g
  <2>1. Call(op, r) \in Frame
    BY DEF Call, Frame, StartSteps, StopSteps
  <2>2. /\ stack' \in Seq(Frame) /\ Len(stack') = Depth + 1
        /\ \A i \in 1 .. Depth : stack'[i] = g[i]
        /\ stack'[Depth + 1] = Call(op, r)
    BY <1>1, <1>3, <2>1, AppendProperties
  <2>3. 1 .. Depth - 1 \subseteq 1 .. Depth
    BY <1>1
  <2> QED
    BY <1>1, <2>2, <2>3 DEF GoesOn, KeepsOuter
<1> QED
  BY <1>2, <1>3

\* Return: the innermost call ends.
LEMMA ReturnFacts ==
  ASSUME TypeOK, stack # <<>>, stack' = Front(stack)
  PROVE  /\ stack' \in Seq(Frame) /\ Len(stack') = Depth - 1 /\ KeepsOuter
<1>1. Depth \in Nat /\ Depth # 0 /\ \A i \in 1 .. Depth : stack[i] \in Frame
  BY TopFacts
<1>2. stack' = SubSeq(stack, 1, Depth - 1)
  BY DEF Front, Depth
<1>3. \A i \in 1 .. Depth - 1 : stack[i] \in Frame
  BY <1>1
<1>4. /\ stack' \in Seq(Frame) /\ Len(stack') = IF 1 <= Depth - 1 THEN Depth - 1 - 1 + 1 ELSE 0
      /\ \A i \in 1 .. Depth - 1 - 1 + 1 : stack'[i] = stack[1 + i - 1]
  BY <1>1, <1>2, <1>3, SubSeqProperties
<1> QED
  BY <1>1, <1>4 DEF KeepsOuter

-----------------------------------------------------------------------------
(* The steps keep the invariant. *)

\* What a start of r that has got to pc has noted in the set pairs.
NotedAt(r, pc, todo, pairs) ==
  /\ pc \in {"deps", "depWait"} => \A d \in Deps[r] \ todo : <<d, r>> \in pairs
  /\ /\ pc \in {"build", "onStart", "startEvent", "wake"}
     /\ r \notin misfits \cup skipped
     => \A d \in Deps[r] : <<d, r>> \in pairs

\* Where the innermost call, a start, may go on at pc.
MayStartAt(pc, todo) ==
  /\ Top.pc # "enter" /\ pc # "enter"
  /\ Top.res \in misfits => pc \notin {"startEvent", "wake"}
  /\ Top.res \notin misfits /\ Top.pc \in {"onStart", "startEvent", "wake"}
       => pc \in {"onStart", "startEvent", "wake"}
  /\ nested = 0 => NotedAt(Top.res, pc, todo, dependants')

\* Where the innermost call, a stop, may go on at pc.
MayStopAt(pc, todo) ==
  /\ dependants' = dependants
  /\ nested' = 0 /\ pc = "dependants" =>
       \A r \in Resource \ {Top.res} : <<Top.res, r>> \in dependants =>
         r \in todo \/ state[r] = "Stopped" \/ (Len(stack') = Depth + 1 /\ stack'[Depth + 1].res = r)

\* A call that goes on, or calls another, without a change of the resources' states.
LEMMA GoesOnInv ==
  ASSUME Inv, stack # <<>>,
         NEW pc, NEW todo \in SUBSET Resource, NEW n \in {0, 1}, GoesOn(pc, todo, n),
         UNCHANGED <<state, order, skipped, misfits>>,
         building' \subseteq Resource, waiting' \subseteq Resource \X Resource,
         result' \in [res : Resource, ok : BOOLEAN] \cup {NoResult},
         nested' = 0 => Woke',
         dependants' \subseteq Resource \X Resource, dependants \subseteq dependants',
         nested' \in 0 .. MaxNested, nested' = 0 => nested = 0,
         n = 0 => pc # "depWait",
         n = 1 /\ nested' = 0 => stack'[Depth + 1].op = Top.op,
         \/ Top.op = "start" /\ MayStartAt(pc, todo)
         \/ Top.op = "stop" /\ MayStopAt(pc, todo)
  PROVE  Inv'
<1>1. TypeOK /\ Ready /\ StartingIsCalled /\ Listed /\ Unfit /\ Plain
  BY DEF Inv
<1>2. /\ Depth \in Nat /\ Depth # 0 /\ Depth \in 1 .. Depth /\ Top = stack[Depth]
  BY <1>1, TopFacts
<1> DEFINE L == Len(stack')
<1>3. /\ L = Depth + n /\ Depth' = L /\ KeepsOuter
      /\ stack'[Depth].op = Top.op /\ stack'[Depth].res = Top.res
      /\ stack'[Depth].pc = pc /\ stack'[Depth].todo = todo
      /\ n = 1 => stack'[Depth + 1].pc = "enter"
  <2>1. Depth' = L
    BY DEF Depth
  <2>2. n = 1 => stack'[Depth + 1].pc = "enter"
    <3>1. n = 1 => \E op \in {"start", "stop"}, r \in Resource : stack'[Depth + 1] = Call(op, r)
      BY DEF GoesOn
    <3>2. \A op, r : Call(op, r).pc = "enter"
      BY DEF Call
    <3> QED
      BY <3>1, <3>2
  <2> QED
    BY <2>1, <2>2 DEF GoesOn
<1>4. \A i \in 1 .. L : i \in 1 .. Depth - 1 \/ i = Depth \/ (i = Depth + 1 /\ n = 1)
  BY <1>2, <1>3
<1>5. \A i \in 1 .. Depth : i \in 1 .. L /\ (i \in 1 .. Depth - 1 \/ i = Depth)
  BY <1>2, <1>3
<1> HIDE DEF L
<1>6. TypeOK'
  BY <1>1 DEF TypeOK, GoesOn
<1>7. Ready'
  <2>1. stack' # <<>> => Top' = stack'[L]
    BY DEF Top, Last, L
  <2>2. stack'[L].pc # "depWait"
    BY <1>2, <1>3
  <2> QED
    BY <2>1, <2>2 DEF Ready
<1>8. StartingIsCalled'
  <2>1. \A i \in 1 .. Depth : stack'[i].op = stack[i].op /\ stack'[i].res = stack[i].res
    BY <1>2, <1>3, <1>5 DEF KeepsOuter
  <2> QED
    <3> SUFFICES ASSUME NEW r \in Resource, state[r] = "Starting"
                 PROVE  \E i \in 1 .. L : stack'[i].op = "start" /\ stack'[i].res = r
      BY DEF StartingIsCalled, L
    <3>1. PICK i \in 1 .. Depth : stack[i].op = "start" /\ stack[i].res = r
      BY <1>1 DEF StartingIsCalled, Depth
    <3> QED
      BY <1>5, <2>1, <3>1
<1>9. Listed'
  BY <1>1 DEF Listed, IsStarted
<1>10. ASSUME NEW r, NEW i, Running(i, r)'
       PROVE  /\ Running(i, r) /\ i \in 1 .. Depth
              /\ i # Depth => stack'[i] = stack[i]
  BY <1>2, <1>3, <1>4, <1>5, <1>10 DEF Running, KeepsOuter, MayStartAt, MayStopAt
<1>11. Unfit'
  BY <1>1, <1>2, <1>3, <1>10 DEF Unfit, MayStartAt, Running
<1>12. ASSUME nested' = 0
       PROVE  (/\ OneKind /\ Again /\ Alone /\ ListedOnce
               /\ NotedSoFar /\ Reached /\ StopsDependants
               /\ FailedDep /\ Woke)'
  <2>1. /\ OneKind /\ Again /\ Alone /\ ListedOnce
        /\ NotedSoFar /\ Reached /\ StopsDependants
        /\ FailedDep /\ Woke /\ nested = 0
    BY <1>1, <1>12 DEF Plain
  <2>2. OneKind'
    <3>1. \A i \in 1 .. L : stack'[i].op = Top.op
      BY <1>2, <1>3, <1>4, <1>5, <1>12, <2>1 DEF OneKind, KeepsOuter
    <3> QED
      BY <1>3, <3>1 DEF OneKind
  <2>3. Again'
    BY <1>2, <1>3, <1>10, <2>1 DEF Again, MayStartAt, Running
  <2>4. Alone'
    BY <1>3, <1>10, <2>1 DEF Alone
  <2>5. ListedOnce' /\ Woke'
    BY <1>12, <2>1 DEF ListedOnce
  <2>6. NotedSoFar'
    <3> SUFFICES ASSUME NEW i \in 1 .. L, stack'[i].op = "start"
                 PROVE  NotedAt(stack'[i].res, stack'[i].pc, stack'[i].todo, dependants')
      BY <1>3 DEF NotedSoFar, NotedAt, Noted
    <3>1. CASE i = Depth
      BY <1>3, <2>1, <3>1 DEF MayStartAt, MayStopAt
    <3>2. CASE i = Depth + 1 /\ n = 1
      BY <1>3, <3>2 DEF NotedAt
    <3>3. CASE i \in 1 .. Depth - 1
      <4>1. stack'[i] = stack[i] /\ i \in 1 .. Depth
        BY <1>2, <1>3, <3>3 DEF KeepsOuter
      <4> QED
        BY <2>1, <4>1 DEF NotedSoFar, NotedAt, Noted
    <3> QED
      BY <1>4, <3>1, <3>2, <3>3
  <2>7. Reached'
    BY <2>1 DEF Reached, Noted, IsStarted
  <2>8. StopsDependants'
    <3> SUFFICES ASSUME NEW i \in 1 .. L, stack'[i].op = "stop", stack'[i].pc = "dependants",
                        NEW r \in Resource \ {stack'[i].res}, <<stack'[i].res, r>> \in dependants'
                 PROVE  \/ r \in stack'[i].todo
                        \/ state'[r] = "Stopped"
                        \/ i < L /\ stack'[i + 1].res = r
      BY <1>3 DEF StopsDependants
    <3>1. CASE i = Depth
      BY <1>2, <1>3, <1>12, <3>1 DEF MayStopAt, L
    <3>2. CASE i \in 1 .. Depth - 1
      <4>1. stack'[i] = stack[i] /\ i \in 1 .. Depth /\ i < Depth /\ i < L
        BY <1>2, <1>3, <3>2 DEF KeepsOuter
      <4>2. stack'[i + 1].res = stack[i + 1].res
        <5>1. i + 1 = Depth \/ i + 1 \in 1 .. Depth - 1
          BY <1>2, <3>2
        <5> QED
          BY <1>2, <1>3, <5>1 DEF KeepsOuter
      <4>3. Top.op = "stop"
        BY <1>2, <2>1, <4>1 DEF OneKind
      <4>4. dependants' = dependants
        BY <4>3 DEF MayStopAt
      <4> QED
        BY <2>1, <4>1, <4>2, <4>4 DEF StopsDependants
    <3> QED
      BY <1>3, <1>4, <3>1, <3>2
  <2>9. FailedDep'
    <3>1. stack' # <<>> => Top' = stack'[L]
      BY DEF Top, Last, L
    <3>2. stack'[L].pc # "depWait"
      BY <1>2, <1>3
    <3> QED
      BY <3>1, <3>2 DEF FailedDep
  <2> QED
    BY <2>2, <2>3, <2>4, <2>5, <2>6, <2>7, <2>8, <2>9
<1> QED
  BY <1>6, <1>7, <1>8, <1>9, <1>11, <1>12 DEF Inv, Plain

\* Where the innermost call is, its part of the invariant.
LEMMA TopNoted ==
  ASSUME Inv, stack # <<>>, Top.op = "start"
  PROVE  /\ nested = 0 => NotedAt(Top.res, Top.pc, Top.todo, dependants)
         /\ Top.pc # "enter" /\ Top.res \in misfits =>
              state[Top.res] # "Started" /\ Top.pc \notin {"startEvent", "wake"}
<1>1. TypeOK /\ Unfit /\ Plain
  BY DEF Inv
<1>2. Depth \in 1 .. Depth /\ Top = stack[Depth]
  BY <1>1, TopFacts
<1>3. nested = 0 => NotedAt(Top.res, Top.pc, Top.todo, dependants)
  BY <1>1, <1>2 DEF Plain, NotedSoFar, NotedAt, Noted
<1>4. Top.pc # "enter" => Running(Depth, Top.res)
  BY <1>2 DEF Running
<1> QED
  BY <1>1, <1>2, <1>3, <1>4 DEF Unfit

\* The steps of a start between its first test and its end keep the invariant.
LEMMA StartStepInv ==
  ASSUME Inv,
         \/ OnResourceStarting \/ LoadDep \/ DepsLoaded
         \/ TriggerBuild \/ OnStart \/ OnResourceStart \/ Wake
  PROVE  Inv'
<1>1. TypeOK /\ Deps \in [Resource -> SUBSET Resource] /\ nested \in 0 .. MaxNested
  BY ResourcesAssumption DEF Inv, TypeOK
<1>2. stack # <<>> /\ Top.op = "start" /\ Top.pc # "enter" /\ Top.pc \notin {"refused", "depWait"}
  BY DEF OnResourceStarting, LoadDep, DepsLoaded, TriggerBuild, OnStart, OnResourceStart, Wake, At
<1>3. Top.res \in Resource /\ Top.todo \in SUBSET Resource
  BY <1>1, <1>2, TopFacts
<1>4. /\ nested = 0 => NotedAt(Top.res, Top.pc, Top.todo, dependants)
      /\ Top.res \in misfits => Top.pc \notin {"startEvent", "wake"}
  BY <1>2, TopNoted
<1>5. /\ UNCHANGED <<state, order, skipped, misfits, waiting, result, nested>>
      /\ building' \subseteq Resource
      /\ dependants' \subseteq Resource \X Resource /\ dependants \subseteq dependants'
  <2>1. UNCHANGED <<state, order, skipped, misfits, waiting, result, nested>>
    BY DEF OnResourceStarting, LoadDep, DepsLoaded, TriggerBuild, OnStart, OnResourceStart, Wake,
           resourceVars, loaderVars, inputVars, GoOn, GoOnAfter
  <2>2. building' \subseteq Resource
    BY <1>1, <1>3 DEF OnResourceStarting, LoadDep, DepsLoaded, TriggerBuild, OnStart,
           OnResourceStart, Wake, inputVars, TypeOK
  <2>3. dependants' \subseteq Resource \X Resource /\ dependants \subseteq dependants'
    <3>1. dependants' = dependants \/ \E d \in Top.todo : dependants' = dependants \cup {<<d, Top.res>>}
      BY DEF OnResourceStarting, LoadDep, DepsLoaded, TriggerBuild, OnStart, OnResourceStart, Wake,
             loaderVars
    <3> QED
      BY <1>1, <1>3, <3>1 DEF TypeOK
  <2> QED
    BY <2>1, <2>2, <2>3
<1>a. /\ UNCHANGED <<state, order, skipped, misfits>>
      /\ waiting' \subseteq Resource \X Resource
      /\ result' \in [res : Resource, ok : BOOLEAN] \cup {NoResult}
      /\ nested' \in 0 .. MaxNested /\ (nested' = 0 => nested = 0 /\ Woke')
  BY <1>1, <1>5 DEF TypeOK, Inv, Plain, Woke, IsStarted
<1>6. ASSUME NEW pc \in StartSteps, NEW todo \in SUBSET Resource,
             GoOn(pc, todo), pc # "depWait", MayStartAt(pc, todo)
      PROVE  Inv'
  <2>1. GoesOn(pc, todo, 0)
    BY <1>1, <1>2, <1>6, GoOnFacts DEF GoOn
  <2> QED
    BY <1>2, <1>5, <1>a, <1>6, <2>1, GoesOnInv
<1>7. ASSUME NEW pc \in StartSteps, NEW todo \in SUBSET Resource, NEW r \in Resource,
             GoOnAfter(pc, todo, "start", r), MayStartAt(pc, todo)
      PROVE  Inv'
  <2>1. GoesOn(pc, todo, 1) /\ stack'[Depth + 1] = Call("start", r)
    BY <1>1, <1>2, <1>7, GoOnFacts DEF GoOnAfter
  <2>2. stack'[Depth + 1].op = Top.op
    BY <1>2, <2>1 DEF Call
  <2> QED
    BY <1>2, <1>5, <1>a, <1>7, <2>1, <2>2, GoesOnInv
<1> USE DEF StartSteps
<1>8. CASE OnResourceStarting
  <2>1. MayStartAt("deps", Deps[Top.res]) /\ MayStartAt("refused", {})
    BY <1>2, <1>8 DEF MayStartAt, NotedAt, OnResourceStarting, At
  <2> QED
    BY <1>1, <1>3, <1>6, <1>8, <2>1 DEF OnResourceStarting
<1>9. CASE LoadDep
  <2>1. PICK d \in Top.todo :
          /\ dependants' = dependants \cup {<<d, Top.res>>}
          /\ \/ GoOn("deps", Top.todo \ {d})
             \/ GoOnAfter("depWait", Top.todo \ {d}, "start", d)
    BY <1>9 DEF LoadDep
  <2>2. MayStartAt("deps", Top.todo \ {d}) /\ MayStartAt("depWait", Top.todo \ {d})
    BY <1>2, <1>4, <1>9, <2>1 DEF MayStartAt, NotedAt, LoadDep, At
  <2>3. d \in Resource /\ Top.todo \ {d} \in SUBSET Resource
    BY <1>3
  <2> QED
    BY <1>6, <1>7, <2>1, <2>2, <2>3
<1>10. CASE DepsLoaded
  <2>1. MayStartAt("refused", {})
    BY <1>2, <1>10 DEF MayStartAt, NotedAt, DepsLoaded, At
  <2>2. dependants' = dependants
    BY <1>10 DEF DepsLoaded, loaderVars
  <2>3. Top.todo = {} => MayStartAt("build", {})
    BY <1>2, <1>4, <1>10, <2>2 DEF MayStartAt, NotedAt, DepsLoaded, At
  <2> QED
    BY <1>6, <1>10, <2>1, <2>3 DEF DepsLoaded
<1>11. CASE TriggerBuild
  <2>1. dependants' = dependants
    BY <1>11 DEF TriggerBuild, loaderVars
  <2>2. MayStartAt("refused", {}) /\ MayStartAt("onStart", {})
    BY <1>2, <1>4, <1>11, <2>1 DEF MayStartAt, NotedAt, TriggerBuild, At
  <2> QED
    BY <1>3, <1>6, <1>7, <1>11, <2>2 DEF TriggerBuild
<1>12. CASE OnStart
  <2>1. dependants' = dependants
    BY <1>12 DEF OnStart, loaderVars
  <2>2. CASE Top.res \in misfits
    <3>1. MayStartAt("refused", {})
      BY <1>2, <2>2 DEF MayStartAt, NotedAt
    <3> QED
      BY <1>6, <1>12, <2>2, <3>1 DEF OnStart
  <2>3. CASE Top.res \notin misfits
    <3>1. MayStartAt("startEvent", {})
      BY <1>2, <1>4, <1>12, <2>1, <2>3 DEF MayStartAt, NotedAt, OnStart, At
    <3> QED
      BY <1>6, <1>12, <2>3, <3>1 DEF OnStart
  <2> QED
    BY <2>2, <2>3
<1>13. CASE OnResourceStart
  <2> DEFINE w == {r \in Resource : <<Top.res, r>> \in waiting}
  <2>1. dependants' = dependants /\ Top.pc = "startEvent" /\ GoOn("wake", w) /\ w \in SUBSET Resource
    BY <1>13 DEF OnResourceStart, loaderVars, At
  <2> HIDE DEF w
  <2>2. MayStartAt("wake", w)
    BY <1>2, <1>4, <2>1 DEF MayStartAt, NotedAt
  <2> QED
    BY <1>6, <2>1, <2>2
<1>14. CASE Wake
  <2>1. PICK r \in Top.todo : GoOnAfter("wake", Top.todo \ {r}, "start", r)
    BY <1>14 DEF Wake
  <2>2. dependants' = dependants /\ Top.pc = "wake"
    BY <1>14 DEF Wake, loaderVars, At
  <2>3. MayStartAt("wake", Top.todo \ {r})
    BY <1>2, <1>4, <2>2 DEF MayStartAt, NotedAt
  <2>4. r \in Resource /\ Top.todo \ {r} \in SUBSET Resource
    BY <1>3
  <2> QED
    BY <1>7, <2>1, <2>3, <2>4
<1> QED
  BY <1>8, <1>9, <1>10, <1>11, <1>12, <1>13, <1>14

\* A call of r that returns and leaves r in the state s.
LEMMA ReturnInv ==
  ASSUME Inv, stack # <<>>, NEW ok \in BOOLEAN, Return(ok),
         NEW s \in {"Stopped", "Started"}, state' = [state EXCEPT ![Top.res] = s],
         UNCHANGED <<dependants, misfits, building>>,
         waiting' \subseteq waiting,
         skipped' \in {skipped, skipped \ {Top.res}},
         order' \in Seq(Resource), Listed',
         nested = 0 => ListedOnce',
         s = "Started" => state[Top.res] = "Started" \/ Top.res \notin misfits,
         nested = 0 /\ Top.res \notin misfits /\ (s = "Stopped" \/ Top.res \notin skipped')
           => \A i \in 1 .. Depth - 1 : ~Running(i, Top.res),
         nested = 0 /\ s = "Started" /\ Top.res \notin skipped' => Noted(Top.res, Deps[Top.res]),
         Top.op = "stop" => s = "Stopped",
         nested = 0 /\ s = "Started" /\ Top.res \notin skipped' =>
           ok /\ \A w \in waiting' : w[1] # Top.res
  PROVE  Inv'
<1>1. TypeOK /\ Ready /\ StartingIsCalled /\ Listed /\ Unfit /\ Plain
  BY DEF Inv
<1> DEFINE t == Top.res
<1>2. /\ Depth \in Nat /\ Depth # 0 /\ Depth \in 1 .. Depth /\ Top = stack[Depth]
      /\ t \in Resource
  BY <1>1, TopFacts
<1> HIDE DEF t
<1>3. stack' \in Seq(Frame) /\ Len(stack') = Depth - 1 /\ Depth' = Depth - 1 /\ KeepsOuter
  BY <1>1, ReturnFacts DEF Return, Depth
<1>4. /\ state' \in [Resource -> States] /\ state'[t] = s
      /\ \A r \in Resource : r # t => state'[r] = state[r]
  BY <1>1, <1>2 DEF TypeOK, States, t
<1>5. \A i \in 1 .. Depth - 1 : stack'[i] = stack[i] /\ i \in 1 .. Depth /\ i < Depth
  BY <1>2, <1>3 DEF KeepsOuter
<1>6. /\ result' \in [res : Resource, ok : BOOLEAN] \cup {NoResult}
      /\ nested' = nested
      /\ stack' # <<>> /\ Top'.pc = "depWait" => result' = [res |-> t, ok |-> ok]
  <2>1. result' = IF Depth > 1 /\ stack[Depth - 1].pc = "depWait"
                  THEN [res |-> t, ok |-> ok] ELSE NoResult
    BY DEF Return, Depth, t
  <2>2. stack' # <<>> => Depth > 1 /\ Top' = stack[Depth - 1]
    <3>1. stack' # <<>> => Depth - 1 # 0
      BY <1>2, <1>3, EmptySeq
    <3>2. stack' # <<>> => Top' = stack'[Depth - 1]
      BY <1>3 DEF Top, Last
    <3> QED
      BY <1>2, <1>5, <3>1, <3>2
  <2> QED
    BY <1>2, <2>1, <2>2 DEF Return
<1>7. TypeOK'
  BY <1>1, <1>3, <1>4, <1>6 DEF TypeOK
<1>8. Ready'
  BY <1>2, <1>6 DEF Ready
<1>9. StartingIsCalled'
  <2> SUFFICES ASSUME NEW r \in Resource, state'[r] = "Starting"
               PROVE  \E i \in 1 .. Depth - 1 : stack'[i].op = "start" /\ stack'[i].res = r
    BY <1>3 DEF StartingIsCalled
  <2>1. r # t /\ state[r] = "Starting"
    BY <1>4
  <2>2. PICK i \in 1 .. Depth : stack[i].op = "start" /\ stack[i].res = r
    BY <1>1, <2>1 DEF StartingIsCalled, Depth
  <2>3. i \in 1 .. Depth - 1
    BY <1>2, <2>1, <2>2 DEF t
  <2> QED
    BY <1>5, <2>2, <2>3
<1>10. \A i, r : Running(i, r)' <=> i \in 1 .. Depth - 1 /\ Running(i, r)
  BY <1>3, <1>5 DEF Running
<1>11. Unfit'
  BY <1>1, <1>3, <1>4, <1>5, <1>10 DEF Unfit, TypeOK, t
<1>12. ASSUME nested' = 0
       PROVE  (/\ OneKind /\ Again /\ Alone /\ ListedOnce
               /\ NotedSoFar /\ Reached /\ StopsDependants
               /\ FailedDep /\ Woke)'
  <2>1. /\ OneKind /\ Again /\ Alone /\ ListedOnce
        /\ NotedSoFar /\ Reached /\ StopsDependants
        /\ FailedDep /\ Woke /\ nested = 0
    BY <1>1, <1>6, <1>12 DEF Plain
  <2>2. OneKind'
    BY <1>3, <1>5, <2>1 DEF OneKind
  <2>3. \A r \in Resource : r # t => (r \in skipped' <=> r \in skipped)
    BY DEF t
  <2>4. Again'
    <3> SUFFICES ASSUME NEW r \in Resource \ misfits, NEW i \in 1 .. Depth - 1,
                        NEW j \in 1 .. Depth - 1, Running(i, r)
                 PROVE  /\ state'[r] # "Stopped"
                        /\ i < j /\ Running(j, r) =>
                             stack[j].pc \in {"onStart", "startEvent", "wake"}
      BY <1>3, <1>5, <1>10 DEF Again
    <3>1. /\ state[r] # "Stopped"
          /\ i < j /\ Running(j, r) => stack[j].pc \in {"onStart", "startEvent", "wake"}
      BY <1>5, <2>1 DEF Again
    <3>2. r = t => s # "Stopped"
      BY <2>1 DEF t
    <3> QED
      BY <1>4, <3>1, <3>2
  <2>5. Alone'
    BY <1>3, <1>4, <1>5, <1>10, <2>1, <2>3 DEF Alone, t
  <2>6. NotedSoFar'
    <3> SUFFICES ASSUME NEW i \in 1 .. Depth - 1, stack[i].op = "start"
                 PROVE  NotedAt(stack[i].res, stack[i].pc, stack[i].todo, dependants)'
      BY <1>3, <1>5 DEF NotedSoFar, NotedAt, Noted
    <3>1. NotedAt(stack[i].res, stack[i].pc, stack[i].todo, dependants)
      BY <1>5, <2>1 DEF NotedSoFar, NotedAt, Noted
    <3>2. CASE stack[i].res # t \/ stack[i].pc \notin {"build", "onStart", "startEvent", "wake"}
      BY <1>5, <2>3, <3>1, <3>2 DEF NotedAt, t
    <3>3. CASE stack[i].res = t /\ stack[i].pc \in {"build", "onStart", "startEvent", "wake"}
      <4>1. Running(i, t)
        BY <1>5, <3>3 DEF Running
      <4>2. t \in misfits \cup skipped'
        BY <2>1, <4>1 DEF t
      <4> QED
        BY <1>5, <3>3, <4>2 DEF NotedAt
    <3> QED
      BY <3>2, <3>3
  <2>7. Reached'
    BY <1>4, <2>1, <2>3 DEF Reached, Noted, IsStarted, t
  <2>8. StopsDependants'
    <3> SUFFICES ASSUME NEW i \in 1 .. Depth - 1, stack[i].op = "stop", stack[i].pc = "dependants",
                        NEW r \in Resource \ {stack[i].res}, <<stack[i].res, r>> \in dependants
                 PROVE  \/ r \in stack[i].todo
                        \/ state'[r] = "Stopped"
                        \/ i < Depth - 1 /\ stack'[i + 1].res = r
      BY <1>3, <1>5 DEF StopsDependants
    <3>1. \/ r \in stack[i].todo
          \/ state[r] = "Stopped"
          \/ stack[i + 1].res = r
      BY <1>5, <2>1 DEF StopsDependants
    <3>2. state'[t] = "Stopped"
      BY <1>2, <1>4, <1>5, <2>1 DEF OneKind
    <3>3. i < Depth - 1 => stack'[i + 1] = stack[i + 1]
      BY <1>2, <1>3 DEF KeepsOuter
    <3>4. ~(i < Depth - 1) => stack[i + 1].res = t
      BY <1>2, <1>5 DEF t
    <3> QED
      BY <1>4, <3>1, <3>2, <3>3, <3>4
  <2>9. FailedDep'
    BY <1>2, <1>4, <1>6, <2>1 DEF FailedDep, IsStarted, t
  <2>10. Woke'
    <3> SUFFICES ASSUME NEW w \in waiting', state'[w[1]] = "Started" PROVE w[1] \in skipped'
      BY DEF Woke, IsStarted
    <3>1. w \in waiting /\ w[1] \in Resource
      BY <1>1 DEF TypeOK
    <3>2. CASE w[1] = t
      BY <1>4, <2>1, <3>2 DEF t
    <3>3. CASE w[1] # t
      BY <1>4, <2>1, <2>3, <3>1, <3>3 DEF Woke, IsStarted
    <3> QED
      BY <3>2, <3>3
  <2> QED
    BY <2>1, <2>2, <2>4, <2>5, <2>6, <2>7, <2>8, <2>9, <2>10
<1> QED
  BY <1>7, <1>8, <1>9, <1>11, <1>12 DEF Inv, Plain

\* The two conditions on the list, entry by entry.
LEMMA ListFacts ==
  ASSUME order \in Seq(Resource)
  PROVE  /\ Listed <=> \A r : Among(r, order, Len(order)) <=> r \in Resource /\ state[r] = "Started"
         /\ ListedOnce <=> \A r \in Resource \ skipped : Single(r, order, Len(order))
<1>1. DOMAIN order = 1 .. Len(order)
  BY LenProperties
<1> QED
  BY <1>1 DEF Listed, ListedOnce, ToSet, Among, Single, IsStarted

\* A start that is refused leaves its resource stopped, unless it was started meanwhile.
LEMMA RefusedInv == ASSUME Inv, Refused PROVE Inv'
<1> DEFINE t == Top.res
           s == IF state[t] = "Started" THEN "Started" ELSE "Stopped"
<1>1. TypeOK /\ Listed /\ Unfit /\ Plain
  BY DEF Inv
<1>2. /\ stack # <<>> /\ Top.op = "start" /\ Top.pc = "refused" /\ Return(FALSE)
      /\ state' = [state EXCEPT ![t] = s]
      /\ skipped' = IF state[t] = "Started" THEN skipped ELSE skipped \ {t}
      /\ UNCHANGED <<order, dependants, waiting, misfits, building>>
      /\ nested' = nested
  <2>1. stack # <<>> /\ Top.op = "start" /\ Top.pc = "refused"
    BY DEF Refused, At
  <2>2. t \in Resource
    BY <1>1, <2>1, TopFacts
  <2> QED
    BY <1>1, <2>1, <2>2 DEF Refused, TypeOK, loaderVars, inputVars, Return
<1>3. t \in Resource /\ Depth \in 1 .. Depth /\ Depth \in Nat /\ Top = stack[Depth]
  BY <1>1, <1>2, TopFacts
<1> HIDE DEF t
<1>4. Running(Depth, t)
  BY <1>2, <1>3 DEF Running, t
<1>5. state[t] = "Started" => t \notin misfits
  BY <1>1, <1>3, <1>4 DEF Unfit
<1>6. nested = 0 /\ t \notin misfits => \A i \in 1 .. Depth - 1 : ~Running(i, t)
  <2> SUFFICES ASSUME nested = 0, t \notin misfits, NEW i \in 1 .. Depth - 1, Running(i, t)
               PROVE  FALSE
    OBVIOUS
  <2>1. i \in 1 .. Depth /\ i < Depth
    BY <1>3
  <2> QED
    BY <1>1, <1>2, <1>3, <1>4, <2>1 DEF Plain, Again
<1>7. nested = 0 /\ state[t] = "Started" => t \in skipped'
  BY <1>1, <1>2, <1>3, <1>4, <1>5 DEF Plain, Alone
<1>8. order' \in Seq(Resource) /\ Listed' /\ (nested = 0 => ListedOnce')
  <2>1. \A r \in Resource : state'[r] = "Started" <=> state[r] = "Started"
    BY <1>1, <1>2, <1>3 DEF TypeOK
  <2>2. Listed'
    BY <1>1, <1>2, <2>1 DEF Listed, IsStarted
  <2>3. ASSUME nested = 0 PROVE ListedOnce'
    <3>1. order \in Seq(Resource) /\ order' = order
      BY <1>1, <1>2 DEF TypeOK
    <3>2. \A r \in Resource \ skipped : Single(r, order, Len(order))
      BY <1>1, <2>3, <3>1, ListFacts DEF Plain
    <3>3. state[t] # "Started" => ~Among(t, order, Len(order))
      BY <1>1, <3>1, ListFacts
    <3>4. \A r \in Resource \ skipped' : Single(r, order, Len(order))
      BY <1>2, <3>2, <3>3 DEF Single, Among
    <3> QED
      BY <3>1, <3>4 DEF ListedOnce, Single
  <2> QED
    BY <1>1, <1>2, <2>2, <2>3 DEF TypeOK
<1>9. state' = [state EXCEPT ![Top.res] = s] /\ s \in {"Stopped", "Started"}
  BY <1>2 DEF t
<1> QED
  BY <1>2, <1>5, <1>6, <1>7, <1>8, <1>9, ReturnInv DEF t

\* A start that ends well: the resource is listed, and those that waited are forgotten.
LEMMA WokenInv == ASSUME Inv, Woken PROVE Inv'
<1> DEFINE t == Top.res
<1>1. TypeOK /\ Listed /\ Unfit /\ Plain
  BY DEF Inv
<1>2. /\ stack # <<>> /\ Top.op = "start" /\ Top.pc = "wake" /\ Return(TRUE)
      /\ state' = [state EXCEPT ![t] = "Started"]
      /\ order' = Append(order, t)
      /\ waiting' = {w \in waiting : w[1] # t}
      /\ UNCHANGED <<skipped, dependants, misfits, building>>
      /\ nested' = nested
  BY DEF Woken, At, inputVars, Return
<1>3. t \in Resource /\ Depth \in 1 .. Depth /\ Depth \in Nat /\ Top = stack[Depth]
  BY <1>1, <1>2, TopFacts
<1>4. t \notin misfits /\ (nested = 0 => NotedAt(t, "wake", Top.todo, dependants))
  BY <1>2, TopNoted
<1> HIDE DEF t
<1>5. Running(Depth, t)
  BY <1>2, <1>3 DEF Running, t
<1>6. ASSUME nested = 0, t \notin skipped
      PROVE  /\ state[t] = "Starting" /\ Noted(t, Deps[t])
             /\ \A i \in 1 .. Depth - 1 : ~Running(i, t)
  <2>1. state[t] = "Starting" /\ \A i \in 1 .. Depth : Running(i, t) => i = Depth
    BY <1>1, <1>3, <1>4, <1>5, <1>6 DEF Plain, Alone
  <2>2. \A i \in 1 .. Depth - 1 : i \in 1 .. Depth /\ i # Depth
    BY <1>3
  <2> QED
    BY <1>4, <1>6, <2>1, <2>2 DEF NotedAt, Noted
<1>7. order' \in Seq(Resource) /\ Listed' /\ (nested = 0 => ListedOnce')
  <2>1. order \in Seq(Resource) /\ state \in [Resource -> States]
    BY <1>1 DEF TypeOK
  <2> DEFINE new == Append(order, t)
  <2>2. /\ new \in Seq(Resource)
        /\ \A x : Among(x, new, Len(new)) <=> x = t \/ Among(x, order, Len(order))
        /\ \A x : Single(x, order, Len(order)) /\ (x = t => ~Among(x, order, Len(order)))
                 => Single(x, new, Len(new))
    BY <1>3, <2>1, AppendEntry
  <2>3. order' = new
    BY <1>2
  <2> HIDE DEF new
  <2>4. \A r : Among(r, order, Len(order)) <=> r \in Resource /\ state[r] = "Started"
    BY <1>1, <2>1, ListFacts
  <2>5. \A r \in Resource : state'[r] = IF r = t THEN "Started" ELSE state[r]
    BY <1>2, <2>1
  <2>6. \A r : Among(r, new, Len(new)) <=> r \in Resource /\ state'[r] = "Started"
    BY <1>3, <2>2, <2>4, <2>5
  <2>7. Listed'
    <3>1. DOMAIN new = 1 .. Len(new)
      BY <2>2, LenProperties
    <3> QED
      BY <2>3, <2>6, <3>1 DEF Listed, ToSet, Among, IsStarted
  <2>8. ASSUME nested = 0 PROVE ListedOnce'
    <3>1. \A r \in Resource \ skipped : Single(r, order, Len(order))
      BY <1>1, <2>1, <2>8, ListFacts DEF Plain
    <3>2. \A r \in Resource \ skipped : Single(r, new, Len(new))
      BY <1>6, <2>2, <2>4, <2>8, <3>1
    <3> QED
      BY <1>2, <2>3, <3>2 DEF ListedOnce, Single
  <2> QED
    BY <2>2, <2>3, <2>7, <2>8
<1> QED
  BY <1>2, <1>4, <1>6, <1>7, ReturnInv DEF t

\* A stop that ends: the resource is stopped and out of the list.
LEMMA StoppedInv == ASSUME Inv, Stopped PROVE Inv'
<1> DEFINE t == Top.res
<1>1. TypeOK /\ Listed /\ Unfit /\ Plain
  BY DEF Inv
<1>2. /\ stack # <<>> /\ Top.op = "stop" /\ Return(TRUE)
      /\ state' = [state EXCEPT ![t] = "Stopped"]
      /\ order' = Without(order, t)
      /\ skipped' = skipped \ {t}
      /\ UNCHANGED <<dependants, waiting, misfits, building>>
      /\ nested' = nested
  BY DEF Stopped, At, inputVars, loaderVars, Return
<1>3. t \in Resource /\ Depth \in 1 .. Depth /\ Depth \in Nat /\ Top = stack[Depth]
  BY <1>1, <1>2, TopFacts
<1> HIDE DEF t
<1>4. nested = 0 => \A i \in 1 .. Depth - 1 : ~Running(i, t)
  BY <1>1, <1>2, <1>3 DEF Plain, OneKind, Running
<1>5. order' \in Seq(Resource) /\ Listed' /\ (nested = 0 => ListedOnce')
  <2>1. order \in Seq(Resource) /\ state \in [Resource -> States]
    BY <1>1 DEF TypeOK
  <2> DEFINE new == Without(order, t)
  <2>2. /\ new \in Seq(Resource)
        /\ \A x : Among(x, new, Len(new)) <=> x # t /\ Among(x, order, Len(order))
        /\ \A x : Single(x, order, Len(order)) => Single(x, new, Len(new))
    BY <2>1, WithoutFacts
  <2>3. order' = new
    BY <1>2
  <2> HIDE DEF new
  <2>4. \A r : Among(r, order, Len(order)) <=> r \in Resource /\ state[r] = "Started"
    BY <1>1, <2>1, ListFacts
  <2>5. \A r \in Resource : state'[r] = IF r = t THEN "Stopped" ELSE state[r]
    BY <1>2, <2>1
  <2>6. \A r : Among(r, new, Len(new)) <=> r \in Resource /\ state'[r] = "Started"
    BY <1>3, <2>2, <2>4, <2>5
  <2>7. Listed'
    <3>1. DOMAIN new = 1 .. Len(new)
      BY <2>2, LenProperties
    <3> QED
      BY <2>3, <2>6, <3>1 DEF Listed, ToSet, Among, IsStarted
  <2>8. ASSUME nested = 0 PROVE ListedOnce'
    <3>1. \A r \in Resource \ skipped : Single(r, order, Len(order))
      BY <1>1, <2>1, <2>8, ListFacts DEF Plain
    <3>2. Single(t, new, Len(new))
      BY <2>2 DEF Single, Among
    <3>3. \A r \in Resource \ skipped' : Single(r, new, Len(new))
      BY <1>2, <2>2, <3>1, <3>2
    <3> QED
      BY <2>3, <3>3 DEF ListedOnce, Single
  <2> QED
    BY <2>2, <2>3, <2>7, <2>8
<1> QED
  BY <1>2, <1>4, <1>5, ReturnInv DEF t

\* The first test of Start: a resource that is started, starting or stopped.
LEMMA EnterStartInv == ASSUME Inv, EnterStart PROVE Inv'
<1> DEFINE t == Top.res
<1>1. TypeOK /\ Ready /\ StartingIsCalled /\ Listed /\ Unfit /\ Plain
  BY DEF Inv
<1>2. /\ stack # <<>> /\ Top.op = "start" /\ Top.pc = "enter"
      /\ UNCHANGED <<order, dependants, waiting, building, misfits>>
  BY DEF EnterStart, At, loaderVars, inputVars
<1>3. /\ t \in Resource /\ Depth \in 1 .. Depth /\ Depth \in Nat /\ Depth # 0
      /\ Top = stack[Depth]
  BY <1>1, <1>2, TopFacts
<1>4. CASE state[t] = "Started" /\ Return(TRUE) /\ UNCHANGED <<state, skipped>>
  <2>1. state' = [state EXCEPT ![t] = "Started"]
    BY <1>1, <1>3, <1>4 DEF TypeOK
  <2>2. nested = 0 /\ t \notin misfits /\ t \notin skipped => \A i \in 1 .. Depth - 1 : ~Running(i, t)
    <3>1. \A i \in 1 .. Depth - 1 : i \in 1 .. Depth
      BY <1>3
    <3> QED
      BY <1>1, <1>3, <1>4, <3>1 DEF Plain, Alone
  <2>3. nested = 0 /\ t \notin skipped => Noted(t, Deps[t]) /\ \A w \in waiting : w[1] # t
    BY <1>1, <1>3, <1>4 DEF Plain, Reached, Woke, IsStarted
  <2>4. order' \in Seq(Resource) /\ Listed' /\ (nested = 0 => ListedOnce')
    BY <1>1, <1>2, <1>4 DEF TypeOK, Listed, ListedOnce, Plain, IsStarted
  <2> QED
    BY <1>2, <1>4, <2>1, <2>2, <2>3, <2>4, ReturnInv
<1>5. ASSUME NEW pc \in {"starting", "onStart"}, GoOn(pc, {}),
             state' = [state EXCEPT ![t] = "Starting"],
             state[t] # "Started",
             pc = "onStart" => skipped' = skipped \cup {t},
             pc = "starting" => state[t] = "Stopped" /\ skipped' = skipped
      PROVE  Inv'
  <2>1. GoesOn(pc, {}, 0)
    <3>1. pc \in StartSteps
      BY DEF StartSteps
    <3> QED
      BY <1>1, <1>2, <1>5, <3>1, GoOnFacts DEF GoOn
  <2>2. /\ stack' \in Seq(Frame) /\ Depth' = Depth /\ KeepsOuter /\ UNCHANGED <<result, nested>>
        /\ stack'[Depth].op = "start" /\ stack'[Depth].res = t /\ stack'[Depth].pc = pc
    <3>1. Len(stack') = Depth
      BY <1>3, <2>1 DEF GoesOn
    <3>2. Depth' = Depth
      BY <3>1 DEF Depth
    <3> QED
      BY <1>2, <1>5, <2>1, <3>2 DEF GoesOn, GoOn
  <2>3. \A i \in 1 .. Depth : /\ i = Depth \/ (i \in 1 .. Depth - 1 /\ stack'[i] = stack[i])
                              /\ stack'[i].op = stack[i].op /\ stack'[i].res = stack[i].res
    BY <1>2, <1>3, <2>2 DEF KeepsOuter
  <2> HIDE DEF t
  <2>4. /\ state' \in [Resource -> States] /\ state'[t] = "Starting"
        /\ \A r \in Resource : r # t => state'[r] = state[r]
        /\ \A r \in Resource : state'[r] = "Started" <=> state[r] = "Started"
    BY <1>1, <1>3, <1>5 DEF TypeOK, States
  <2>5. skipped \subseteq skipped' /\ skipped' \subseteq Resource /\ skipped' \subseteq skipped \cup {t}
    BY <1>1, <1>3, <1>5 DEF TypeOK
  <2>6. TypeOK'
    BY <1>1, <1>2, <2>2, <2>4, <2>5 DEF TypeOK
  <2>7. Top'.pc # "depWait"
    <3>1. Top' = stack'[Depth']
      BY DEF Top, Last, Depth
    <3> QED
      BY <2>2, <3>1
  <2>8. StartingIsCalled'
    <3> SUFFICES ASSUME NEW r \in Resource, state'[r] = "Starting"
                 PROVE  \E i \in 1 .. Depth : stack'[i].op = "start" /\ stack'[i].res = r
      BY <2>2 DEF StartingIsCalled, Depth
    <3>1. CASE r = t
      BY <1>3, <2>2, <3>1
    <3>2. CASE r # t
      <4>1. PICK i \in 1 .. Depth : stack[i].op = "start" /\ stack[i].res = r
        BY <1>1, <2>4, <3>2 DEF StartingIsCalled, Depth
      <4> QED
        BY <2>3, <4>1
    <3> QED
      BY <3>1, <3>2
  <2>9. Listed'
    BY <1>1, <1>2, <2>4 DEF Listed, IsStarted
  <2>10. ASSUME NEW i, NEW r, Running(i, r)'
         PROVE  i \in 1 .. Depth /\ ((i = Depth /\ r = t) \/ (Running(i, r) /\ i # Depth /\ stack'[i] = stack[i]))
    <3>1. i \in 1 .. Depth
      BY <2>2, <2>10 DEF Running
    <3>2. CASE i = Depth
      BY <2>2, <2>10, <3>2, <3>1 DEF Running
    <3>3. CASE i # Depth
      BY <2>3, <2>10, <3>1, <3>3 DEF Running
    <3> QED
      BY <3>1, <3>2, <3>3
  <2>11. Unfit'
    BY <1>1, <1>2, <1>3, <2>2, <2>4, <2>10 DEF Unfit, TypeOK
  <2>12. ASSUME nested = 0
         PROVE  (/\ OneKind /\ Again /\ Alone /\ ListedOnce
                 /\ NotedSoFar /\ Reached /\ StopsDependants
                 /\ FailedDep /\ Woke)'
    <3>1. /\ OneKind /\ Again /\ Alone /\ ListedOnce
          /\ NotedSoFar /\ Reached /\ StopsDependants
          /\ FailedDep /\ Woke
      BY <1>1, <2>12 DEF Plain
    <3>2. OneKind'
      BY <2>2, <2>3, <3>1 DEF OneKind
    <3>3. pc = "starting" /\ t \notin misfits => \A i \in 1 .. Depth : ~Running(i, t)
      BY <1>3, <1>5, <3>1 DEF Again, t
    <3>4. Again'
      BY <1>2, <1>3, <2>2, <2>4, <2>10, <3>1, <3>3 DEF Again
    <3>5. Alone'
      <4> SUFFICES ASSUME NEW r \in Resource \ (misfits \cup skipped'), NEW i \in 1 .. Depth,
                          Running(i, r)'
                   PROVE  /\ state'[r] = "Starting"
                          /\ \A j \in 1 .. Depth : Running(j, r)' => j = i
        BY <1>2, <2>2 DEF Alone
      <4>1. CASE r = t
        <5>1. pc = "starting"
          BY <1>5, <4>1
        <5>2. \A j : Running(j, r)' => j = Depth
          BY <2>10, <3>3, <4>1, <5>1
        <5> QED
          BY <2>4, <4>1, <5>2
      <4>2. CASE r # t
        BY <2>4, <2>5, <2>10, <3>1, <4>2 DEF Alone
      <4> QED
        BY <4>1, <4>2
    <3>6. ListedOnce' /\ Woke' /\ Reached'
      <4>1. ListedOnce'
        BY <1>2, <2>5, <3>1 DEF ListedOnce
      <4>2. Woke'
        BY <1>1, <1>2, <2>4, <2>5, <3>1 DEF Woke, IsStarted, TypeOK
      <4>3. Reached'
        BY <1>2, <2>4, <2>5, <3>1 DEF Reached, Noted, IsStarted
      <4> QED
        BY <4>1, <4>2, <4>3
    <3>7. NotedSoFar'
      <4> SUFFICES ASSUME NEW i \in 1 .. Depth, stack'[i].op = "start"
                   PROVE  /\ stack'[i].pc \in {"deps", "depWait"} =>
                               Noted(stack'[i].res, Deps[stack'[i].res] \ stack'[i].todo)
                          /\ /\ stack'[i].pc \in {"build", "onStart", "startEvent", "wake"}
                             /\ stack'[i].res \notin misfits \cup skipped'
                             => Noted(stack'[i].res, Deps[stack'[i].res])
        BY <1>2, <2>2 DEF NotedSoFar, Noted
      <4>1. CASE i = Depth
        BY <1>5, <2>2, <4>1
      <4>2. CASE i # Depth
        <5>1. stack'[i] = stack[i]
          BY <2>3, <4>2
        <5> QED
          BY <2>5, <3>1, <5>1 DEF NotedSoFar
      <4> QED
        BY <4>1, <4>2
    <3>8. StopsDependants'
      BY <1>2, <1>3, <2>2, <2>3, <3>1 DEF StopsDependants, OneKind
    <3> QED
      BY <2>7, <3>2, <3>4, <3>5, <3>6, <3>7, <3>8 DEF FailedDep
  <2> QED
    BY <2>2, <2>6, <2>7, <2>8, <2>9, <2>11, <2>12 DEF Inv, Plain, Ready
<1>6. CASE state[t] = "Starting" /\ GoOn("onStart", {}) /\ skipped' = skipped \cup {t} /\ UNCHANGED state
  <2>1. state' = [state EXCEPT ![t] = "Starting"]
    BY <1>1, <1>3, <1>6 DEF TypeOK
  <2> QED
    BY <1>5, <1>6, <2>1
<1>7. CASE /\ state[t] = "Stopped" /\ GoOn("starting", {}) /\ UNCHANGED skipped
           /\ state' = [state EXCEPT ![t] = "Starting"]
  BY <1>5, <1>7
<1> QED
  BY <1>4, <1>6, <1>7 DEF EnterStart

\* The start of a dependency has returned to the loader.
LEMMA DepReturnedInv == ASSUME Inv, DepReturned PROVE Inv'
<1>1. TypeOK /\ Ready /\ Plain
  BY DEF Inv
<1>2. stack # <<>> /\ Top.op = "start" /\ Top.pc = "depWait"
  BY DEF DepReturned, At
<1>3. /\ UNCHANGED <<state, order, skipped, misfits>> /\ nested' = nested
      /\ building' = building /\ dependants' = dependants /\ result' = NoResult
  BY DEF DepReturned, resourceVars, inputVars
<1>4. result.res \in Resource /\ Top.res \in Resource /\ Top.todo \in SUBSET Resource
  BY <1>1, <1>2, TopFacts DEF Ready
<1>5. /\ waiting' \subseteq Resource \X Resource
      /\ nested' = 0 => nested = 0 /\ Woke'
  <2>1. waiting \subseteq Resource \X Resource
    BY <1>1 DEF TypeOK
  <2>2. CASE waiting' = waiting
    BY <1>1, <1>3, <2>1, <2>2 DEF Plain, Woke, IsStarted
  <2>3. CASE ~result.ok /\ waiting' = waiting \cup {<<result.res, Top.res>>}
    <3>1. nested = 0 => Woke /\ (state[result.res] = "Started" => result.res \in skipped)
      BY <1>1, <1>2, <2>3 DEF Plain, FailedDep, IsStarted
    <3>2. nested = 0 => \A w \in waiting' : state[w[1]] = "Started" => w[1] \in skipped
      BY <2>3, <3>1 DEF Woke, IsStarted
    <3> QED
      BY <1>3, <1>4, <2>1, <2>3, <3>2 DEF Woke, IsStarted
  <2> QED
    BY <2>2, <2>3 DEF DepReturned
<1>6. /\ building' \subseteq Resource /\ dependants' \subseteq Resource \X Resource
      /\ dependants \subseteq dependants' /\ nested' \in 0 .. MaxNested
      /\ result' \in [res : Resource, ok : BOOLEAN] \cup {NoResult}
  BY <1>1, <1>3 DEF TypeOK
<1>7. nested = 0 => NotedAt(Top.res, "depWait", Top.todo, dependants)
  BY <1>2, TopNoted
<1>8. ASSUME NEW pc \in {"deps", "refused"}, NEW todo \in SUBSET Resource, stack' = Goto(pc, todo),
             pc = "deps" => todo = Top.todo
      PROVE  Inv'
  <2>1. GoesOn(pc, todo, 0)
    <3>1. pc \in StartSteps
      BY DEF StartSteps
    <3> QED
      BY <1>1, <1>2, <1>8, <3>1, GoOnFacts
  <2>2. MayStartAt(pc, todo)
    BY <1>2, <1>3, <1>7, <1>8 DEF MayStartAt, NotedAt
  <2> QED
    BY <1>2, <1>3, <1>5, <1>6, <1>8, <2>1, <2>2, GoesOnInv
<1> QED
  BY <1>4, <1>8 DEF DepReturned

\* The steps of a stop up to the event.
LEMMA StopStepInv == ASSUME Inv, EnterStop \/ StopDependant PROVE Inv'
<1> DEFINE t == Top.res
<1>1. TypeOK /\ Listed /\ Plain
  BY DEF Inv
<1>2. /\ stack # <<>> /\ Top.op = "stop"
      /\ UNCHANGED <<state, order, skipped, misfits, building, dependants, waiting>>
  BY DEF EnterStop, StopDependant, At, resourceVars, loaderVars, inputVars
<1>3. /\ t \in Resource /\ Depth \in 1 .. Depth /\ Depth \in Nat /\ Depth # 0
      /\ Top = stack[Depth] /\ Top.todo \in SUBSET Resource
  BY <1>1, <1>2, TopFacts
<1>4. CASE state[t] = "Stopped" /\ Return(TRUE)
  <2>1. state' = [state EXCEPT ![t] = "Stopped"]
    BY <1>1, <1>2, <1>3, <1>4 DEF TypeOK
  <2>2. nested = 0 => \A i \in 1 .. Depth - 1 : ~Running(i, t)
    BY <1>1, <1>2, <1>3 DEF Plain, OneKind, Running
  <2>3. order' \in Seq(Resource) /\ Listed' /\ (nested = 0 => ListedOnce')
    BY <1>1, <1>2 DEF TypeOK, Listed, ListedOnce, Plain, IsStarted
  <2> QED
    BY <1>2, <1>4, <2>1, <2>2, <2>3, ReturnInv
<1>5. ASSUME NEW todo \in SUBSET Resource, NEW n \in {0, 1}, GoesOn("dependants", todo, n),
             UNCHANGED <<result, nested>>,
             n = 1 => stack'[Depth + 1].op = "stop",
             MayStopAt("dependants", todo)
      PROVE  Inv'
  <2>1. /\ UNCHANGED <<state, order, skipped, misfits>>
        /\ building' \subseteq Resource /\ waiting' \subseteq Resource \X Resource
        /\ result' \in [res : Resource, ok : BOOLEAN] \cup {NoResult}
        /\ dependants' \subseteq Resource \X Resource /\ dependants \subseteq dependants'
        /\ nested' \in 0 .. MaxNested /\ (nested' = 0 => nested = 0 /\ Woke')
    BY <1>1, <1>2, <1>5 DEF TypeOK, Plain, Woke, IsStarted
  <2> QED
    BY <1>2, <1>5, <2>1, GoesOnInv
<1>6. CASE EnterStop /\ state[t] # "Stopped"
  <2> DEFINE D == {r \in Resource \ {t} : <<t, r>> \in dependants}
  <2>1. GoOn("dependants", D) /\ D \in SUBSET Resource
    BY <1>6 DEF EnterStop
  <2>2. \A r \in Resource \ {t} : <<t, r>> \in dependants => r \in D
    OBVIOUS
  <2> HIDE DEF D
  <2>3. GoesOn("dependants", D, 0)
    BY <1>1, <1>2, <2>1, GoOnFacts DEF GoOn, StopSteps
  <2>4. MayStopAt("dependants", D)
    BY <1>2, <2>2 DEF MayStopAt
  <2> QED
    BY <1>5, <2>1, <2>3, <2>4 DEF GoOn
<1>7. CASE StopDependant
  <2>1. PICK r \in Top.todo : GoOnAfter("dependants", Top.todo \ {r}, "stop", r)
    BY <1>7 DEF StopDependant
  <2>2. Top.todo \ {r} \in SUBSET Resource /\ r \in Resource
    BY <1>3
  <2>3. GoesOn("dependants", Top.todo \ {r}, 1) /\ stack'[Depth + 1] = Call("stop", r)
    BY <1>1, <1>2, <2>1, <2>2, GoOnFacts DEF GoOnAfter, StopSteps
  <2>4. stack'[Depth + 1].op = "stop" /\ stack'[Depth + 1].res = r /\ Len(stack') = Depth + 1
    BY <2>3 DEF Call, GoesOn
  <2>5. MayStopAt("dependants", Top.todo \ {r})
    <3>1. Top.pc = "dependants" /\ (nested' = 0 => nested = 0)
      BY <1>7, <2>1 DEF StopDependant, At, GoOnAfter
    <3>2. nested = 0 => \A d \in Resource \ {t} : <<t, d>> \in dependants =>
                          d \in Top.todo \/ state[d] = "Stopped"
      BY <1>1, <1>2, <1>3, <3>1 DEF Plain, StopsDependants
    <3> QED
      BY <1>2, <2>4, <3>1, <3>2 DEF MayStopAt
  <2> QED
    BY <1>5, <2>1, <2>2, <2>3, <2>4, <2>5 DEF GoOnAfter
<1> QED
  BY <1>2, <1>4, <1>6, <1>7 DEF EnterStop

\* No resource depends on itself.
LEMMA NotOwnDep == \A r \in Resource : r \notin Deps[r]
<1>1. PICK rank \in [Resource -> 0 .. Cardinality(Resource)] :
        \A r \in Resource : \A d \in Deps[r] : rank[d] < rank[r]
  BY AcyclicAssumption
<1>2. Cardinality(Resource) \in Nat
  BY ResourcesAssumption, FS_CardinalityType
<1>3. \A r \in Resource : rank[r] \in Nat
  BY <1>1, <1>2
<1> QED
  BY <1>1, <1>3

\* The dependants are stopped, and no longer noted as such.
LEMMA DependantsStoppedInv == ASSUME Inv, DependantsStopped PROVE Inv'
<1> DEFINE t == Top.res
<1>1. TypeOK /\ Ready /\ StartingIsCalled /\ Listed /\ Unfit /\ Plain
  BY DEF Inv
<1>2. /\ stack # <<>> /\ Top.op = "stop" /\ Top.pc = "dependants" /\ Top.todo = {}
      /\ dependants' = {p \in dependants : p[1] # t}
      /\ GoOn("stopEvent", {})
      /\ UNCHANGED <<state, order, skipped, waiting, misfits, building, result, nested>>
  BY DEF DependantsStopped, At, GoOn, resourceVars, inputVars
<1>3. /\ t \in Resource /\ Depth \in 1 .. Depth /\ Depth \in Nat /\ Depth # 0
      /\ Top = stack[Depth]
  BY <1>1, <1>2, TopFacts
<1>4. GoesOn("stopEvent", {}, 0)
  BY <1>1, <1>2, GoOnFacts DEF GoOn, StopSteps
<1>5. /\ stack' \in Seq(Frame) /\ Depth' = Depth /\ KeepsOuter
      /\ stack'[Depth].op = "stop" /\ stack'[Depth].res = t /\ stack'[Depth].pc = "stopEvent"
  <2>1. Len(stack') = Depth
    BY <1>3, <1>4 DEF GoesOn
  <2>2. Depth' = Depth
    BY <2>1 DEF Depth
  <2> QED
    BY <1>2, <1>4, <2>2 DEF GoesOn
<1>6. \A i \in 1 .. Depth : /\ i = Depth \/ (i \in 1 .. Depth - 1 /\ stack'[i] = stack[i])
                            /\ stack'[i].op = stack[i].op /\ stack'[i].res = stack[i].res
  BY <1>2, <1>3, <1>5 DEF KeepsOuter
<1> HIDE DEF t
<1>7. TypeOK'
  BY <1>1, <1>2, <1>5 DEF TypeOK
<1>8. Top'.pc # "depWait"
  <2>1. Top' = stack'[Depth']
    BY DEF Top, Last, Depth
  <2> QED
    BY <1>5, <2>1
<1>9. StartingIsCalled'
  <2> SUFFICES ASSUME NEW r \in Resource, state[r] = "Starting"
               PROVE  \E i \in 1 .. Depth : stack'[i].op = "start" /\ stack'[i].res = r
    BY <1>2, <1>5 DEF StartingIsCalled, Depth
  <2>1. PICK i \in 1 .. Depth : stack[i].op = "start" /\ stack[i].res = r
    BY <1>1 DEF StartingIsCalled, Depth
  <2> QED
    BY <1>6, <2>1
<1>10. Listed'
  BY <1>1, <1>2 DEF Listed, IsStarted
<1>11. ASSUME NEW i, NEW r, Running(i, r)'
       PROVE  i \in 1 .. Depth /\ Running(i, r) /\ i # Depth /\ stack'[i] = stack[i]
  BY <1>5, <1>6, <1>11 DEF Running
<1>12. Unfit'
  BY <1>1, <1>2, <1>5, <1>11 DEF Unfit
<1>13. ASSUME nested = 0
       PROVE  (/\ OneKind /\ Again /\ Alone /\ ListedOnce
               /\ NotedSoFar /\ Reached /\ StopsDependants
               /\ FailedDep /\ Woke)'
  <2>1. /\ OneKind /\ Again /\ Alone /\ ListedOnce
        /\ NotedSoFar /\ Reached /\ StopsDependants
        /\ FailedDep /\ Woke
    BY <1>1, <1>13 DEF Plain
  <2>2. OneKind'
    BY <1>5, <1>6, <2>1 DEF OneKind
  <2>3. Again' /\ Alone'
    BY <1>2, <1>5, <1>11, <2>1 DEF Again, Alone
  <2>4. ListedOnce' /\ Woke'
    BY <1>2, <2>1 DEF ListedOnce, Woke, IsStarted
  <2>5. NotedSoFar'
    BY <1>2, <1>3, <1>5, <1>6, <2>1 DEF NotedSoFar, OneKind
  <2>6. Reached'
    <3> SUFFICES ASSUME NEW r \in Resource \ skipped, state[r] = "Started", NEW d \in Deps[r]
                 PROVE  <<d, r>> \in dependants'
      BY <1>2 DEF Reached, Noted, IsStarted
    <3>1. <<d, r>> \in dependants
      BY <2>1 DEF Reached, Noted, IsStarted
    <3>2. d # t
      <4> SUFFICES ASSUME d = t PROVE FALSE
        OBVIOUS
      <4>1. r # t
        BY NotOwnDep
      <4>2. r \in {} \/ state[r] = "Stopped" \/ Depth < Depth
        BY <1>2, <1>3, <2>1, <3>1, <4>1 DEF StopsDependants, t
      <4> QED
        BY <1>3, <4>2
    <3> QED
      BY <1>2, <3>1, <3>2
  <2>7. StopsDependants'
    <3> SUFFICES ASSUME NEW i \in 1 .. Depth, stack'[i].op = "stop", stack'[i].pc = "dependants",
                        NEW r \in Resource \ {stack'[i].res}, <<stack'[i].res, r>> \in dependants
                 PROVE  \/ r \in stack'[i].todo
                        \/ state[r] = "Stopped"
                        \/ i < Depth /\ stack'[i + 1].res = r
      BY <1>2, <1>5 DEF StopsDependants
    <3>1. i \in 1 .. Depth - 1 /\ stack'[i] = stack[i]
      BY <1>5, <1>6
    <3>2. i + 1 \in 1 .. Depth
      BY <1>3, <3>1
    <3>3. stack'[i + 1].res = stack[i + 1].res
      BY <1>6, <3>2
    <3> QED
      BY <2>1, <3>1, <3>3 DEF StopsDependants
  <2> QED
    BY <1>8, <2>2, <2>3, <2>4, <2>5, <2>6, <2>7 DEF FailedDep
<1> QED
  BY <1>2, <1>7, <1>8, <1>9, <1>10, <1>12, <1>13 DEF Inv, Plain, Ready

\* A call on top of the innermost one, which stays where it is.
LEMMA ScriptGoesOn ==
  ASSUME TypeOK, stack # <<>>, NEW op \in {"start", "stop"}, NEW r \in Resource,
         stack' = Append(stack, Call(op, r))
  PROVE  GoesOn(Top.pc, Top.todo, 1) /\ stack'[Depth + 1] = Call(op, r)
<1>1. /\ Depth \in 1 .. Depth /\ Depth \in Nat /\ Top = stack[Depth]
      /\ Top \in Frame /\ Top.todo \in SUBSET Resource
  BY TopFacts
<1>2. Call(op, r) \in Frame
  BY DEF Call, Frame, StartSteps, StopSteps
<1>3. /\ stack' \in Seq(Frame) /\ Len(stack') = Depth + 1
      /\ \A i \in 1 .. Depth : stack'[i] = stack[i]
      /\ stack'[Depth + 1] = Call(op, r)
  BY <1>2, AppendProperties DEF TypeOK, Depth
<1>4. 1 .. Depth - 1 \subseteq 1 .. Depth
  BY <1>1
<1>5. Top = [op |-> Top.op, res |-> Top.res, pc |-> Top.pc, todo |-> Top.todo]
  <2>1. PICK P \in {StartSteps, StopSteps}, O \in {{"start"}, {"stop"}} :
           Top \in [op : O, res : Resource, pc : P, todo : SUBSET Resource]
    BY <1>1 DEF Frame
  <2> HIDE DEF Top
  <2> QED
    BY <2>1
<1> HIDE DEF Top
<1> QED
  BY <1>1, <1>3, <1>4, <1>5 DEF GoesOn, KeepsOuter

\* A script that handles an event calls StartResource or StopResource.
LEMMA ScriptCallsInv ==
  ASSUME Inv,
         \/ ScriptCalls("start", "starting") \/ ScriptCalls("start", "startEvent")
         \/ ScriptCalls("stop", "stopEvent")
  PROVE  Inv'
<1>1. TypeOK /\ MaxNested \in Nat
  BY ResourcesAssumption DEF Inv
<1>2. /\ stack # <<>> /\ nested < MaxNested /\ nested' = nested + 1
      /\ UNCHANGED <<result, state, order, skipped, dependants, waiting, building, misfits>>
      /\ \E op \in {"start", "stop"}, r \in Resource : stack' = Append(stack, Call(op, r))
      /\ \/ Top.op = "start" /\ Top.pc # "enter"
         \/ Top.op = "stop" /\ Top.pc = "stopEvent"
  BY DEF ScriptCalls, At, resourceVars, loaderVars, inputVars
<1>3. PICK op \in {"start", "stop"}, r \in Resource : stack' = Append(stack, Call(op, r))
  BY <1>2
<1>4. /\ Depth \in 1 .. Depth /\ Depth \in Nat /\ Top = stack[Depth]
      /\ Top \in Frame /\ Top.todo \in SUBSET Resource
  BY <1>1, <1>2, TopFacts
<1>5. GoesOn(Top.pc, Top.todo, 1)
  BY <1>1, <1>2, <1>3, ScriptGoesOn
<1>6. /\ nested' \in 0 .. MaxNested /\ nested' # 0
      /\ building' \subseteq Resource /\ waiting' \subseteq Resource \X Resource
      /\ result' \in [res : Resource, ok : BOOLEAN] \cup {NoResult}
      /\ dependants' \subseteq Resource \X Resource /\ dependants \subseteq dependants'
  BY <1>1, <1>2 DEF TypeOK
<1>7. \/ Top.op = "start" /\ MayStartAt(Top.pc, Top.todo)
      \/ Top.op = "stop" /\ MayStopAt(Top.pc, Top.todo)
  <2>1. Top.op = "start" /\ Top.pc # "enter" => MayStartAt(Top.pc, Top.todo)
    BY <1>2, TopNoted DEF MayStartAt
  <2> QED
    BY <1>2, <2>1 DEF MayStopAt
<1> QED
  BY <1>2, <1>4, <1>5, <1>6, <1>7, GoesOnInv

\* With no call in progress: commands, ends of builds, and reading the manifests again.
LEMMA QuietInv == ASSUME Inv, Command \/ BuildEnds \/ Refresh PROVE Inv'
<1>1. TypeOK /\ StartingIsCalled /\ Listed /\ Plain
  BY DEF Inv
<1>2. /\ stack = <<>>
      /\ UNCHANGED <<state, order, skipped, dependants, waiting, result, nested>>
      /\ building' \subseteq Resource /\ misfits' \subseteq Resource
      /\ stack' = <<>> \/ \E op \in {"start", "stop"}, r \in Resource : stack' = <<Call(op, r)>>
  BY <1>1 DEF Command, BuildEnds, Refresh, resourceVars, loaderVars, inputVars, callVars, TypeOK
<1>3. /\ stack' \in Seq(Frame)
      /\ \A i \in 1 .. Len(stack') : stack'[i].pc = "enter" /\ i = 1
      /\ stack' # <<>> => Top' = stack'[1] /\ Top'.pc = "enter"
  <2>1. CASE stack' = <<>>
    BY <2>1, EmptySeq
  <2>2. ASSUME NEW op \in {"start", "stop"}, NEW r \in Resource, stack' = <<Call(op, r)>>
        PROVE  /\ stack' \in Seq(Frame) /\ Len(stack') = 1 /\ stack'[1] = Call(op, r)
               /\ stack'[1].pc = "enter"
    BY <2>2 DEF Call, Frame, StartSteps, StopSteps
  <2>3. Top' = stack'[Len(stack')]
    BY DEF Top, Last
  <2> QED
    BY <1>2, <2>1, <2>2, <2>3
<1>4. \A r \in Resource : state[r] # "Starting"
  BY <1>1, <1>2, EmptySeq DEF StartingIsCalled
<1>5. TypeOK' /\ StartingIsCalled' /\ Listed'
  BY <1>1, <1>2, <1>3, <1>4 DEF TypeOK, StartingIsCalled, Listed, IsStarted
<1>6. Ready' /\ Unfit'
  BY <1>3 DEF Ready, Unfit, Running, Depth
<1>7. nested = 0 => (ListedOnce /\ Reached /\ Woke)'
  BY <1>1, <1>2 DEF Plain, ListedOnce, Reached, Noted, Woke, IsStarted
<1>8. (OneKind /\ Again /\ Alone /\ NotedSoFar /\ StopsDependants /\ FailedDep)'
  <2>1. \A i, r : ~Running(i, r)'
    BY <1>3 DEF Running, Depth
  <2>2. Again' /\ Alone'
    BY <2>1 DEF Again, Alone
  <2>3. OneKind' /\ NotedSoFar' /\ StopsDependants' /\ FailedDep'
    BY <1>3 DEF OneKind, NotedSoFar, StopsDependants, FailedDep, Depth
  <2> QED
    BY <2>2, <2>3
<1> QED
  BY <1>2, <1>5, <1>6, <1>7, <1>8 DEF Inv, Plain

\* The invariant holds before any resource is started.
LEMMA InitInv == Init => Inv
<1> SUFFICES ASSUME Init PROVE Inv
  OBVIOUS
<1>1. /\ stack = <<>> /\ order = <<>> /\ waiting = {} /\ misfits = {} /\ Len(stack) = 0 /\ Len(order) = 0
      /\ \A r \in Resource : state[r] = "Stopped"
  BY EmptySeq DEF Init
<1>2. TypeOK
  BY ResourcesAssumption, EmptySeq DEF Init, TypeOK, States
<1>3. StartingIsCalled /\ Ready
  BY <1>1 DEF StartingIsCalled, Ready
<1>4. Listed
  BY <1>1 DEF Listed, ToSet, IsStarted
<1>5. \A i : i \notin 1 .. Depth /\ i \notin 1 .. Len(order)
  BY <1>1 DEF Depth
<1>6. Unfit /\ OneKind /\ Again /\ Alone /\ ListedOnce /\ NotedSoFar /\ StopsDependants
  BY <1>5 DEF Unfit, OneKind, Again, Alone, ListedOnce, NotedSoFar, StopsDependants
<1>7. Reached /\ FailedDep /\ Woke
  BY <1>1 DEF Reached, FailedDep, Woke, IsStarted
<1> QED
  BY <1>2, <1>3, <1>4, <1>6, <1>7 DEF Inv, Plain

\* Every step keeps the invariant.
LEMMA StepInv == Inv /\ [Next]_vars => Inv'
<1> SUFFICES ASSUME Inv, [Next]_vars PROVE Inv'
  OBVIOUS
<1>1. CASE UNCHANGED vars
  <2>1. UNCHANGED <<state, order, skipped, dependants, waiting, building, misfits, stack, result, nested>>
    BY <1>1 DEF vars, resourceVars, loaderVars, inputVars, callVars
  <2>2. Top' = Top /\ Depth' = Depth
    BY <2>1 DEF Top, Depth
  <2>3. /\ \A i, r : Running(i, r)' <=> Running(i, r)
        /\ \A r : IsStarted(r)' <=> IsStarted(r)
        /\ \A r, D : Noted(r, D)' <=> Noted(r, D)
    BY <2>1, <2>2 DEF Running, IsStarted, Noted
  <2>4. TypeOK' /\ StartingIsCalled' /\ Listed'
    BY <2>1, <2>3 DEF Inv, TypeOK, StartingIsCalled, Listed
  <2>5. Ready'
    BY <2>1, <2>2 DEF Inv, Ready
  <2>6. Unfit'
    BY <2>1, <2>2, <2>3 DEF Inv, Unfit
  <2>7. ASSUME nested' = 0
        PROVE  OneKind' /\ Again' /\ Alone' /\ ListedOnce' /\ Woke' /\ Reached'
    <3>1. nested = 0
      BY <2>1, <2>7
    <3>2. OneKind' /\ ListedOnce'
      BY <2>1, <2>2, <3>1 DEF Inv, Plain, OneKind, ListedOnce
    <3>3. Again'
      BY <2>1, <2>2, <2>3, <3>1 DEF Inv, Plain, Again
    <3>4. Alone'
      BY <2>1, <2>2, <2>3, <3>1 DEF Inv, Plain, Alone
    <3>5. Woke' /\ Reached'
      BY <2>1, <2>3, <3>1 DEF Inv, Plain, Woke, Reached
    <3> QED
      BY <3>2, <3>3, <3>4, <3>5
  <2>8. ASSUME nested' = 0
        PROVE  NotedSoFar' /\ StopsDependants' /\ FailedDep'
    <3>1. nested = 0
      BY <2>1, <2>8
    <3>2. NotedSoFar'
      BY <2>1, <2>2, <2>3, <3>1 DEF Inv, Plain, NotedSoFar
    <3>3. StopsDependants'
      BY <2>1, <2>2, <3>1 DEF Inv, Plain, StopsDependants
    <3>4. FailedDep'
      BY <2>1, <2>2, <2>3, <3>1 DEF Inv, Plain, FailedDep
    <3> QED
      BY <3>2, <3>3, <3>4
  <2> QED
    BY <2>4, <2>5, <2>6, <2>7, <2>8 DEF Inv, Plain
<1>2. CASE Next
  BY <1>2, EnterStartInv, StartStepInv, DepReturnedInv, RefusedInv, WokenInv, StopStepInv,
     DependantsStoppedInv, StoppedInv, ScriptCallsInv, QuietInv DEF Next
<1> QED
  BY <1>1, <1>2

\* The invariant holds throughout.
THEOREM Invariant == Spec => []Inv
BY InitInv, StepInv, PTL DEF Spec

\* Every variable keeps its type; a resource the server has found is never uninitialized.
THEOREM TypeCorrect == Spec => []TypeOK
<1>1. Inv => TypeOK
  BY DEF Inv
<1> QED
  BY <1>1, Invariant, PTL

\* ResourceImpl::Start leaves no resource half-started, whatever refuses, builds or nests.
THEOREM NoHalfStart == Spec => []StartingIsCalled
<1>1. Inv => StartingIsCalled
  BY DEF Inv
<1> QED
  BY <1>1, Invariant, PTL

\* Stopping a dependency reaches every started resource that needs it.
THEOREM DependantsReached == Spec => []StopReaches
<1>1. Inv => StopReaches
  BY DEF Inv, Plain, Reached, Noted, StopReaches
<1> QED
  BY <1>1, Invariant, PTL

\* No resource goes on waiting for a dependency that has started.
THEOREM NoneLeftWaiting == Spec => []WaitersWoken
<1>1. Inv => WaitersWoken
  BY DEF Inv, Plain, Woke, WaitersWoken
<1> QED
  BY <1>1, Invariant, PTL

\* The list that clients are given is the set of started resources, each of them once.
THEOREM ListIsStarted == Spec => []ListAgrees
<1>1. Inv => ListAgrees
  <2> SUFFICES ASSUME Inv, nested = 0, NEW r \in Resource \ skipped
               PROVE  Cardinality({i \in 1 .. Len(order) : order[i] = r}) <= 1
    BY DEF ListAgrees, Inv, Listed
  <2> DEFINE P == {i \in 1 .. Len(order) : order[i] = r}
  <2>1. \A i, j \in P : i = j
    BY DEF Inv, Plain, ListedOnce
  <2>2. CASE P = {}
    BY <2>2, FS_EmptySet
  <2>3. CASE P # {}
    <3>1. PICK i \in P : TRUE
      BY <2>3
    <3>2. P = {i}
      BY <2>1, <3>1
    <3> HIDE DEF P
    <3>3. Cardinality({i}) = 1
      BY FS_Singleton
    <3>4. Cardinality(P) = 1
      BY <3>2, <3>3
    <3> QED
      BY <3>4 DEF P
  <2> QED
    BY <2>2, <2>3
<1> QED
  BY <1>1, Invariant, PTL

=============================================================================
