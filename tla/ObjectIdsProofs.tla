-------------------------- MODULE ObjectIdsProofs --------------------------
(***************************************************************************)
(* The properties of OneSync's object ids, for any number of clients, ids, *)
(* entities and queued tasks.                                              *)
(*                                                                         *)
(* None of them is inductive.  That an id is held once rests on what a     *)
(* client may do with an id that it has on its free list or in a creation  *)
(* under way (Tokens): the entity that still carries the id is being       *)
(* deleted, its owner was told and has not given it away.  That the        *)
(* removal of an entity meets that entity rests on what is under way       *)
(* between the sync and the main thread about it (Announced, Removals).    *)
(* That the tick leaves no ghost rests on what the clients have (Relevant) *)
(* and on uniqifiers that name one entity each (Uniques).  What depends on *)
(* the owners of ids holds as long as the code has lost none of its races  *)
(* (raced).                                                                *)
(***************************************************************************)
EXTENDS ObjectIds, FiniteSetTheorems, NaturalsInduction, TLAPS

Present(c) == ~Handled(c)

\* No two entities, and no entity and one that is yet to be created, by a client
\* or by the server, have the same uniqifier.
Uniques ==
  /\ creating # NoEntity =>
       /\ creating.uniq <= made
       /\ \A i \in Id : entity[i].uniq # creating.uniq
       /\ \A c \in Client : creating.uniq \notin synced[c]
       /\ \A n \in DOMAIN fromNet : fromNet[n].op = "create" => fromNet[n].uniq # creating.uniq
  /\ \A i \in Id : entity[i].uniq <= made
  /\ \A i, j \in Id : Exists(i) /\ entity[i].uniq = entity[j].uniq => i = j
  /\ \A c \in Client : \A u \in synced[c] : u <= made
  /\ \A n \in DOMAIN fromNet : fromNet[n].op = "create" =>
       /\ fromNet[n].uniq <= made
       /\ \A m \in DOMAIN fromNet :
            fromNet[m].op = "create" /\ fromNet[m].uniq = fromNet[n].uniq => m = n
       /\ \A i \in Id : entity[i].uniq # fromNet[n].uniq
       /\ \A c \in Client : fromNet[n].uniq \notin synced[c]

\* The drop of a client is posted once.
Drops ==
  \A n \in DOMAIN fromMain : fromMain[n].op = "drop" =>
    /\ conn[fromMain[n].from] \in {"leaving", "dropped"}
    /\ \A m \in DOMAIN fromMain :
         fromMain[m].op = "drop" /\ fromMain[m].from = fromMain[n].from => m = n

\* An entity is relevant to every connected client that has it.
Relevant ==
  /\ \A i \in Id, c \in Client :
       conn[c] \in {"on", "leaving", "handled"} /\ Exists(i) /\ entity[i].uniq \in synced[c] => c \in entity[i].relevantTo
  /\ \A c \in Client : conn[c] = "new" => synced[c] = {}
  /\ \A n \in DOMAIN fromNet : conn[fromNet[n].from] # "new"

-----------------------------------------------------------------------------
(* Who has an id, while no race is lost. *)

\* The id of an entity is held by the owner, if there is one.
Carried(i) ==
  /\ \A c \in Client : Holds(c, i) <=> (entity[i].owner = c /\ Present(c))
  /\ i \in used \/ (marking = i /\ i \in sent)
  /\ i \notin stolen => entity[i].owner \in Client /\ (i \in sent <=> Present(entity[i].owner))

\* An id without an entity is held if and only if it is sent.
Idle(i) ==
  /\ i \notin used /\ i \notin stolen /\ marking # i
  /\ \A c \in Client : Holds(c, i) => i \in sent
  /\ \A c, d \in Client : Holds(c, i) /\ Holds(d, i) => c = d
  /\ i \in sent \ lost => \E c \in Client : Holds(c, i)

\* The owner of an entity that is removed and whose id is not yet free; an id
\* that is marked for an entity of the server has none.
Hand(i) == IF freeing.step = "ids" /\ freeing.id = i THEN freeing.owner ELSE None

\* Two threads have the id.
Both(i) == creating # NoEntity /\ creating.id = i /\ freeing.step = "ids" /\ freeing.id = i

\* An id in the hands of a thread is held by the owner of the entity, if there is
\* one, and is in the hands of one thread.
Handed(i) ==
  /\ i \in used /\ marking # i
  /\ \A c \in Client : Holds(c, i) <=> (Hand(i) = c /\ Present(c))
  /\ i \notin stolen => Hand(i) \in Client /\ (i \in sent <=> Present(Hand(i)))
  /\ ~Both(i)

IdOK(i) ==
  IF Exists(i) THEN Carried(i) /\ ~InHand(i) ELSE IF InHand(i) THEN Handed(i) ELSE Idle(i)

Ids == \A i \in Id : IdOK(i)

Creates(n, c, i) == fromNet[n].op = "create" /\ fromNet[n].from = c /\ fromNet[n].id = i
Gives(n, c, i) == fromNet[n].op = "takeover" /\ fromNet[n].from = c /\ fromNet[n].id = i

\* Client c may use the id again: it holds it, and an entity that still has it
\* is being deleted, is c's for good, and c was told.
MayReuse(c, i) ==
  /\ Holds(c, i)
  /\ Exists(i) \/ InHand(i) => i \notin stolen
  /\ Exists(i) => /\ entity[i].deleting
                  /\ c \in entity[i].deletedFor /\ entity[i].uniq \notin synced[c]

\* Every id in a free list of a client, or in a creation under way, may be
\* reused, is there only once, and the client has not given its entity away.
Tokens ==
  \A c \in Client, i \in Id : Present(c) =>
    /\ i \in pool[c] =>
         /\ MayReuse(c, i)
         /\ \A n \in DOMAIN fromNet : ~Creates(n, c, i) /\ ~(Exists(i) /\ Gives(n, c, i))
    /\ \A n \in DOMAIN fromNet : Creates(n, c, i) =>
         /\ MayReuse(c, i)
         /\ \A m \in DOMAIN fromNet : Creates(m, c, i) => m = n
         /\ \A m \in DOMAIN fromNet : m < n => ~(Exists(i) /\ Gives(m, c, i))

-----------------------------------------------------------------------------
(* What is under way between the sync and the main thread about an entity. *)

Finalizing(m) == entity[m.id].uniq = m.uniq /\ entity[m.id].finalizing

Filter(n) == fromMain[n].op = "delete" /\ fromMain[n].by = "filter"

\* The announcements and the filter's deletions are about an entity that exists.
Announced ==
  /\ \A n \in DOMAIN mainQueue : entity[mainQueue[n].id].uniq = mainQueue[n].uniq
  /\ \A n \in DOMAIN fromMain : Filter(n) => entity[fromMain[n].id].uniq = fromMain[n].uniq

\* A removal under way is that of an entity that is being finalized, and is the
\* last that is under way about it.
Removals ==
  /\ \A n \in DOMAIN mainQueue : mainQueue[n].op = "removed" =>
       /\ Finalizing(mainQueue[n])
       /\ \A m \in DOMAIN mainQueue :
            mainQueue[m].id = mainQueue[n].id => m = n \/ (m < n /\ mainQueue[m].op = "creating")
  /\ \A n \in DOMAIN fromMain : fromMain[n].op = "doRemove" =>
       /\ Finalizing(fromMain[n])
       /\ \A m \in DOMAIN mainQueue : mainQueue[m].id # fromMain[n].id
       /\ \A m \in DOMAIN fromMain :
            /\ fromMain[m].op = "doRemove" /\ fromMain[m].id = fromMain[n].id => m = n
            /\ Filter(m) /\ fromMain[m].id = fromMain[n].id => m < n

Inv ==
  /\ TypeOK /\ Uniques /\ Drops /\ Relevant
  /\ ~raced => Ids /\ Tokens /\ Announced /\ Removals

-----------------------------------------------------------------------------
(* Sequences, numbers and records *)

\* What is left of a queue when its first entry is taken.
LEMMA TailFacts ==
  ASSUME NEW S, NEW s \in Seq(S), s # <<>>
  PROVE  /\ Head(s) \in S /\ Head(s) = s[1] /\ 1 \in DOMAIN s
         /\ Tail(s) \in Seq(S)
         /\ DOMAIN Tail(s) \subseteq Nat
         /\ \A n \in DOMAIN Tail(s) : n + 1 \in DOMAIN s /\ Tail(s)[n] = s[n + 1] /\ n + 1 > 1 /\ n + 1 # 1
  OBVIOUS

\* What a queue holds after an entry is posted to it.
LEMMA AppendFacts ==
  ASSUME NEW S, NEW s \in Seq(S), NEW x \in S
  PROVE  /\ Append(s, x) \in Seq(S)
         /\ \A n \in DOMAIN s : n \in DOMAIN Append(s, x) /\ Append(s, x)[n] = s[n]
         /\ \A n \in DOMAIN Append(s, x) : n \in DOMAIN s \/ n = Len(s) + 1
         /\ Append(s, x)[Len(s) + 1] = x
         /\ \A n \in DOMAIN s : n < Len(s) + 1
         /\ DOMAIN s \subseteq Nat /\ Len(s) + 1 \notin DOMAIN s
  OBVIOUS

\* A nonempty set of numbers has a least member.
LEMMA Least ==
  ASSUME NEW T \in SUBSET Nat, T # {}
  PROVE  \E m \in T : \A k \in T : m <= k
<1>1. \E m \in T : \A k \in T : ~(<<k, m>> \in OpToRel(<, Nat))
  BY WFMin, NatLessThanWellFounded
<1>2. PICK m \in T : \A k \in T : ~(<<k, m>> \in OpToRel(<, Nat))
  BY <1>1, Zenon
<1>3. ASSUME NEW k \in T PROVE m <= k
  <2>1. k \in Nat /\ m \in Nat
    OBVIOUS
  <2>2. ~(k < m)
    <3> SUFFICES ASSUME k < m PROVE FALSE
      OBVIOUS
    <3>1. <<k, m>> \in Nat \X Nat /\ <<k, m>>[1] < <<k, m>>[2]
      BY <2>1
    <3>2. <<k, m>> \in OpToRel(<, Nat)
      BY <3>1, Zenon DEF OpToRel
    <3> QED
      BY <1>2, <3>2, Zenon
  <2> QED
    BY <2>1, <2>2
<1> QED
  BY <1>3

\* GetFreeObjectIds and CreateEntityFromTree take an id that is free.
LEMMA FreeId ==
  ASSUME Free # {}
  PROVE  Lowest(Free) \in Free /\ Highest(Free) \in Free
<1>1. Free \subseteq Id /\ MaxId \in Nat /\ \A i \in Id : i \in Nat /\ i <= MaxId
  BY MaxIdAssumption DEF Free, Id
<1>2. Lowest(Free) \in Free
  <2>1. \E i \in Free : \A j \in Free : i <= j
    BY <1>1, Least
  <2> QED
    BY <2>1 DEF Lowest
<1>3. Highest(Free) \in Free
  <2> DEFINE T == {n \in Nat : \E i \in Free : i + n = MaxId}
  <2>1. PICK f : f \in Free
    OBVIOUS
  <2>2. MaxId - f \in Nat /\ f + (MaxId - f) = MaxId
    BY <1>1, <2>1
  <2>3. T # {}
    BY <2>1, <2>2
  <2>4. PICK m \in T : \A k \in T : m <= k
    BY <2>3, Least
  <2>5. PICK i \in Free : i + m = MaxId
    BY <2>4
  <2>6. ASSUME NEW j \in Free PROVE j <= i
    <3>1. MaxId - j \in Nat /\ j + (MaxId - j) = MaxId /\ j \in Nat
      BY <1>1, <2>6
    <3>2. MaxId - j \in T
      BY <3>1, <2>6
    <3>3. m <= MaxId - j /\ m \in Nat /\ i \in Nat
      BY <3>2, <2>4, <1>1
    <3> HIDE DEF T
    <3> QED
      BY <3>1, <3>3, <2>5, <1>1
  <2> QED
    BY <2>5, <2>6 DEF Highest
<1> QED
  BY <1>2, <1>3

\* An entity that exists is a record with all its fields.
LEMMA ExistsFacts ==
  ASSUME TypeOK, NEW i \in Id
  PROVE  /\ Exists(i) => entity[i] \in Entities /\ entity[i].uniq \in Uniqifier
         /\ ~Exists(i) => entity[i] = NoEntity /\ entity[i].uniq = 0
         /\ 0 \notin Uniqifier
<1>1. 0 \notin Uniqifier
  BY MaxEntityAssumption DEF Uniqifier
<1>2. entity[i] \in Entities \cup {NoEntity}
  BY DEF TypeOK
<1>3. NoEntity.uniq = 0
  BY DEF NoEntity
<1>4. \A e \in Entities : e.uniq \in Uniqifier
  BY DEF Entities
<1> QED
  BY <1>1, <1>2, <1>3, <1>4 DEF Exists

Announcements == [op : {"creating", "removed"}, id : Id, uniq : Uniqifier]

\* The fields of a packet and of a task of the sync and of the main thread.
LEMMA MessageFacts ==
  /\ \A m \in Packets :
       /\ m.from \in Client
       /\ m.op \in {"requestIds", "create", "sync", "takeover", "remove"}
       /\ m.op # "requestIds" => m.id \in Id /\ m.uniq \in Uniqifier
       /\ m.op = "create" => m.kind \in Kinds
  /\ \A m \in Posted :
       /\ m.op \in {"drop", "doRemove", "delete"}
       /\ m.op = "drop" => m.from \in Client
       /\ m.op # "drop" => m.id \in Id /\ m.uniq \in Uniqifier
  /\ \A m \in Announcements :
       m.id \in Id /\ m.uniq \in Uniqifier /\ m.op \in {"creating", "removed"}
  BY DEF Packets, Posted, Announcements

Owner == Client \cup {None}
AnyKind == [script : {"none", "client", "server"}, keep : BOOLEAN]

\* A new entity.
LEMMA NewFacts ==
  ASSUME NEW u \in Uniqifier, NEW o \in Owner, NEW k \in AnyKind,
         NEW e, e = NewEntity(u, o, k.script, k.keep)
  PROVE  /\ e \in Entities /\ e.uniq = u /\ e.owner = o /\ e.deletedFor = {}
         /\ ~e.finalizing /\ ~e.deleting
         /\ \A c \in Client : c \in e.relevantTo <=> c = o
<1>1. PICK r \in SUBSET Client : r = IF o = None THEN {} ELSE {o}
  BY DEF Owner
<1>2. e = [uniq |-> u, owner |-> o, first |-> o, firstDropped |-> FALSE,
           script |-> k.script, keep |-> k.keep, deleting |-> FALSE, finalizing |-> FALSE,
           relevantTo |-> r, deletedFor |-> {}, outOfScopeFor |-> {}]
  BY <1>1 DEF NewEntity
<1>3. e \in Entities
  BY <1>2 DEF Entities, AnyKind, Owner
<1>4. /\ e.uniq = u /\ e.owner = o /\ e.deletedFor = {}
      /\ e.finalizing = FALSE /\ e.deleting = FALSE /\ e.relevantTo = r
  BY <1>2
<1> QED
  BY <1>1, <1>3, <1>4, NoneIsNoClient

\* The same but for the fields that may change.
Same(e, f) == f.uniq = e.uniq /\ f.owner = e.owner /\ f.finalizing = e.finalizing /\ f.deletedFor = e.deletedFor

\* What the operations change in an entity, field by field.
LEMMA UpdateFacts ==
  ASSUME NEW e \in Entities
  PROVE  /\ \A c \in Client :
              LET f == [e EXCEPT !.relevantTo = @ \cup {c}] IN
                /\ f \in Entities /\ Same(e, f) /\ f.deleting = e.deleting
                /\ f.relevantTo = e.relevantTo \cup {c}
         /\ \A c \in Client \cup {None} :
              LET f == [e EXCEPT !.owner = c] IN
                /\ f \in Entities /\ f.uniq = e.uniq /\ f.owner = c /\ f.finalizing = e.finalizing
                /\ f.deletedFor = e.deletedFor /\ f.deleting = e.deleting /\ f.relevantTo = e.relevantTo
         /\ LET f == [e EXCEPT !.deleting = TRUE] IN
              /\ f \in Entities /\ Same(e, f) /\ f.deleting = TRUE /\ f.relevantTo = e.relevantTo
         /\ LET f == [e EXCEPT !.finalizing = TRUE] IN
              /\ f \in Entities /\ f.uniq = e.uniq /\ f.owner = e.owner /\ f.finalizing = TRUE
              /\ f.deletedFor = e.deletedFor /\ f.deleting = e.deleting /\ f.relevantTo = e.relevantTo
<1>1. ASSUME NEW c \in Client
      PROVE  LET f == [e EXCEPT !.relevantTo = @ \cup {c}] IN
                /\ f \in Entities /\ Same(e, f) /\ f.deleting = e.deleting
                /\ f.relevantTo = e.relevantTo \cup {c}
  BY DEF Entities, Same
<1>2. ASSUME NEW c \in Client \cup {None}
      PROVE  LET f == [e EXCEPT !.owner = c] IN
                /\ f \in Entities /\ f.uniq = e.uniq /\ f.owner = c /\ f.finalizing = e.finalizing
                /\ f.deletedFor = e.deletedFor /\ f.deleting = e.deleting /\ f.relevantTo = e.relevantTo
  BY DEF Entities
<1>3. LET f == [e EXCEPT !.deleting = TRUE] IN
        /\ f \in Entities /\ Same(e, f) /\ f.deleting = TRUE /\ f.relevantTo = e.relevantTo
  BY DEF Entities, Same
<1>4. LET f == [e EXCEPT !.finalizing = TRUE] IN
        /\ f \in Entities /\ f.uniq = e.uniq /\ f.owner = e.owner /\ f.finalizing = TRUE
        /\ f.deletedFor = e.deletedFor /\ f.deleting = e.deleting /\ f.relevantTo = e.relevantTo
  BY DEF Entities
<1> QED
  BY <1>1, <1>2, <1>3, <1>4

\* What a drop and a tick change in an entity.
LEMMA DropTickFacts ==
  ASSUME NEW e \in Entities
  PROVE  /\ \A c \in Client :
              LET f == DropFor(e, c) IN
                /\ f \in Entities /\ f.uniq = e.uniq /\ f.owner = e.owner /\ f.first = e.first
                /\ f.finalizing = e.finalizing /\ f.deleting = e.deleting
                /\ f.script = e.script /\ f.keep = e.keep
                /\ f.deletedFor = e.deletedFor \ {c} /\ f.relevantTo = e.relevantTo \ {c}
                /\ Live(e.first) /\ e.first = c => f.firstDropped
         /\ LET f == TickDeleting(e) IN
              /\ f \in Entities /\ f.uniq = e.uniq /\ f.owner = e.owner
              /\ f.finalizing = e.finalizing /\ f.deleting = e.deleting
              /\ f.deletedFor = e.deletedFor \cup {c \in Registered : c = e.owner \/ e.uniq \in synced[c]}
         /\ \A R \in SUBSET Registered, o \in Client \cup {None} :
              LET f == TickRelevant(e, R, o) IN
                /\ f \in Entities /\ f.uniq = e.uniq /\ f.owner = o
                /\ f.finalizing = e.finalizing /\ f.deleting = e.deleting /\ f.deletedFor = e.deletedFor
                /\ f.relevantTo = (e.relevantTo \ Leaving(e, R)) \cup {c \in R : e.uniq \notin synced[c]}
<1>1. ASSUME NEW c \in Client
      PROVE  LET f == DropFor(e, c) IN
                /\ f \in Entities /\ f.uniq = e.uniq /\ f.owner = e.owner /\ f.first = e.first
                /\ f.finalizing = e.finalizing /\ f.deleting = e.deleting
                /\ f.script = e.script /\ f.keep = e.keep
                /\ f.deletedFor = e.deletedFor \ {c} /\ f.relevantTo = e.relevantTo \ {c}
                /\ Live(e.first) /\ e.first = c => f.firstDropped
  BY DEF DropFor, Entities
<1>2. LET f == TickDeleting(e) IN
        /\ f \in Entities /\ f.uniq = e.uniq /\ f.owner = e.owner
        /\ f.finalizing = e.finalizing /\ f.deleting = e.deleting
        /\ f.deletedFor = e.deletedFor \cup {c \in Registered : c = e.owner \/ e.uniq \in synced[c]}
  BY DEF TickDeleting, Entities, Registered
<1>3. ASSUME NEW R \in SUBSET Registered, NEW o \in Client \cup {None}
      PROVE  LET f == TickRelevant(e, R, o) IN
                /\ f \in Entities /\ f.uniq = e.uniq /\ f.owner = o
                /\ f.finalizing = e.finalizing /\ f.deleting = e.deleting /\ f.deletedFor = e.deletedFor
                /\ f.relevantTo = (e.relevantTo \ Leaving(e, R)) \cup {c \in R : e.uniq \notin synced[c]}
  BY DEF TickRelevant, Leaving, Entities, Registered
<1> QED
  BY <1>1, <1>2, <1>3

-----------------------------------------------------------------------------
(* What a step has to keep.  A queue is as before, but for its first k entries. *)

\* Uniques after a step that makes no entity.
LEMMA UniquesKept ==
  ASSUME TypeOK, Uniques, made' = made, creating' = creating, NEW k \in Nat,
         \A n \in DOMAIN fromNet' :
           n \in Nat /\ n + k \in DOMAIN fromNet /\ fromNet'[n] = fromNet[n + k],
         \A i \in Id : entity'[i].uniq \in {0, entity[i].uniq},
         \A c \in Client : \A u \in synced'[c] :
           u \in synced[c] \/ \E i \in Id : u = entity[i].uniq
  PROVE  Uniques'
<1>0. Id' = Id /\ made \in Nat /\ 0 <= made
  BY MaxEntityAssumption DEF Id, TypeOK
<1>1. \A i \in Id : entity'[i].uniq <= made'
  BY <1>0 DEF Uniques
<1>2. \A i, j \in Id : Exists(i)' /\ entity'[i].uniq = entity'[j].uniq => i = j
  BY <1>0 DEF Uniques, Exists
<1>3. \A c \in Client : \A u \in synced'[c] : u <= made'
  BY <1>0 DEF Uniques
<1>4. ASSUME NEW n \in DOMAIN fromNet', fromNet'[n].op = "create"
      PROVE  /\ fromNet'[n].uniq <= made'
             /\ \A m \in DOMAIN fromNet' :
                  fromNet'[m].op = "create" /\ fromNet'[m].uniq = fromNet'[n].uniq => m = n
             /\ \A i \in Id : entity'[i].uniq # fromNet'[n].uniq
             /\ \A c \in Client : fromNet'[n].uniq \notin synced'[c]
  <2>1. n \in Nat /\ n + k \in DOMAIN fromNet /\ fromNet'[n] = fromNet[n + k]
    OBVIOUS
  <2> DEFINE x == fromNet[n + k]
  <2>2. /\ x.uniq <= made
        /\ \A m \in DOMAIN fromNet : fromNet[m].op = "create" /\ fromNet[m].uniq = x.uniq => m = n + k
        /\ \A i \in Id : entity[i].uniq # x.uniq
        /\ \A c \in Client : x.uniq \notin synced[c]
    BY <1>4, <2>1 DEF Uniques
  <2>3. x.uniq # 0
    <3>1. fromNet \in Seq(Packets)
      BY DEF TypeOK
    <3>2. x \in Packets
      BY <2>1, <3>1
    <3>3. x.uniq \in Uniqifier
      BY <3>2, <1>4, <2>1, MessageFacts
    <3> QED
      BY <3>3, MaxEntityAssumption DEF Uniqifier
  <2>4. x = fromNet'[n]
    BY <2>1
  <2> HIDE DEF x
  <2>5. ASSUME NEW m \in DOMAIN fromNet', fromNet'[m].op = "create", fromNet'[m].uniq = x.uniq
        PROVE  m = n
    <3>1. m \in Nat /\ m + k \in DOMAIN fromNet /\ fromNet'[m] = fromNet[m + k]
      OBVIOUS
    <3>2. m + k = n + k
      BY <3>1, <2>2, <2>5
    <3> QED
      BY <3>1, <2>1, <3>2
  <2> QED
    BY <2>2, <2>3, <2>4, <2>5
<1>5. ASSUME creating' # NoEntity'
      PROVE  /\ creating'.uniq <= made'
             /\ \A i \in Id : entity'[i].uniq # creating'.uniq
             /\ \A c \in Client : creating'.uniq \notin synced'[c]
             /\ \A n \in DOMAIN fromNet' : fromNet'[n].op = "create" => fromNet'[n].uniq # creating'.uniq
  <2>1. creating # NoEntity /\ creating \in [uniq : Uniqifier, id : Id] \cup {NoEntity}
    BY <1>5 DEF NoEntity, TypeOK
  <2>2. creating.uniq # 0
    BY <2>1, MaxEntityAssumption DEF Uniqifier
  <2>3. /\ creating.uniq <= made
        /\ \A i \in Id : entity[i].uniq # creating.uniq
        /\ \A c \in Client : creating.uniq \notin synced[c]
        /\ \A n \in DOMAIN fromNet : fromNet[n].op = "create" => fromNet[n].uniq # creating.uniq
    BY <2>1 DEF Uniques
  <2> QED
    BY <2>2, <2>3
<1> QED
  BY <1>0, <1>1, <1>2, <1>3, <1>4, <1>5 DEF Uniques

\* Drops after a step that drops nobody.
LEMMA DropsKept ==
  ASSUME Drops, NEW k \in Nat,
         \A n \in DOMAIN fromMain' :
           n \in Nat /\ n + k \in DOMAIN fromMain /\ fromMain'[n] = fromMain[n + k],
         \A n \in DOMAIN fromMain' : fromMain'[n].op = "drop" /\ conn[fromMain'[n].from] \in {"leaving", "dropped"}
                                       => conn'[fromMain'[n].from] \in {"leaving", "dropped"}
  PROVE  Drops'
<1> SUFFICES ASSUME NEW n \in DOMAIN fromMain', fromMain'[n].op = "drop"
             PROVE  /\ conn'[fromMain'[n].from] \in {"leaving", "dropped"}
                    /\ \A m \in DOMAIN fromMain' :
                         fromMain'[m].op = "drop" /\ fromMain'[m].from = fromMain'[n].from => m = n
  BY DEF Drops
<1>1. n \in Nat /\ n + k \in DOMAIN fromMain /\ fromMain'[n] = fromMain[n + k]
  OBVIOUS
<1>2. /\ conn[fromMain'[n].from] \in {"leaving", "dropped"}
      /\ \A m \in DOMAIN fromMain : fromMain[m].op = "drop" /\ fromMain[m].from = fromMain'[n].from => m = n + k
  BY <1>1 DEF Drops
<1>3. ASSUME NEW m \in DOMAIN fromMain', fromMain'[m].op = "drop", fromMain'[m].from = fromMain'[n].from
      PROVE  m = n
  <2>1. m \in Nat /\ m + k \in DOMAIN fromMain /\ fromMain'[m] = fromMain[m + k]
    OBVIOUS
  <2>2. m + k = n + k
    BY <2>1, <1>2, <1>3
  <2> QED
    BY <2>1, <1>1, <2>2
<1> QED
  BY <1>2, <1>3

\* Relevant after a step that gives no entity to a client.
LEMMA RelevantKept ==
  ASSUME Relevant, NEW k \in Nat,
         \A n \in DOMAIN fromNet' :
           n \in Nat /\ n + k \in DOMAIN fromNet /\ fromNet'[n] = fromNet[n + k],
         \A c \in Client : conn'[c] \in {"on", "leaving", "handled"} => conn[c] \in {"on", "leaving", "handled"} \/ synced[c] = {} \/ synced'[c] = {},
         \A n \in DOMAIN fromNet' : conn'[fromNet'[n].from] = "new" => conn[fromNet'[n].from] = "new",
         \A c \in Client : conn'[c] = "new" => conn[c] = "new",
         \A c \in Client : synced'[c] \subseteq synced[c],
         \A i \in Id : Exists(i)' => /\ entity'[i].uniq = entity[i].uniq
                                     /\ \A c \in Client : conn'[c] \in {"on", "leaving", "handled"} /\ entity[i].uniq \in synced'[c]
                                                            /\ c \in entity[i].relevantTo
                                                            => c \in entity'[i].relevantTo
  PROVE  Relevant'
<1>0. Id' = Id
  BY DEF Id
<1>1. ASSUME NEW i \in Id, NEW c \in Client, conn'[c] \in {"on", "leaving", "handled"}, Exists(i)', entity'[i].uniq \in synced'[c]
      PROVE  c \in entity'[i].relevantTo
  <2>1. entity'[i].uniq = entity[i].uniq
    BY <1>1
  <2>2. Exists(i) /\ entity[i].uniq \in synced[c] /\ conn[c] \in {"on", "leaving", "handled"}
    BY <1>1, <2>1 DEF Exists
  <2> QED
    BY <1>1, <2>2 DEF Relevant
<1>2. \A c \in Client : conn'[c] = "new" => synced'[c] = {}
  BY DEF Relevant
<1>3. \A n \in DOMAIN fromNet' : conn'[fromNet'[n].from] # "new"
  BY DEF Relevant
<1> QED
  BY <1>0, <1>1, <1>2, <1>3 DEF Relevant

\* An id that a step does not touch.
LEMMA IdSame ==
  ASSUME NEW i \in Id, IdOK(i), Exists(i)' <=> Exists(i),
         InHand(i)' <=> InHand(i), Hand(i)' = Hand(i), Both(i)' => Both(i),
         Exists(i) => entity'[i].owner = entity[i].owner,
         \A c \in Client : (Holds(c, i)' <=> Holds(c, i)) /\ (Present(c)' <=> Present(c)),
         i \in used' <=> i \in used, i \in sent' <=> i \in sent, i \in stolen' <=> i \in stolen,
         i \in lost' <=> i \in lost, marking' = i <=> marking = i
  PROVE  IdOK(i)'
<1>0. (InHand(i)' <=> InHand(i)) /\ Hand(i)' = Hand(i)
  OBVIOUS
<1>1. CASE Exists(i)
  <2>1. Carried(i) /\ ~InHand(i)
    BY <1>1 DEF IdOK
  <2>2. entity'[i].owner = entity[i].owner
    BY <1>1
  <2>3. \A c \in Client : Holds(c, i)' <=> (entity'[i].owner = c /\ Present(c)')
    BY <2>1, <2>2 DEF Carried
  <2>4. i \in used' \/ (marking' = i /\ i \in sent')
    BY <2>1 DEF Carried
  <2>5. ASSUME i \notin stolen'
        PROVE  entity'[i].owner \in Client /\ (i \in sent' <=> Present(entity[i].owner)')
    <3>1. i \notin stolen
      BY <2>5
    <3>2. entity[i].owner \in Client /\ (i \in sent <=> Present(entity[i].owner))
      BY <2>1, <3>1 DEF Carried
    <3> QED
      BY <2>2, <3>2 DEF Present, Handled
  <2>6. Carried(i)'
    BY <2>3, <2>4, <2>5 DEF Carried
  <2> QED
    BY <1>0, <1>1, <2>1, <2>6 DEF IdOK
<1>2. CASE ~Exists(i) /\ ~InHand(i)
  <2>1. Idle(i)
    BY <1>2 DEF IdOK
  <2>2. Idle(i)'
    BY <2>1 DEF Idle
  <2> QED
    BY <1>0, <1>2, <2>2 DEF IdOK
<1>3. CASE ~Exists(i) /\ InHand(i)
  <2>1. Handed(i)
    BY <1>3 DEF IdOK
  <2>2. i \in used' /\ marking' # i /\ \A c \in Client : Holds(c, i)' <=> (Hand(i)' = c /\ Present(c)')
    BY <1>0, <2>1 DEF Handed
  <2>3. ASSUME i \notin stolen'
        PROVE  Hand(i)' \in Client /\ (i \in sent' <=> Present(Hand(i))')
    <3>1. Hand(i) \in Client /\ (i \in sent <=> Present(Hand(i)))
      BY <2>1, <2>3 DEF Handed
    <3>2. PICK c \in Client : c = Hand(i)
      BY <3>1
    <3>3. Present(c)' <=> Present(c)
      OBVIOUS
    <3>4. i \in sent' <=> Present(c)'
      BY <3>1, <3>2, <3>3
    <3> QED
      BY <1>0, <3>1, <3>2, <3>4
  <2>4. ~Both(i)'
    BY <2>1 DEF Handed
  <2>5. Handed(i)'
    BY <2>2, <2>3, <2>4 DEF Handed
  <2> QED
    BY <1>0, <1>3, <2>5 DEF IdOK
<1> QED
  BY <1>1, <1>2, <1>3

\* The same for a step that has no part in what the threads have in hand.
LEMMA IdKept ==
  ASSUME NEW i \in Id, IdOK(i), UNCHANGED <<creating, freeing>>, Exists(i)' <=> Exists(i),
         Exists(i) => entity'[i].owner = entity[i].owner,
         \A c \in Client : (Holds(c, i)' <=> Holds(c, i)) /\ (Present(c)' <=> Present(c)),
         i \in used' <=> i \in used, i \in sent' <=> i \in sent, i \in stolen' <=> i \in stolen,
         i \in lost' <=> i \in lost, marking' = i <=> marking = i
  PROVE  IdOK(i)'
<1>1. (InHand(i)' <=> InHand(i)) /\ Hand(i)' = Hand(i) /\ (Both(i)' => Both(i))
  BY DEF InHand, Hand, Both, NoEntity
<1> QED
  BY <1>1, IdSame

\* A client has the id to use: in its free list, or in a creation under way.
Token(c, i) == i \in pool[c] \/ \E n \in DOMAIN fromNet : Creates(n, c, i)

\* A token may be used.
LEMMA TokenFacts ==
  ASSUME Tokens, NEW c \in Client, NEW i \in Id, Present(c), Token(c, i)
  PROVE  MayReuse(c, i) /\ Holds(c, i)
  BY DEF Tokens, Token, MayReuse

\* Tokens after a step that posts no packet.  The tokens that were there may still
\* be used, and the new ones are new.
LEMMA TokensKept ==
  ASSUME Tokens, NEW k \in Nat,
         \A n \in DOMAIN fromNet' :
           n \in Nat /\ n + k \in DOMAIN fromNet /\ fromNet'[n] = fromNet[n + k],
         \A c \in Client : Present(c)' => Present(c),
         \A c \in Client, i \in Id :
           Present(c)' /\ (i \in pool[c] \/ \E n \in DOMAIN fromNet' : Creates(n, c, i)')
             => MayReuse(c, i)' /\ (Exists(i)' => Exists(i)),
         \A c \in Client, i \in Id :
           Present(c)' /\ i \in pool'[c] /\ i \notin pool[c] =>
             /\ MayReuse(c, i)'
             /\ \A n \in DOMAIN fromNet' : ~Creates(n, c, i)' /\ ~(Exists(i)' /\ Gives(n, c, i)')
  PROVE  Tokens'
<1>0. Id' = Id
  BY DEF Id
<1>1. \A n \in DOMAIN fromNet' : \A c \in Client, i \in Id :
         /\ n \in Nat /\ n + k \in DOMAIN fromNet
         /\ Creates(n, c, i)' <=> Creates(n + k, c, i)
         /\ Gives(n, c, i)' <=> Gives(n + k, c, i)
  BY DEF Creates, Gives
<1> SUFFICES ASSUME NEW c \in Client, NEW i \in Id, Present(c)'
             PROVE  /\ i \in pool'[c] =>
                         /\ MayReuse(c, i)'
                         /\ \A n \in DOMAIN fromNet' : ~Creates(n, c, i)' /\ ~(Exists(i)' /\ Gives(n, c, i)')
                    /\ \A n \in DOMAIN fromNet' : Creates(n, c, i)' =>
                         /\ MayReuse(c, i)'
                         /\ \A m \in DOMAIN fromNet' : Creates(m, c, i)' => m = n
                         /\ \A m \in DOMAIN fromNet' : m < n => ~(Exists(i)' /\ Gives(m, c, i)')
  BY <1>0 DEF Tokens
<1>2. Present(c)
  OBVIOUS
<1>3. ASSUME i \in pool'[c], i \in pool[c]
      PROVE  /\ MayReuse(c, i)'
             /\ \A n \in DOMAIN fromNet' : ~Creates(n, c, i)' /\ ~(Exists(i)' /\ Gives(n, c, i)')
  <2>1. MayReuse(c, i)' /\ (Exists(i)' => Exists(i))
    BY <1>3
  <2>2. \A n \in DOMAIN fromNet : ~Creates(n, c, i) /\ ~(Exists(i) /\ Gives(n, c, i))
    BY <1>2, <1>3 DEF Tokens
  <2> QED
    BY <1>1, <2>1, <2>2
<1>4. ASSUME NEW n \in DOMAIN fromNet', Creates(n, c, i)'
      PROVE  /\ MayReuse(c, i)'
             /\ \A m \in DOMAIN fromNet' : Creates(m, c, i)' => m = n
             /\ \A m \in DOMAIN fromNet' : m < n => ~(Exists(i)' /\ Gives(m, c, i)')
  <2>1. MayReuse(c, i)' /\ (Exists(i)' => Exists(i))
    BY <1>4
  <2>2. n \in Nat /\ n + k \in DOMAIN fromNet /\ Creates(n + k, c, i)
    BY <1>1, <1>4
  <2>3. /\ \A m \in DOMAIN fromNet : Creates(m, c, i) => m = n + k
        /\ \A m \in DOMAIN fromNet : m < n + k => ~(Exists(i) /\ Gives(m, c, i))
    BY <1>2, <2>2 DEF Tokens
  <2>4. ASSUME NEW m \in DOMAIN fromNet', Creates(m, c, i)' PROVE m = n
    <3>1. m \in Nat /\ m + k = n + k
      BY <1>1, <2>3, <2>4
    <3> QED
      BY <2>2, <3>1
  <2>5. ASSUME NEW m \in DOMAIN fromNet', m < n, Exists(i)', Gives(m, c, i)' PROVE FALSE
    <3>1. m \in Nat /\ m + k \in DOMAIN fromNet /\ Gives(m + k, c, i)
      BY <1>1, <2>5
    <3>2. m + k < n + k
      BY <2>2, <3>1, <2>5
    <3> QED
      BY <2>1, <2>3, <2>5, <3>1, <3>2
  <2> QED
    BY <2>1, <2>4, <2>5
<1> QED
  BY <1>3, <1>4

\* A token may still be used after a step that leaves the id and its entity alone.
LEMMA MayReuseKept ==
  ASSUME NEW c \in Client, NEW i \in Id, MayReuse(c, i), Holds(c, i)',
         Exists(i)' \/ InHand(i)' => i \notin stolen',
         Exists(i)' => /\ Exists(i) /\ entity'[i].uniq = entity[i].uniq
                       /\ entity[i].deleting => entity'[i].deleting
                       /\ c \in entity[i].deletedFor => c \in entity'[i].deletedFor
                       /\ entity[i].uniq \in synced'[c] => entity[i].uniq \in synced[c]
  PROVE  MayReuse(c, i)' /\ (Exists(i)' => Exists(i))
  BY DEF MayReuse

\* The entity of an id, if its uniqifier is u, stays and goes on being finalized.
Kept(i, u) ==
  entity[i].uniq = u => /\ entity'[i].uniq = entity[i].uniq
                        /\ entity[i].finalizing => entity'[i].finalizing

\* Announced and Removals after a step that posts nothing to the main thread, and
\* no deletion or removal to the sync thread.
LEMMA TasksKept ==
  ASSUME Announced, Removals, mainQueue' = mainQueue, NEW k \in Nat,
         \A n \in DOMAIN fromMain' :
           n \in Nat /\ n + k \in DOMAIN fromMain /\ fromMain'[n] = fromMain[n + k],
         \A n \in DOMAIN mainQueue : Kept(mainQueue[n].id, mainQueue[n].uniq),
         \A n \in DOMAIN fromMain' :
           Filter(n)' \/ fromMain'[n].op = "doRemove" => Kept(fromMain'[n].id, fromMain'[n].uniq)
  PROVE  Announced' /\ Removals'
<1>1. \A n \in DOMAIN fromMain' : n \in Nat /\ n + k \in DOMAIN fromMain /\ (Filter(n)' <=> Filter(n + k))
  BY DEF Filter
<1>2. Announced'
  <2>1. \A n \in DOMAIN mainQueue' : entity'[mainQueue'[n].id].uniq = mainQueue'[n].uniq
    BY DEF Announced, Kept
  <2>2. ASSUME NEW n \in DOMAIN fromMain', Filter(n)'
        PROVE  entity'[fromMain'[n].id].uniq = fromMain'[n].uniq
    <3>1. entity[fromMain'[n].id].uniq = fromMain'[n].uniq
      BY <1>1, <2>2 DEF Announced
    <3> QED
      BY <2>2, <3>1 DEF Kept
  <2> QED
    BY <2>1, <2>2 DEF Announced
<1>3. ASSUME NEW n \in DOMAIN mainQueue', mainQueue'[n].op = "removed"
      PROVE  /\ Finalizing(mainQueue[n])'
             /\ \A m \in DOMAIN mainQueue' :
                  mainQueue'[m].id = mainQueue'[n].id => m = n \/ (m < n /\ mainQueue'[m].op = "creating")
  <2>1. Finalizing(mainQueue[n])
    BY <1>3 DEF Removals
  <2>2. Finalizing(mainQueue[n])'
    BY <1>3, <2>1 DEF Finalizing, Kept
  <2> QED
    BY <1>3, <2>2 DEF Removals
<1>4. ASSUME NEW n \in DOMAIN fromMain', fromMain'[n].op = "doRemove"
      PROVE  /\ Finalizing(fromMain[n])'
             /\ \A m \in DOMAIN mainQueue' : mainQueue'[m].id # fromMain'[n].id
             /\ \A m \in DOMAIN fromMain' :
                  /\ fromMain'[m].op = "doRemove" /\ fromMain'[m].id = fromMain'[n].id => m = n
                  /\ Filter(m)' /\ fromMain'[m].id = fromMain'[n].id => m < n
  <2>1. n \in Nat /\ n + k \in DOMAIN fromMain /\ fromMain'[n] = fromMain[n + k]
    OBVIOUS
  <2>2. /\ Finalizing(fromMain[n + k])
        /\ \A m \in DOMAIN mainQueue : mainQueue[m].id # fromMain[n + k].id
        /\ \A m \in DOMAIN fromMain :
             /\ fromMain[m].op = "doRemove" /\ fromMain[m].id = fromMain[n + k].id => m = n + k
             /\ Filter(m) /\ fromMain[m].id = fromMain[n + k].id => m < n + k
    BY <1>4, <2>1 DEF Removals
  <2>3. entity'[fromMain'[n].id].uniq = fromMain'[n].uniq /\ entity'[fromMain'[n].id].finalizing
    BY <1>4, <2>1, <2>2 DEF Finalizing, Kept
  <2>4. ASSUME NEW m \in DOMAIN fromMain', fromMain'[m].id = fromMain'[n].id
        PROVE  /\ fromMain'[m].op = "doRemove" => m = n
               /\ Filter(m)' => m < n
    <3>1. m \in Nat /\ m + k \in DOMAIN fromMain /\ fromMain'[m] = fromMain[m + k]
             /\ (Filter(m)' <=> Filter(m + k))
      BY <1>1
    <3>2. /\ fromMain'[m].op = "doRemove" => m + k = n + k
          /\ Filter(m)' => m + k < n + k
      BY <3>1, <2>1, <2>2, <2>4
    <3> QED
      BY <3>1, <3>2, <2>1
  <2> QED
    BY <2>1, <2>2, <2>3, <2>4 DEF Finalizing
<1> QED
  BY <1>2, <1>3, <1>4 DEF Removals

-----------------------------------------------------------------------------
(* The steps *)

\* A queue is itself, with no entry taken.
LEMMA SameQueue ==
  ASSUME NEW S, NEW s \in Seq(S)
  PROVE  \A n \in DOMAIN s : n \in Nat /\ n + 0 \in DOMAIN s /\ s[n] = s[n + 0]
  OBVIOUS

\* Ids after a step that touches none.
LEMMA IdsKept ==
  ASSUME Ids, UNCHANGED <<sent, used, stolen, objectIds, marking, creating, freeing, lost>>,
         \A c \in Client : Present(c)' <=> Present(c),
         \A i \in Id : entity'[i].uniq = entity[i].uniq /\ (Exists(i) => entity'[i].owner = entity[i].owner)
  PROVE  Ids'
<1>1. ASSUME NEW i \in Id PROVE IdOK(i)'
  <2>1. IdOK(i)
    BY DEF Ids, IdOK
  <2>2. Exists(i)' <=> Exists(i)
    BY DEF Exists
  <2>3. \A c \in Client : Holds(c, i)' <=> Holds(c, i)
    BY DEF Holds, Present, BeingTaken
  <2> QED
    BY <2>1, <2>2, <2>3, IdKept
<1>2. Id' = Id
  BY DEF Id
<1> QED
  BY <1>1, <1>2 DEF Ids

\* The entity is as before, but for being deleted and being relevant to more.
Untouched(i) ==
  /\ entity'[i].uniq = entity[i].uniq
  /\ Exists(i) => /\ Same(entity[i], entity'[i])
                  /\ entity[i].deleting => entity'[i].deleting
                  /\ entity[i].relevantTo \subseteq entity'[i].relevantTo

\* Steps that take packets from the queue, touch no id, and connect or drop clients.
LEMMA QuietInv ==
  ASSUME Inv, TypeOK', raced => raced',
         UNCHANGED <<sent, used, stolen, objectIds, marking, creating, freeing, lost, synced, pool, made>>,
         \A c \in Client : /\ Present(c)' <=> Present(c)
                           /\ conn'[c] \in {"on", "leaving", "handled"} => conn[c] \in {"on", "leaving", "handled"} \/ synced[c] = {}
                           /\ conn'[c] = "new" => conn[c] = "new",
         NEW k \in Nat,
         \A n \in DOMAIN fromNet' :
           n \in Nat /\ n + k \in DOMAIN fromNet /\ fromNet'[n] = fromNet[n + k],
         \A i \in Id : Untouched(i)
  PROVE  Uniques' /\ Relevant' /\ (~raced' => Ids' /\ Tokens')
<1>0. \A n \in DOMAIN fromNet' : fromNet'[n].from \in Client
  <2>1. fromNet \in Seq(Packets)
    BY DEF Inv, TypeOK
  <2>2. \A n \in DOMAIN fromNet : fromNet[n] \in Packets
    BY <2>1
  <2> QED
    BY <2>2, MessageFacts
<1>1. Uniques'
  BY UniquesKept DEF Inv, Untouched
<1>2. Relevant'
  BY <1>0, RelevantKept DEF Inv, Exists, Untouched
<1>3. ASSUME ~raced' PROVE Ids' /\ Tokens'
  <2>0. Ids /\ Tokens
    BY <1>3 DEF Inv
  <2>1. Ids'
    BY <2>0, IdsKept DEF Same, Untouched
  <2>2. Tokens'
    <3>1. ASSUME NEW c \in Client, NEW i \in Id, Present(c)',
                 i \in pool[c] \/ \E n \in DOMAIN fromNet' : Creates(n, c, i)'
          PROVE  MayReuse(c, i)' /\ (Exists(i)' => Exists(i))
      <4>1. Token(c, i)
        BY <3>1 DEF Token, Creates
      <4>2. MayReuse(c, i) /\ Holds(c, i)
        BY <2>0, <3>1, <4>1, TokenFacts
      <4>3. Holds(c, i)'
        BY <3>1, <4>2 DEF Holds, Present, BeingTaken
      <4>4. (InHand(i)' <=> InHand(i)) /\ (Exists(i)' <=> Exists(i))
        BY DEF InHand, NoEntity, Untouched, Exists
      <4>5. Exists(i)' \/ InHand(i)' => i \notin stolen'
        BY <4>2, <4>4 DEF MayReuse
      <4> QED
        BY <4>2, <4>3, <4>4, <4>5, MayReuseKept DEF Same, Untouched
    <3> QED
      BY <2>0, <3>1, TokensKept
  <2> QED
    BY <2>1, <2>2
<1> QED
  BY <1>1, <1>2, <1>3

\* Steps that take tasks from the queue of the main thread's, and touch no
\* entity that a queue is about.
LEMMA QuietTasks ==
  ASSUME Inv, TypeOK', raced => raced', mainQueue' = mainQueue,
         \A c \in Client : conn[c] \in {"leaving", "dropped"} => conn'[c] \in {"leaving", "dropped"},
         NEW k \in Nat,
         \A n \in DOMAIN fromMain' :
           n \in Nat /\ n + k \in DOMAIN fromMain /\ fromMain'[n] = fromMain[n + k],
         \A i \in Id : Exists(i) => entity'[i].uniq = entity[i].uniq
                                      /\ (entity[i].finalizing => entity'[i].finalizing)
  PROVE  Drops' /\ (~raced' => Announced' /\ Removals')
<1>0. mainQueue \in Seq(Announcements) /\ fromMain' \in Seq(Posted)
  BY DEF Inv, TypeOK, Uniqifier, Id, Posted, Announcements
<1>1. \A n \in DOMAIN fromMain' : fromMain'[n] \in Posted
  BY <1>0
<1>2. Drops'
  BY <1>1, DropsKept, MessageFacts DEF Inv
<1>3. ASSUME ~raced' PROVE Announced' /\ Removals'
  <2>1. \A i \in Id, u \in Uniqifier : Kept(i, u)
    BY MaxEntityAssumption DEF Exists, Uniqifier, Kept
  <2>2. \A n \in DOMAIN mainQueue : mainQueue[n] \in Announcements
    BY <1>0
  <2>3. \A n \in DOMAIN mainQueue : Kept(mainQueue[n].id, mainQueue[n].uniq)
    BY <2>1, <2>2, MessageFacts
  <2>4. \A n \in DOMAIN fromMain' :
          Filter(n)' \/ fromMain'[n].op = "doRemove" => Kept(fromMain'[n].id, fromMain'[n].uniq)
    BY <2>1, <1>1, MessageFacts DEF Filter
  <2>5. Announced /\ Removals
    BY <1>3 DEF Inv
  <2> QED
    BY <2>3, <2>4, <2>5, TasksKept
<1> QED
  BY <1>2, <1>3

\* The sets of messages and entities are constants.
LEMMA ConstantSets ==
  /\ Id' = Id /\ Uniqifier' = Uniqifier /\ Packets' = Packets /\ Posted' = Posted
  /\ Entities' = Entities /\ NoEntity' = NoEntity /\ Announcements' = Announcements
  BY DEF Id, Uniqifier, Packets, Posted, Entities, NoEntity, Announcements

\* A client connects.
LEMMA ConnectInv == ASSUME Inv, NEW c \in Client, Connect(c) PROVE Inv'
<1>0. TypeOK /\ Relevant
  BY DEF Inv
<1>1. /\ conn[c] = "new" /\ conn' = [conn EXCEPT ![c] = "on"] /\ granting' = c
      /\ UNCHANGED <<sent, used, stolen, objectIds, entity, synced, pool, marking, creating, freeing, made,
                     mainQueue, fromMain, fromNet, raced, lost>>
  BY DEF Connect, idVars, entityVars, queueVars
<1>2. TypeOK'
  BY <1>0, <1>1, ConstantSets DEF TypeOK, Exists
<1>3. \A d \in Client : conn'[d] = IF d = c THEN "on" ELSE conn[d]
  BY <1>0, <1>1 DEF TypeOK
<1>4. \A d \in Client : /\ Present(d)' <=> Present(d)
                        /\ conn'[d] \in {"on", "leaving", "handled"}
                             => conn[d] \in {"on", "leaving", "handled"} \/ synced[d] = {}
                        /\ conn'[d] = "new" => conn[d] = "new"
                        /\ conn[d] \in {"leaving", "dropped"} => conn'[d] \in {"leaving", "dropped"}
  BY <1>0, <1>1, <1>3 DEF Present, Handled, Relevant
<1>5. \A i \in Id : Untouched(i)
  BY <1>1 DEF Untouched, Same
<1>6. /\ \A n \in DOMAIN fromNet' :
           n \in Nat /\ n + 0 \in DOMAIN fromNet /\ fromNet'[n] = fromNet[n + 0]
      /\ \A n \in DOMAIN fromMain' :
           n \in Nat /\ n + 0 \in DOMAIN fromMain /\ fromMain'[n] = fromMain[n + 0]
  BY <1>0, <1>1, SameQueue DEF TypeOK
<1>7. Uniques' /\ Relevant' /\ (~raced' => Ids' /\ Tokens')
  BY <1>1, <1>2, <1>4, <1>5, <1>6, QuietInv
<1>8. Drops' /\ (~raced' => Announced' /\ Removals')
  BY <1>1, <1>2, <1>4, <1>6, QuietTasks
<1> QED
  BY <1>2, <1>7, <1>8 DEF Inv

\* Steps that post a drop or a script's deletion to the sync thread.
LEMMA PostedTasks ==
  ASSUME Inv, UNCHANGED <<entity, mainQueue, raced>>,
         NEW x \in Posted, fromMain' = Append(fromMain, x),
         x.op = "drop" \/ (x.op = "delete" /\ x.by = "script"),
         \A c \in Client : conn[c] \in {"leaving", "dropped"} => conn'[c] \in {"leaving", "dropped"},
         x.op = "drop" => conn[x.from] \notin {"leaving", "dropped"} /\ conn'[x.from] \in {"leaving", "dropped"}
  PROVE  Drops' /\ (~raced' => Announced' /\ Removals')
<1> DEFINE N == Len(fromMain) + 1
<1>0. fromMain \in Seq(Posted)
  BY DEF Inv, TypeOK
<1>1. /\ \A n \in DOMAIN fromMain : n \in DOMAIN fromMain' /\ fromMain'[n] = fromMain[n]
      /\ \A n \in DOMAIN fromMain' : n \in DOMAIN fromMain \/ n = N
      /\ fromMain'[N] = x
      /\ \A n \in DOMAIN fromMain : fromMain[n] \in Posted
  BY <1>0, AppendFacts
<1> HIDE DEF N
<1>2. Drops'
  <2>0. Drops
    BY DEF Inv
  <2>1. \A n \in DOMAIN fromMain : fromMain[n].op = "drop" =>
          fromMain[n].from \in Client /\ conn[fromMain[n].from] \in {"leaving", "dropped"}
    BY <1>1, <2>0, MessageFacts DEF Drops
  <2>2. ASSUME NEW n \in DOMAIN fromMain', fromMain'[n].op = "drop"
        PROVE  conn'[fromMain'[n].from] \in {"leaving", "dropped"}
    BY <1>1, <2>1, <2>2
  <2>3. ASSUME NEW n \in DOMAIN fromMain', fromMain'[n].op = "drop",
               NEW m \in DOMAIN fromMain', fromMain'[m].op = "drop", fromMain'[m].from = fromMain'[n].from
        PROVE  m = n
    <3>1. CASE n \in DOMAIN fromMain /\ m \in DOMAIN fromMain
      BY <1>1, <2>0, <2>3, <3>1 DEF Drops
    <3>2. CASE n \in DOMAIN fromMain /\ m = N
      BY <1>1, <2>1, <2>3, <3>2
    <3>3. CASE n = N /\ m \in DOMAIN fromMain
      BY <1>1, <2>1, <2>3, <3>3
    <3> QED
      BY <1>1, <3>1, <3>2, <3>3
  <2> QED
    BY <2>2, <2>3 DEF Drops
<1>3. ASSUME ~raced' PROVE Announced' /\ Removals'
  <2>0. Announced /\ Removals
    BY <1>3 DEF Inv
  <2>1. \A n \in DOMAIN fromMain' : Filter(n)' \/ fromMain'[n].op = "doRemove" => n \in DOMAIN fromMain
    BY <1>1 DEF Filter
  <2>2. \A n \in DOMAIN fromMain : fromMain'[n] = fromMain[n] /\ (Filter(n)' <=> Filter(n))
    BY <1>1 DEF Filter
  <2>3. Announced'
    BY <2>0, <2>1, <2>2 DEF Announced
  <2>4. ASSUME NEW n \in DOMAIN mainQueue', mainQueue'[n].op = "removed"
        PROVE  /\ Finalizing(mainQueue[n])'
               /\ \A m \in DOMAIN mainQueue' :
                    mainQueue'[m].id = mainQueue'[n].id => m = n \/ (m < n /\ mainQueue'[m].op = "creating")
    BY <2>0, <2>4 DEF Removals, Finalizing
  <2>5. ASSUME NEW n \in DOMAIN fromMain', fromMain'[n].op = "doRemove"
        PROVE  /\ Finalizing(fromMain[n])'
               /\ \A m \in DOMAIN mainQueue' : mainQueue'[m].id # fromMain'[n].id
               /\ \A m \in DOMAIN fromMain' :
                    /\ fromMain'[m].op = "doRemove" /\ fromMain'[m].id = fromMain'[n].id => m = n
                    /\ Filter(m)' /\ fromMain'[m].id = fromMain'[n].id => m < n
    <3>1. n \in DOMAIN fromMain /\ fromMain'[n] = fromMain[n]
      BY <2>1, <2>2, <2>5
    <3>2. Finalizing(fromMain[n])'
      BY <2>0, <2>5, <3>1 DEF Removals, Finalizing
    <3> QED
      BY <2>0, <2>1, <2>2, <2>5, <3>1, <3>2 DEF Removals
  <2>6. Removals'
    BY <2>4, <2>5 DEF Removals
  <2> QED
    BY <2>3, <2>6
<1> QED
  BY <1>2, <1>3

\* OnDrop posts the drop of a client.
LEMMA DropClientInv == ASSUME Inv, NEW c \in Client, DropClient(c) PROVE Inv'
<1> DEFINE x == [op |-> "drop", from |-> c]
<1>0. TypeOK
  BY DEF Inv
<1>1. /\ conn[c] = "on" /\ conn' = [conn EXCEPT ![c] = "leaving"] /\ fromMain' = Append(fromMain, x)
      /\ UNCHANGED <<granting, sent, used, stolen, objectIds, entity, synced, pool, marking, creating, freeing, made,
                     mainQueue, fromNet, raced, lost>>
  BY DEF DropClient, PostFromMain, idVars, entityVars, queueVars
<1>2. x \in Posted /\ x.op = "drop" /\ x.from = c
  BY DEF Posted
<1> HIDE DEF x
<1>3. fromMain' \in Seq(Posted)
  BY <1>0, <1>1, <1>2, AppendFacts DEF TypeOK
<1>4. TypeOK'
  BY <1>0, <1>1, <1>3, ConstantSets DEF TypeOK, Exists
<1>5. \A d \in Client : conn'[d] = IF d = c THEN "leaving" ELSE conn[d]
  BY <1>0, <1>1 DEF TypeOK
<1>6. \A d \in Client : /\ Present(d)' <=> Present(d)
                        /\ conn'[d] \in {"on", "leaving", "handled"}
                             => conn[d] \in {"on", "leaving", "handled"} \/ synced[d] = {}
                        /\ conn'[d] = "new" => conn[d] = "new"
                        /\ conn[d] \in {"leaving", "dropped"} => conn'[d] \in {"leaving", "dropped"}
  BY <1>1, <1>5 DEF Present, Handled
<1>7. \A i \in Id : Untouched(i)
  BY <1>1 DEF Untouched, Same
<1>8. \A n \in DOMAIN fromNet' :
        n \in Nat /\ n + 0 \in DOMAIN fromNet /\ fromNet'[n] = fromNet[n + 0]
  BY <1>0, <1>1, SameQueue DEF TypeOK
<1>9. Uniques' /\ Relevant' /\ (~raced' => Ids' /\ Tokens')
  BY <1>1, <1>4, <1>6, <1>7, <1>8, QuietInv
<1>10. Drops' /\ (~raced' => Announced' /\ Removals')
  <2>1. conn[x.from] \notin {"leaving", "dropped"} /\ conn'[x.from] \in {"leaving", "dropped"}
    BY <1>1, <1>2, <1>5
  <2> QED
    BY <1>1, <1>2, <1>6, <2>1, PostedTasks
<1> QED
  BY <1>4, <1>9, <1>10 DEF Inv

\* A script deletes an entity.
LEMMA DeleteEntityInv == ASSUME Inv, NEW i \in Id, DeleteEntity(i) PROVE Inv'
<1> DEFINE x == [op |-> "delete", id |-> i, uniq |-> entity[i].uniq, by |-> "script"]
<1>0. TypeOK
  BY DEF Inv
<1>1. /\ Exists(i) /\ fromMain' = Append(fromMain, x)
      /\ UNCHANGED <<conn, granting, sent, used, stolen, objectIds, entity, synced, pool, marking, creating, freeing, made,
                     mainQueue, fromNet, raced, lost>>
  BY DEF DeleteEntity, PostFromMain, idVars, entityVars, queueVars
<1>2. x \in Posted /\ x.op = "delete" /\ x.by = "script"
  <2>1. entity[i].uniq \in Uniqifier
    BY <1>0, <1>1, ExistsFacts
  <2> QED
    BY <2>1 DEF Posted
<1> HIDE DEF x
<1>3. fromMain' \in Seq(Posted)
  BY <1>0, <1>1, <1>2, AppendFacts DEF TypeOK
<1>4. TypeOK'
  BY <1>0, <1>1, <1>3, ConstantSets DEF TypeOK, Exists
<1>5. \A d \in Client : Present(d)' <=> Present(d)
  BY <1>1 DEF Present, Handled
<1>6. \A j \in Id : Untouched(j)
  BY <1>1 DEF Untouched, Same
<1>7. \A n \in DOMAIN fromNet' :
        n \in Nat /\ n + 0 \in DOMAIN fromNet /\ fromNet'[n] = fromNet[n + 0]
  BY <1>0, <1>1, SameQueue DEF TypeOK
<1>8. Uniques' /\ Relevant' /\ (~raced' => Ids' /\ Tokens')
  BY <1>1, <1>4, <1>5, <1>6, <1>7, QuietInv
<1>9. Drops' /\ (~raced' => Announced' /\ Removals')
  <2>1. PICK y \in Posted : y = x
    BY <1>2
  <2> QED
    BY <1>1, <1>2, <2>1, PostedTasks
<1> QED
  BY <1>4, <1>8, <1>9 DEF Inv

\* The main thread takes the first announcement and may post x about its entity.
LEMMA MainTasks ==
  ASSUME Announced, Removals, Drops, conn' = conn, entity' = entity,
         1 \in DOMAIN mainQueue,
         \A n \in DOMAIN mainQueue' :
           n \in Nat /\ n + 1 \in DOMAIN mainQueue /\ mainQueue'[n] = mainQueue[n + 1] /\ n + 1 # 1,
         NEW N \in Nat, \A n \in DOMAIN fromMain : n < N /\ n # N,
         NEW x, x.id = mainQueue[1].id, x.uniq = mainQueue[1].uniq,
         \/ x.op = "delete" /\ x.by = "filter" /\ mainQueue[1].op = "creating"
         \/ x.op = "doRemove" /\ mainQueue[1].op = "removed",
         \A n \in DOMAIN fromMain' : \/ n \in DOMAIN fromMain /\ fromMain'[n] = fromMain[n]
                                     \/ n = N /\ fromMain'[n] = x
  PROVE  Announced' /\ Removals'
<1>1. entity[x.id].uniq = x.uniq
  BY DEF Announced
<1>2. \A n \in DOMAIN fromMain' : n \in DOMAIN fromMain => (fromMain'[n] = fromMain[n] /\ (Filter(n)' <=> Filter(n)))
  BY DEF Filter
<1>3. Announced'
  <2>1. \A n \in DOMAIN mainQueue' : entity'[mainQueue'[n].id].uniq = mainQueue'[n].uniq
    BY DEF Announced
  <2>2. ASSUME NEW n \in DOMAIN fromMain', Filter(n)'
        PROVE  entity'[fromMain'[n].id].uniq = fromMain'[n].uniq
    <3>1. CASE n \in DOMAIN fromMain
      BY <1>2, <2>2, <3>1 DEF Announced
    <3>2. CASE n = N /\ fromMain'[n] = x
      BY <1>1, <3>2
    <3> QED
      BY <3>1, <3>2
  <2> QED
    BY <2>1, <2>2 DEF Announced
<1>4. ASSUME NEW n \in DOMAIN mainQueue', mainQueue'[n].op = "removed"
      PROVE  /\ Finalizing(mainQueue[n])'
             /\ \A m \in DOMAIN mainQueue' :
                  mainQueue'[m].id = mainQueue'[n].id => m = n \/ (m < n /\ mainQueue'[m].op = "creating")
  <2>1. n \in Nat /\ n + 1 \in DOMAIN mainQueue /\ mainQueue'[n] = mainQueue[n + 1]
    OBVIOUS
  <2>2. /\ Finalizing(mainQueue[n + 1])
        /\ \A m \in DOMAIN mainQueue : mainQueue[m].id = mainQueue[n + 1].id
             => m = n + 1 \/ (m < n + 1 /\ mainQueue[m].op = "creating")
    BY <1>4, <2>1 DEF Removals
  <2>3. Finalizing(mainQueue[n])'
    BY <2>1, <2>2 DEF Finalizing
  <2>4. ASSUME NEW m \in DOMAIN mainQueue', mainQueue'[m].id = mainQueue'[n].id
        PROVE  m = n \/ (m < n /\ mainQueue'[m].op = "creating")
    <3>1. m \in Nat /\ m + 1 \in DOMAIN mainQueue /\ mainQueue'[m] = mainQueue[m + 1]
      OBVIOUS
    <3>2. m + 1 = n + 1 \/ (m + 1 < n + 1 /\ mainQueue'[m].op = "creating")
      BY <2>1, <2>2, <2>4, <3>1
    <3> QED
      BY <2>1, <3>1, <3>2
  <2> QED
    BY <2>3, <2>4
<1>5. ASSUME NEW n \in DOMAIN fromMain', fromMain'[n].op = "doRemove"
      PROVE  /\ Finalizing(fromMain[n])'
             /\ \A m \in DOMAIN mainQueue' : mainQueue'[m].id # fromMain'[n].id
             /\ \A m \in DOMAIN fromMain' :
                  /\ fromMain'[m].op = "doRemove" /\ fromMain'[m].id = fromMain'[n].id => m = n
                  /\ Filter(m)' /\ fromMain'[m].id = fromMain'[n].id => m < n
  <2>1. CASE n \in DOMAIN fromMain
    <3>1. fromMain'[n] = fromMain[n]
      BY <1>2, <2>1
    <3>2. /\ Finalizing(fromMain[n])
          /\ \A m \in DOMAIN mainQueue : mainQueue[m].id # fromMain[n].id
          /\ \A m \in DOMAIN fromMain :
                  /\ fromMain[m].op = "doRemove" /\ fromMain[m].id = fromMain[n].id => m = n
                  /\ Filter(m) /\ fromMain[m].id = fromMain[n].id => m < n
      BY <1>5, <2>1, <3>1 DEF Removals
    <3>3. Finalizing(fromMain[n])'
      BY <3>1, <3>2 DEF Finalizing
    <3>4. x.id # fromMain[n].id
      BY <3>2
    <3>5. \A m \in DOMAIN mainQueue' : mainQueue'[m].id # fromMain'[n].id
      BY <3>1, <3>2
    <3>6. ASSUME NEW m \in DOMAIN fromMain', fromMain'[m].id = fromMain'[n].id
          PROVE  m \in DOMAIN fromMain /\ fromMain'[m] = fromMain[m] /\ (Filter(m)' <=> Filter(m))
      BY <1>2, <3>1, <3>4, <3>6
    <3> QED
      BY <3>1, <3>2, <3>3, <3>5, <3>6
  <2>2. CASE n = N /\ fromMain'[n] = x
    <3>1. x.op = "doRemove" /\ mainQueue[1].op = "removed"
      BY <1>5, <2>2
    <3>2. /\ Finalizing(mainQueue[1])
          /\ \A m \in DOMAIN mainQueue : mainQueue[m].id = mainQueue[1].id => m = 1 \/ m < 1
      BY <3>1 DEF Removals
    <3>3. Finalizing(fromMain[n])'
      BY <2>2, <3>2 DEF Finalizing
    <3>4. ASSUME NEW m \in DOMAIN mainQueue' PROVE mainQueue'[m].id # x.id
      <4>1. m \in Nat /\ m + 1 \in DOMAIN mainQueue /\ mainQueue'[m] = mainQueue[m + 1] /\ m + 1 # 1
        OBVIOUS
      <4>2. ~(m + 1 < 1)
        BY <4>1
      <4> QED
        BY <3>2, <4>1, <4>2
    <3>5. ASSUME NEW m \in DOMAIN fromMain', fromMain'[m].id = fromMain'[n].id, fromMain'[m].op = "doRemove"
          PROVE  m = n
      <4>1. CASE m \in DOMAIN fromMain
        <5>1. fromMain[m].op = "doRemove" /\ fromMain[m].id = x.id
          BY <1>2, <2>2, <3>5, <4>1
        <5>2. mainQueue[1].id # fromMain[m].id
          BY <4>1, <5>1 DEF Removals
        <5> QED
          BY <5>1, <5>2
      <4> QED
        BY <2>2, <4>1
    <3>6. ASSUME NEW m \in DOMAIN fromMain', Filter(m)' PROVE m < n
      <4>1. m # N
        BY <3>1, <2>2, <3>6 DEF Filter
      <4> QED
        BY <2>2, <4>1
    <3> QED
      BY <2>2, <3>3, <3>4, <3>5, <3>6
  <2> QED
    BY <2>1, <2>2
<1> QED
  BY <1>3, <1>4, <1>5 DEF Removals

\* The main thread triggers entityCreating or entityRemoved.
LEMMA RunMainInv == ASSUME Inv, RunMain PROVE Inv'
<1> DEFINE m == Head(mainQueue)
           y == [op |-> "delete", id |-> m.id, uniq |-> m.uniq, by |-> "filter"]
           z == [op |-> "doRemove", id |-> m.id, uniq |-> m.uniq]
<1>0. TypeOK /\ mainQueue \in Seq(Announcements) /\ fromMain \in Seq(Posted)
  BY DEF Inv, TypeOK, Announcements
<1>1. /\ mainQueue # <<>> /\ mainQueue' = Tail(mainQueue)
      /\ \/ m.op = "creating" /\ fromMain' = fromMain
         \/ m.op = "creating" /\ fromMain' = Append(fromMain, y)
         \/ m.op = "removed" /\ fromMain' = Append(fromMain, z)
      /\ UNCHANGED <<conn, granting, sent, used, stolen, objectIds, entity, synced, pool, marking, creating, freeing, made,
                     fromNet, raced, lost>>
  BY DEF RunMain, idVars, entityVars, queueVars
<1>2. /\ m \in Announcements /\ m = mainQueue[1] /\ 1 \in DOMAIN mainQueue
      /\ mainQueue' \in Seq(Announcements)
      /\ \A n \in DOMAIN mainQueue' :
           n \in Nat /\ n + 1 \in DOMAIN mainQueue /\ mainQueue'[n] = mainQueue[n + 1] /\ n + 1 # 1
  BY <1>0, <1>1, TailFacts
<1>3. m.id \in Id /\ m.uniq \in Uniqifier
  BY <1>2, MessageFacts
<1> HIDE DEF m
<1>4. /\ y \in Posted /\ y.op = "delete" /\ y.by = "filter" /\ y.id = m.id /\ y.uniq = m.uniq
      /\ z \in Posted /\ z.op = "doRemove" /\ z.id = m.id /\ z.uniq = m.uniq
  BY <1>3 DEF Posted
<1> HIDE DEF y, z
<1>5. PICK x \in Posted :
         /\ x.id = m.id /\ x.uniq = m.uniq
         /\ \/ x.op = "delete" /\ x.by = "filter" /\ m.op = "creating"
            \/ x.op = "doRemove" /\ m.op = "removed"
         /\ fromMain' = fromMain \/ fromMain' = Append(fromMain, x)
  BY <1>1, <1>4
<1>6. fromMain' \in Seq(Posted)
  BY <1>0, <1>5, AppendFacts
<1>7. TypeOK'
  <2>1. mainQueue' \in Seq([op : {"creating", "removed"}, id : Id, uniq : Uniqifier])
    BY <1>2 DEF Announcements
  <2> QED
    BY <1>0, <1>1, <1>6, <2>1, ConstantSets DEF TypeOK, Exists
<1>8. \A d \in Client : Present(d)' <=> Present(d)
  BY <1>1 DEF Present, Handled
<1>9. \A j \in Id : Untouched(j)
  BY <1>1 DEF Untouched, Same
<1>10. \A n \in DOMAIN fromNet' :
        n \in Nat /\ n + 0 \in DOMAIN fromNet /\ fromNet'[n] = fromNet[n + 0]
  BY <1>0, <1>1, SameQueue DEF TypeOK
<1>11. Uniques' /\ Relevant' /\ (~raced' => Ids' /\ Tokens')
  BY <1>1, <1>7, <1>8, <1>9, <1>10, QuietInv
<1>12. PICK N \in Nat :
          /\ \A n \in DOMAIN fromMain : n < N /\ n # N
          /\ \A n \in DOMAIN fromMain' : \/ n \in DOMAIN fromMain /\ fromMain'[n] = fromMain[n]
                                         \/ n = N /\ fromMain'[n] = x
  <2>1. Len(fromMain) + 1 \in Nat
    BY <1>0
  <2>2. /\ \A n \in DOMAIN fromMain : n < Len(fromMain) + 1 /\ n # Len(fromMain) + 1
        /\ \A n \in DOMAIN fromMain' : \/ n \in DOMAIN fromMain /\ fromMain'[n] = fromMain[n]
                                       \/ n = Len(fromMain) + 1 /\ fromMain'[n] = x
    BY <1>0, <1>5, AppendFacts
  <2> QED
    BY <2>1, <2>2
<1>13. Drops'
  BY <1>1, <1>5, <1>12 DEF Inv, Drops
<1>14. ASSUME ~raced' PROVE Announced' /\ Removals'
  <2>1. Announced /\ Removals /\ Drops
    BY <1>1, <1>14 DEF Inv
  <2>2. /\ x.id = mainQueue[1].id /\ x.uniq = mainQueue[1].uniq
        /\ \/ x.op = "delete" /\ x.by = "filter" /\ mainQueue[1].op = "creating"
           \/ x.op = "doRemove" /\ mainQueue[1].op = "removed"
    BY <1>2, <1>5
  <2> QED
    BY <1>1, <1>2, <1>12, <2>1, <2>2, MainTasks
<1> QED
  BY <1>7, <1>11, <1>13, <1>14 DEF Inv

\* A free id has no entity and no holder.
LEMMA FreeFacts ==
  ASSUME Ids, NEW i \in Free
  PROVE  /\ i \in Id /\ ~Exists(i) /\ ~InHand(i) /\ i \notin sent /\ i \notin used
         /\ \A c \in Client : ~Holds(c, i)
<1>1. i \in Id /\ i \notin sent /\ i \notin used
  BY DEF Free
<1>2. IdOK(i)
  BY <1>1 DEF Ids
<1> QED
  BY <1>1, <1>2 DEF IdOK, Carried, Handed, Idle

\* GetFreeObjectIds lends an id that nobody has.
LEMMA LendInv ==
  ASSUME Inv, NEW c \in Client, GetFreeObjectIds(c),
         UNCHANGED <<conn, used, stolen, entity, synced, marking, creating, freeing, made>>,
         NEW k \in Nat,
         \A n \in DOMAIN fromNet' :
           n \in Nat /\ n + k \in DOMAIN fromNet /\ fromNet'[n] = fromNet[n + k]
  PROVE  /\ sent' \subseteq Id /\ lost' \subseteq Id
         /\ objectIds' \in [Client -> SUBSET Id] /\ pool' \in [Client -> SUBSET Id]
         /\ raced' \in BOOLEAN /\ (raced => raced')
         /\ ~raced' => Ids' /\ Tokens'
<1>0. /\ raced \in BOOLEAN
      /\ sent \subseteq Id /\ lost \subseteq Id
      /\ objectIds \in [Client -> SUBSET Id] /\ pool \in [Client -> SUBSET Id]
  BY DEF Inv, TypeOK
<1>1. CASE UNCHANGED <<sent, objectIds, pool, raced, lost>>
  <2>1. ASSUME ~raced' PROVE Ids' /\ Tokens'
    <3>0. Ids /\ Tokens
      BY <1>1, <2>1 DEF Inv
    <3>1. \A d \in Client : Present(d)' <=> Present(d)
      BY DEF Present, Handled
    <3>2. Ids'
      BY <1>1, <3>0, <3>1, IdsKept
    <3>3. ASSUME NEW d \in Client, NEW j \in Id, Present(d)',
                 j \in pool[d] \/ \E n \in DOMAIN fromNet' : Creates(n, d, j)'
          PROVE  MayReuse(d, j)' /\ (Exists(j)' => Exists(j))
      <4>1. Token(d, j)
        BY <3>3 DEF Token, Creates
      <4>2. MayReuse(d, j)
        BY <3>0, <3>1, <3>3, <4>1, TokenFacts
      <4> QED
        BY <1>1, <4>2 DEF MayReuse, Holds, Handled, BeingTaken, Exists, InHand, NoEntity
    <3>4. Tokens'
      BY <1>1, <3>0, <3>1, <3>3, TokensKept
    <3> QED
      BY <3>2, <3>4
  <2> QED
    BY <1>0, <1>1, <2>1
<1>2. CASE ~UNCHANGED <<sent, objectIds, pool, raced, lost>>
  <2>1. PICK i \in Free :
           /\ sent' = sent \cup {i}
           /\ objectIds' = [objectIds EXCEPT ![c] = @ \cup {i}]
           /\ pool' = [pool EXCEPT ![c] = @ \cup {i}]
           /\ lost' = IF Handled(c) THEN lost \cup {i} ELSE lost
           /\ raced' = (raced \/ BeingTaken(c, i))
    BY <1>2, FreeId DEF GetFreeObjectIds
  <2>2. i \in Id
    BY DEF Free
  <2>3. /\ sent' \subseteq Id /\ lost' \subseteq Id
        /\ objectIds' \in [Client -> SUBSET Id] /\ pool' \in [Client -> SUBSET Id]
    BY <1>0, <2>1, <2>2
  <2>5. raced' \in BOOLEAN /\ (raced => raced')
    BY <1>0, <2>1 DEF BeingTaken
  <2>4. ASSUME ~raced' PROVE Ids' /\ Tokens'
    <3>0. Ids /\ Tokens
      BY <2>1, <2>4 DEF Inv
    <3>1. ~Exists(i) /\ ~InHand(i) /\ i \notin sent /\ i \notin used /\ \A d \in Client : ~Holds(d, i)
      BY <3>0, FreeFacts
    <3>2. \A d \in Client : Present(d)' <=> Present(d)
      BY DEF Present, Handled
    <3>3. \A d \in Client, j \in Id : Holds(d, j)' <=> (Holds(d, j) \/ (d = c /\ j = i /\ Present(c)))
      <4>1. ~BeingTaken(c, i)
        BY <2>1, <2>4
      <4>2. \A d \in Client, j \in Id : BeingTaken(d, j)' <=> BeingTaken(d, j)
        BY DEF BeingTaken
      <4>3. \A d \in Client, j \in Id : j \in objectIds'[d] <=> (j \in objectIds[d] \/ (d = c /\ j = i))
        BY <1>0, <2>1
      <4> QED
        BY <3>2, <4>1, <4>2, <4>3 DEF Holds, Present
    <3>4. \A d \in Client, j \in Id : j \in pool'[d] /\ j \notin pool[d] => d = c /\ j = i
      BY <1>0, <2>1
    <3>5. \A j \in Id : (Exists(j)' <=> Exists(j)) /\ (InHand(j)' <=> InHand(j))
      BY DEF Exists, InHand, NoEntity
    <3>6. ASSUME NEW j \in Id PROVE IdOK(j)'
      <4>1. IdOK(j)
        BY <3>0 DEF Ids
      <4>2. CASE j # i
        BY <2>1, <3>2, <3>3, <3>5, <4>1, <4>2, IdKept
      <4>3. CASE j = i
        <5>1. Idle(i)
          BY <4>1, <4>3, <3>1 DEF IdOK
        <5>2. Idle(i)'
          <6>1. i \notin used' /\ i \notin stolen' /\ marking' # i /\ i \in sent'
            BY <2>1, <5>1 DEF Idle
          <6>2. \A d \in Client : Holds(d, i)' <=> (d = c /\ Present(c))
            BY <2>2, <3>1, <3>3
          <6>3. i \notin lost' => Present(c)
            BY <2>1 DEF Present
          <6> QED
            BY <6>1, <6>2, <6>3 DEF Idle
        <5> QED
          BY <3>1, <3>5, <4>3, <5>2 DEF IdOK
      <4> QED
        BY <4>2, <4>3
    <3>7. Ids'
      BY <3>6, ConstantSets DEF Ids
    <3>8. ASSUME NEW d \in Client, NEW j \in Id, Present(d)',
                 j \in pool[d] \/ \E n \in DOMAIN fromNet' : Creates(n, d, j)'
          PROVE  MayReuse(d, j)' /\ (Exists(j)' => Exists(j))
      <4>1. Token(d, j)
        BY <3>8 DEF Token, Creates
      <4>2. MayReuse(d, j) /\ Holds(d, j)
        BY <3>0, <3>2, <3>8, <4>1, TokenFacts
      <4>3. Holds(d, j)'
        BY <3>3, <4>2
      <4>4. Exists(j)' \/ InHand(j)' => j \notin stolen'
        BY <3>5, <4>2 DEF MayReuse
      <4> QED
        BY <3>5, <4>2, <4>3, <4>4, MayReuseKept
    <3>9. ASSUME NEW d \in Client, NEW j \in Id, Present(d)', j \in pool'[d], j \notin pool[d]
          PROVE  /\ MayReuse(d, j)'
                 /\ \A n \in DOMAIN fromNet' : ~Creates(n, d, j)' /\ ~(Exists(j)' /\ Gives(n, d, j)')
      <4>1. d = c /\ j = i
        BY <3>4, <3>9
      <4>2. MayReuse(d, j)' /\ ~Exists(j)'
        BY <3>1, <3>2, <3>3, <3>5, <3>9, <4>1 DEF MayReuse
      <4>3. ASSUME NEW n \in DOMAIN fromNet', Creates(n, d, j)' PROVE FALSE
        <5>1. Token(d, j)
          BY <4>3 DEF Token, Creates
        <5> QED
          BY <3>0, <3>1, <3>2, <3>9, <4>1, <5>1, TokenFacts
      <4> QED
        BY <4>2, <4>3
    <3>10. Tokens'
      BY <3>0, <3>2, <3>8, <3>9, TokensKept
    <3> QED
      BY <3>7, <3>10
  <2> QED
    BY <2>3, <2>4, <2>5
<1> QED
  BY <1>1, <1>2

\* Uniques and Relevant after a step that only lends an id.
LEMMA LendRest ==
  ASSUME Inv, UNCHANGED <<conn, entity, synced, creating, made>>,
         NEW k \in Nat,
         \A n \in DOMAIN fromNet' :
           n \in Nat /\ n + k \in DOMAIN fromNet /\ fromNet'[n] = fromNet[n + k]
  PROVE  Uniques' /\ Relevant'
<1>1. Uniques'
  BY UniquesKept DEF Inv
<1>2. Relevant'
  BY RelevantKept DEF Inv
<1> QED
  BY <1>1, <1>2

\* The net thread lends a client its first ids.
LEMMA GrantFirstIdsInv == ASSUME Inv, GrantFirstIds PROVE Inv'
<1>0. TypeOK
  BY DEF Inv
<1>1. /\ granting # None /\ GetFreeObjectIds(granting) /\ granting' = None
      /\ UNCHANGED <<conn, used, stolen, entity, synced, marking, creating, freeing, made,
                     mainQueue, fromMain, fromNet>>
  BY DEF GrantFirstIds, queueVars
<1>2. PICK c \in Client : c = granting
  BY <1>0, <1>1 DEF TypeOK
<1>3. /\ \A n \in DOMAIN fromNet' :
           n \in Nat /\ n + 0 \in DOMAIN fromNet /\ fromNet'[n] = fromNet[n + 0]
      /\ \A n \in DOMAIN fromMain' :
           n \in Nat /\ n + 0 \in DOMAIN fromMain /\ fromMain'[n] = fromMain[n + 0]
  BY <1>0, <1>1, SameQueue DEF TypeOK
<1>4. /\ sent' \subseteq Id /\ lost' \subseteq Id
      /\ objectIds' \in [Client -> SUBSET Id] /\ pool' \in [Client -> SUBSET Id]
      /\ raced' \in BOOLEAN /\ (raced => raced')
      /\ ~raced' => Ids' /\ Tokens'
  BY <1>1, <1>2, <1>3, LendInv
<1>5. TypeOK'
  BY <1>0, <1>1, <1>4, ConstantSets DEF TypeOK, Exists
<1>6. Uniques' /\ Relevant'
  BY <1>1, <1>3, LendRest
<1>7. Drops' /\ (~raced' => Announced' /\ Removals')
  BY <1>1, <1>3, <1>4, <1>5, QuietTasks
<1> QED
  BY <1>4, <1>5, <1>6, <1>7 DEF Inv

\* An id is marked as used.
LEMMA MarkUsedInv == ASSUME Inv, MarkUsed PROVE Inv'
<1>0. TypeOK
  BY DEF Inv
<1>1. /\ marking # None /\ used' = used \cup {marking} /\ marking' = None
      /\ UNCHANGED <<conn, granting, sent, stolen, objectIds, entity, synced, pool, creating, freeing, made,
                     mainQueue, fromMain, fromNet, raced, lost>>
  BY DEF MarkUsed, queueVars
<1>2. /\ \A n \in DOMAIN fromNet' :
           n \in Nat /\ n + 0 \in DOMAIN fromNet /\ fromNet'[n] = fromNet[n + 0]
      /\ \A n \in DOMAIN fromMain' :
           n \in Nat /\ n + 0 \in DOMAIN fromMain /\ fromMain'[n] = fromMain[n + 0]
  BY <1>0, <1>1, SameQueue DEF TypeOK
<1>3. TypeOK'
  BY <1>0, <1>1, ConstantSets DEF TypeOK, Exists
<1>4. Uniques' /\ Relevant'
  BY <1>1, <1>2, LendRest
<1>5. Drops' /\ (~raced' => Announced' /\ Removals')
  BY <1>1, <1>2, <1>3, QuietTasks
<1>6. ASSUME ~raced' PROVE Ids' /\ Tokens'
  <2>0. Ids /\ Tokens
    BY <1>1, <1>6 DEF Inv
  <2>1. Tokens'
    BY <1>1, <2>0, ConstantSets DEF Tokens, MayReuse, Present, Handled, Holds, BeingTaken, Exists, InHand, NoEntity, Creates, Gives
  <2>2. ASSUME NEW i \in Id PROVE IdOK(i)'
    <3>1. IdOK(i) /\ (Exists(i)' <=> Exists(i)) /\ i # None
      BY <1>1, <2>0, MaxIdAssumption DEF Ids, Exists, Id
    <3>4. /\ (InHand(i)' <=> InHand(i)) /\ Hand(i)' = Hand(i)
          /\ \A c \in Client : (Holds(c, i)' <=> Holds(c, i)) /\ (Present(c)' <=> Present(c))
      BY <1>1 DEF InHand, NoEntity, Hand, Holds, BeingTaken, Present, Handled
    <3>2. CASE Exists(i)
      BY <1>1, <3>1, <3>2, <3>4 DEF IdOK, Carried
    <3>3. CASE ~Exists(i) /\ ~InHand(i)
      BY <1>1, <3>1, <3>3, <3>4 DEF IdOK, Idle
    <3>5. CASE ~Exists(i) /\ InHand(i)
      <4>1. Handed(i) /\ i # marking
        BY <3>1, <3>5 DEF IdOK, Handed
      <4> QED
        BY <1>1, <3>1, <3>4, <3>5, <4>1, IdKept
    <3> QED
      BY <3>2, <3>3, <3>5
  <2>3. Ids'
    BY <2>2, ConstantSets DEF Ids
  <2> QED
    BY <2>1, <2>3
<1> QED
  BY <1>3, <1>4, <1>5, <1>6 DEF Inv

\* The net thread posts the packet x of a connected client c.
LEMMA PostInv ==
  ASSUME Inv, NEW c \in Client, conn[c] \in {"on", "leaving", "handled"}, NEW x \in Packets, x.from = c,
         fromNet' = Append(fromNet, x),
         UNCHANGED <<conn, granting, sent, used, stolen, objectIds, entity, synced, marking, creating, freeing,
                     mainQueue, fromMain, raced, lost>>,
         \/ /\ x.op # "create" /\ UNCHANGED <<made, pool>>
            /\ x.op = "takeover" => entity[x.id].uniq \in synced[c]
         \/ /\ x.op = "create" /\ x.id \in pool[c] /\ x.uniq = made + 1
            /\ made < MaxEntity /\ made' = made + 1
            /\ pool' = [pool EXCEPT ![c] = @ \ {x.id}]
  PROVE  Inv'
<1> DEFINE N == Len(fromNet) + 1
<1>0. TypeOK /\ fromNet \in Seq(Packets) /\ made \in Nat /\ pool \in [Client -> SUBSET Id]
  BY MaxEntityAssumption DEF Inv, TypeOK
<1>1. /\ fromNet' \in Seq(Packets) /\ N \in Nat
      /\ \A n \in DOMAIN fromNet : n \in DOMAIN fromNet' /\ fromNet'[n] = fromNet[n] /\ n < N /\ n \in Nat /\ n # N
      /\ \A n \in DOMAIN fromNet' : n \in DOMAIN fromNet \/ n = N
      /\ fromNet'[N] = x
      /\ \A n \in DOMAIN fromNet : fromNet[n] \in Packets
  BY <1>0, AppendFacts
<1> HIDE DEF N
<1>2. TypeOK'
  <2>1. made' \in 0 .. MaxEntity
    BY <1>0, MaxEntityAssumption DEF TypeOK
  <2>2. pool' \in [Client -> SUBSET Id]
    BY <1>0
  <2> QED
    BY <1>0, <1>1, <2>1, <2>2, ConstantSets DEF TypeOK, Exists
<1>3. Uniques'
  <2>0. Uniques
    BY DEF Inv
  <2>1. made <= made' /\ (x.op = "create" => x.uniq = made + 1 /\ x.uniq <= made') /\ made' \in Nat
    BY <1>0
  <2>2. /\ \A i \in Id : entity[i].uniq <= made /\ entity[i].uniq \in Nat
        /\ \A d \in Client : \A u \in synced[d] : u <= made /\ u \in Nat
        /\ \A n \in DOMAIN fromNet : fromNet[n].op = "create" => fromNet[n].uniq <= made /\ fromNet[n].uniq \in Nat
    <3>1. \A u \in Uniqifier : u \in Nat
      BY MaxEntityAssumption DEF Uniqifier
    <3>2. \A i \in Id : entity[i].uniq \in Nat
      BY <1>0, <3>1, ExistsFacts
    <3>3. \A d \in Client : \A u \in synced[d] : u \in Uniqifier
      BY <1>0 DEF TypeOK
    <3>4. \A n \in DOMAIN fromNet : fromNet[n].op = "create" => fromNet[n].uniq \in Nat
      BY <1>1, <3>1, MessageFacts
    <3> QED
      BY <2>0, <3>1, <3>2, <3>3, <3>4 DEF Uniques
  <2>3. /\ \A i \in Id : entity'[i].uniq <= made'
        /\ \A d \in Client : \A u \in synced'[d] : u <= made'
    BY <1>0, <2>1, <2>2
  <2>4. \A i, j \in Id : Exists(i)' /\ entity'[i].uniq = entity'[j].uniq => i = j
    BY <2>0 DEF Uniques, Exists
  <2>5. ASSUME NEW n \in DOMAIN fromNet', fromNet'[n].op = "create"
        PROVE  /\ fromNet'[n].uniq <= made'
               /\ \A m \in DOMAIN fromNet' :
                    fromNet'[m].op = "create" /\ fromNet'[m].uniq = fromNet'[n].uniq => m = n
               /\ \A i \in Id : entity'[i].uniq # fromNet'[n].uniq
               /\ \A d \in Client : fromNet'[n].uniq \notin synced'[d]
    <3>1. CASE n \in DOMAIN fromNet
      <4>1. fromNet'[n] = fromNet[n]
        BY <1>1, <3>1
      <4>2. ASSUME NEW m \in DOMAIN fromNet', fromNet'[m].op = "create", fromNet'[m].uniq = fromNet'[n].uniq
            PROVE  m = n
        <5>1. m # N
          BY <1>0, <1>1, <2>1, <2>2, <2>5, <3>1, <4>1, <4>2
        <5> QED
          BY <1>1, <2>0, <2>5, <3>1, <4>1, <4>2, <5>1 DEF Uniques
      <4>3. fromNet[n].uniq <= made'
        BY <1>0, <2>1, <2>2, <2>5, <3>1, <4>1
      <4> QED
        BY <2>0, <2>5, <3>1, <4>1, <4>2, <4>3 DEF Uniques
    <3>2. CASE n = N
      <4>1. fromNet'[n] = x /\ x.uniq = made + 1 /\ x.uniq <= made'
        BY <1>1, <2>1, <2>5, <3>2
      <4>2. ASSUME NEW m \in DOMAIN fromNet', fromNet'[m].op = "create", fromNet'[m].uniq = x.uniq
            PROVE  m = n
        BY <1>0, <1>1, <2>2, <3>2, <4>1, <4>2
      <4>3. \A i \in Id : entity'[i].uniq # x.uniq
        BY <1>0, <2>2, <4>1
      <4>4. \A d \in Client : x.uniq \notin synced'[d]
        BY <1>0, <2>2, <4>1
      <4> QED
        BY <4>1, <4>2, <4>3, <4>4
    <3> QED
      BY <1>1, <3>1, <3>2
  <2> QED
    <3>1. ASSUME creating # NoEntity
          PROVE  /\ creating.uniq <= made'
                 /\ \A i \in Id : entity'[i].uniq # creating.uniq
                 /\ \A d \in Client : creating.uniq \notin synced'[d]
                 /\ \A n \in DOMAIN fromNet' : fromNet'[n].op = "create" => fromNet'[n].uniq # creating.uniq
      <4>1. creating.uniq \in Nat
        BY <1>0, <3>1, MaxEntityAssumption DEF TypeOK, Uniqifier
      <4>2. /\ creating.uniq <= made
            /\ \A i \in Id : entity[i].uniq # creating.uniq
            /\ \A d \in Client : creating.uniq \notin synced[d]
            /\ \A n \in DOMAIN fromNet : fromNet[n].op = "create" => fromNet[n].uniq # creating.uniq
        BY <2>0, <3>1 DEF Uniques
      <4>3. creating.uniq <= made'
        BY <1>0, <2>1, <4>1, <4>2
      <4>4. x.op = "create" => x.uniq # creating.uniq
        BY <1>0, <2>1, <4>1, <4>2
      <4> QED
        BY <1>1, <4>2, <4>3, <4>4
    <3> QED
      BY <2>3, <2>4, <2>5, <3>1, ConstantSets DEF Uniques
<1>4. Relevant'
  <2>0. Relevant
    BY DEF Inv
  <2>1. \A n \in DOMAIN fromNet' : conn'[fromNet'[n].from] # "new"
    BY <1>1, <2>0 DEF Relevant
  <2> QED
    BY <2>0, <2>1, ConstantSets DEF Relevant, Exists
<1>5. Drops' /\ (~raced' => Announced' /\ Removals')
  <2>1. \A n \in DOMAIN fromMain' :
           n \in Nat /\ n + 0 \in DOMAIN fromMain /\ fromMain'[n] = fromMain[n + 0]
    BY <1>0, SameQueue DEF TypeOK
  <2> QED
    BY <1>2, <2>1, QuietTasks
<1>6. ASSUME ~raced' PROVE Ids'
  <2>1. Ids
    BY <1>6 DEF Inv
  <2>2. \A d \in Client : Present(d)' <=> Present(d)
    BY DEF Present, Handled
  <2> QED
    BY <2>1, <2>2, IdsKept
<1>7. ASSUME ~raced' PROVE Tokens'
  <2>0. Tokens
    BY <1>7 DEF Inv
  <2>1. ASSUME NEW d \in Client, NEW j \in Id
        PROVE  /\ Present(d)' <=> Present(d)
               /\ MayReuse(d, j)' <=> MayReuse(d, j)
               /\ Exists(j)' <=> Exists(j)
    BY DEF Present, Handled, MayReuse, Exists, InHand, NoEntity, Holds, BeingTaken
  <2>2. ASSUME NEW d \in Client, NEW j \in Id, NEW n \in DOMAIN fromNet'
        PROVE  /\ Creates(n, d, j)' <=> \/ n \in DOMAIN fromNet /\ Creates(n, d, j)
                                        \/ n = N /\ x.op = "create" /\ d = c /\ x.id = j
               /\ Gives(n, d, j)' <=> \/ n \in DOMAIN fromNet /\ Gives(n, d, j)
                                      \/ n = N /\ x.op = "takeover" /\ d = c /\ x.id = j
    BY <1>1 DEF Creates, Gives
  <2> SUFFICES ASSUME NEW d \in Client, NEW j \in Id, Present(d)
               PROVE  /\ j \in pool'[d] =>
                           /\ MayReuse(d, j)
                           /\ \A n \in DOMAIN fromNet' : ~Creates(n, d, j)' /\ ~(Exists(j) /\ Gives(n, d, j)')
                      /\ \A n \in DOMAIN fromNet' : Creates(n, d, j)' =>
                           /\ MayReuse(d, j)
                           /\ \A m \in DOMAIN fromNet' : Creates(m, d, j)' => m = n
                           /\ \A m \in DOMAIN fromNet' : m < n => ~(Exists(j) /\ Gives(m, d, j)')
    BY <2>1, ConstantSets DEF Tokens
  <2>3. j \in pool[d] =>
          /\ MayReuse(d, j)
          /\ \A n \in DOMAIN fromNet : ~Creates(n, d, j) /\ ~(Exists(j) /\ Gives(n, d, j))
    BY <2>0 DEF Tokens
  <2>4. \A n \in DOMAIN fromNet : Creates(n, d, j) =>
          /\ MayReuse(d, j)
          /\ \A m \in DOMAIN fromNet : Creates(m, d, j) => m = n
          /\ \A m \in DOMAIN fromNet : m < n => ~(Exists(j) /\ Gives(m, d, j))
    BY <2>0 DEF Tokens
  <2>5. MayReuse(d, j) /\ Exists(j) => ~(x.op = "takeover" /\ d = c /\ x.id = j)
    BY DEF MayReuse
  <2>6. /\ j \in pool'[d] => j \in pool[d] /\ ~(x.op = "create" /\ d = c /\ x.id = j)
        /\ x.op = "create" /\ d = c /\ x.id = j => j \in pool[d]
    BY <1>0
  <2>7. ASSUME j \in pool'[d]
        PROVE  /\ MayReuse(d, j)
               /\ \A n \in DOMAIN fromNet' : ~Creates(n, d, j)' /\ ~(Exists(j) /\ Gives(n, d, j)')
    BY <2>2, <2>3, <2>5, <2>6, <2>7
  <2>8. ASSUME NEW n \in DOMAIN fromNet', Creates(n, d, j)'
        PROVE  /\ MayReuse(d, j)
               /\ \A m \in DOMAIN fromNet' : Creates(m, d, j)' => m = n
               /\ \A m \in DOMAIN fromNet' : m < n => ~(Exists(j) /\ Gives(m, d, j)')
    <3>1. CASE n \in DOMAIN fromNet /\ Creates(n, d, j)
      <4>1. ~(N < n) /\ j \notin pool[d]
        BY <1>1, <2>3, <3>1
      <4> QED
        BY <2>2, <2>4, <2>6, <3>1, <4>1
    <3>2. CASE n = N /\ x.op = "create" /\ d = c /\ x.id = j
      <4>1. j \in pool[d]
        BY <2>6, <3>2
      <4> QED
        BY <2>2, <2>3, <3>2, <4>1
    <3> QED
      BY <2>2, <2>8, <3>1, <3>2
  <2> QED
    BY <2>7, <2>8
<1> QED
  BY <1>2, <1>3, <1>4, <1>5, <1>6, <1>7 DEF Inv

\* A client sends a packet.
LEMMA SendPacketInv == ASSUME Inv, NEW c \in Client, SendPacket(c) PROVE Inv'
<1>0. TypeOK /\ made \in Nat
  BY MaxEntityAssumption DEF Inv, TypeOK
<1>1. /\ conn[c] \in {"on", "leaving", "handled"}
      /\ UNCHANGED <<conn, granting, sent, used, stolen, objectIds, entity, synced, marking, creating, freeing,
                     mainQueue, fromMain, raced, lost>>
  BY DEF SendPacket, idVars, Registered
<1>2. CASE Post([op |-> "requestIds", from |-> c]) /\ UNCHANGED <<made, pool>>
  <2>1. PICK x \in Packets : x = [op |-> "requestIds", from |-> c]
    BY DEF Packets
  <2>2. x.op = "requestIds" /\ x.from = c /\ fromNet' = Append(fromNet, x)
    BY <1>2, <2>1 DEF Post
  <2> QED
    BY <1>1, <1>2, <2>2, PostInv
<1>3. CASE \E i \in pool[c], k \in Kinds :
             /\ pool' = [pool EXCEPT ![c] = @ \ {i}]
             /\ made < MaxEntity /\ made' = made + 1
             /\ Post([op |-> "create", from |-> c, id |-> i, uniq |-> made + 1, kind |-> k])
  <2>1. PICK i \in pool[c], k \in Kinds :
             /\ pool' = [pool EXCEPT ![c] = @ \ {i}]
             /\ made < MaxEntity /\ made' = made + 1
             /\ Post([op |-> "create", from |-> c, id |-> i, uniq |-> made + 1, kind |-> k])
    BY <1>3
  <2>2. i \in Id /\ made + 1 \in Uniqifier
    BY <1>0, <2>1, MaxEntityAssumption DEF TypeOK, Uniqifier
  <2>3. PICK x \in Packets : x = [op |-> "create", from |-> c, id |-> i, uniq |-> made + 1, kind |-> k]
    BY <2>2 DEF Packets
  <2>4. /\ x.op = "create" /\ x.from = c /\ x.id = i /\ x.uniq = made + 1
        /\ fromNet' = Append(fromNet, x)
    BY <2>1, <2>3 DEF Post
  <2> QED
    BY <1>1, <2>1, <2>4, PostInv
<1>4. CASE \E i \in Id, op \in {"sync", "takeover", "remove"} :
             /\ entity[i].uniq \in synced[c]
             /\ Post([op |-> op, from |-> c, id |-> i, uniq |-> entity[i].uniq])
             /\ UNCHANGED <<made, pool>>
  <2>1. PICK i \in Id, op \in {"sync", "takeover", "remove"} :
             /\ entity[i].uniq \in synced[c]
             /\ Post([op |-> op, from |-> c, id |-> i, uniq |-> entity[i].uniq])
             /\ UNCHANGED <<made, pool>>
    BY <1>4
  <2>2. entity[i].uniq \in Uniqifier
    BY <1>0, <2>1 DEF TypeOK
  <2>3. PICK x \in Packets : x = [op |-> op, from |-> c, id |-> i, uniq |-> entity[i].uniq]
    BY <2>2 DEF Packets
  <2>4. /\ x.op # "create" /\ x.from = c /\ x.id = i
        /\ fromNet' = Append(fromNet, x)
    BY <2>1, <2>3 DEF Post
  <2> QED
    BY <1>1, <2>1, <2>4, PostInv
<1> QED
  BY <1>2, <1>3, <1>4 DEF SendPacket

EntitiesOK ==
  /\ entity \in [Id -> Entities \cup {NoEntity}]
  /\ \A i \in Id : Exists(i) /\ ~entity[i].deleting => entity[i].deletedFor = {}

\* One entity is replaced.
LEMMA ReplaceFacts ==
  ASSUME TypeOK, NEW i \in Id, NEW f \in Entities, ~f.deleting => f.deletedFor = {},
         entity' = [entity EXCEPT ![i] = f]
  PROVE  EntitiesOK' /\ \A j \in Id : entity'[j] = IF j = i THEN f ELSE entity[j]
<1>1. entity \in [Id -> Entities \cup {NoEntity}]
  BY DEF TypeOK
<1>2. \A j \in Id : entity'[j] = IF j = i THEN f ELSE entity[j]
  BY <1>1
<1>3. entity' \in [Id -> Entities \cup {NoEntity}]
  BY <1>1
<1>4. \A j \in Id : Exists(j)' /\ ~entity'[j].deleting => entity'[j].deletedFor = {}
  BY <1>2 DEF TypeOK, Exists
<1> QED
  BY <1>2, <1>3, <1>4, ConstantSets DEF EntitiesOK

\* CloneSync and RemoveClone replace an entity by one that differs in what they set.
LEMMA QuietUpdate ==
  ASSUME TypeOK, NEW i \in Id, Exists(i),
         \/ \E c \in Client : entity' = [entity EXCEPT ![i].relevantTo = @ \cup {c}]
         \/ entity' = [entity EXCEPT ![i].deleting = TRUE]
  PROVE  EntitiesOK' /\ \A j \in Id : Untouched(j)
<1>1. entity[i] \in Entities /\ (~entity[i].deleting => entity[i].deletedFor = {})
  BY ExistsFacts DEF TypeOK
<1>2. PICK f \in Entities :
         /\ entity' = [entity EXCEPT ![i] = f] /\ (~f.deleting => f.deletedFor = {})
         /\ Same(entity[i], f) /\ (entity[i].deleting => f.deleting)
         /\ entity[i].relevantTo \subseteq f.relevantTo
  <2>1. ASSUME NEW c \in Client, entity' = [entity EXCEPT ![i].relevantTo = @ \cup {c}]
        PROVE  \E f \in Entities :
                 /\ entity' = [entity EXCEPT ![i] = f] /\ (~f.deleting => f.deletedFor = {})
                 /\ Same(entity[i], f) /\ (entity[i].deleting => f.deleting)
                 /\ entity[i].relevantTo \subseteq f.relevantTo
    <3>1. PICK f : f = [entity[i] EXCEPT !.relevantTo = @ \cup {c}]
      OBVIOUS
    <3>2. /\ f \in Entities /\ Same(entity[i], f) /\ f.deleting = entity[i].deleting
          /\ f.relevantTo = entity[i].relevantTo \cup {c}
      BY <1>1, <3>1, UpdateFacts
    <3>3. entity' = [entity EXCEPT ![i] = f]
      BY <2>1, <3>1
    <3> QED
      BY <1>1, <3>2, <3>3 DEF Same
  <2>2. CASE entity' = [entity EXCEPT ![i].deleting = TRUE]
    <3>1. PICK f : f = [entity[i] EXCEPT !.deleting = TRUE]
      OBVIOUS
    <3>2. /\ f \in Entities /\ Same(entity[i], f) /\ f.deleting = TRUE
          /\ f.relevantTo = entity[i].relevantTo
      BY <1>1, <3>1, UpdateFacts
    <3>3. entity' = [entity EXCEPT ![i] = f]
      BY <2>2, <3>1
    <3> QED
      BY <3>2, <3>3
  <2> QED
    BY <2>1, <2>2
<1>3. EntitiesOK' /\ \A j \in Id : entity'[j] = IF j = i THEN f ELSE entity[j]
  BY <1>2, ReplaceFacts
<1>4. ASSUME NEW j \in Id PROVE Untouched(j)
  <2>1. CASE j = i
    <3>1. entity'[i] = f
      BY <1>3
    <3>2. f.uniq = entity[i].uniq
      BY <1>2 DEF Same
    <3> QED
      BY <1>2, <2>1, <3>1, <3>2 DEF Untouched
  <2>2. CASE j # i
    <3>1. entity'[j] = entity[j]
      BY <1>3, <2>2
    <3> QED
      BY <3>1 DEF Untouched, Same
  <2> QED
    BY <2>1, <2>2
<1> QED
  BY <1>3, <1>4

\* A packet that touches no id: a sync, a removal, one that is ignored.
LEMMA QuietPacket ==
  ASSUME Inv, fromNet # <<>>, fromNet' = Tail(fromNet),
         UNCHANGED <<conn, granting, sent, used, stolen, objectIds, marking, creating, freeing, lost, synced, pool, made,
                     mainQueue, fromMain>>,
         raced' \in BOOLEAN, raced => raced',
         EntitiesOK', \A j \in Id : Untouched(j)
  PROVE  Inv'
<1>0. TypeOK
  BY DEF Inv
<1>1. /\ fromNet' \in Seq(Packets)
      /\ \A n \in DOMAIN fromNet' : n \in Nat /\ n + 1 \in DOMAIN fromNet /\ fromNet'[n] = fromNet[n + 1]
      /\ \A n \in DOMAIN fromMain' :
           n \in Nat /\ n + 0 \in DOMAIN fromMain /\ fromMain'[n] = fromMain[n + 0]
  BY <1>0, TailFacts, SameQueue DEF TypeOK
<1>2. TypeOK'
  BY <1>0, <1>1, ConstantSets DEF TypeOK, EntitiesOK
<1>3. \A d \in Client : Present(d)' <=> Present(d)
  BY DEF Present, Handled
<1>4. Uniques' /\ Relevant' /\ (~raced' => Ids' /\ Tokens')
  BY <1>1, <1>2, <1>3, QuietInv
<1>5. \A i \in Id : Exists(i) => entity'[i].uniq = entity[i].uniq
                                   /\ (entity[i].finalizing => entity'[i].finalizing)
  BY DEF Untouched, Same
<1>6. Drops' /\ (~raced' => Announced' /\ Removals')
  BY <1>1, <1>2, <1>5, QuietTasks
<1> QED
  BY <1>2, <1>4, <1>6 DEF Inv

\* A packet that is handled was posted by a client that had connected.
LEMMA PacketFacts ==
  ASSUME Inv, fromNet # <<>>, fromNet' = Tail(fromNet)
  PROVE  /\ Head(fromNet) \in Packets /\ Head(fromNet) = fromNet[1] /\ 1 \in DOMAIN fromNet
         /\ fromNet' \in Seq(Packets)
         /\ \A n \in DOMAIN fromNet' : n \in Nat /\ n + 1 \in DOMAIN fromNet /\ fromNet'[n] = fromNet[n + 1]
                                       /\ n + 1 # 1 /\ 1 < n + 1
<1>1. fromNet \in Seq(Packets)
  BY DEF Inv, TypeOK
<1> QED
  BY <1>1, TailFacts

\* The creation of an entity is refused.
LEMMA RefusedInv ==
  ASSUME Inv, fromNet # <<>>, fromNet' = Tail(fromNet), NEW m, m = Head(fromNet), m.op = "create",
         ~Exists(m.id), pool' = [pool EXCEPT ![m.from] = @ \cup {m.id}],
         raced' = (raced \/ Handled(m.from)),
         UNCHANGED <<conn, granting, sent, used, stolen, objectIds, marking, creating, freeing, lost, synced, entity, made,
                     mainQueue, fromMain>>
  PROVE  Inv'
<1>0. TypeOK /\ raced \in BOOLEAN
  BY DEF Inv, TypeOK
<1>1. /\ m \in Packets /\ m = fromNet[1] /\ 1 \in DOMAIN fromNet /\ fromNet' \in Seq(Packets)
      /\ \A n \in DOMAIN fromNet' :
           n \in Nat /\ n + 1 \in DOMAIN fromNet /\ fromNet'[n] = fromNet[n + 1] /\ n + 1 # 1
  BY PacketFacts
<1>2. PICK c \in Client, i \in Id : c = m.from /\ i = m.id
  BY <1>1, MessageFacts
<1>3. pool \in [Client -> SUBSET Id] /\ pool' = [pool EXCEPT ![c] = @ \cup {i}]
  BY <1>0, <1>2 DEF TypeOK
<1>4. TypeOK'
  <2>1. pool' \in [Client -> SUBSET Id] /\ raced' \in BOOLEAN
    BY <1>0, <1>2, <1>3 DEF Handled
  <2> QED
    BY <1>0, <1>1, <2>1, ConstantSets DEF TypeOK, Exists
<1>5. Uniques' /\ Relevant'
  BY <1>1, LendRest
<1>6. Drops' /\ (~raced' => Announced' /\ Removals')
  <2>1. \A n \in DOMAIN fromMain' :
           n \in Nat /\ n + 0 \in DOMAIN fromMain /\ fromMain'[n] = fromMain[n + 0]
    BY <1>0, SameQueue DEF TypeOK
  <2> QED
    BY <1>0, <1>4, <2>1, QuietTasks
<1>7. ASSUME ~raced' PROVE Ids' /\ Tokens'
  <2>0. Ids /\ Tokens /\ Present(c)
    BY <1>0, <1>2, <1>7 DEF Inv, Present
  <2>1. \A d \in Client, j \in Id : /\ Present(d)' <=> Present(d)
                                    /\ Exists(j)' <=> Exists(j)
                                    /\ MayReuse(d, j)' <=> MayReuse(d, j)
    BY DEF Present, Handled, MayReuse, Exists, InHand, NoEntity, Holds, BeingTaken
  <2>2. Ids'
    BY <2>0, <2>1, IdsKept
  <2>3. Creates(1, c, i)
    BY <1>1, <1>2 DEF Creates
  <2>4. ASSUME NEW d \in Client, NEW j \in Id, Present(d)',
               j \in pool[d] \/ \E n \in DOMAIN fromNet' : Creates(n, d, j)'
        PROVE  MayReuse(d, j)' /\ (Exists(j)' => Exists(j))
    <3>1. Token(d, j)
      BY <1>1, <2>4 DEF Token, Creates
    <3> QED
      BY <2>0, <2>1, <2>4, <3>1, TokenFacts
  <2>5. ASSUME NEW d \in Client, NEW j \in Id, Present(d)', j \in pool'[d], j \notin pool[d]
        PROVE  /\ MayReuse(d, j)'
               /\ \A n \in DOMAIN fromNet' : ~Creates(n, d, j)' /\ ~(Exists(j)' /\ Gives(n, d, j)')
    <3>1. d = c /\ j = i
      BY <1>3, <2>5
    <3>2. MayReuse(c, i) /\ \A n \in DOMAIN fromNet : Creates(n, c, i) => n = 1
      BY <1>1, <2>0, <2>3 DEF Tokens
    <3>3. ~Exists(i)' /\ MayReuse(c, i)'
      BY <1>2, <2>1, <3>2
    <3>4. ASSUME NEW n \in DOMAIN fromNet', Creates(n, c, i)' PROVE FALSE
      <4>1. Creates(n + 1, c, i)
        BY <1>1, <3>4 DEF Creates
      <4> QED
        BY <1>1, <3>2, <4>1
    <3> QED
      BY <3>1, <3>3, <3>4
  <2>6. \A d \in Client : Present(d)' => Present(d)
    BY <2>1
  <2>7. \A n \in DOMAIN fromNet' : n \in Nat /\ n + 1 \in DOMAIN fromNet /\ fromNet'[n] = fromNet[n + 1]
    BY <1>1
  <2>8. Tokens'
    BY <2>0, <2>4, <2>5, <2>6, <2>7, TokensKept
  <2> QED
    BY <2>2, <2>8
<1> QED
  BY <1>4, <1>5, <1>6, <1>7 DEF Inv

\* An entity is made for an id that has none, and its creation may be announced.
LEMMA NewTasks ==
  ASSUME TypeOK, Announced, Removals, fromMain' = fromMain,
         NEW i \in Id, ~Exists(i),
         \A j \in Id : j # i => entity'[j] = entity[j],
         NEW N \in Nat, \A n \in DOMAIN mainQueue : n # N,
         \A n \in DOMAIN mainQueue' : \/ n \in DOMAIN mainQueue /\ mainQueue'[n] = mainQueue[n]
                                      \/ /\ n = N /\ mainQueue'[n].op = "creating" /\ mainQueue'[n].id = i
                                         /\ mainQueue'[n].uniq = entity'[i].uniq
  PROVE  Announced' /\ Removals'
<1>0. mainQueue \in Seq(Announcements) /\ fromMain \in Seq(Posted)
  BY DEF TypeOK, Announcements
<1>1. /\ \A n \in DOMAIN mainQueue : mainQueue[n] \in Announcements
      /\ \A n \in DOMAIN fromMain : fromMain[n] \in Posted
  BY <1>0
<1>2. \A j \in Id, u \in Uniqifier : entity[j].uniq = u => j # i /\ entity'[j] = entity[j]
  BY ExistsFacts
<1>3. \A n \in DOMAIN mainQueue : entity[mainQueue[n].id].uniq = mainQueue[n].uniq =>
         mainQueue[n].id # i /\ entity'[mainQueue[n].id] = entity[mainQueue[n].id]
  BY <1>1, <1>2, MessageFacts
<1>4. \A n \in DOMAIN fromMain :
         (Filter(n) \/ fromMain[n].op = "doRemove") /\ entity[fromMain[n].id].uniq = fromMain[n].uniq =>
            fromMain[n].id # i /\ entity'[fromMain[n].id] = entity[fromMain[n].id]
  BY <1>1, <1>2, MessageFacts DEF Filter
<1>5. \A n \in DOMAIN fromMain : Filter(n)' <=> Filter(n)
  BY DEF Filter
<1>6. Announced'
  <2>1. ASSUME NEW n \in DOMAIN mainQueue' PROVE entity'[mainQueue'[n].id].uniq = mainQueue'[n].uniq
    <3>1. CASE n \in DOMAIN mainQueue /\ mainQueue'[n] = mainQueue[n]
      BY <1>3, <3>1 DEF Announced
    <3>2. CASE mainQueue'[n].id = i /\ mainQueue'[n].uniq = entity'[i].uniq
      BY <3>2
    <3> QED
      BY <3>1, <3>2
  <2>2. ASSUME NEW n \in DOMAIN fromMain', Filter(n)'
        PROVE  entity'[fromMain'[n].id].uniq = fromMain'[n].uniq
    BY <1>4, <1>5, <2>2 DEF Announced
  <2> QED
    BY <2>1, <2>2 DEF Announced
<1>7. ASSUME NEW n \in DOMAIN mainQueue', mainQueue'[n].op = "removed"
      PROVE  /\ Finalizing(mainQueue[n])'
             /\ \A m \in DOMAIN mainQueue' :
                  mainQueue'[m].id = mainQueue'[n].id => m = n \/ (m < n /\ mainQueue'[m].op = "creating")
  <2>1. n \in DOMAIN mainQueue /\ mainQueue'[n] = mainQueue[n]
    BY <1>7
  <2>2. /\ Finalizing(mainQueue[n])
        /\ \A m \in DOMAIN mainQueue :
             mainQueue[m].id = mainQueue[n].id => m = n \/ (m < n /\ mainQueue[m].op = "creating")
    BY <1>7, <2>1 DEF Removals
  <2>3. mainQueue[n].id # i /\ entity'[mainQueue[n].id] = entity[mainQueue[n].id]
    BY <1>3, <2>1, <2>2 DEF Finalizing
  <2>4. Finalizing(mainQueue[n])'
    BY <2>1, <2>2, <2>3 DEF Finalizing
  <2> QED
    BY <2>1, <2>2, <2>3, <2>4
<1>8. ASSUME NEW n \in DOMAIN fromMain', fromMain'[n].op = "doRemove"
      PROVE  /\ Finalizing(fromMain[n])'
             /\ \A m \in DOMAIN mainQueue' : mainQueue'[m].id # fromMain'[n].id
             /\ \A m \in DOMAIN fromMain' :
                  /\ fromMain'[m].op = "doRemove" /\ fromMain'[m].id = fromMain'[n].id => m = n
                  /\ Filter(m)' /\ fromMain'[m].id = fromMain'[n].id => m < n
  <2>1. /\ Finalizing(fromMain[n])
        /\ \A m \in DOMAIN mainQueue : mainQueue[m].id # fromMain[n].id
        /\ \A m \in DOMAIN fromMain :
             /\ fromMain[m].op = "doRemove" /\ fromMain[m].id = fromMain[n].id => m = n
             /\ Filter(m) /\ fromMain[m].id = fromMain[n].id => m < n
    BY <1>8 DEF Removals
  <2>2. fromMain[n].id # i /\ entity'[fromMain[n].id] = entity[fromMain[n].id]
    BY <1>4, <1>8, <2>1 DEF Finalizing
  <2>3. Finalizing(fromMain[n])'
    BY <2>1, <2>2 DEF Finalizing
  <2> QED
    BY <1>5, <2>1, <2>2, <2>3
<1> QED
  BY <1>6, <1>7, <1>8 DEF Removals

\* An entity is made with a uniqifier of its own.
LEMMA NewUniques ==
  ASSUME TypeOK, Uniques, NEW k \in Nat,
         \A n \in DOMAIN fromNet' : n \in Nat /\ n + k \in DOMAIN fromNet /\ fromNet'[n] = fromNet[n + k],
         NEW i \in Id, NEW u \in Uniqifier, entity'[i].uniq = u,
         \A j \in Id : j # i => entity'[j] = entity[j] /\ entity[j].uniq # u,
         creating' = NoEntity \/ (creating' = creating /\ creating.uniq # u),
         made' \in Nat, made <= made', u <= made',
         \A n \in DOMAIN fromNet' : fromNet'[n].op = "create" => fromNet'[n].uniq # u,
         \A c \in Client : \A v \in synced'[c] : v \in synced[c] \/ v = u
  PROVE  Uniques' /\ \A j \in Id : entity[j].uniq \in Nat /\ entity[j].uniq <= made
<1>0. /\ made \in Nat /\ \A v \in Uniqifier : v \in Nat
      /\ \A c \in Client : \A v \in synced[c] : v \in Uniqifier
      /\ \A n \in DOMAIN fromNet : fromNet[n] \in Packets
  <2>1. made \in Nat /\ \A v \in Uniqifier : v \in Nat
    BY MaxEntityAssumption DEF TypeOK, Uniqifier
  <2>2. \A c \in Client : \A v \in synced[c] : v \in Uniqifier
    BY DEF TypeOK
  <2>3. fromNet \in Seq(Packets)
    BY DEF TypeOK
  <2> QED
    BY <2>1, <2>2, <2>3
<1>1. \A j \in Id : entity[j].uniq \in Nat /\ entity[j].uniq <= made
  BY <1>0, ExistsFacts DEF Uniques
<1>2. \A j \in Id : entity'[j].uniq <= made'
  BY <1>0, <1>1
<1>3. \A j, l \in Id : Exists(j)' /\ entity'[j].uniq = entity'[l].uniq => j = l
  BY DEF Uniques, Exists
<1>4. \A c \in Client : \A v \in synced'[c] : v <= made'
  <2>1. \A c \in Client : \A v \in synced[c] : v <= made /\ v \in Nat
    BY <1>0 DEF Uniques
  <2> QED
    BY <1>0, <2>1
<1>5. ASSUME NEW n \in DOMAIN fromNet', fromNet'[n].op = "create"
      PROVE  /\ fromNet'[n].uniq <= made'
             /\ \A m \in DOMAIN fromNet' :
                  fromNet'[m].op = "create" /\ fromNet'[m].uniq = fromNet'[n].uniq => m = n
             /\ \A j \in Id : entity'[j].uniq # fromNet'[n].uniq
             /\ \A c \in Client : fromNet'[n].uniq \notin synced'[c]
  <2>1. n \in Nat /\ n + k \in DOMAIN fromNet /\ fromNet'[n] = fromNet[n + k]
    OBVIOUS
  <2>2. PICK x : x = fromNet[n + k]
    OBVIOUS
  <2>3. /\ x.uniq <= made
        /\ \A m \in DOMAIN fromNet : fromNet[m].op = "create" /\ fromNet[m].uniq = x.uniq => m = n + k
        /\ \A j \in Id : entity[j].uniq # x.uniq
        /\ \A c \in Client : x.uniq \notin synced[c]
    BY <1>5, <2>1, <2>2 DEF Uniques
  <2>4. x.uniq \in Nat /\ x.uniq # u
    BY <1>0, <1>5, <2>1, <2>2, MessageFacts
  <2>5. x.uniq <= made'
    BY <1>0, <2>3, <2>4
  <2>6. ASSUME NEW m \in DOMAIN fromNet', fromNet'[m].op = "create", fromNet'[m].uniq = x.uniq
        PROVE  m = n
    <3>1. m \in Nat /\ m + k \in DOMAIN fromNet /\ fromNet'[m] = fromNet[m + k]
      OBVIOUS
    <3>2. m + k = n + k
      BY <2>3, <2>6, <3>1
    <3> QED
      BY <2>1, <3>1, <3>2
  <2>7. \A j \in Id : entity'[j].uniq # x.uniq
    BY <2>3, <2>4
  <2>8. \A c \in Client : x.uniq \notin synced'[c]
    BY <2>3, <2>4
  <2> QED
    BY <2>1, <2>2, <2>5, <2>6, <2>7, <2>8
<1>6. ASSUME creating' # NoEntity
      PROVE  /\ creating'.uniq <= made'
             /\ \A j \in Id : entity'[j].uniq # creating'.uniq
             /\ \A c \in Client : creating'.uniq \notin synced'[c]
             /\ \A n \in DOMAIN fromNet' : fromNet'[n].op = "create" => fromNet'[n].uniq # creating'.uniq
  <2>1. creating' = creating /\ creating # NoEntity /\ creating.uniq # u
    BY <1>6
  <2>2. creating.uniq \in Nat
    BY <1>0, <2>1 DEF TypeOK
  <2>3. /\ creating.uniq <= made
        /\ \A j \in Id : entity[j].uniq # creating.uniq
        /\ \A c \in Client : creating.uniq \notin synced[c]
        /\ \A n \in DOMAIN fromNet : fromNet[n].op = "create" => fromNet[n].uniq # creating.uniq
    BY <2>1 DEF Uniques
  <2>4. creating.uniq <= made'
    BY <1>0, <2>2, <2>3
  <2> QED
    BY <2>1, <2>3, <2>4
<1> QED
  BY <1>1, <1>2, <1>3, <1>4, <1>5, <1>6, ConstantSets DEF Uniques

\* An entity is made and is relevant to whoever has it.
LEMMA NewRelevant ==
  ASSUME Relevant, NEW k \in Nat, conn' = conn,
         \A n \in DOMAIN fromNet' : n \in Nat /\ n + k \in DOMAIN fromNet /\ fromNet'[n] = fromNet[n + k],
         NEW i \in Id, NEW u \in Uniqifier, entity'[i].uniq = u,
         \A j \in Id : j # i => entity'[j] = entity[j] /\ entity[j].uniq # u,
         \A c \in Client : u \in synced'[c] => c \in entity'[i].relevantTo,
         \A c \in Client : \A v \in synced'[c] : v \in synced[c] \/ (v = u /\ conn[c] # "new")
  PROVE  Relevant'
<1>1. ASSUME NEW j \in Id, NEW c \in Client, conn'[c] \in {"on", "leaving", "handled"}, Exists(j)', entity'[j].uniq \in synced'[c]
      PROVE  c \in entity'[j].relevantTo
  <2>1. CASE j = i
    BY <1>1, <2>1
  <2>2. CASE j # i
    BY <1>1, <2>2 DEF Relevant, Exists
  <2> QED
    BY <2>1, <2>2
<1>2. \A c \in Client : conn'[c] = "new" => synced'[c] = {}
  BY DEF Relevant
<1>3. \A n \in DOMAIN fromNet' : conn'[fromNet'[n].from] # "new"
  BY DEF Relevant
<1> QED
  BY <1>1, <1>2, <1>3, ConstantSets DEF Relevant

\* The entity that a packet creates.
LEMMA CreatedFacts ==
  ASSUME NEW m \in Packets, m.op = "create"
  PROVE  \E e \in Entities :
           /\ e = NewEntity(m.uniq, m.from, m.kind.script, m.kind.keep)
           /\ e.uniq = m.uniq /\ e.owner = m.from /\ e.deletedFor = {}
           /\ ~e.deleting /\ m.from \in e.relevantTo
<1>1. m.kind \in Kinds /\ m.uniq \in Uniqifier /\ m.from \in Client
  BY MessageFacts
<1>2. PICK k \in AnyKind, c \in Owner, u \in Uniqifier : k = m.kind /\ c = m.from /\ u = m.uniq
  BY <1>1, KindsAssumption DEF AnyKind, Owner
<1>3. PICK e : e = NewEntity(u, c, k.script, k.keep)
  OBVIOUS
<1>4. /\ e \in Entities /\ e.uniq = u /\ e.owner = c /\ e.deletedFor = {}
      /\ ~e.deleting /\ (c \in Client => c \in e.relevantTo)
  BY <1>3, NewFacts
<1> QED
  BY <1>1, <1>2, <1>3, <1>4

\* While the sync thread is between callbacks, an id in the hands of a thread is
\* marked for an entity of the server, and no client holds it.
LEMMA IdleFacts ==
  ASSUME freeing = NotFreeing
  PROVE  /\ \A c, i : Holds(c, i) <=> (Present(c) /\ i \in objectIds[c])
         /\ \A i : Hand(i) = None
         /\ Ids => \A c \in Client, i \in Id : Holds(c, i) => ~InHand(i)
<1>1. freeing.step # "ids" /\ freeing.step # "holder"
  BY DEF NotFreeing
<1>2. \A c, i : Holds(c, i) <=> (Present(c) /\ i \in objectIds[c])
  BY <1>1 DEF Holds, Present, BeingTaken
<1>3. \A i : Hand(i) = None
  BY <1>1 DEF Hand
<1>4. ASSUME Ids, NEW c \in Client, NEW i \in Id, Holds(c, i) PROVE ~InHand(i)
  BY <1>3, <1>4, NoneIsNoClient DEF Ids, IdOK, Handed
<1> QED
  BY <1>2, <1>3, <1>4

\* A client's entity is inserted.
LEMMA InsertInv ==
  ASSUME Inv, fromNet # <<>>, fromNet' = Tail(fromNet), NEW m, m = Head(fromNet), m.op = "create",
         ~Exists(m.id), pool' = pool, marking = None, freeing = NotFreeing,
         NEW e \in Entities, e.uniq = m.uniq, e.owner = m.from, e.deletedFor = {}, ~e.deleting,
         m.from \in e.relevantTo, entity' = [entity EXCEPT ![m.id] = e],
         synced' = [synced EXCEPT ![m.from] = @ \cup {m.uniq}],
         marking' = m.id,
         mainQueue' = Append(mainQueue, [op |-> "creating", id |-> m.id, uniq |-> m.uniq]),
         raced' = (raced \/ Handled(m.from)),
         UNCHANGED <<conn, granting, sent, used, stolen, objectIds, lost, creating, freeing, made, fromMain>>
  PROVE  Inv'
<1>0. TypeOK /\ raced \in BOOLEAN /\ Uniques /\ Relevant
  BY DEF Inv, TypeOK
<1>1. /\ m \in Packets /\ m = fromNet[1] /\ 1 \in DOMAIN fromNet /\ fromNet' \in Seq(Packets)
      /\ \A n \in DOMAIN fromNet' :
           n \in Nat /\ n + 1 \in DOMAIN fromNet /\ fromNet'[n] = fromNet[n + 1] /\ n + 1 # 1
  BY PacketFacts
<1>2. PICK c \in Client, i \in Id, u \in Uniqifier : c = m.from /\ i = m.id /\ u = m.uniq
  BY <1>1, MessageFacts
<1>4. /\ e \in Entities /\ e.uniq = u /\ e.owner = c /\ e.deletedFor = {}
      /\ ~e.deleting /\ c \in e.relevantTo
  BY <1>2
<1>5. EntitiesOK' /\ \A j \in Id : entity'[j] = IF j = i THEN e ELSE entity[j]
  BY <1>0, <1>2, <1>4, ReplaceFacts
<1>6. PICK x \in Announcements :
        /\ x = [op |-> "creating", id |-> i, uniq |-> u] /\ mainQueue' = Append(mainQueue, x)
        /\ x.op = "creating" /\ x.id = i /\ x.uniq = u
  BY <1>2 DEF Announcements
<1>7. mainQueue \in Seq(Announcements) /\ mainQueue' \in Seq(Announcements)
  BY <1>0, <1>6, AppendFacts DEF TypeOK, Announcements
<1>8. synced \in [Client -> SUBSET Uniqifier] /\ synced' = [synced EXCEPT ![c] = @ \cup {u}]
  BY <1>0, <1>2 DEF TypeOK
<1>9. TypeOK'
  <2>1. synced' \in [Client -> SUBSET Uniqifier] /\ raced' \in BOOLEAN /\ marking' \in Id
    BY <1>0, <1>2, <1>8 DEF Handled
  <2>2. mainQueue' \in Seq([op : {"creating", "removed"}, id : Id, uniq : Uniqifier])
    BY <1>7 DEF Announcements
  <2> QED
    BY <1>0, <1>1, <1>5, <2>1, <2>2, ConstantSets DEF TypeOK, EntitiesOK
<1>10. /\ \A d \in Client : \A v \in synced'[d] : v \in synced[d] \/ (v = u /\ d = c)
       /\ \A d \in Client : \A v \in synced[d] : v \in synced'[d]
       /\ \A d \in Client : u \notin synced[d] /\ u <= made
       /\ \A j \in Id : entity[j].uniq # u
       /\ \A n \in DOMAIN fromNet : fromNet[n].op = "create" /\ fromNet[n].uniq = u => n = 1
  <2>1. \A d \in Client : \A v \in synced'[d] : v \in synced[d] \/ (v = u /\ d = c)
    BY <1>8
  <2>2. \A d \in Client : \A v \in synced[d] : v \in synced'[d]
    BY <1>8
  <2> QED
    BY <1>0, <1>1, <1>2, <2>1, <2>2 DEF Uniques
<1>11. Uniques'
  <2>1. \A n \in DOMAIN fromNet' : fromNet'[n].op = "create" => fromNet'[n].uniq # u
    BY <1>1, <1>10
  <2>2. made' \in Nat /\ made <= made' /\ u <= made'
    BY <1>0, <1>10, MaxEntityAssumption DEF TypeOK
  <2>3. \A n \in DOMAIN fromNet' : n \in Nat /\ n + 1 \in DOMAIN fromNet /\ fromNet'[n] = fromNet[n + 1]
    BY <1>1
  <2>4. /\ entity'[i].uniq = u
        /\ \A j \in Id : j # i => entity'[j] = entity[j] /\ entity[j].uniq # u
    BY <1>4, <1>5, <1>10
  <2>5. \A d \in Client : \A v \in synced'[d] : v \in synced[d] \/ v = u
    BY <1>10
  <2>6. creating' = creating /\ creating.uniq # u
    <3>1. creating # NoEntity => creating.uniq # u
      BY <1>0, <1>1, <1>2 DEF Uniques
    <3>2. NoEntity.uniq # u
      BY MaxEntityAssumption DEF NoEntity, Uniqifier
    <3> QED
      BY <3>1, <3>2
  <2> QED
    BY <1>0, <2>1, <2>2, <2>3, <2>4, <2>5, <2>6, NewUniques
<1>12. Relevant'
  <2>1. \A n \in DOMAIN fromNet' : n \in Nat /\ n + 1 \in DOMAIN fromNet /\ fromNet'[n] = fromNet[n + 1]
    BY <1>1
  <2>2. /\ entity'[i].uniq = u
        /\ \A j \in Id : j # i => entity'[j] = entity[j] /\ entity[j].uniq # u
    BY <1>4, <1>5, <1>10
  <2>3. \A d \in Client : u \in synced'[d] => d \in entity'[i].relevantTo
    BY <1>4, <1>5, <1>10
  <2>4. conn[c] # "new"
    BY <1>0, <1>1, <1>2 DEF Relevant
  <2>5. \A d \in Client : \A v \in synced'[d] : v \in synced[d] \/ (v = u /\ conn[d] # "new")
    BY <1>10, <2>4
  <2>6. Relevant /\ conn' = conn
    BY <1>0
  <2> QED
    BY <2>1, <2>2, <2>3, <2>5, <2>6, NewRelevant
<1>13. Drops'
  BY DEF Inv, Drops
<1>14. ASSUME ~raced' PROVE Announced' /\ Removals'
  <2>0. Announced /\ Removals
    BY <1>0, <1>14 DEF Inv
  <2>1. PICK N \in Nat :
          /\ \A n \in DOMAIN mainQueue : n # N
          /\ \A n \in DOMAIN mainQueue' : \/ n \in DOMAIN mainQueue /\ mainQueue'[n] = mainQueue[n]
                                          \/ n = N /\ mainQueue'[n] = x
    <3>1. Len(mainQueue) + 1 \in Nat
      BY <1>7
    <3>2. /\ \A n \in DOMAIN mainQueue : n # Len(mainQueue) + 1
          /\ \A n \in DOMAIN mainQueue' : \/ n \in DOMAIN mainQueue /\ mainQueue'[n] = mainQueue[n]
                                          \/ n = Len(mainQueue) + 1 /\ mainQueue'[n] = x
      BY <1>6, <1>7, AppendFacts
    <3> QED
      BY <3>1, <3>2
  <2>2. ~Exists(i) /\ entity'[i].uniq = u /\ \A j \in Id : j # i => entity'[j] = entity[j]
    BY <1>2, <1>4, <1>5
  <2>3. \A n \in DOMAIN mainQueue' : \/ n \in DOMAIN mainQueue /\ mainQueue'[n] = mainQueue[n]
                                     \/ /\ n = N /\ mainQueue'[n].op = "creating" /\ mainQueue'[n].id = i
                                        /\ mainQueue'[n].uniq = entity'[i].uniq
    BY <1>6, <2>1, <2>2
  <2> QED
    BY <1>0, <2>0, <2>1, <2>2, <2>3, NewTasks
<1>15. ASSUME ~raced' PROVE Ids' /\ Tokens'
  <2>0. Ids /\ Tokens /\ Present(c)
    BY <1>0, <1>2, <1>15 DEF Inv, Present
  <2>1. /\ \A d \in Client : Present(d)' <=> Present(d)
        /\ \A d \in Client, j \in Id : Holds(d, j)' <=> Holds(d, j)
    BY DEF Present, Handled, Holds, BeingTaken
  <2>2. /\ \A j \in Id : j # i => (Exists(j)' <=> Exists(j))
        /\ Exists(i)' /\ ~Exists(i)
    BY <1>2, <1>4, <1>5, MaxEntityAssumption DEF Exists, Uniqifier
  <2>3. Creates(1, c, i)
    BY <1>1, <1>2 DEF Creates
  <2>4. /\ MayReuse(c, i) /\ Holds(c, i) /\ i \notin pool[c]
        /\ \A n \in DOMAIN fromNet : Creates(n, c, i) => n = 1
    BY <1>1, <2>0, <2>3 DEF Tokens, MayReuse
  <2>5. Idle(i) /\ ~InHand(i)
    BY <2>0, <2>2, <2>4, IdleFacts DEF Ids, IdOK
  <2>11. \A j \in Id : InHand(j)' <=> InHand(j)
    BY DEF InHand, NoEntity
  <2>6. ASSUME NEW j \in Id PROVE IdOK(j)'
    <3>1. CASE j = i
      <4>1. \A d \in Client : Holds(d, i)' <=> (entity'[i].owner = d /\ Present(d)')
        BY <1>4, <1>5, <2>0, <2>1, <2>4, <2>5 DEF Idle
      <4>2. i \in used' \/ (marking' = i /\ i \in sent')
        BY <1>2, <2>4, <2>5 DEF Idle
      <4>3. entity'[i].owner = c /\ Present(c)' /\ i \in sent'
        BY <1>4, <1>5, <2>0, <2>1, <2>4, <2>5 DEF Idle
      <4>4. Carried(i)'
        BY <4>1, <4>2, <4>3 DEF Carried
      <4> QED
        BY <2>2, <2>5, <2>11, <3>1, <4>4 DEF IdOK
    <3>2. CASE j # i
      <4>1. IdOK(j) /\ (Exists(j)' <=> Exists(j)) /\ entity'[j] = entity[j]
        BY <1>5, <2>0, <2>2, <3>2 DEF Ids, IdOK
      <4>2. marking' = j <=> marking = j
        BY <1>2, <3>2, MaxIdAssumption DEF Id
      <4> QED
        BY <2>1, <4>1, <4>2, IdKept
    <3> QED
      BY <3>1, <3>2
  <2>7. Ids'
    BY <2>6, ConstantSets DEF Ids
  <2>8. ASSUME NEW d \in Client, NEW j \in Id, Present(d)',
               j \in pool[d] \/ \E n \in DOMAIN fromNet' : Creates(n, d, j)'
        PROVE  MayReuse(d, j)' /\ (Exists(j)' => Exists(j))
    <3>1. Token(d, j)
      BY <1>1, <2>8 DEF Token, Creates
    <3>2. MayReuse(d, j) /\ Holds(d, j)
      BY <2>0, <2>1, <2>8, <3>1, TokenFacts
    <3>3. j # i
      <4> SUFFICES ASSUME j = i PROVE FALSE
        OBVIOUS
      <4>1. d = c
        BY <2>4, <2>5, <3>2 DEF Idle
      <4>2. PICK n \in DOMAIN fromNet' : Creates(n, c, i)'
        BY <2>4, <2>8, <4>1
      <4>3. n + 1 \in DOMAIN fromNet /\ Creates(n + 1, c, i) /\ n + 1 # 1
        BY <1>1, <4>2 DEF Creates
      <4> QED
        BY <2>4, <4>3
    <3>4. entity'[j] = entity[j] /\ (Exists(j)' <=> Exists(j)) /\ Holds(d, j)'
      BY <1>5, <2>1, <2>2, <3>2, <3>3
    <3>5. Exists(j) => (entity[j].uniq \in synced'[d] => entity[j].uniq \in synced[d])
      BY <1>10
    <3>6. Exists(j)' => /\ Exists(j) /\ entity'[j].uniq = entity[j].uniq
                        /\ entity[j].deleting => entity'[j].deleting
                        /\ d \in entity[j].deletedFor => d \in entity'[j].deletedFor
                        /\ entity[j].uniq \in synced'[d] => entity[j].uniq \in synced[d]
      BY <3>4, <3>5
    <3>7. Exists(j)' \/ InHand(j)' => j \notin stolen'
      BY <2>11, <3>2, <3>4 DEF MayReuse
    <3> QED
      BY <3>2, <3>4, <3>6, <3>7, MayReuseKept
  <2>9. \A n \in DOMAIN fromNet' : n \in Nat /\ n + 1 \in DOMAIN fromNet /\ fromNet'[n] = fromNet[n + 1]
    BY <1>1
  <2>10. Tokens'
    BY <2>0, <2>1, <2>8, <2>9, TokensKept
  <2> QED
    BY <2>7, <2>10
<1> QED
  BY <1>9, <1>11, <1>12, <1>13, <1>14, <1>15 DEF Inv

\* Who holds what after the entities in moved go to new owners.
LEMMA HoldersFacts ==
  ASSUME TypeOK, NEW moved \in SUBSET Id, NEW new
  PROVE  /\ Holders(moved, new) \in [Client -> SUBSET Id]
         /\ \A d \in Client, j \in Id :
              /\ j \in moved => (j \in Holders(moved, new)[d] <=>
                   (new[j] = d \/ (j \in objectIds[d] /\ ~(entity[j].owner = d /\ Live(d)))))
              /\ j \notin moved => (j \in Holders(moved, new)[d] <=> j \in objectIds[d])
  BY DEF Holders, TypeOK

\* The id of an entity that goes to a new owner is held by that owner alone.
LEMMA Reassigned ==
  ASSUME TypeOK, NEW moved \in SUBSET Id, NEW new, objectIds' = Holders(moved, new),
         freeing = NotFreeing, freeing' = NotFreeing,
         \A d \in Client : Present(d)' => Present(d)
  PROVE  /\ \A i \in moved : Carried(i) =>
              \A d \in Client : Holds(d, i)' <=> (new[i] = d /\ Present(d)')
         /\ \A i \in Id : i \notin moved =>
              \A d \in Client : Holds(d, i)' <=> (Holds(d, i) /\ Present(d)')
<1>0. /\ \A d, i : Holds(d, i) <=> (Present(d) /\ i \in objectIds[d])
      /\ \A d, i : Holds(d, i)' <=> (Present(d)' /\ i \in objectIds'[d])
  BY DEF Holds, Present, BeingTaken, NotFreeing
<1>1. ASSUME NEW i \in moved, Carried(i), NEW d \in Client
      PROVE  Holds(d, i)' <=> (new[i] = d /\ Present(d)')
  <2>1. i \in objectIds'[d] <=> (new[i] = d \/ (i \in objectIds[d] /\ ~(entity[i].owner = d /\ Live(d))))
    BY HoldersFacts
  <2>2. Holds(d, i)' <=> (Present(d)' /\ i \in objectIds'[d])
    BY <1>0
  <2>3. ASSUME Present(d)', i \in objectIds[d] PROVE entity[i].owner = d /\ Live(d)
    <3>1. Holds(d, i) /\ d # None
      BY <1>0, <2>3, NoneIsNoClient
    <3> QED
      BY <1>1, <2>3, <3>1 DEF Carried, Live, Present, Handled
  <2> QED
    BY <2>1, <2>2, <2>3
<1>2. ASSUME NEW i \in Id, i \notin moved, NEW d \in Client
      PROVE  Holds(d, i)' <=> (Holds(d, i) /\ Present(d)')
  <2>1. i \in objectIds'[d] <=> i \in objectIds[d]
    BY <1>2, HoldersFacts
  <2> QED
    BY <1>0, <2>1
<1> QED
  BY <1>1, <1>2

\* One entity gets a new owner.
LEMMA OwnerUpdate ==
  ASSUME TypeOK, NEW i \in Id, Exists(i), NEW c \in Client, entity' = [entity EXCEPT ![i].owner = c]
  PROVE  /\ EntitiesOK' /\ entity'[i].owner = c
         /\ \A j \in Id : j # i => entity'[j] = entity[j]
         /\ \A j \in Id : entity'[j].uniq = entity[j].uniq
         /\ \A j \in Id : entity'[j].finalizing = entity[j].finalizing
         /\ \A j \in Id : entity'[j].relevantTo = entity[j].relevantTo
         /\ \A j \in Id : Exists(j)' <=> Exists(j)
<1>1. entity[i] \in Entities /\ (~entity[i].deleting => entity[i].deletedFor = {})
  BY ExistsFacts DEF TypeOK
<1>2. PICK f : f = [entity[i] EXCEPT !.owner = c]
  OBVIOUS
<1>3. /\ f \in Entities /\ f.uniq = entity[i].uniq /\ f.owner = c /\ f.finalizing = entity[i].finalizing
      /\ f.deletedFor = entity[i].deletedFor /\ f.deleting = entity[i].deleting
      /\ f.relevantTo = entity[i].relevantTo
  BY <1>1, <1>2, UpdateFacts
<1>4. entity' = [entity EXCEPT ![i] = f] /\ (~f.deleting => f.deletedFor = {})
  BY <1>1, <1>2, <1>3
<1>5. EntitiesOK' /\ \A j \in Id : entity'[j] = IF j = i THEN f ELSE entity[j]
  BY <1>3, <1>4, ReplaceFacts
<1>6. \A j \in Id : entity'[j].uniq = entity[j].uniq
  BY <1>3, <1>5
<1> QED
  BY <1>3, <1>5, <1>6 DEF Exists

\* Client s gives the entity of an id to client c.
LEMMA TakeoverInv ==
  ASSUME Inv, fromNet # <<>>, fromNet' = Tail(fromNet),
         NEW s \in Client, NEW i \in Id, NEW c \in Client, Gives(1, s, i),
         marking = None, freeing = NotFreeing,
         Exists(i), ~(Live(entity[i].owner) /\ entity[i].owner \in {c} \cup (Client \ {s})),
         entity' = [entity EXCEPT ![i].owner = c],
         NEW new, new[i] = c, objectIds' = Holders({i}, new),
         stolen' = stolen \cup {i},
         raced' \in BOOLEAN, raced => raced', ~raced' => Present(s),
         UNCHANGED <<conn, granting, sent, used, lost, synced, pool, marking, creating, freeing, made,
                     mainQueue, fromMain>>
  PROVE  Inv'
<1>0. TypeOK
  BY DEF Inv
<1>1. /\ 1 \in DOMAIN fromNet /\ fromNet' \in Seq(Packets)
      /\ \A n \in DOMAIN fromNet' : n \in Nat /\ n + 1 \in DOMAIN fromNet /\ fromNet'[n] = fromNet[n + 1]
      /\ \A n \in DOMAIN fromNet' : n + 1 # 1 /\ 1 < n + 1
  BY PacketFacts
<1>4. {i} \in SUBSET Id
  OBVIOUS
<1>8. /\ EntitiesOK' /\ entity'[i].owner = c
      /\ \A j \in Id : j # i => entity'[j] = entity[j]
      /\ \A j \in Id : entity'[j].uniq = entity[j].uniq
      /\ \A j \in Id : entity'[j].finalizing = entity[j].finalizing
      /\ \A j \in Id : entity'[j].relevantTo = entity[j].relevantTo
      /\ \A j \in Id : Exists(j)' <=> Exists(j)
  BY <1>0, OwnerUpdate
<1>9. TypeOK'
  <2>1. objectIds' \in [Client -> SUBSET Id]
    BY <1>0, <1>4, HoldersFacts
  <2>2. raced' \in BOOLEAN /\ stolen' \subseteq Id
    BY <1>0 DEF TypeOK
  <2> QED
    BY <1>0, <1>1, <1>8, <2>1, <2>2, ConstantSets DEF TypeOK, EntitiesOK
<1>10. Uniques'
  BY <1>0, <1>1, <1>8, UniquesKept DEF Inv
<1>11. Relevant'
  BY <1>1, <1>8, RelevantKept DEF Inv
<1>12. Drops' /\ (~raced' => Announced' /\ Removals')
  <2>1. \A n \in DOMAIN fromMain' :
           n \in Nat /\ n + 0 \in DOMAIN fromMain /\ fromMain'[n] = fromMain[n + 0]
    BY <1>0, SameQueue DEF TypeOK
  <2> QED
    BY <1>0, <1>8, <1>9, <2>1, QuietTasks
<1>13. ASSUME ~raced' PROVE Ids' /\ Tokens'
  <2>0. Ids /\ Tokens /\ Present(s)
    BY <1>13 DEF Inv
  <2>1. \A d \in Client : Present(d)' <=> Present(d)
    BY DEF Present, Handled
  <2>2. Carried(i) /\ ~InHand(i) /\ \A j \in Id : InHand(j)' <=> InHand(j)
    BY <2>0 DEF Ids, IdOK, InHand, NoEntity
  <2>3. \A d \in Client : Holds(d, i)' <=> (d = c /\ Present(d)')
    <3>1. \A d \in Client : Holds(d, i)' <=> (new[i] = d /\ Present(d)')
      <4>1. freeing' = NotFreeing /\ \A d \in Client : Present(d)' => Present(d)
        BY <2>1
      <4>2. \A j \in {i} : Carried(j) => \A d \in Client : Holds(d, j)' <=> (new[j] = d /\ Present(d)')
        BY <1>0, <1>4, <4>1, Reassigned
      <4> QED
        BY <2>2, <4>2
    <3> QED
      BY <2>0, <2>1, <3>1
  <2>4. \A j \in Id : j # i => \A d \in Client : Holds(d, j)' <=> Holds(d, j)
    <3>1. \A d \in Client, j \in Id : Holds(d, j) => Present(d)
      BY DEF Holds, Present
    <3>2. freeing' = NotFreeing
      OBVIOUS
    <3> QED
      BY <1>0, <1>4, <2>1, <3>1, <3>2, Reassigned
  <2>5. ASSUME NEW j \in Id PROVE IdOK(j)'
    <3>1. CASE j = i
      <4>1. entity'[i].owner = c /\ i \in stolen'
        BY <1>8
      <4>2. i \in used' \/ (marking' = i /\ i \in sent')
        BY <2>2 DEF Carried
      <4>3. Carried(i)'
        BY <2>0, <2>1, <2>3, <4>1, <4>2 DEF Carried
      <4> QED
        BY <1>8, <2>2, <3>1, <4>3 DEF IdOK
    <3>2. CASE j # i
      <4>1. IdOK(j) /\ (Exists(j)' <=> Exists(j)) /\ entity'[j] = entity[j]
        BY <1>8, <2>0, <3>2 DEF Ids, IdOK
      <4>2. j \in stolen' <=> j \in stolen
        BY <3>2
      <4> QED
        BY <2>1, <2>4, <3>2, <4>1, <4>2, IdKept
    <3> QED
      BY <3>1, <3>2
  <2>6. Ids'
    BY <2>5, ConstantSets DEF Ids
  <2>8. ASSUME NEW d \in Client, NEW j \in Id, Present(d)',
               j \in pool[d] \/ \E n \in DOMAIN fromNet' : Creates(n, d, j)'
        PROVE  MayReuse(d, j)' /\ (Exists(j)' => Exists(j))
    <3>1. Token(d, j)
      BY <1>1, <2>8 DEF Token, Creates
    <3>2. MayReuse(d, j) /\ Holds(d, j)
      BY <2>0, <2>1, <2>8, <3>1, TokenFacts
    <3>3. j # i
      <4> SUFFICES ASSUME j = i PROVE FALSE
        OBVIOUS
      <4>1. entity[i].owner = d /\ Present(d) /\ d # None
        BY <2>2, <3>2, NoneIsNoClient DEF Carried
      <4>2. d = s
        BY <4>1 DEF Live, Present, Handled
      <4>3. CASE i \in pool[s]
        BY <1>1, <2>0, <4>1, <4>2, <4>3 DEF Tokens
      <4>4. CASE \E n \in DOMAIN fromNet' : Creates(n, s, i)'
        <5>1. PICK n \in DOMAIN fromNet' : Creates(n, s, i)'
          BY <4>4
        <5>2. n + 1 \in DOMAIN fromNet /\ Creates(n + 1, s, i) /\ 1 < n + 1
          BY <1>1, <5>1 DEF Creates
        <5> QED
          BY <1>1, <2>0, <4>1, <4>2, <5>2 DEF Tokens
      <4> QED
        BY <2>8, <4>2, <4>3, <4>4
    <3>4. entity'[j] = entity[j] /\ (Exists(j)' <=> Exists(j)) /\ Holds(d, j)' /\ (j \in stolen' => j \in stolen)
      BY <1>8, <2>4, <3>2, <3>3
    <3>5. Exists(j)' \/ InHand(j)' => j \notin stolen'
      BY <2>2, <3>2, <3>3, <3>4 DEF MayReuse
    <3> QED
      BY <3>2, <3>4, <3>5, MayReuseKept
  <2>9. Tokens'
    BY <1>1, <2>0, <2>1, <2>8, TokensKept
  <2> QED
    BY <2>6, <2>9
<1> QED
  BY <1>9, <1>10, <1>11, <1>12, <1>13 DEF Inv

\* The sync thread handles a packet.
LEMMA HandlePacketInv == ASSUME Inv, HandlePacket PROVE Inv'
<1>0. TypeOK /\ raced \in BOOLEAN
  BY DEF Inv, TypeOK
<1>1. /\ fromNet # <<>> /\ marking = None /\ freeing = NotFreeing /\ fromNet' = Tail(fromNet)
      /\ UNCHANGED <<conn, granting, used, creating, freeing, made, fromMain>>
  BY DEF HandlePacket, SyncIdle
<1>2. /\ Head(fromNet) \in Packets /\ Head(fromNet) = fromNet[1]
      /\ fromNet' \in Seq(Packets)
      /\ \A n \in DOMAIN fromNet' : n \in Nat /\ n + 1 \in DOMAIN fromNet /\ fromNet'[n] = fromNet[n + 1]
      /\ \A n \in DOMAIN fromMain' :
           n \in Nat /\ n + 0 \in DOMAIN fromMain /\ fromMain'[n] = fromMain[n + 0]
  BY <1>0, <1>1, PacketFacts, SameQueue DEF TypeOK
<1>3. PICK m \in Packets : m = Head(fromNet)
  BY <1>2
<1>4. m.from \in Client /\ (m.op # "requestIds" => m.id \in Id /\ m.uniq \in Uniqifier)
  BY MessageFacts
<1>5. CASE m.op = "requestIds"
  <2>1. GetFreeObjectIds(m.from) /\ UNCHANGED <<stolen, entity, synced, marking, mainQueue>>
    BY <1>3, <1>5 DEF HandlePacket
  <2>2. /\ sent' \subseteq Id /\ lost' \subseteq Id
        /\ objectIds' \in [Client -> SUBSET Id] /\ pool' \in [Client -> SUBSET Id]
        /\ raced' \in BOOLEAN /\ (raced => raced')
        /\ ~raced' => Ids' /\ Tokens'
    BY <1>1, <1>2, <1>4, <2>1, LendInv
  <2>3. TypeOK'
    BY <1>0, <1>1, <1>2, <2>1, <2>2, ConstantSets DEF TypeOK, Exists
  <2>4. Uniques' /\ Relevant'
    BY <1>1, <1>2, <2>1, LendRest
  <2>5. Drops' /\ (~raced' => Announced' /\ Removals')
    BY <1>1, <1>2, <2>1, <2>2, <2>3, QuietTasks
  <2> QED
    BY <2>2, <2>3, <2>4, <2>5 DEF Inv
<1>6. CASE m.op # "requestIds"
  <2>0. raced' = (raced \/ Handled(m.from)) /\ UNCHANGED <<sent, lost>>
    BY <1>3, <1>6 DEF HandlePacket
  <2>1. raced' \in BOOLEAN /\ (raced => raced') /\ (~raced' => Present(m.from))
    BY <1>0, <2>0 DEF Present, Handled
  <2>2. EntitiesOK
    BY <1>0 DEF TypeOK, EntitiesOK
  <2>3. ASSUME entity' = entity PROVE EntitiesOK' /\ \A j \in Id : Untouched(j)
    BY <2>2, <2>3, ConstantSets DEF EntitiesOK, Exists, Untouched, Same
  <2>4. CASE m.op = "create" /\ CloneCreate(m) /\ UNCHANGED <<objectIds, stolen>>
    <3>1. CASE Exists(m.id) /\ UNCHANGED <<entity, synced, pool, marking, mainQueue>>
      BY <1>1, <2>0, <2>1, <2>3, <2>4, <3>1, QuietPacket
    <3>2. CASE /\ ~Exists(m.id)
               /\ pool' = [pool EXCEPT ![m.from] = @ \cup {m.id}]
               /\ UNCHANGED <<entity, synced, marking, mainQueue>>
      BY <1>1, <1>3, <2>0, <2>4, <3>2, RefusedInv
    <3>3. CASE /\ ~Exists(m.id)
               /\ pool' = pool
               /\ entity' = [entity EXCEPT ![m.id] = NewEntity(m.uniq, m.from, m.kind.script, m.kind.keep)]
               /\ synced' = [synced EXCEPT ![m.from] = @ \cup {m.uniq}]
               /\ marking' = m.id
               /\ mainQueue' = Append(mainQueue, [op |-> "creating", id |-> m.id, uniq |-> m.uniq])
      <4>1. PICK e \in Entities :
              /\ e = NewEntity(m.uniq, m.from, m.kind.script, m.kind.keep)
              /\ e.uniq = m.uniq /\ e.owner = m.from /\ e.deletedFor = {}
              /\ ~e.deleting /\ m.from \in e.relevantTo
        BY <2>4, CreatedFacts
      <4>2. entity' = [entity EXCEPT ![m.id] = e]
        BY <3>3, <4>1
      <4> QED
        BY <1>1, <1>3, <2>0, <2>4, <3>3, <4>1, <4>2, InsertInv
    <3> QED
      BY <2>4, <3>1, <3>2, <3>3 DEF CloneCreate
  <2>5. CASE m.op = "sync" /\ CloneSync(m) /\ UNCHANGED <<objectIds, stolen>>
    <3>1. UNCHANGED <<synced, pool, marking, mainQueue>>
      BY <2>5 DEF CloneSync
    <3>2. EntitiesOK' /\ \A j \in Id : Untouched(j)
      <4>1. CASE entity' = entity
        BY <2>3, <4>1
      <4>2. CASE entity' # entity
        <5>1. entity[m.id].uniq = m.uniq /\ entity' = [entity EXCEPT ![m.id].relevantTo = @ \cup {m.from}]
          BY <2>5, <4>2 DEF CloneSync
        <5>2. Exists(m.id)
          BY <1>4, <1>6, <5>1, MaxEntityAssumption DEF Exists, Uniqifier
        <5> QED
          BY <1>0, <1>4, <1>6, <5>1, <5>2, QuietUpdate
      <4> QED
        BY <4>1, <4>2
    <3> QED
      BY <1>1, <2>0, <2>1, <2>5, <3>1, <3>2, QuietPacket
  <2>6. CASE /\ m.op = "takeover" /\ CloneTakeover(m)
             /\ UNCHANGED <<synced, pool, marking, mainQueue>>
    <3>1. CASE UNCHANGED <<entity, objectIds, stolen>>
      BY <1>1, <2>0, <2>1, <2>3, <2>6, <3>1, QuietPacket
    <3>2. CASE ~UNCHANGED <<entity, objectIds, stolen>>
      <4>1. PICK c \in Registered \cup {m.from} :
              /\ Exists(m.id)
              /\ ~(Live(entity[m.id].owner) /\ entity[m.id].owner \in {c} \cup (Client \ {m.from}))
              /\ entity' = [entity EXCEPT ![m.id].owner = c]
              /\ objectIds' = Holders({m.id}, [i \in {m.id} |-> c])
              /\ stolen' = stolen \cup {m.id}
        BY <2>6, <3>2 DEF CloneTakeover
      <4>2. PICK i \in Id, s \in Client : i = m.id /\ s = m.from
        BY <1>4, <1>6
      <4>3. PICK new : new = [j \in {i} |-> c]
        OBVIOUS
      <4>4. new[i] = c /\ objectIds' = Holders({i}, new)
        BY <4>1, <4>2, <4>3
      <4>5. c \in Client
        BY <1>4, <4>2 DEF Registered
      <4>6. Gives(1, s, i)
        BY <1>2, <1>3, <2>6, <4>2 DEF Gives
      <4>7. /\ Exists(i)
            /\ ~(Live(entity[i].owner) /\ entity[i].owner \in {c} \cup (Client \ {s}))
            /\ entity' = [entity EXCEPT ![i].owner = c]
            /\ stolen' = stolen \cup {i}
            /\ raced' \in BOOLEAN /\ (raced => raced') /\ (~raced' => Present(s))
        BY <2>1, <4>1, <4>2
      <4> QED
        BY <1>1, <2>0, <2>6, <4>4, <4>5, <4>6, <4>7, TakeoverInv
    <3> QED
      BY <3>1, <3>2
  <2>7. CASE /\ m.op = "remove" /\ CloneRemove(m)
             /\ UNCHANGED <<objectIds, stolen, synced, pool, marking, mainQueue>>
    <3>1. EntitiesOK' /\ \A j \in Id : Untouched(j)
      <4>1. CASE entity' = entity
        BY <2>3, <4>1
      <4>2. CASE entity' # entity
        <5>1. Exists(m.id) /\ entity' = [entity EXCEPT ![m.id].deleting = TRUE]
          BY <2>7, <4>2 DEF CloneRemove, RemoveClone
        <5> QED
          BY <1>0, <1>4, <1>6, <5>1, QuietUpdate
      <4> QED
        BY <4>1, <4>2
    <3> QED
      BY <1>1, <2>0, <2>1, <2>7, <3>1, QuietPacket
  <2> QED
    BY <1>3, <1>6, <2>4, <2>5, <2>6, <2>7 DEF HandlePacket
<1> QED
  BY <1>5, <1>6

\* The entity that a server script creates.
LEMMA TreeFacts ==
  ASSUME NEW u \in Uniqifier
  PROVE  \E e \in Entities :
           /\ e = NewEntity(u, None, "server", FALSE)
           /\ e.uniq = u /\ e.owner = None /\ e.deletedFor = {} /\ ~e.deleting
<1>1. PICK k \in AnyKind, o \in Owner : k = [script |-> "server", keep |-> FALSE] /\ o = None
  BY DEF AnyKind, Owner
<1>2. PICK e : e = NewEntity(u, o, k.script, k.keep)
  OBVIOUS
<1>3. e = NewEntity(u, None, "server", FALSE)
  BY <1>1, <1>2 DEF NewEntity
<1>4. e \in Entities /\ e.uniq = u /\ e.owner = o /\ e.deletedFor = {} /\ ~e.deleting
  BY <1>2, NewFacts
<1> QED
  BY <1>1, <1>3, <1>4

\* No entity, packet or client has the uniqifier after the last.
LEMMA FreshFacts ==
  ASSUME TypeOK, Uniques, NEW u \in Uniqifier, u = made + 1
  PROVE  /\ \A j \in Id : entity[j].uniq # u
         /\ \A c \in Client : u \notin synced[c]
         /\ \A n \in DOMAIN fromNet : fromNet[n].op = "create" => fromNet[n].uniq # u
<1>0. /\ made \in Nat /\ \A n \in DOMAIN fromNet : fromNet[n] \in Packets
      /\ \A v \in Uniqifier : v \in Nat
  <2>1. fromNet \in Seq(Packets)
    BY DEF TypeOK
  <2> QED
    BY <2>1, MaxEntityAssumption DEF TypeOK, Uniqifier
<1>2. \A j \in Id : entity[j].uniq \in Nat /\ entity[j].uniq <= made
  <2>1. ASSUME NEW j \in Id PROVE entity[j].uniq \in Nat
    <3>1. entity[j].uniq \in Uniqifier \/ entity[j].uniq = 0
      <4>1. entity[j] \in Entities \cup {NoEntity} /\ NoEntity.uniq = 0
        BY DEF TypeOK, NoEntity
      <4>2. \A e \in Entities : e.uniq \in Uniqifier
        BY DEF Entities
      <4> QED
        BY <4>1, <4>2
    <3>2. PICK v : v = entity[j].uniq
      OBVIOUS
    <3>3. v \in Uniqifier => v \in Nat
      BY <1>0
    <3>4. v = 0 => v \in Nat
      OBVIOUS
    <3> QED
      BY <3>1, <3>2, <3>3, <3>4, Zenon
  <2> QED
    BY <2>1 DEF Uniques
<1>3. \A c \in Client : \A v \in synced[c] : v \in Uniqifier
  BY DEF TypeOK
<1>4. \A c \in Client : \A v \in synced[c] : v \in Nat /\ v <= made
  BY <1>0, <1>3 DEF Uniques
<1>5. \A n \in DOMAIN fromNet : fromNet[n].op = "create" => fromNet[n].uniq \in Uniqifier
  BY <1>0, MessageFacts
<1>6. \A n \in DOMAIN fromNet : fromNet[n].op = "create" => fromNet[n].uniq \in Nat /\ fromNet[n].uniq <= made
  BY <1>0, <1>5 DEF Uniques
<1> QED
  BY <1>0, <1>2, <1>4, <1>6

\* A server script marks an id for an entity.
LEMMA CreateInv == ASSUME Inv, CreateEntityFromTree PROVE Inv'
<1>0. TypeOK /\ Uniques /\ Relevant /\ made \in Nat
  BY MaxEntityAssumption DEF Inv, TypeOK
<1>1. PICK i \in Free :
        /\ sent' = sent \cup {i} /\ used' = used \cup {i} /\ stolen' = stolen \cup {i}
        /\ creating' = [uniq |-> made + 1, id |-> i]
  BY FreeId DEF CreateEntityFromTree
<1>2. /\ i \in Id /\ made < MaxEntity /\ made' = made + 1 /\ creating = NoEntity
      /\ UNCHANGED <<conn, granting, objectIds, entity, synced, pool, marking, freeing,
                     mainQueue, fromMain, fromNet, raced, lost>>
  BY DEF CreateEntityFromTree, MainIdle, queueVars, Free
<1>3. PICK u \in Uniqifier : u = made + 1
  BY <1>0, <1>2, MaxEntityAssumption DEF Uniqifier
<1>4. creating' = [uniq |-> u, id |-> i] /\ creating'.uniq = u /\ creating'.id = i
  BY <1>1, <1>3
<1>5. /\ \A n \in DOMAIN fromNet' :
           n \in Nat /\ n + 0 \in DOMAIN fromNet /\ fromNet'[n] = fromNet[n + 0]
      /\ \A n \in DOMAIN fromMain' :
           n \in Nat /\ n + 0 \in DOMAIN fromMain /\ fromMain'[n] = fromMain[n + 0]
  BY <1>0, <1>2, SameQueue DEF TypeOK
<1>6. TypeOK'
  <2>1. made' \in 0 .. MaxEntity /\ creating' \in [uniq : Uniqifier, id : Id]
    BY <1>0, <1>2, <1>4, MaxEntityAssumption
  <2> QED
    BY <1>0, <1>1, <1>2, <2>1, ConstantSets DEF TypeOK, Exists, NotFreeing
<1>7. Uniques'
  <2>1. /\ \A j \in Id : entity[j].uniq # u
        /\ \A c \in Client : u \notin synced[c]
        /\ \A n \in DOMAIN fromNet : fromNet[n].op = "create" => fromNet[n].uniq # u
    BY <1>0, <1>3, FreshFacts
  <2>2. u \in Nat /\ u <= made' /\ made <= made' /\ made' \in Nat
    BY <1>0, <1>2, <1>3
  <2>3. \A v \in Nat : v <= made => v <= made'
    BY <1>0, <2>2
  <2>4. /\ \A j \in Id : entity[j].uniq \in Nat
        /\ \A c \in Client : \A v \in synced[c] : v \in Nat
        /\ \A n \in DOMAIN fromNet : fromNet[n].op = "create" => fromNet[n].uniq \in Nat
    <3>1. fromNet \in Seq(Packets) /\ \A v \in Uniqifier : v \in Nat
      BY <1>0, MaxEntityAssumption DEF TypeOK, Uniqifier
    <3>2. \A n \in DOMAIN fromNet : fromNet[n] \in Packets
      BY <3>1
    <3>3. \A c \in Client : \A v \in synced[c] : v \in Uniqifier
      BY <1>0 DEF TypeOK
    <3> QED
      BY <1>0, <3>1, <3>2, <3>3, ExistsFacts, MessageFacts
  <2>5. /\ \A j \in Id : entity[j].uniq <= made'
        /\ \A c \in Client : \A v \in synced[c] : v <= made'
        /\ \A n \in DOMAIN fromNet : fromNet[n].op = "create" => fromNet[n].uniq <= made'
    BY <1>0, <2>3, <2>4 DEF Uniques
  <2> QED
    BY <1>0, <1>2, <1>4, <2>1, <2>2, <2>5, ConstantSets DEF Uniques, Exists
<1>8. Relevant'
  BY <1>0, <1>2, <1>5, RelevantKept
<1>9. Drops' /\ (~raced' => Announced' /\ Removals')
  BY <1>2, <1>5, <1>6, QuietTasks
<1>10. ASSUME ~raced' PROVE Ids' /\ Tokens'
  <2>0. Ids /\ Tokens
    BY <1>2, <1>10 DEF Inv
  <2>1. ~Exists(i) /\ ~InHand(i) /\ i \notin sent /\ i \notin used /\ \A d \in Client : ~Holds(d, i)
    BY <2>0, FreeFacts
  <2>2. /\ \A d \in Client, j \in Id : (Present(d)' <=> Present(d)) /\ (Holds(d, j)' <=> Holds(d, j))
        /\ \A j \in Id : Exists(j)' <=> Exists(j)
    BY <1>2 DEF Present, Handled, Holds, BeingTaken, Exists
  <2>3. /\ InHand(i)' /\ Hand(i)' = None /\ ~Both(i)'
        /\ \A j \in Id : j # i => (InHand(j)' <=> InHand(j)) /\ Hand(j)' = Hand(j) /\ ~Both(j)'
    <3>1. creating' # NoEntity'
      <4>1. creating'.uniq # 0 /\ NoEntity'.uniq = 0
        BY <1>4, MaxEntityAssumption DEF NoEntity, Uniqifier
      <4> QED
        BY <4>1
    <3>2. ~(freeing'.step = "ids" /\ freeing'.id = i)
      BY <1>2, <2>1 DEF InHand
    <3> QED
      BY <1>2, <1>4, <3>1, <3>2 DEF InHand, Hand, Both
  <2>4. ASSUME NEW j \in Id PROVE IdOK(j)'
    <3>0. IdOK(j)
      BY <2>0 DEF Ids
    <3>1. CASE j = i
      <4>1. Idle(i)
        BY <2>1, <3>0, <3>1 DEF IdOK
      <4>2. i \in used' /\ i \in stolen' /\ marking' # i
        BY <1>1, <1>2, <4>1 DEF Idle
      <4>3. Handed(i)'
        <5>1. \A c \in Client : Holds(c, i)' <=> (Hand(i)' = c /\ Present(c)')
          BY <1>2, <2>1, <2>2, <2>3, NoneIsNoClient
        <5> QED
          BY <2>3, <4>2, <5>1 DEF Handed
      <4> QED
        BY <2>1, <2>2, <2>3, <3>1, <4>3 DEF IdOK
    <3>2. CASE j # i
      <4>1. (j \in used' <=> j \in used) /\ (j \in stolen' <=> j \in stolen) /\ (j \in sent' <=> j \in sent)
        BY <1>1, <3>2
      <4> QED
        BY <1>2, <2>2, <2>3, <3>0, <3>2, <4>1, IdSame
    <3> QED
      BY <3>1, <3>2
  <2>5. Ids'
    BY <2>4, ConstantSets DEF Ids
  <2>6. ASSUME NEW d \in Client, NEW j \in Id, Present(d)',
               j \in pool[d] \/ \E n \in DOMAIN fromNet' : Creates(n, d, j)'
        PROVE  MayReuse(d, j)' /\ (Exists(j)' => Exists(j))
    <3>1. Token(d, j)
      BY <1>2, <2>6 DEF Token, Creates
    <3>2. MayReuse(d, j) /\ Holds(d, j)
      BY <2>0, <2>2, <2>6, <3>1, TokenFacts
    <3>3. j # i
      BY <2>1, <3>2
    <3>4. Holds(d, j)' /\ (Exists(j)' <=> Exists(j)) /\ (InHand(j)' <=> InHand(j)) /\ (j \in stolen' => j \in stolen)
      BY <1>1, <2>2, <2>3, <3>2, <3>3
    <3>5. Exists(j)' \/ InHand(j)' => j \notin stolen'
      BY <3>2, <3>4 DEF MayReuse
    <3> QED
      BY <1>2, <3>2, <3>4, <3>5, MayReuseKept
  <2>7. \A d \in Client : Present(d)' => Present(d)
    BY <1>2 DEF Present, Handled
  <2>8. Tokens'
    BY <1>2, <1>5, <2>0, <2>6, <2>7, TokensKept
  <2> QED
    BY <2>5, <2>8
<1> QED
  BY <1>6, <1>7, <1>8, <1>9, <1>10 DEF Inv

\* A server script's entity is inserted.
LEMMA InsertEntityInv == ASSUME Inv, InsertEntity PROVE Inv'
<1>0. TypeOK /\ Uniques /\ Relevant /\ made \in Nat
  BY MaxEntityAssumption DEF Inv, TypeOK
<1>1. /\ creating # NoEntity /\ creating' = NoEntity
      /\ entity' = [entity EXCEPT ![creating.id] = NewEntity(creating.uniq, None, "server", FALSE)]
      /\ UNCHANGED <<conn, granting, sent, used, stolen, objectIds, synced, pool, marking, freeing, made,
                     mainQueue, fromMain, fromNet, raced, lost>>
  BY DEF InsertEntity, idVars, queueVars
<1>2. creating \in [uniq : Uniqifier, id : Id]
  BY <1>0, <1>1 DEF TypeOK
<1>3. PICK i \in Id, u \in Uniqifier : i = creating.id /\ u = creating.uniq
  BY <1>2
<1>4. PICK e \in Entities :
        /\ entity' = [entity EXCEPT ![i] = e]
        /\ e.uniq = u /\ e.owner = None /\ e.deletedFor = {} /\ ~e.deleting
  BY <1>1, <1>3, TreeFacts
<1>5. EntitiesOK' /\ \A j \in Id : entity'[j] = IF j = i THEN e ELSE entity[j]
  BY <1>0, <1>4, ReplaceFacts
<1>6. /\ \A n \in DOMAIN fromNet' :
           n \in Nat /\ n + 0 \in DOMAIN fromNet /\ fromNet'[n] = fromNet[n + 0]
      /\ \A n \in DOMAIN fromMain' :
           n \in Nat /\ n + 0 \in DOMAIN fromMain /\ fromMain'[n] = fromMain[n + 0]
  BY <1>0, <1>1, SameQueue DEF TypeOK
<1>7. TypeOK'
  BY <1>0, <1>1, <1>5, ConstantSets DEF TypeOK, EntitiesOK, NotFreeing
<1>8. /\ u <= made /\ \A j \in Id : entity[j].uniq # u
      /\ \A c \in Client : u \notin synced[c]
      /\ \A n \in DOMAIN fromNet : fromNet[n].op = "create" => fromNet[n].uniq # u
  BY <1>0, <1>1, <1>3 DEF Uniques
<1>9. Uniques'
  <2>1. made' \in Nat /\ made <= made' /\ u <= made'
    BY <1>0, <1>1, <1>8
  <2>2. entity'[i].uniq = u /\ \A j \in Id : j # i => entity'[j] = entity[j] /\ entity[j].uniq # u
    BY <1>4, <1>5, <1>8
  <2>3. \A n \in DOMAIN fromNet' : fromNet'[n].op = "create" => fromNet'[n].uniq # u
    BY <1>1, <1>8
  <2>4. \A c \in Client : \A v \in synced'[c] : v \in synced[c] \/ v = u
    BY <1>1
  <2> QED
    BY <1>0, <1>1, <1>6, <2>1, <2>2, <2>3, <2>4, NewUniques
<1>10. Relevant'
  <2>1. entity'[i].uniq = u /\ \A j \in Id : j # i => entity'[j] = entity[j] /\ entity[j].uniq # u
    BY <1>4, <1>5, <1>8
  <2>2. \A c \in Client : u \in synced'[c] => c \in entity'[i].relevantTo
    BY <1>1, <1>8
  <2>3. \A c \in Client : \A v \in synced'[c] : v \in synced[c] \/ (v = u /\ conn[c] # "new")
    BY <1>1
  <2>4. Relevant /\ conn' = conn
    BY <1>0, <1>1
  <2> QED
    BY <1>6, <2>1, <2>2, <2>3, <2>4, NewRelevant
<1>11. Drops'
  BY <1>1 DEF Inv, Drops
<1>12. ASSUME ~raced' PROVE Ids' /\ Tokens' /\ Announced' /\ Removals'
  <2>0. Ids /\ Tokens /\ Announced /\ Removals
    BY <1>1, <1>12 DEF Inv
  <2>1. ~Exists(i) /\ Handed(i)
    <3>1. InHand(i) /\ IdOK(i)
      BY <1>1, <1>3, <2>0 DEF InHand, Ids
    <3> QED
      BY <3>1 DEF IdOK
  <2>2. /\ ~(freeing.step = "ids" /\ freeing.id = i) /\ Hand(i) = None
        /\ i \in used /\ i \in stolen /\ marking # i /\ \A d \in Client : ~Holds(d, i)
    <3>1. ~(freeing.step = "ids" /\ freeing.id = i)
      BY <1>1, <1>3, <2>1 DEF Handed, Both
    <3>2. Hand(i) = None
      BY <3>1 DEF Hand
    <3> QED
      BY <2>1, <3>1, <3>2, NoneIsNoClient DEF Handed
  <2>3. \A d \in Client, j \in Id : (Present(d)' <=> Present(d)) /\ (Holds(d, j)' <=> Holds(d, j))
    BY <1>1 DEF Present, Handled, Holds, BeingTaken
  <2>4. /\ Exists(i)' /\ entity'[i].owner = None
        /\ \A j \in Id : j # i => entity'[j] = entity[j] /\ (Exists(j)' <=> Exists(j))
    BY <1>4, <1>5, MaxEntityAssumption DEF Exists, Uniqifier
  <2>5. /\ ~InHand(i)'
        /\ \A j \in Id : j # i => (InHand(j)' <=> InHand(j)) /\ Hand(j)' = Hand(j) /\ ~Both(j)'
    <3>1. creating' = NoEntity'
      BY <1>1 DEF NoEntity
    <3> QED
      BY <1>1, <1>3, <2>2, <3>1 DEF InHand, Hand, Both
  <2>6. ASSUME NEW j \in Id PROVE IdOK(j)'
    <3>1. CASE j = i
      <4>1. i \in used' /\ i \in stolen' /\ \A d \in Client : ~Holds(d, i)'
        BY <1>1, <2>2, <2>3
      <4>2. Carried(i)'
        BY <2>4, <4>1, NoneIsNoClient DEF Carried
      <4> QED
        BY <2>4, <2>5, <3>1, <4>2 DEF IdOK
    <3>2. CASE j # i
      <4>1. IdOK(j)
        BY <2>0 DEF Ids
      <4> QED
        BY <1>1, <2>3, <2>4, <2>5, <3>2, <4>1, IdSame
    <3> QED
      BY <3>1, <3>2
  <2>7. Ids'
    BY <2>6, ConstantSets DEF Ids
  <2>8. ASSUME NEW d \in Client, NEW j \in Id, Present(d)',
               j \in pool[d] \/ \E n \in DOMAIN fromNet' : Creates(n, d, j)'
        PROVE  MayReuse(d, j)' /\ (Exists(j)' => Exists(j))
    <3>1. Token(d, j)
      BY <1>1, <2>8 DEF Token, Creates
    <3>2. MayReuse(d, j) /\ Holds(d, j)
      BY <2>0, <2>3, <2>8, <3>1, TokenFacts
    <3>3. j # i
      BY <2>2, <3>2
    <3>4. Holds(d, j)' /\ entity'[j] = entity[j] /\ (Exists(j)' <=> Exists(j)) /\ (InHand(j)' <=> InHand(j))
      BY <2>3, <2>4, <2>5, <3>2, <3>3
    <3>5. Exists(j)' \/ InHand(j)' => j \notin stolen'
      BY <1>1, <3>2, <3>4 DEF MayReuse
    <3> QED
      BY <1>1, <3>2, <3>4, <3>5, MayReuseKept
  <2>9. \A d \in Client : Present(d)' => Present(d)
    BY <1>1 DEF Present, Handled
  <2>10. Tokens'
    BY <1>1, <1>6, <2>0, <2>8, <2>9, TokensKept
  <2>11. Announced' /\ Removals'
    <3>1. mainQueue \in Seq(Announcements)
      BY <1>0 DEF TypeOK, Announcements
    <3>2. PICK N \in Nat : \A n \in DOMAIN mainQueue : n # N
      <4>1. Len(mainQueue) + 1 \in Nat /\ \A n \in DOMAIN mainQueue : n # Len(mainQueue) + 1
        BY <3>1
      <4> QED
        BY <4>1
    <3>3. \A n \in DOMAIN mainQueue' : n \in DOMAIN mainQueue /\ mainQueue'[n] = mainQueue[n]
      BY <1>1
    <3> QED
      BY <1>0, <1>1, <2>0, <2>1, <2>4, <3>2, <3>3, NewTasks
  <2> QED
    BY <2>7, <2>10, <2>11
<1> QED
  BY <1>7, <1>9, <1>10, <1>11, <1>12 DEF Inv

\* The second half of FinalizeClone removes the entity ...
LEMMA DoRemoveInv ==
  ASSUME Inv, fromMain # <<>>, fromMain' = Tail(fromMain), marking = None, freeing = NotFreeing,
         NEW i \in Id, fromMain[1].op = "doRemove", fromMain[1].id = i, DoRemove(i),
         UNCHANGED <<conn, synced, pool, granting, sent, used, stolen, objectIds, marking, creating, made,
                     mainQueue, fromNet, raced, lost>>
  PROVE  Inv'
<1>0. TypeOK
  BY DEF Inv
<1>1. /\ fromMain' \in Seq(Posted) /\ 1 \in DOMAIN fromMain
      /\ \A n \in DOMAIN fromMain' : n \in Nat /\ n + 1 \in DOMAIN fromMain /\ fromMain'[n] = fromMain[n + 1]
      /\ \A n \in DOMAIN fromMain' : n + 1 # 1 /\ ~(n + 1 < 1)
      /\ \A n \in DOMAIN fromNet' : n \in Nat /\ n + 0 \in DOMAIN fromNet /\ fromNet'[n] = fromNet[n + 0]
  <2>1. fromMain \in Seq(Posted) /\ fromNet \in Seq(Packets)
    BY <1>0 DEF TypeOK
  <2> QED
    BY <2>1, TailFacts, SameQueue
<1>2. /\ entity' = [entity EXCEPT ![i] = NoEntity]
      /\ freeing' = [step |-> "ids", id |-> i, owner |-> IF Exists(i) THEN entity[i].owner ELSE None]
  BY DEF DoRemove
<1>3. /\ entity' \in [Id -> Entities \cup {NoEntity}]
      /\ \A j \in Id : entity'[j] = IF j = i THEN NoEntity ELSE entity[j]
  BY <1>0, <1>2 DEF TypeOK
<1>4. /\ ~Exists(i)' /\ entity'[i].uniq = 0
      /\ \A j \in Id : j # i => entity'[j] = entity[j] /\ (Exists(j)' <=> Exists(j))
  BY <1>3 DEF Exists, NoEntity
<1>5. TypeOK'
  <2>1. freeing' \in [step : {"ids", "holder"}, id : Id, owner : Client \cup {None}]
    <3>1. Exists(i) => entity[i].owner \in Client \cup {None}
      BY <1>0, ExistsFacts DEF Entities
    <3> QED
      BY <1>2, <3>1
  <2>2. \A j \in Id : Exists(j)' /\ ~entity'[j].deleting => entity'[j].deletedFor = {}
    BY <1>0, <1>4 DEF TypeOK
  <2> QED
    BY <1>0, <1>1, <1>2, <1>3, <2>1, <2>2, ConstantSets DEF TypeOK
<1>6. Uniques'
  BY <1>0, <1>1, <1>4, UniquesKept DEF Inv
<1>7. Relevant'
  BY <1>1, <1>4, RelevantKept DEF Inv
<1>8. Drops'
  BY <1>1, DropsKept DEF Inv
<1>9. ASSUME ~raced' PROVE Ids' /\ Tokens' /\ Announced' /\ Removals'
  <2>0. Ids /\ Tokens /\ Announced /\ Removals
    BY <1>9 DEF Inv
  <2>1. /\ Finalizing(fromMain[1])
        /\ \A m \in DOMAIN mainQueue : mainQueue[m].id # i
        /\ \A m \in DOMAIN fromMain :
             /\ fromMain[m].op = "doRemove" /\ fromMain[m].id = i => m = 1
             /\ Filter(m) /\ fromMain[m].id = i => m < 1
    BY <1>1, <2>0 DEF Removals
  <2>2. Exists(i)
    <3>1. fromMain \in Seq(Posted)
      BY <1>0 DEF TypeOK
    <3>2. fromMain[1] \in Posted
      BY <1>1, <3>1
    <3>3. fromMain[1].uniq \in Uniqifier
      BY <3>2, MessageFacts
    <3> QED
      BY <2>1, <3>3, MaxEntityAssumption DEF Finalizing, Exists, Uniqifier
  <2>3. Carried(i) /\ ~InHand(i)
    BY <2>0, <2>2 DEF Ids, IdOK
  <2>4. \A d \in Client : Present(d)' <=> Present(d)
    BY DEF Present, Handled
  <2>5. \A d \in Client, j \in Id : Holds(d, j)' <=> Holds(d, j)
    BY <1>2 DEF Holds, Handled, BeingTaken, NotFreeing
  <2>11. /\ InHand(i)' /\ Hand(i)' = entity[i].owner /\ ~Both(i)'
         /\ \A j \in Id : j # i => (InHand(j)' <=> InHand(j)) /\ Hand(j)' = Hand(j) /\ ~Both(j)'
    <3>1. freeing'.step = "ids" /\ freeing'.id = i /\ freeing'.owner = entity[i].owner /\ freeing.step # "ids"
      BY <1>2, <2>2 DEF NotFreeing
    <3>2. NoEntity' = NoEntity
      BY DEF NoEntity
    <3> QED
      BY <2>3, <3>1, <3>2 DEF InHand, Hand, Both
  <2>6. ASSUME NEW j \in Id PROVE IdOK(j)'
    <3>1. CASE j = i
      <4>1. PICK o : o = entity[i].owner
        OBVIOUS
      <4>2. Hand(i)' = o /\ (\A d \in Client : Holds(d, i)' <=> (o = d /\ Present(d)'))
        BY <2>3, <2>4, <2>5, <2>11, <4>1 DEF Carried
      <4>3. i \in used' /\ marking' # i
        BY <2>3, MaxIdAssumption DEF Carried, Id
      <4>4. i \notin stolen' => o \in Client /\ (i \in sent' <=> Present(o)')
        BY <2>3, <2>4, <4>1 DEF Carried
      <4>5. Handed(i)'
        BY <2>11, <4>2, <4>3, <4>4 DEF Handed
      <4> QED
        BY <1>4, <2>11, <3>1, <4>5 DEF IdOK
    <3>2. CASE j # i
      <4>1. IdOK(j)
        BY <2>0 DEF Ids
      <4> QED
        BY <1>4, <2>4, <2>5, <2>11, <3>2, <4>1, IdSame
    <3> QED
      BY <3>1, <3>2
  <2>7. Ids'
    BY <2>6, ConstantSets DEF Ids
  <2>8. ASSUME NEW d \in Client, NEW j \in Id, Present(d)',
               j \in pool[d] \/ \E n \in DOMAIN fromNet' : Creates(n, d, j)'
        PROVE  MayReuse(d, j)' /\ (Exists(j)' => Exists(j))
    <3>1. Token(d, j)
      BY <1>1, <2>8 DEF Token, Creates
    <3>2. MayReuse(d, j) /\ Holds(d, j)
      BY <2>0, <2>4, <2>8, <3>1, TokenFacts
    <3>3. Holds(d, j)' /\ (Exists(j)' \/ InHand(j)' => j \notin stolen')
      BY <1>4, <2>2, <2>5, <2>11, <3>2 DEF MayReuse
    <3>4. j # i => entity'[j] = entity[j] /\ (Exists(j)' <=> Exists(j))
      BY <1>4
    <3>5. j = i => ~Exists(j)'
      BY <1>4
    <3> QED
      BY <3>2, <3>3, <3>4, <3>5, MayReuseKept
  <2>9. Tokens'
    BY <1>1, <2>0, <2>4, <2>8, TokensKept
  <2>10. Announced' /\ Removals'
    <3>1. mainQueue \in Seq(Announcements)
      BY <1>0 DEF TypeOK, Announcements
    <3>2. \A j \in Id, u \in Uniqifier : j # i => Kept(j, u)
      BY <1>4 DEF Kept
    <3>3. \A n \in DOMAIN mainQueue : mainQueue[n] \in Announcements
      BY <3>1
    <3>4. \A n \in DOMAIN mainQueue : Kept(mainQueue[n].id, mainQueue[n].uniq)
      BY <2>1, <3>2, <3>3, MessageFacts
    <3>5. \A n \in DOMAIN fromMain' : fromMain'[n] \in Posted
      BY <1>1
    <3>6. ASSUME NEW n \in DOMAIN fromMain', Filter(n)' \/ fromMain'[n].op = "doRemove"
          PROVE  Kept(fromMain'[n].id, fromMain'[n].uniq)
      <4>1. fromMain'[n].id # i
        BY <1>1, <2>1, <3>6 DEF Filter
      <4>2. fromMain'[n].id \in Id /\ fromMain'[n].uniq \in Uniqifier
        BY <3>5, <3>6, MessageFacts DEF Filter
      <4> QED
        BY <3>2, <4>1, <4>2
    <3> QED
      BY <1>1, <2>0, <3>4, <3>6, TasksKept
  <2> QED
    BY <2>7, <2>9, <2>10
<1> QED
  BY <1>5, <1>6, <1>7, <1>8, <1>9 DEF Inv

\* ... frees the id ...
LEMMA FreeObjectIdInv == ASSUME Inv, FreeObjectId PROVE Inv'
<1>0. TypeOK
  BY DEF Inv
<1>1. /\ freeing.step = "ids" /\ used' = used \ {freeing.id} /\ stolen' = stolen \ {freeing.id}
      /\ sent' = IF freeing.id \in stolen THEN sent \ {freeing.id} ELSE sent
      /\ freeing' = IF freeing.id \in stolen THEN [freeing EXCEPT !.step = "holder"] ELSE NotFreeing
      /\ UNCHANGED <<conn, granting, objectIds, entity, synced, pool, marking, creating, made,
                     mainQueue, fromMain, fromNet, raced, lost>>
  BY DEF FreeObjectId, queueVars
<1>2. freeing \in [step : {"ids", "holder"}, id : Id, owner : Client \cup {None}]
  BY <1>0, <1>1 DEF TypeOK, NotFreeing
<1>3. PICK i \in Id, o \in Client \cup {None} : i = freeing.id /\ o = freeing.owner
  BY <1>2
<1>4. /\ freeing' \in [step : {"ids", "holder"}, id : Id, owner : Client \cup {None}] \cup {NotFreeing}
      /\ freeing'.step # "ids"
      /\ i \in stolen => freeing'.step = "holder" /\ freeing'.id = i /\ freeing'.owner = o
      /\ i \notin stolen => freeing'.step # "holder"
  BY <1>1, <1>2, <1>3 DEF NotFreeing
<1>5. TypeOK'
  BY <1>0, <1>1, <1>4, ConstantSets DEF TypeOK, Exists, NotFreeing
<1>6. /\ \A n \in DOMAIN fromNet' :
           n \in Nat /\ n + 0 \in DOMAIN fromNet /\ fromNet'[n] = fromNet[n + 0]
      /\ \A n \in DOMAIN fromMain' :
           n \in Nat /\ n + 0 \in DOMAIN fromMain /\ fromMain'[n] = fromMain[n + 0]
  BY <1>0, <1>1, SameQueue DEF TypeOK
<1>7. Uniques' /\ Relevant'
  BY <1>1, <1>6, LendRest
<1>8. Drops' /\ (~raced' => Announced' /\ Removals')
  BY <1>1, <1>5, <1>6, QuietTasks
<1>9. ASSUME ~raced' PROVE Ids' /\ Tokens'
  <2>0. Ids /\ Tokens
    BY <1>1, <1>9 DEF Inv
  <2>1. /\ \A d \in Client : Present(d)' <=> Present(d)
        /\ \A j \in Id : Exists(j)' <=> Exists(j)
    BY <1>1 DEF Present, Handled, Exists
  <2>2. ~Exists(i) /\ Handed(i) /\ InHand(i) /\ Hand(i) = o
    <3>1. InHand(i) /\ IdOK(i) /\ Hand(i) = o
      BY <1>1, <1>3, <2>0 DEF InHand, Hand, Ids
    <3> QED
      BY <3>1 DEF IdOK
  <2>3. /\ ~InHand(i)'
        /\ \A j \in Id : j # i => (InHand(j)' <=> InHand(j)) /\ Hand(j)' = Hand(j) /\ ~Both(j)'
    <3>1. NoEntity' = NoEntity /\ ~(creating # NoEntity /\ creating.id = i)
      BY <1>1, <1>3, <2>2 DEF NoEntity, Handed, Both
    <3> QED
      BY <1>1, <1>3, <1>4, <3>1 DEF InHand, Hand, Both
  <2>4. /\ \A d \in Client, j \in Id : j # i => (Holds(d, j)' <=> Holds(d, j))
        /\ \A d \in Client : Holds(d, i)' <=> (Holds(d, i) /\ i \notin stolen)
    <3>1. \A d \in Client, j \in Id : ~BeingTaken(d, j) /\ (BeingTaken(d, j)' <=> (i \in stolen /\ j = i /\ d = o))
      BY <1>1, <1>4 DEF BeingTaken
    <3>2. \A d \in Client : Holds(d, i) => d = o
      BY <2>2 DEF Handed
    <3>3. \A d \in Client, j \in Id : Holds(d, j)' <=> (Holds(d, j) /\ ~BeingTaken(d, j)')
      BY <1>1, <2>1, <3>1 DEF Holds, Present
    <3> QED
      BY <3>1, <3>2, <3>3
  <2>5. ASSUME NEW j \in Id PROVE IdOK(j)'
    <3>1. CASE j = i
      <4>1. i \notin used' /\ i \notin stolen' /\ marking' # i
        BY <1>1, <1>3, <2>2 DEF Handed
      <4>2. CASE i \in stolen
        <5>1. i \notin sent' /\ \A d \in Client : ~Holds(d, i)'
          BY <1>1, <1>3, <2>4, <4>2
        <5>2. Idle(i)'
          BY <4>1, <5>1 DEF Idle
        <5> QED
          BY <2>1, <2>2, <2>3, <3>1, <5>2 DEF IdOK
      <4>3. CASE i \notin stolen
        <5>1. o \in Client
          BY <2>2, <4>3 DEF Handed
        <5>2. \A d \in Client : Holds(d, i)' <=> (d = o /\ Present(d))
          BY <2>2, <2>4, <4>3 DEF Handed
        <5>3. i \in sent' <=> Present(o)
          BY <1>1, <1>3, <2>2, <4>3 DEF Handed
        <5>4. Idle(i)'
          BY <4>1, <5>1, <5>2, <5>3 DEF Idle
        <5> QED
          BY <2>1, <2>2, <2>3, <3>1, <5>4 DEF IdOK
      <4> QED
        BY <4>2, <4>3
    <3>2. CASE j # i
      <4>1. IdOK(j)
        BY <2>0 DEF Ids
      <4>2. (j \in used' <=> j \in used) /\ (j \in stolen' <=> j \in stolen) /\ (j \in sent' <=> j \in sent)
        BY <1>1, <1>3, <3>2
      <4> QED
        BY <1>1, <2>1, <2>3, <2>4, <3>2, <4>1, <4>2, IdSame
    <3> QED
      BY <3>1, <3>2
  <2>6. Ids'
    BY <2>5, ConstantSets DEF Ids
  <2>7. ASSUME NEW d \in Client, NEW j \in Id, Present(d)',
               j \in pool[d] \/ \E n \in DOMAIN fromNet' : Creates(n, d, j)'
        PROVE  MayReuse(d, j)' /\ (Exists(j)' => Exists(j))
    <3>1. Token(d, j)
      BY <1>1, <2>7 DEF Token, Creates
    <3>2. MayReuse(d, j) /\ Holds(d, j)
      BY <2>0, <2>1, <2>7, <3>1, TokenFacts
    <3>3. Holds(d, j)'
      <4>1. j = i => i \notin stolen
        BY <2>2, <3>2 DEF MayReuse
      <4> QED
        BY <2>4, <3>2, <4>1
    <3>4. Exists(j)' \/ InHand(j)' => j \notin stolen'
      BY <1>1, <2>1, <2>2, <2>3, <3>2 DEF MayReuse
    <3> QED
      BY <1>1, <2>1, <3>2, <3>3, <3>4, MayReuseKept
  <2>8. \A d \in Client : Present(d)' => Present(d)
    BY <2>1
  <2>9. Tokens'
    BY <1>1, <1>6, <2>0, <2>7, <2>8, TokensKept
  <2> QED
    BY <2>6, <2>9
<1> QED
  BY <1>5, <1>7, <1>8, <1>9 DEF Inv

\* ... and erases it from the ids of the owner.
LEMMA EraseHolderInv == ASSUME Inv, EraseHolder PROVE Inv'
<1>0. TypeOK
  BY DEF Inv
<1>1. /\ freeing.step = "holder" /\ freeing' = NotFreeing
      /\ objectIds' = IF Live(freeing.owner)
                      THEN [objectIds EXCEPT ![freeing.owner] = @ \ {freeing.id}] ELSE objectIds
      /\ UNCHANGED <<conn, granting, sent, used, stolen, entity, synced, pool, marking, creating, made,
                     mainQueue, fromMain, fromNet, raced, lost>>
  BY DEF EraseHolder, queueVars
<1>2. freeing \in [step : {"ids", "holder"}, id : Id, owner : Client \cup {None}]
  BY <1>0, <1>1 DEF TypeOK, NotFreeing
<1>3. PICK i \in Id, o \in Client \cup {None} : i = freeing.id /\ o = freeing.owner
  BY <1>2
<1>4. /\ objectIds \in [Client -> SUBSET Id]
      /\ objectIds' = IF Live(o) THEN [objectIds EXCEPT ![o] = @ \ {i}] ELSE objectIds
  BY <1>0, <1>1, <1>3 DEF TypeOK
<1>5. /\ objectIds' \in [Client -> SUBSET Id]
      /\ \A d \in Client : objectIds'[d] = IF Live(o) /\ d = o THEN objectIds[d] \ {i} ELSE objectIds[d]
  BY <1>4
<1>6. TypeOK'
  BY <1>0, <1>1, <1>5, ConstantSets DEF TypeOK, Exists, NotFreeing
<1>7. /\ \A n \in DOMAIN fromNet' :
           n \in Nat /\ n + 0 \in DOMAIN fromNet /\ fromNet'[n] = fromNet[n + 0]
      /\ \A n \in DOMAIN fromMain' :
           n \in Nat /\ n + 0 \in DOMAIN fromMain /\ fromMain'[n] = fromMain[n + 0]
  BY <1>0, <1>1, SameQueue DEF TypeOK
<1>8. Uniques' /\ Relevant'
  BY <1>1, <1>7, LendRest
<1>9. Drops' /\ (~raced' => Announced' /\ Removals')
  BY <1>1, <1>6, <1>7, QuietTasks
<1>10. ASSUME ~raced' PROVE Ids' /\ Tokens'
  <2>0. Ids /\ Tokens
    BY <1>1, <1>10 DEF Inv
  <2>1. /\ \A d \in Client : Present(d)' <=> Present(d)
        /\ \A j \in Id : Exists(j)' <=> Exists(j)
    BY <1>1 DEF Present, Handled, Exists
  <2>2. \A j \in Id : (InHand(j)' <=> InHand(j)) /\ Hand(j)' = Hand(j) /\ ~Both(j)'
    <3>1. NoEntity' = NoEntity /\ freeing'.step # "ids" /\ freeing.step # "ids"
      BY <1>1 DEF NoEntity, NotFreeing
    <3> QED
      BY <1>1, <3>1 DEF InHand, Hand, Both
  <2>3. ASSUME NEW d \in Client, NEW j \in Id PROVE Holds(d, j)' <=> Holds(d, j)
    <3>1. ~BeingTaken(d, j)' /\ (BeingTaken(d, j) <=> j = i /\ d = o)
      BY <1>1, <1>3 DEF BeingTaken, NotFreeing
    <3>2. Present(d) => d # None /\ Live(d)
      BY NoneIsNoClient DEF Present, Handled, Live
    <3> QED
      BY <1>5, <2>1, <3>1, <3>2 DEF Holds, Present
  <2>4. ASSUME NEW j \in Id PROVE IdOK(j)'
    <3>1. IdOK(j)
      BY <2>0 DEF Ids
    <3> QED
      BY <1>1, <2>1, <2>2, <2>3, <3>1, IdSame
  <2>5. Ids'
    BY <2>4, ConstantSets DEF Ids
  <2>6. ASSUME NEW d \in Client, NEW j \in Id, Present(d)',
               j \in pool[d] \/ \E n \in DOMAIN fromNet' : Creates(n, d, j)'
        PROVE  MayReuse(d, j)' /\ (Exists(j)' => Exists(j))
    <3>1. Token(d, j)
      BY <1>1, <2>6 DEF Token, Creates
    <3>2. MayReuse(d, j) /\ Holds(d, j)
      BY <2>0, <2>1, <2>6, <3>1, TokenFacts
    <3>3. Holds(d, j)' /\ (Exists(j)' \/ InHand(j)' => j \notin stolen')
      BY <1>1, <2>1, <2>2, <2>3, <3>2 DEF MayReuse
    <3> QED
      BY <1>1, <2>1, <3>2, <3>3, MayReuseKept
  <2>7. \A d \in Client : Present(d)' => Present(d)
    BY <2>1
  <2>8. Tokens'
    BY <1>1, <1>7, <2>0, <2>6, <2>7, TokensKept
  <2> QED
    BY <2>5, <2>8
<1> QED
  BY <1>6, <1>8, <1>9, <1>10 DEF Inv

\* A client whose drop was posted leaves the registry.
LEMMA RemoveClientInv == ASSUME Inv, NEW c \in Client, RemoveClient(c) PROVE Inv'
<1>0. TypeOK
  BY DEF Inv
<1>1. /\ conn[c] \in {"leaving", "handled"}
      /\ conn' = [conn EXCEPT ![c] = IF @ = "leaving" THEN "dropped" ELSE "gone"]
      /\ UNCHANGED <<granting, sent, used, stolen, objectIds, entity, synced, pool, marking, creating,
                     freeing, made, mainQueue, fromMain, fromNet, raced, lost>>
  BY DEF RemoveClient, idVars, entityVars, queueVars
<1>2. \A d \in Client :
        conn'[d] = IF d = c THEN IF conn[c] = "leaving" THEN "dropped" ELSE "gone" ELSE conn[d]
  BY <1>0, <1>1 DEF TypeOK
<1>3. TypeOK'
  <2>1. conn' \in [Client -> {"new", "on", "leaving", "dropped", "handled", "gone"}]
    BY <1>0, <1>1 DEF TypeOK
  <2> QED
    BY <1>0, <1>1, <2>1, ConstantSets DEF TypeOK, Exists, NotFreeing
<1>4. \A d \in Client : /\ Present(d)' <=> Present(d)
                        /\ conn'[d] \in {"on", "leaving", "handled"}
                             => conn[d] \in {"on", "leaving", "handled"} \/ synced[d] = {}
                        /\ conn'[d] = "new" => conn[d] = "new"
                        /\ conn[d] \in {"leaving", "dropped"} => conn'[d] \in {"leaving", "dropped"}
  BY <1>1, <1>2 DEF Present, Handled
<1>5. \A i \in Id : Untouched(i)
  BY <1>1 DEF Untouched, Same
<1>6. /\ \A n \in DOMAIN fromNet' :
           n \in Nat /\ n + 0 \in DOMAIN fromNet /\ fromNet'[n] = fromNet[n + 0]
      /\ \A n \in DOMAIN fromMain' :
           n \in Nat /\ n + 0 \in DOMAIN fromMain /\ fromMain'[n] = fromMain[n + 0]
  BY <1>0, <1>1, SameQueue DEF TypeOK
<1>7. Uniques' /\ Relevant' /\ (~raced' => Ids' /\ Tokens')
  BY <1>1, <1>3, <1>4, <1>5, <1>6, QuietInv
<1>8. Drops' /\ (~raced' => Announced' /\ Removals')
  BY <1>1, <1>3, <1>4, <1>6, QuietTasks
<1> QED
  BY <1>3, <1>7, <1>8 DEF Inv

\* Who may get an entity when client c is dropped: not c.
LEMMA HeirFacts ==
  ASSUME TypeOK, NEW e \in Entities, NEW c \in Client, Present(c),
         ~(Live(e.owner) /\ e.owner # c), NEW h \in Heirs(DropFor(e, c), c)
  PROVE  h = None \/ (h \in Client /\ h # c)
<1>1. PICK f : f = DropFor(e, c)
  OBVIOUS
<1>2. f.owner = e.owner /\ f.first = e.first /\ (Live(e.first) /\ e.first = c => f.firstDropped)
  BY <1>1, DropTickFacts
<1>3. e.first \in Client \cup {None}
  BY DEF Entities
<1>4. \/ h \in (f.relevantTo \cap Registered) \ {c}
      \/ h = None
      \/ ~f.firstDropped /\ h = IF Live(f.first) THEN f.first ELSE None
  <2>1. h \in Heirs(f, c) /\ ~(Live(f.owner) /\ f.owner # c)
    BY <1>1, <1>2
  <2> QED
    BY <2>1 DEF Heirs
<1>5. CASE h \in (f.relevantTo \cap Registered) \ {c}
  BY <1>5 DEF Registered
<1>6. CASE ~f.firstDropped /\ h = IF Live(f.first) THEN f.first ELSE None
  <2>1. Live(c)
    BY NoneIsNoClient DEF Live, Present, Handled
  <2> QED
    BY <1>2, <1>3, <1>6, <2>1 DEF Live
<1> QED
  BY <1>4, <1>5, <1>6

\* What HandleClientDrop does to the entities and the ids.
LEMMA DropFacts ==
  ASSUME TypeOK, NEW c \in Client, Present(c), HandleClientDrop(c)
  PROVE  \E heir \in [Id -> Client \cup {None}], moved \in SUBSET Id :
           /\ entity' \in [Id -> Entities \cup {NoEntity}]
           /\ \A i \in Id : ~Exists(i) => i \notin moved /\ entity'[i] = NoEntity
           /\ \A i \in Id : Exists(i) =>
                /\ entity'[i] \in Entities /\ entity'[i].uniq = entity[i].uniq
                /\ entity'[i].finalizing = entity[i].finalizing
                /\ entity[i].deleting => entity'[i].deleting
                /\ entity'[i].deletedFor = entity[i].deletedFor \ {c}
                /\ entity'[i].relevantTo = entity[i].relevantTo \ {c}
                /\ entity'[i].owner = IF i \in moved THEN heir[i] ELSE entity[i].owner
           /\ \A i \in moved : heir[i] = None \/ (heir[i] \in Client /\ heir[i] # c)
           /\ \A i \in moved : ~(Live(entity[i].owner) /\ entity[i].owner # c)
           /\ objectIds' = Holders(moved, heir) /\ stolen' = stolen \cup moved
           /\ sent' = sent \ objectIds'[c]
           /\ conn' = [conn EXCEPT ![c] = IF @ = "leaving" THEN "handled" ELSE "gone"]
           /\ synced' = [synced EXCEPT ![c] = {}]
           /\ pool' = [pool EXCEPT ![c] = {}]
<1> DEFINE live == {i \in Id : Exists(i)}
           dropped == [i \in live |-> DropFor(entity[i], c)]
           orphans == {i \in live : Heirs(dropped[i], c) = {}}
           moved == {i \in live \ orphans : ~(Live(entity[i].owner) /\ entity[i].owner # c)}
<1>1. PICK heir \in [Id -> Client \cup {None}] :
        /\ \A i \in Id : heir[i] \in (IF i \in moved THEN Heirs(dropped[i], c) ELSE {None})
        /\ entity' = [i \in Id |->
             IF i \in moved THEN [dropped[i] EXCEPT !.owner = heir[i]]
             ELSE IF i \in orphans THEN [dropped[i] EXCEPT !.deleting = TRUE]
             ELSE IF i \in live THEN dropped[i] ELSE NoEntity]
        /\ objectIds' = Holders(moved, heir)
        /\ stolen' = stolen \cup moved
        /\ sent' = sent \ Holders(moved, heir)[c]
        /\ conn' = [conn EXCEPT ![c] = IF @ = "leaving" THEN "handled" ELSE "gone"]
        /\ synced' = [synced EXCEPT ![c] = {}]
        /\ pool' = [pool EXCEPT ![c] = {}]
  BY DEF HandleClientDrop, SentAfterDrop
<1>2. moved \subseteq live /\ orphans \subseteq live /\ live \subseteq Id
  OBVIOUS
<1>3. \A i \in moved : ~(Live(entity[i].owner) /\ entity[i].owner # c)
  OBVIOUS
<1>4. \A i \in live : dropped[i] = DropFor(entity[i], c)
  OBVIOUS
<1>5. \A i \in Id : i \in live <=> Exists(i)
  OBVIOUS
<1> HIDE DEF live, dropped, orphans, moved
<1>6. ASSUME NEW i \in live
      PROVE  /\ entity[i] \in Entities
             /\ entity'[i] \in Entities /\ entity'[i].uniq = entity[i].uniq
             /\ entity'[i].finalizing = entity[i].finalizing
             /\ entity[i].deleting => entity'[i].deleting
             /\ entity'[i].deletedFor = entity[i].deletedFor \ {c}
             /\ entity'[i].relevantTo = entity[i].relevantTo \ {c}
             /\ entity'[i].owner = IF i \in moved THEN heir[i] ELSE entity[i].owner
  <2>1. i \in Id /\ entity[i] \in Entities
    BY <1>2, <1>5, ExistsFacts
  <2>2. PICK f : f = dropped[i]
    OBVIOUS
  <2>3. /\ f \in Entities /\ f.uniq = entity[i].uniq /\ f.owner = entity[i].owner
        /\ f.finalizing = entity[i].finalizing /\ f.deleting = entity[i].deleting
        /\ f.deletedFor = entity[i].deletedFor \ {c} /\ f.relevantTo = entity[i].relevantTo \ {c}
    <3>1. PICK e \in Entities : e = entity[i]
      BY <2>1
    <3>2. f = DropFor(e, c)
      BY <1>4, <2>2, <3>1
    <3>3. /\ f \in Entities /\ f.uniq = e.uniq /\ f.owner = e.owner
          /\ f.finalizing = e.finalizing /\ f.deleting = e.deleting
          /\ f.deletedFor = e.deletedFor \ {c} /\ f.relevantTo = e.relevantTo \ {c}
      BY <3>2, DropTickFacts
    <3> QED
      BY <3>1, <3>3
  <2>4. CASE i \in moved
    <3>1. entity'[i] = [f EXCEPT !.owner = heir[i]]
      BY <1>1, <2>1, <2>2, <2>4
    <3>2. heir[i] \in Client \cup {None}
      BY <1>1, <2>1
    <3>3. /\ entity'[i] \in Entities /\ entity'[i].uniq = f.uniq /\ entity'[i].owner = heir[i]
          /\ entity'[i].finalizing = f.finalizing /\ entity'[i].deletedFor = f.deletedFor
          /\ entity'[i].deleting = f.deleting /\ entity'[i].relevantTo = f.relevantTo
      <4>1. PICK o \in Client \cup {None} : o = heir[i]
        BY <3>2
      <4>2. PICK g : g = entity'[i]
        OBVIOUS
      <4>3. f \in Entities /\ g = [f EXCEPT !.owner = o]
        BY <2>3, <3>1, <4>1, <4>2
      <4>4. /\ g \in Entities /\ g.uniq = f.uniq /\ g.owner = o
            /\ g.finalizing = f.finalizing /\ g.deletedFor = f.deletedFor
            /\ g.deleting = f.deleting /\ g.relevantTo = f.relevantTo
        BY <4>3, UpdateFacts
      <4> QED
        BY <4>1, <4>2, <4>4
    <3> QED
      BY <2>1, <2>3, <2>4, <3>3
  <2>5. CASE i \notin moved /\ i \in orphans
    <3>1. entity'[i] = [f EXCEPT !.deleting = TRUE]
      BY <1>1, <2>1, <2>2, <2>5
    <3>2. /\ entity'[i] \in Entities /\ Same(f, entity'[i]) /\ entity'[i].deleting = TRUE
          /\ entity'[i].relevantTo = f.relevantTo
      BY <2>3, <3>1, UpdateFacts
    <3> QED
      BY <2>1, <2>3, <2>5, <3>2 DEF Same
  <2>6. CASE i \notin moved /\ i \notin orphans
    <3>1. entity'[i] = f
      BY <1>1, <2>1, <2>2, <2>6
    <3> QED
      BY <2>1, <2>3, <2>6, <3>1
  <2> QED
    BY <2>4, <2>5, <2>6
<1>7. ASSUME NEW i \in moved
      PROVE  heir[i] = None \/ (heir[i] \in Client /\ heir[i] # c)
  <2>1. i \in live /\ i \in Id
    BY <1>2
  <2>2. PICK h \in Heirs(DropFor(entity[i], c), c) : h = heir[i]
    BY <1>1, <1>4, <2>1
  <2> QED
    BY <1>3, <1>6, <2>1, <2>2, HeirFacts
<1>8. \A i \in Id : ~Exists(i) => i \notin moved /\ entity'[i] = NoEntity
  BY <1>1, <1>2, <1>5
<1>9. entity' \in [Id -> Entities \cup {NoEntity}]
  <2>1. \A i \in Id : entity'[i] \in Entities \cup {NoEntity}
    BY <1>5, <1>6, <1>8
  <2>2. \E f : entity' = [i \in Id |-> f[i]]
    <3>1. entity' = [i \in Id |-> entity'[i]]
      BY <1>1
    <3> QED
      BY <3>1
  <2> QED
    BY <2>1, <2>2
<1>10. moved \in SUBSET Id /\ sent' = sent \ objectIds'[c]
  BY <1>1, <1>2
<1>11. \A i \in Id : Exists(i) =>
                /\ entity'[i] \in Entities /\ entity'[i].uniq = entity[i].uniq
                /\ entity'[i].finalizing = entity[i].finalizing
                /\ entity[i].deleting => entity'[i].deleting
                /\ entity'[i].deletedFor = entity[i].deletedFor \ {c}
                /\ entity'[i].relevantTo = entity[i].relevantTo \ {c}
                /\ entity'[i].owner = IF i \in moved THEN heir[i] ELSE entity[i].owner
  BY <1>5, <1>6
<1>12. /\ objectIds' = Holders(moved, heir) /\ stolen' = stolen \cup moved
       /\ conn' = [conn EXCEPT ![c] = IF @ = "leaving" THEN "handled" ELSE "gone"]
       /\ synced' = [synced EXCEPT ![c] = {}]
       /\ pool' = [pool EXCEPT ![c] = {}]
  BY <1>1
<1> QED
  BY <1>3, <1>7, <1>8, <1>9, <1>10, <1>11, <1>12

\* The sync thread handles the drop of a client: its entities go to others, and
\* the ids it still holds are free.
LEMMA DropInv ==
  ASSUME Inv, fromMain # <<>>, fromMain' = Tail(fromMain), marking = None, freeing = NotFreeing,
         NEW c \in Client, fromMain[1].op = "drop", fromMain[1].from = c, HandleClientDrop(c),
         UNCHANGED <<used, granting, marking, creating, freeing, made, mainQueue, fromNet, raced, lost>>
  PROVE  Inv'
<1>0. TypeOK
  BY DEF Inv
<1>1. /\ fromMain' \in Seq(Posted) /\ 1 \in DOMAIN fromMain
      /\ \A n \in DOMAIN fromMain' : n \in Nat /\ n + 1 \in DOMAIN fromMain /\ fromMain'[n] = fromMain[n + 1]
      /\ \A n \in DOMAIN fromMain' : n + 1 # 1
      /\ \A n \in DOMAIN fromNet' : n \in Nat /\ n + 0 \in DOMAIN fromNet /\ fromNet'[n] = fromNet[n + 0]
  <2>1. fromMain \in Seq(Posted) /\ fromNet \in Seq(Packets)
    BY <1>0 DEF TypeOK
  <2> QED
    BY <2>1, TailFacts, SameQueue
<1>2. /\ conn[c] \in {"leaving", "dropped"} /\ Present(c)
      /\ \A n \in DOMAIN fromMain : fromMain[n].op = "drop" /\ fromMain[n].from = c => n = 1
  BY <1>1 DEF Inv, Drops, Present, Handled
<1>3. PICK heir \in [Id -> Client \cup {None}], moved \in SUBSET Id :
           /\ entity' \in [Id -> Entities \cup {NoEntity}]
           /\ \A i \in Id : ~Exists(i) => i \notin moved /\ entity'[i] = NoEntity
           /\ \A i \in Id : Exists(i) =>
                /\ entity'[i] \in Entities /\ entity'[i].uniq = entity[i].uniq
                /\ entity'[i].finalizing = entity[i].finalizing
                /\ entity[i].deleting => entity'[i].deleting
                /\ entity'[i].deletedFor = entity[i].deletedFor \ {c}
                /\ entity'[i].relevantTo = entity[i].relevantTo \ {c}
                /\ entity'[i].owner = IF i \in moved THEN heir[i] ELSE entity[i].owner
           /\ \A i \in moved : heir[i] = None \/ (heir[i] \in Client /\ heir[i] # c)
           /\ \A i \in moved : ~(Live(entity[i].owner) /\ entity[i].owner # c)
           /\ objectIds' = Holders(moved, heir) /\ stolen' = stolen \cup moved
           /\ sent' = sent \ objectIds'[c]
           /\ conn' = [conn EXCEPT ![c] = IF @ = "leaving" THEN "handled" ELSE "gone"]
           /\ synced' = [synced EXCEPT ![c] = {}]
           /\ pool' = [pool EXCEPT ![c] = {}]
  BY <1>0, <1>2, DropFacts
<1>4. /\ conn' \in [Client -> {"new", "on", "leaving", "dropped", "handled", "gone"}]
      /\ synced' \in [Client -> SUBSET Uniqifier] /\ pool' \in [Client -> SUBSET Id]
      /\ conn'[c] \in {"handled", "gone"} /\ synced'[c] = {} /\ pool'[c] = {}
      /\ \A d \in Client : d # c => conn'[d] = conn[d] /\ synced'[d] = synced[d] /\ pool'[d] = pool[d]
  BY <1>0, <1>3 DEF TypeOK
<1>5. \A d \in Client : Present(d)' <=> (Present(d) /\ d # c)
  BY <1>4 DEF Present, Handled
<1>6. \A i \in Id : entity'[i].uniq = entity[i].uniq /\ (Exists(i)' <=> Exists(i))
  <2>1. \A i \in Id : ~Exists(i) => entity[i] = NoEntity
    BY <1>0, ExistsFacts
  <2>2. \A i \in Id : entity'[i].uniq = entity[i].uniq
    BY <1>3, <2>1
  <2> QED
    BY <2>2 DEF Exists
<1>7. TypeOK'
  <2>1. objectIds' \in [Client -> SUBSET Id]
    BY <1>0, <1>3, HoldersFacts
  <2>2. \A i \in Id : Exists(i)' /\ ~entity'[i].deleting => entity'[i].deletedFor = {}
    BY <1>0, <1>3, <1>6 DEF TypeOK
  <2>3. stolen' \subseteq Id /\ sent' \subseteq Id
    BY <1>0, <1>3 DEF TypeOK
  <2>4. entity' \in [Id -> Entities \cup {NoEntity}]
    BY <1>3
  <2> QED
    BY <1>0, <1>1, <1>4, <2>1, <2>2, <2>3, <2>4, ConstantSets DEF TypeOK
<1>8. Uniques'
  <2>1. \A d \in Client : \A u \in synced'[d] : u \in synced[d]
    BY <1>4
  <2> QED
    BY <1>0, <1>1, <1>6, <2>1, UniquesKept DEF Inv
<1>9. Relevant'
  <2>1. \A n \in DOMAIN fromNet' : fromNet'[n].from \in Client
    <3>1. fromNet \in Seq(Packets)
      BY <1>0 DEF TypeOK
    <3>2. \A n \in DOMAIN fromNet : fromNet[n] \in Packets
      BY <3>1
    <3> QED
      BY <3>2, MessageFacts
  <2>2. \A d \in Client : /\ conn'[d] \in {"on", "leaving", "handled"} =>
                               conn[d] \in {"on", "leaving", "handled"} \/ synced'[d] = {}
                          /\ conn'[d] = "new" => conn[d] = "new"
                          /\ synced'[d] \subseteq synced[d]
    BY <1>4
  <2>3. \A i \in Id : Exists(i)' =>
          /\ entity'[i].uniq = entity[i].uniq
          /\ \A d \in Client : conn'[d] \in {"on", "leaving", "handled"} /\ entity[i].uniq \in synced'[d]
                                 /\ d \in entity[i].relevantTo => d \in entity'[i].relevantTo
    BY <1>3, <1>4, <1>6
  <2> QED
    BY <1>1, <2>1, <2>2, <2>3, RelevantKept DEF Inv
<1>10. Drops'
  <2>1. ASSUME NEW n \in DOMAIN fromMain', fromMain'[n].op = "drop"
        PROVE  fromMain'[n].from \in Client /\ fromMain'[n].from # c
    <3>1. fromMain'[n] \in Posted
      BY <1>1
    <3> QED
      BY <1>1, <1>2, <2>1, <3>1, MessageFacts
  <2>2. \A n \in DOMAIN fromMain' : fromMain'[n].op = "drop" /\ conn[fromMain'[n].from] \in {"leaving", "dropped"}
                                      => conn'[fromMain'[n].from] \in {"leaving", "dropped"}
    BY <1>4, <2>1
  <2> QED
    BY <1>1, <2>2, DropsKept DEF Inv
<1>12. freeing'.step # "ids" /\ freeing.step # "ids"
  BY DEF NotFreeing
<1>11. ASSUME ~raced' PROVE Ids' /\ Tokens' /\ Announced' /\ Removals'
  <2>0. Ids /\ Tokens /\ Announced /\ Removals
    BY <1>11 DEF Inv
  <2>1. /\ \A i \in moved : Exists(i) /\ Carried(i) /\ ~InHand(i)
        /\ \A i \in moved : \A d \in Client : Holds(d, i)' <=> (heir[i] = d /\ Present(d)')
        /\ \A i \in Id : i \notin moved => \A d \in Client : Holds(d, i)' <=> (Holds(d, i) /\ d # c)
    <3>1. \A i \in moved : Exists(i) /\ Carried(i) /\ ~InHand(i)
      BY <1>3, <2>0 DEF Ids, IdOK
    <3>2. \A i \in Id, d \in Client : Holds(d, i) => Present(d)
      BY DEF Holds, Present
    <3>3. \A d \in Client : Present(d)' => Present(d)
      BY <1>5
    <3>4. /\ \A i \in moved : Carried(i) =>
               \A d \in Client : Holds(d, i)' <=> (heir[i] = d /\ Present(d)')
          /\ \A i \in Id : i \notin moved =>
               \A d \in Client : Holds(d, i)' <=> (Holds(d, i) /\ Present(d)')
      BY <1>0, <1>3, <3>3, Reassigned
    <3> QED
      BY <1>5, <3>1, <3>2, <3>4
  <2>2. \A i \in Id : i \notin moved => (i \in sent' <=> i \in sent /\ ~Holds(c, i))
    <3>1. \A i \in Id : i \notin moved => (i \in objectIds'[c] <=> i \in objectIds[c])
      BY <1>0, <1>3, HoldersFacts
    <3>2. \A i \in Id : Holds(c, i) <=> i \in objectIds[c]
      BY <1>2, IdleFacts
    <3> QED
      BY <1>3, <3>1, <3>2
  <2>9. \A i \in Id : InHand(i)' <=> InHand(i)
    BY DEF InHand, NoEntity
  <2>3. \A i \in Id : marking' # i /\ marking # i
    BY MaxIdAssumption DEF Id
  <2>4. ASSUME NEW i \in Id PROVE IdOK(i)'
    <3>1. CASE i \in moved
      <4>1. entity'[i].owner = heir[i] /\ i \in stolen'
        BY <1>3, <2>1, <3>1
      <4>2. i \in used'
        BY <2>1, <2>3, <3>1 DEF Carried
      <4>3. \A d \in Client : Holds(d, i)' <=> (entity'[i].owner = d /\ Present(d)')
        BY <2>1, <3>1, <4>1
      <4>4. Carried(i)'
        BY <4>1, <4>2, <4>3 DEF Carried
      <4> QED
        BY <1>6, <2>1, <2>9, <3>1, <4>4 DEF IdOK
    <3>2. CASE i \notin moved /\ Exists(i)
      <4>1. Carried(i) /\ ~InHand(i)
        BY <2>0, <3>2 DEF Ids, IdOK
      <4>2. entity'[i].owner = entity[i].owner
        BY <1>3, <3>2
      <4>3. i \in used'
        BY <2>3, <4>1 DEF Carried
      <4>4. \A d \in Client : Holds(d, i)' <=> (entity[i].owner = d /\ Present(d) /\ d # c)
        BY <2>1, <3>2, <4>1 DEF Carried
      <4>5. \A d \in Client : Holds(d, i)' <=> (entity'[i].owner = d /\ Present(d)')
        BY <1>5, <4>2, <4>4
      <4>6. ASSUME i \notin stolen'
            PROVE  entity'[i].owner \in Client /\ (i \in sent' <=> Present(entity[i].owner)')
        <5>1. i \notin stolen
          BY <1>3, <4>6
        <5>2. PICK o : o = entity[i].owner
          OBVIOUS
        <5>3. o \in Client /\ (i \in sent <=> Present(o)) /\ (Holds(c, i) <=> o = c)
          BY <1>2, <4>1, <5>1, <5>2 DEF Carried
        <5>4. i \in sent' <=> Present(o)'
          BY <1>5, <2>2, <3>2, <5>3
        <5> QED
          BY <4>2, <5>2, <5>3, <5>4 DEF Present, Handled
      <4>7. Carried(i)'
        BY <4>3, <4>5, <4>6 DEF Carried
      <4> QED
        BY <1>6, <2>9, <3>2, <4>1, <4>7 DEF IdOK
    <3>4. CASE i \notin moved /\ ~Exists(i) /\ InHand(i)
      <4>1. Handed(i)
        BY <2>0, <3>4 DEF Ids, IdOK
      <4>2. Hand(i) = None /\ Hand(i)' = None
        BY <1>12, IdleFacts DEF Hand
      <4>3. i \in stolen /\ \A d \in Client : ~Holds(d, i)
        BY <4>1, <4>2, NoneIsNoClient DEF Handed
      <4>4. i \in used' /\ marking' # i /\ i \in stolen' /\ ~Both(i)'
        BY <1>3, <1>12, <2>3, <4>1, <4>3 DEF Handed, Both
      <4>5. \A d \in Client : ~Holds(d, i)' /\ None # d
        BY <2>1, <3>4, <4>3, NoneIsNoClient
      <4>6. Handed(i)'
        BY <4>2, <4>4, <4>5 DEF Handed
      <4> QED
        BY <1>6, <2>9, <3>4, <4>6 DEF IdOK
    <3>3. CASE i \notin moved /\ ~Exists(i) /\ ~InHand(i)
      <4>1. Idle(i)
        BY <2>0, <3>3 DEF Ids, IdOK
      <4>2. i \notin used' /\ i \notin stolen' /\ marking' # i
        BY <1>3, <2>3, <3>3, <4>1 DEF Idle
      <4>3. \A d \in Client : Holds(d, i)' <=> (Holds(d, i) /\ d # c)
        BY <2>1, <3>3
      <4>4. i \in sent' <=> (i \in sent /\ ~Holds(c, i))
        BY <2>2, <3>3
      <4>5. Idle(i)'
        BY <4>1, <4>2, <4>3, <4>4 DEF Idle
      <4> QED
        BY <1>6, <2>9, <3>3, <4>5 DEF IdOK
    <3> QED
      BY <3>1, <3>2, <3>3, <3>4
  <2>5. Ids'
    BY <2>4, ConstantSets DEF Ids, IdOK
  <2>6. ASSUME NEW d \in Client, NEW j \in Id, Present(d)',
               j \in pool[d] \/ \E n \in DOMAIN fromNet' : Creates(n, d, j)'
        PROVE  MayReuse(d, j)' /\ (Exists(j)' => Exists(j))
    <3>0. Present(d) /\ d # c /\ d # None
      BY <1>5, <2>6, NoneIsNoClient
    <3>1. Token(d, j)
      BY <1>1, <2>6 DEF Token, Creates
    <3>2. MayReuse(d, j) /\ Holds(d, j)
      BY <2>0, <3>0, <3>1, TokenFacts
    <3>3. j \notin moved
      <4> SUFFICES ASSUME j \in moved PROVE FALSE
        OBVIOUS
      <4>1. entity[j].owner = d
        BY <2>1, <3>2 DEF Carried
      <4> QED
        BY <1>3, <3>0, <4>1 DEF Live, Present, Handled
    <3>4. Holds(d, j)' /\ (j \in stolen' => j \in stolen) /\ synced'[d] = synced[d]
      BY <1>3, <1>4, <2>1, <3>0, <3>2, <3>3
    <3>5. Exists(j)' => /\ Exists(j) /\ entity'[j].uniq = entity[j].uniq
                        /\ entity[j].deleting => entity'[j].deleting
                        /\ d \in entity[j].deletedFor => d \in entity'[j].deletedFor
      BY <1>3, <1>6, <3>0
    <3>6. Exists(j)' \/ InHand(j)' => j \notin stolen'
      BY <1>6, <2>9, <3>2, <3>4 DEF MayReuse
    <3> QED
      BY <3>2, <3>4, <3>5, <3>6, MayReuseKept
  <2>7. Tokens'
    <3>1. \A d \in Client : (Present(d)' => Present(d)) /\ pool'[d] \subseteq pool[d]
      BY <1>4, <1>5
    <3>2. \A d \in Client, i \in Id : i \in pool'[d] => i \in pool[d]
      BY <3>1
    <3> QED
      BY <1>1, <2>0, <2>6, <3>1, <3>2, TokensKept
  <2>8. Announced' /\ Removals'
    <3>1. \A i \in Id, u \in Uniqifier : Kept(i, u)
      BY <1>3, <1>6, MaxEntityAssumption DEF Kept, Exists, Uniqifier
    <3>2. mainQueue \in Seq(Announcements)
      BY <1>0 DEF TypeOK, Announcements
    <3>3. \A n \in DOMAIN mainQueue : mainQueue[n] \in Announcements
      BY <3>2
    <3>4. \A n \in DOMAIN mainQueue : Kept(mainQueue[n].id, mainQueue[n].uniq)
      BY <3>1, <3>3, MessageFacts
    <3>5. \A n \in DOMAIN fromMain' : fromMain'[n] \in Posted
      BY <1>1
    <3>6. \A n \in DOMAIN fromMain' :
            Filter(n)' \/ fromMain'[n].op = "doRemove" => Kept(fromMain'[n].id, fromMain'[n].uniq)
      BY <3>1, <3>5, MessageFacts DEF Filter
    <3> QED
      BY <1>1, <2>0, <3>4, <3>6, TasksKept
  <2> QED
    BY <2>5, <2>7, <2>8
<1> QED
  BY <1>7, <1>8, <1>9, <1>10, <1>11 DEF Inv

\* A deletion that was posted: the entity of the id, if there is one, is marked.
LEMMA DeleteInv ==
  ASSUME Inv, fromMain # <<>>, fromMain' = Tail(fromMain), NEW i \in Id, RemoveClone(i),
         UNCHANGED <<conn, granting, sent, used, stolen, objectIds, marking, creating, freeing, lost, synced, pool, made,
                     mainQueue, fromNet, raced>>
  PROVE  Inv'
<1>0. TypeOK
  BY DEF Inv
<1>1. /\ fromMain' \in Seq(Posted)
      /\ \A n \in DOMAIN fromMain' : n \in Nat /\ n + 1 \in DOMAIN fromMain /\ fromMain'[n] = fromMain[n + 1]
      /\ \A n \in DOMAIN fromNet' : n \in Nat /\ n + 0 \in DOMAIN fromNet /\ fromNet'[n] = fromNet[n + 0]
  BY <1>0, TailFacts, SameQueue DEF TypeOK
<1>2. EntitiesOK' /\ \A j \in Id : Untouched(j)
  <2>1. CASE entity' = entity
    <3>1. EntitiesOK
      BY <1>0 DEF TypeOK, EntitiesOK
    <3> QED
      BY <2>1, <3>1, ConstantSets DEF EntitiesOK, Exists, Untouched, Same
  <2>2. CASE entity' # entity
    <3>1. Exists(i) /\ entity' = [entity EXCEPT ![i].deleting = TRUE]
      BY <2>2 DEF RemoveClone
    <3> QED
      BY <1>0, <3>1, QuietUpdate
  <2> QED
    BY <2>1, <2>2
<1>3. TypeOK'
  BY <1>0, <1>1, <1>2, ConstantSets DEF TypeOK, EntitiesOK
<1>4. \A d \in Client : Present(d)' <=> Present(d)
  BY DEF Present, Handled
<1>5. Uniques' /\ Relevant' /\ (~raced' => Ids' /\ Tokens')
  BY <1>1, <1>2, <1>3, <1>4, QuietInv
<1>6. \A j \in Id : Exists(j) => entity'[j].uniq = entity[j].uniq
                                   /\ (entity[j].finalizing => entity'[j].finalizing)
  BY <1>2 DEF Untouched, Same
<1>7. Drops' /\ (~raced' => Announced' /\ Removals')
  BY <1>1, <1>3, <1>6, QuietTasks
<1> QED
  BY <1>3, <1>5, <1>7 DEF Inv

\* The sync thread runs what the main thread posted.
LEMMA RunPostedInv == ASSUME Inv, RunPosted PROVE Inv'
<1>1. /\ fromMain # <<>> /\ marking = None /\ freeing = NotFreeing /\ fromMain' = Tail(fromMain)
      /\ UNCHANGED <<granting, marking, creating, made, mainQueue, fromNet, raced, lost>>
  BY DEF RunPosted, SyncIdle
<1>2. fromMain \in Seq(Posted)
  BY DEF Inv, TypeOK
<1>3. Head(fromMain) \in Posted /\ Head(fromMain) = fromMain[1]
  BY <1>1, <1>2, TailFacts
<1>4. PICK m \in Posted : m = fromMain[1]
  BY <1>3
<1>5. (m.op = "drop" => m.from \in Client) /\ (m.op # "drop" => m.id \in Id)
  BY MessageFacts
<1>6. \/ m.op = "drop" /\ HandleClientDrop(m.from) /\ UNCHANGED <<used, freeing>>
      \/ m.op = "doRemove" /\ DoRemove(m.id) /\ UNCHANGED <<conn, synced, pool, sent, used, stolen, objectIds>>
      \/ m.op = "delete" /\ RemoveClone(m.id)
           /\ UNCHANGED <<conn, synced, pool, sent, used, stolen, objectIds, freeing>>
  BY <1>3, <1>4 DEF RunPosted, idVars
<1>7. CASE m.op = "drop" /\ HandleClientDrop(m.from) /\ UNCHANGED <<used, freeing>>
  <2>1. PICK c \in Client : c = m.from
    BY <1>5, <1>7
  <2>2. HandleClientDrop(c) /\ fromMain[1].op = "drop" /\ fromMain[1].from = c
    BY <1>4, <1>7, <2>1
  <2> QED
    BY <1>1, <1>7, <2>2, DropInv
<1>8. CASE m.op = "doRemove" /\ DoRemove(m.id) /\ UNCHANGED <<conn, synced, pool, sent, used, stolen, objectIds>>
  <2>1. PICK i \in Id : i = m.id
    BY <1>5, <1>8
  <2>2. DoRemove(i) /\ fromMain[1].op = "doRemove" /\ fromMain[1].id = i
    BY <1>4, <1>8, <2>1
  <2> QED
    BY <1>1, <1>8, <2>2, DoRemoveInv
<1>9. CASE m.op = "delete" /\ RemoveClone(m.id)
           /\ UNCHANGED <<conn, synced, pool, sent, used, stolen, objectIds, freeing>>
  <2>1. PICK i \in Id : i = m.id
    BY <1>5, <1>9
  <2>2. RemoveClone(i)
    BY <1>9, <2>1
  <2> QED
    BY <1>1, <1>9, <2>2, DeleteInv
<1> QED
  BY <1>6, <1>7, <1>8, <1>9

\* A set is announced once per member: the order in which the tick collects the
\* entities is a permutation.
LEMMA OrderFacts ==
  ASSUME NEW fresh \in SUBSET Id, NEW order \in [1 .. Cardinality(fresh) -> fresh],
         {order[n] : n \in DOMAIN order} = fresh
  PROVE  /\ Cardinality(fresh) \in Nat
         /\ \A n, m \in 1 .. Cardinality(fresh) : order[n] = order[m] => n = m
<1>1. IsFiniteSet(fresh) /\ Cardinality(fresh) \in Nat
  <2>1. IsFiniteSet(Id)
    BY MaxIdAssumption, FS_Interval DEF Id
  <2>2. IsFiniteSet(fresh)
    BY <2>1, FS_Subset
  <2> QED
    BY <2>2, FS_CardinalityType
<1>2. PICK k \in Nat : k = Cardinality(fresh)
  BY <1>1
<1>3. IsFiniteSet(1 .. k) /\ Cardinality(1 .. k) = k
  <2>1. 1 \in Int /\ k \in Int
    OBVIOUS
  <2>2. IsFiniteSet(1 .. k) /\ Cardinality(1 .. k) = IF 1 > k THEN 0 ELSE k - 1 + 1
    BY <2>1, FS_Interval
  <2> QED
    BY <2>2
<1>4. order \in Surjection(1 .. k, fresh)
  <2>1. order \in [1 .. k -> fresh] /\ \A t \in fresh : \E s \in 1 .. k : order[s] = t
    BY <1>2
  <2> QED
    BY <2>1 DEF Surjection
<1>5. order \in Injection(1 .. k, fresh)
  BY <1>2, <1>3, <1>4, FS_SurjSameCardinalityImpliesInj
<1> QED
  BY <1>1, <1>2, <1>5 DEF Injection, IsInjective

\* What a queue holds after entries are posted to it.
LEMMA ConcatFacts ==
  ASSUME NEW S, NEW s \in Seq(S), NEW t \in Seq(S), NEW q, q = s \o t
  PROVE  /\ q \in Seq(S)
         /\ \A n \in DOMAIN q : \/ n \in DOMAIN s /\ q[n] = s[n]
                                \/ /\ n - Len(s) \in 1 .. Len(t) /\ q[n] = t[n - Len(s)]
                                   /\ n \in Nat /\ Len(s) \in Nat
                                   /\ \A m \in DOMAIN s : m < n
  OBVIOUS

\* The tick announces the removal of the entities that it gives up.
LEMMA TickTasks ==
  ASSUME TypeOK, Announced, Removals, fromMain' = fromMain,
         NEW fresh \in SUBSET Id,
         \A i \in fresh : ~entity[i].finalizing /\ entity'[i].finalizing,
         \A i \in Id : Exists(i) => entity'[i].uniq = entity[i].uniq
                                      /\ (entity[i].finalizing => entity'[i].finalizing),
         \A i \in fresh : Exists(i),
         \A n \in DOMAIN mainQueue' :
           \/ n \in DOMAIN mainQueue /\ mainQueue'[n] = mainQueue[n]
           \/ /\ mainQueue'[n].op = "removed" /\ mainQueue'[n].id \in fresh
              /\ mainQueue'[n].uniq = entity[mainQueue'[n].id].uniq
              /\ \A m \in DOMAIN mainQueue : m < n
              /\ \A m \in DOMAIN mainQueue' : m \notin DOMAIN mainQueue /\ mainQueue'[m].id = mainQueue'[n].id => m = n
  PROVE  Announced' /\ Removals'
<1> DEFINE New(n) == /\ mainQueue'[n].op = "removed" /\ mainQueue'[n].id \in fresh
                     /\ mainQueue'[n].uniq = entity[mainQueue'[n].id].uniq
                     /\ \A m \in DOMAIN mainQueue : m < n
                     /\ \A m \in DOMAIN mainQueue' :
                          m \notin DOMAIN mainQueue /\ mainQueue'[m].id = mainQueue'[n].id => m = n
           Old(n) == n \in DOMAIN mainQueue /\ mainQueue'[n] = mainQueue[n]
<1>0. mainQueue \in Seq(Announcements) /\ fromMain \in Seq(Posted)
  BY DEF TypeOK, Announcements
<1>1. /\ \A n \in DOMAIN mainQueue : mainQueue[n] \in Announcements
      /\ \A n \in DOMAIN fromMain : fromMain[n] \in Posted
  BY <1>0
<1>2. \A i \in Id, u \in Uniqifier : Kept(i, u)
  BY MaxEntityAssumption DEF Kept, Exists, Uniqifier
<1>3. \A n \in DOMAIN mainQueue : Kept(mainQueue[n].id, mainQueue[n].uniq)
  BY <1>1, <1>2, MessageFacts
<1>4. \A n \in DOMAIN fromMain :
        Filter(n) \/ fromMain[n].op = "doRemove" => Kept(fromMain[n].id, fromMain[n].uniq)
  BY <1>1, <1>2, MessageFacts DEF Filter
<1>5. \A n \in DOMAIN fromMain : Filter(n)' <=> Filter(n)
  BY DEF Filter
<1>6. \A n \in DOMAIN mainQueue' : Old(n) \/ New(n)
  OBVIOUS
<1>7. \A n \in DOMAIN mainQueue' : New(n) =>
        /\ entity'[mainQueue'[n].id].uniq = mainQueue'[n].uniq
        /\ entity'[mainQueue'[n].id].finalizing
        /\ ~entity[mainQueue'[n].id].finalizing
  OBVIOUS
<1>8. Announced'
  <2>1. ASSUME NEW n \in DOMAIN mainQueue' PROVE entity'[mainQueue'[n].id].uniq = mainQueue'[n].uniq
    <3>1. CASE Old(n)
      BY <1>3, <3>1 DEF Announced, Kept
    <3> QED
      BY <1>6, <1>7, <3>1
  <2>2. ASSUME NEW n \in DOMAIN fromMain', Filter(n)'
        PROVE  entity'[fromMain'[n].id].uniq = fromMain'[n].uniq
    BY <1>4, <1>5, <2>2 DEF Announced, Kept
  <2> QED
    BY <2>1, <2>2 DEF Announced
<1>9. ASSUME NEW n \in DOMAIN mainQueue', mainQueue'[n].op = "removed"
      PROVE  /\ Finalizing(mainQueue[n])'
             /\ \A m \in DOMAIN mainQueue' :
                  mainQueue'[m].id = mainQueue'[n].id => m = n \/ (m < n /\ mainQueue'[m].op = "creating")
  <2>1. CASE Old(n)
    <3>1. /\ Finalizing(mainQueue[n])
          /\ \A m \in DOMAIN mainQueue :
               mainQueue[m].id = mainQueue[n].id => m = n \/ (m < n /\ mainQueue[m].op = "creating")
      BY <1>9, <2>1 DEF Removals
    <3>2. Finalizing(mainQueue[n])' /\ entity[mainQueue'[n].id].finalizing
      BY <1>3, <2>1, <3>1 DEF Finalizing, Kept
    <3>3. ASSUME NEW m \in DOMAIN mainQueue', mainQueue'[m].id = mainQueue'[n].id PROVE Old(m)
      <4>1. ~New(m)
        BY <1>7, <3>2, <3>3
      <4> QED
        BY <1>6, <4>1
    <3> QED
      BY <2>1, <3>1, <3>2, <3>3
  <2>2. CASE New(n) /\ ~Old(n)
    <3>1. Finalizing(mainQueue[n])'
      BY <1>7, <2>2 DEF Finalizing
    <3>2. ASSUME NEW m \in DOMAIN mainQueue', mainQueue'[m].id = mainQueue'[n].id
          PROVE  m = n \/ (m < n /\ mainQueue'[m].op = "creating")
      <4>1. CASE m \notin DOMAIN mainQueue
        BY <2>2, <3>2, <4>1
      <4>2. CASE Old(m)
        <5>1. mainQueue[m].op \in {"creating", "removed"} /\ m < n
          BY <1>1, <2>2, <4>2, MessageFacts
        <5>2. mainQueue[m].op # "removed"
          <6> SUFFICES ASSUME mainQueue[m].op = "removed" PROVE FALSE
            OBVIOUS
          <6>1. Finalizing(mainQueue[m])
            BY <4>2 DEF Removals
          <6>2. entity[mainQueue'[n].id].finalizing
            BY <3>2, <4>2, <6>1 DEF Finalizing
          <6> QED
            BY <1>7, <2>2, <6>2
        <5> QED
          BY <4>2, <5>1, <5>2
      <4>3. CASE m \in DOMAIN mainQueue /\ ~Old(m)
        <5>1. New(m)
          BY <1>6, <4>3
        <5>2. m < m
          BY <4>3, <5>1
        <5>3. m \in Nat
          BY <1>0, <4>3
        <5> QED
          BY <5>2, <5>3
      <4> QED
        BY <4>1, <4>2, <4>3
    <3> QED
      BY <3>1, <3>2
  <2> QED
    BY <1>6, <2>1, <2>2
<1>10. ASSUME NEW n \in DOMAIN fromMain', fromMain'[n].op = "doRemove"
       PROVE  /\ Finalizing(fromMain[n])'
              /\ \A m \in DOMAIN mainQueue' : mainQueue'[m].id # fromMain'[n].id
              /\ \A m \in DOMAIN fromMain' :
                   /\ fromMain'[m].op = "doRemove" /\ fromMain'[m].id = fromMain'[n].id => m = n
                   /\ Filter(m)' /\ fromMain'[m].id = fromMain'[n].id => m < n
  <2>1. /\ Finalizing(fromMain[n])
        /\ \A m \in DOMAIN mainQueue : mainQueue[m].id # fromMain[n].id
        /\ \A m \in DOMAIN fromMain :
             /\ fromMain[m].op = "doRemove" /\ fromMain[m].id = fromMain[n].id => m = n
             /\ Filter(m) /\ fromMain[m].id = fromMain[n].id => m < n
    BY <1>10 DEF Removals
  <2>2. Finalizing(fromMain[n])' /\ entity[fromMain[n].id].finalizing
    BY <1>4, <1>10, <2>1 DEF Finalizing, Kept
  <2>3. ASSUME NEW m \in DOMAIN mainQueue', mainQueue'[m].id = fromMain'[n].id PROVE FALSE
    <3>1. ~New(m)
      BY <1>7, <2>2, <2>3
    <3> QED
      BY <1>6, <2>1, <2>3, <3>1
  <2> QED
    BY <1>5, <2>1, <2>2, <2>3
<1> QED
  BY <1>8, <1>9, <1>10 DEF Removals

\* What the tick does to the entities it collects, those that are being deleted,
\* and the others.
TickOf(i, collected, ending, others, R, owner) ==
  /\ i \in collected =>
       /\ entity[i].relevantTo = {}
       /\ entity'[i].owner = entity[i].owner /\ entity'[i].finalizing
       /\ entity'[i].deletedFor = entity[i].deletedFor
  /\ i \in ending =>
       /\ entity[i].deleting
       /\ entity'[i].owner = entity[i].owner /\ entity'[i].finalizing = entity[i].finalizing
       /\ entity[i].deletedFor \subseteq entity'[i].deletedFor
       /\ \A c \in Client : c \in Registered /\ c = entity[i].owner => c \in entity'[i].deletedFor
  /\ i \in others =>
       /\ ~entity[i].deleting
       /\ entity'[i].owner = owner[i] /\ entity'[i].finalizing = entity[i].finalizing
       /\ entity'[i].deletedFor = entity[i].deletedFor
       /\ \A c \in Client : c \in R[i] /\ (entity[i].uniq \in synced[c] => c \in entity[i].relevantTo)
                              => c \in entity'[i].relevantTo

\* What the tick does to an entity that is not being deleted.
RelevantAfter(e, Q, o, f) ==
  /\ f \in Entities /\ f.uniq = e.uniq /\ f.owner = o
  /\ f.finalizing = e.finalizing /\ f.deleting = e.deleting /\ f.deletedFor = e.deletedFor
  /\ \A c \in Client : c \in Q /\ (e.uniq \in synced[c] => c \in e.relevantTo) => c \in f.relevantTo

\* The fields that TickRelevant leaves alone, and the new owner.
LEMMA RelevantFacts ==
  ASSUME NEW e \in Entities, NEW Q \in SUBSET Registered, NEW o \in Owner, NEW f, f = TickRelevant(e, Q, o)
  PROVE  RelevantAfter(e, Q, o, f)
<1>1. /\ f \in Entities
      /\ f.relevantTo = (e.relevantTo \ Leaving(e, Q)) \cup {c \in Q : e.uniq \notin synced[c]}
  BY DEF TickRelevant, Leaving, Entities, Registered, Owner
<1>2. /\ f.uniq = e.uniq /\ f.owner = o
      /\ f.finalizing = e.finalizing /\ f.deleting = e.deleting /\ f.deletedFor = e.deletedFor
  BY DEF TickRelevant, Entities
<1>3. \A c \in Client : c \in Q /\ (e.uniq \in synced[c] => c \in e.relevantTo) => c \in f.relevantTo
  BY <1>1 DEF Leaving
<1> QED
  BY <1>1, <1>2, <1>3 DEF RelevantAfter

\* How the tick splits the entities, and what becomes of each.
TickStep(collected, ending, others, R, owner) ==
  /\ collected = {i \in Id : Exists(i) /\ Collectable(entity[i])}
  /\ ending = {i \in Id \ collected : Exists(i) /\ entity[i].deleting}
  /\ others = {i \in Id \ collected : Exists(i) /\ ~entity[i].deleting}
  /\ \A i \in others : owner[i] \in OwnersAfter(entity[i], R[i])
  /\ entity' = [i \in Id |->
       IF i \in collected THEN [entity[i] EXCEPT !.finalizing = TRUE]
       ELSE IF i \in ending THEN TickDeleting(entity[i])
       ELSE IF i \in others THEN TickRelevant(entity[i], R[i], owner[i])
       ELSE NoEntity]

\* What the tick does to the entities, field by field.
LEMMA TickEntities ==
  ASSUME TypeOK, NEW collected \in SUBSET Id, NEW ending \in SUBSET Id, NEW others \in SUBSET Id,
         NEW R \in [others -> SUBSET Registered], NEW owner \in [others -> Client \cup {None}],
         TickStep(collected, ending, others, R, owner)
  PROVE  /\ entity' \in [Id -> Entities \cup {NoEntity}]
         /\ \A i \in Id : ~Exists(i) => entity'[i] = NoEntity
         /\ \A i \in Id : Exists(i) =>
              /\ entity'[i] \in Entities /\ entity'[i].uniq = entity[i].uniq
              /\ entity'[i].deleting = entity[i].deleting
              /\ i \in collected \/ i \in ending \/ i \in others
              /\ TickOf(i, collected, ending, others, R, owner)
<1>1. ASSUME NEW i \in Id, ~Exists(i) PROVE entity'[i] = NoEntity
  <2>1. i \notin collected /\ i \notin ending /\ i \notin others
    BY <1>1 DEF TickStep
  <2> QED
    BY <2>1 DEF TickStep
<1>2. ASSUME NEW i \in Id, Exists(i)
      PROVE  /\ entity'[i] \in Entities /\ entity'[i].uniq = entity[i].uniq
             /\ entity'[i].deleting = entity[i].deleting
             /\ i \in collected \/ i \in ending \/ i \in others
             /\ TickOf(i, collected, ending, others, R, owner)
  <2>0. PICK e \in Entities : e = entity[i]
    BY <1>2, ExistsFacts
  <2>1. CASE i \in collected
    <3>1. i \notin ending /\ i \notin others /\ e.relevantTo = {}
      BY <2>0, <2>1 DEF TickStep, Collectable
    <3>2. PICK f : f = entity'[i]
      OBVIOUS
    <3>3. f = [e EXCEPT !.finalizing = TRUE]
      BY <2>0, <2>1, <3>2 DEF TickStep
    <3>4. /\ f \in Entities /\ f.uniq = e.uniq /\ f.owner = e.owner /\ f.finalizing = TRUE
          /\ f.deletedFor = e.deletedFor /\ f.deleting = e.deleting
      BY <3>3, UpdateFacts
    <3> QED
      BY <2>0, <2>1, <3>1, <3>2, <3>4 DEF TickOf
  <2>2. CASE i \in ending
    <3>1. i \notin collected /\ i \notin others /\ e.deleting
      BY <2>0, <2>2 DEF TickStep
    <3>2. PICK f : f = entity'[i]
      OBVIOUS
    <3>3. f = TickDeleting(e)
      BY <2>0, <2>2, <3>1, <3>2 DEF TickStep
    <3>4. /\ f \in Entities /\ f.uniq = e.uniq /\ f.owner = e.owner
          /\ f.finalizing = e.finalizing /\ f.deleting = e.deleting
          /\ f.deletedFor = e.deletedFor \cup {c \in Registered : c = e.owner \/ e.uniq \in synced[c]}
      BY <3>3, DropTickFacts
    <3>5. \A c \in Client : c \in Registered /\ c = e.owner => c \in f.deletedFor
      BY <3>4
    <3>6. e.deletedFor \subseteq f.deletedFor
      BY <3>4
    <3> QED
      BY <2>0, <2>2, <3>1, <3>2, <3>4, <3>5, <3>6 DEF TickOf
  <2>3. CASE i \in others
    <3>1. i \notin collected /\ i \notin ending /\ ~e.deleting
      BY <2>0, <2>3 DEF TickStep
    <3>2. PICK f : f = entity'[i]
      OBVIOUS
    <3>3. PICK Q \in SUBSET Registered, o \in Owner : Q = R[i] /\ o = owner[i]
      BY <2>3 DEF Owner
    <3>4. f = TickRelevant(e, Q, o)
      BY <2>0, <2>3, <3>1, <3>2, <3>3 DEF TickStep
    <3>5. /\ f \in Entities /\ f.uniq = e.uniq /\ f.owner = o
          /\ f.finalizing = e.finalizing /\ f.deleting = e.deleting /\ f.deletedFor = e.deletedFor
          /\ \A c \in Client : c \in Q /\ (e.uniq \in synced[c] => c \in e.relevantTo) => c \in f.relevantTo
      <4>1. RelevantAfter(e, Q, o, f)
        BY <3>4, RelevantFacts
      <4> QED
        BY <4>1 DEF RelevantAfter
    <3>6. \A c \in Client : c \in R[i] /\ (entity[i].uniq \in synced[c] => c \in entity[i].relevantTo)
                              => c \in entity'[i].relevantTo
      <4> SUFFICES ASSUME NEW c \in Client, c \in R[i],
                          entity[i].uniq \in synced[c] => c \in entity[i].relevantTo
                   PROVE  c \in entity'[i].relevantTo
        OBVIOUS
      <4>1. c \in Q
        BY <3>3
      <4>2. e.uniq \in synced[c] => c \in e.relevantTo
        BY <2>0
      <4>3. c \in f.relevantTo
        BY <3>5, <4>1, <4>2
      <4> QED
        BY <3>2, <4>3
    <3>7. /\ entity'[i] \in Entities /\ entity'[i].uniq = entity[i].uniq
          /\ entity'[i].deleting = entity[i].deleting /\ ~entity[i].deleting
          /\ entity'[i].owner = owner[i] /\ entity'[i].finalizing = entity[i].finalizing
          /\ entity'[i].deletedFor = entity[i].deletedFor
      BY <2>0, <3>1, <3>2, <3>3, <3>5
    <3>8. TickOf(i, collected, ending, others, R, owner)
      BY <3>1, <3>6, <3>7 DEF TickOf
    <3> QED
      BY <2>3, <3>7, <3>8
  <2> QED
    BY <1>2, <2>1, <2>2, <2>3 DEF TickStep
<1>3. entity' \in [Id -> Entities \cup {NoEntity}]
  <2>1. \A i \in Id : entity'[i] \in Entities \cup {NoEntity}
    BY <1>1, <1>2
  <2>2. entity' = [i \in Id |-> entity'[i]]
    BY DEF TickStep
  <2> QED
    BY <2>1, <2>2
<1> QED
  BY <1>1, <1>2, <1>3

\* What the tick does to the clients, the ids and the queue of the main thread.
TickRest(collected, ending, others, R, owner) ==
  /\ synced' = [c \in Client |->
       IF c \in Registered THEN {entity[i].uniq : i \in {j \in others : c \in R[j]}} ELSE synced[c]]
  /\ objectIds' = Holders({i \in others : owner[i] # entity[i].owner}, owner)
  /\ pool' = [c \in Client |-> pool[c] \cup Returned(c, ending)]
  /\ stolen' = stolen \cup {i \in others : StolenByTick(i, R[i], owner[i])}
  /\ raced' = (raced \/ \E i \in others : \E c \in R[i] : Handled(c))
  /\ LET fresh == {i \in collected : ~entity[i].finalizing} IN
       \E order \in [1 .. Cardinality(fresh) -> fresh] :
         /\ {order[n] : n \in DOMAIN order} = fresh
         /\ mainQueue' = mainQueue \o [n \in DOMAIN order |->
              [op |-> "removed", id |-> order[n], uniq |-> entity[order[n]].uniq]]

\* The tick is both.
LEMMA TickFacts ==
  ASSUME Tick
  PROVE  \E collected \in SUBSET Id, ending \in SUBSET Id, others \in SUBSET Id :
           \E R \in [others -> SUBSET Registered], owner \in [others -> Client \cup {None}] :
             /\ TickStep(collected, ending, others, R, owner)
             /\ TickRest(collected, ending, others, R, owner)
<1> DEFINE collected == {i \in Id : Exists(i) /\ Collectable(entity[i])}
           ending == {i \in Id \ collected : Exists(i) /\ entity[i].deleting}
           others == {i \in Id \ collected : Exists(i) /\ ~entity[i].deleting}
<1>1. PICK R \in [others -> SUBSET Registered], owner \in [others -> Client \cup {None}] :
          /\ \A i \in others : owner[i] \in OwnersAfter(entity[i], R[i])
          /\ entity' = [i \in Id |->
               IF i \in collected THEN [entity[i] EXCEPT !.finalizing = TRUE]
               ELSE IF i \in ending THEN TickDeleting(entity[i])
               ELSE IF i \in others THEN TickRelevant(entity[i], R[i], owner[i])
               ELSE NoEntity]
          /\ TickRest(collected, ending, others, R, owner)
  BY DEF Tick, TickRest
<1>2. TickStep(collected, ending, others, R, owner)
  BY <1>1 DEF TickStep
<1>3. collected \in SUBSET Id /\ ending \in SUBSET Id /\ others \in SUBSET Id
  OBVIOUS
<1> HIDE DEF collected, ending, others
<1> QED
  BY <1>1, <1>2, <1>3

\* What the tick tells the clients: the others they get to have, and that they may
\* put an id back on their free list.
LEMMA TickClients ==
  ASSUME TypeOK, NEW collected, NEW ending \in SUBSET Id, NEW others \in SUBSET Id, NEW R, NEW owner,
         \A i \in others : Exists(i),
         TickRest(collected, ending, others, R, owner)
  PROVE  /\ synced' \in [Client -> SUBSET Uniqifier] /\ pool' \in [Client -> SUBSET Id]
         /\ \A c \in Client : c \in Registered =>
              \A u \in synced'[c] : \E i \in others : c \in R[i] /\ u = entity[i].uniq
         /\ \A c \in Client : c \notin Registered => synced'[c] = synced[c]
         /\ \A c \in Client, i \in Id : i \in pool'[c] /\ i \notin pool[c] =>
              /\ i \in ending /\ i \notin stolen /\ c \in Registered
              /\ c \notin entity[i].deletedFor /\ c = entity[i].owner
              /\ \A n \in DOMAIN fromNet : ~Gives(n, c, i)
<1>1. \A i \in others : entity[i].uniq \in Uniqifier
  BY ExistsFacts
<1>2. synced' = [c \in Client |->
        IF c \in Registered THEN {entity[i].uniq : i \in {j \in others : c \in R[j]}} ELSE synced[c]]
  BY DEF TickRest
<1>3. /\ synced \in [Client -> SUBSET Uniqifier] /\ pool \in [Client -> SUBSET Id]
  BY DEF TypeOK
<1>4. \A c \in Client : c \in Registered => synced'[c] = {entity[i].uniq : i \in {j \in others : c \in R[j]}}
  BY <1>2
<1>5. \A c \in Client : c \notin Registered => synced'[c] = synced[c]
  BY <1>2
<1>6. \A c \in Client : c \in Registered =>
        \A u \in synced'[c] : \E i \in others : c \in R[i] /\ u = entity[i].uniq
  BY <1>4
<1>7. \A c \in Client : synced'[c] \in SUBSET Uniqifier
  BY <1>1, <1>3, <1>5, <1>6
<1>8. synced' = [c \in Client |-> synced'[c]]
  BY <1>2
<1>9. synced' \in [Client -> SUBSET Uniqifier]
  BY <1>7, <1>8
<1>10. pool' = [c \in Client |-> pool[c] \cup Returned(c, ending)]
  BY DEF TickRest
<1>11. \A c \in Client : Returned(c, ending) \subseteq Id
  BY DEF Returned
<1>12. pool' \in [Client -> SUBSET Id]
  BY <1>3, <1>10, <1>11
<1>13. ASSUME NEW c \in Client, NEW i \in Id, i \in pool'[c], i \notin pool[c]
       PROVE  /\ i \in ending /\ i \notin stolen /\ c \in Registered
              /\ c \notin entity[i].deletedFor /\ c = entity[i].owner
              /\ \A n \in DOMAIN fromNet : ~Gives(n, c, i)
  <2>1. i \in Returned(c, ending)
    BY <1>10, <1>13
  <2> QED
    BY <1>3, <2>1 DEF Returned, Gives
<1> QED
  BY <1>5, <1>6, <1>9, <1>12, <1>13

\* The ids of the entities that the tick gives to another client, or takes back.
LEMMA TickIds ==
  ASSUME TypeOK, NEW collected, NEW ending, NEW others \in SUBSET Id, NEW R, NEW owner,
         TickRest(collected, ending, others, R, owner)
  PROVE  \E taken \in SUBSET Id :
           /\ taken \subseteq others
           /\ \A i \in others : i \notin taken => owner[i] = entity[i].owner
           /\ objectIds' = Holders(taken, owner)
           /\ stolen \subseteq stolen' /\ taken \subseteq stolen'
           /\ \A i \in Id : i \in stolen' => i \in stolen \/ i \in others
<1> DEFINE taken == {i \in others : owner[i] # entity[i].owner}
<1>1. /\ objectIds' = Holders(taken, owner)
      /\ stolen' = stolen \cup {i \in others : StolenByTick(i, R[i], owner[i])}
  BY DEF TickRest
<1>2. /\ stolen \subseteq stolen' /\ taken \subseteq stolen'
      /\ \A i \in Id : i \in stolen' => i \in stolen \/ i \in others
  BY <1>1 DEF StolenByTick
<1>3. taken \in SUBSET Id /\ taken \subseteq others /\ \A i \in others : i \notin taken => owner[i] = entity[i].owner
  OBVIOUS
<1> HIDE DEF taken
<1> QED
  BY <1>1, <1>2, <1>3

\* What the tick announces.
LEMMA TickQueue ==
  ASSUME TypeOK, NEW collected \in SUBSET Id, NEW ending, NEW others, NEW R, NEW owner,
         \A i \in collected : Exists(i),
         TickRest(collected, ending, others, R, owner)
  PROVE  /\ mainQueue' \in Seq(Announcements)
         /\ \A n \in DOMAIN mainQueue' :
              \/ n \in DOMAIN mainQueue /\ mainQueue'[n] = mainQueue[n]
              \/ /\ mainQueue'[n].op = "removed"
                 /\ mainQueue'[n].id \in collected /\ ~entity[mainQueue'[n].id].finalizing
                 /\ mainQueue'[n].uniq = entity[mainQueue'[n].id].uniq
                 /\ \A m \in DOMAIN mainQueue : m < n
                 /\ \A m \in DOMAIN mainQueue' :
                      m \notin DOMAIN mainQueue /\ mainQueue'[m].id = mainQueue'[n].id => m = n
<1> DEFINE fresh == {i \in collected : ~entity[i].finalizing}
           item(i) == [op |-> "removed", id |-> i, uniq |-> entity[i].uniq]
<1>1. PICK order \in [1 .. Cardinality(fresh) -> fresh] :
         /\ {order[n] : n \in DOMAIN order} = fresh
         /\ mainQueue' = mainQueue \o [n \in DOMAIN order |-> item(order[n])]
  BY DEF TickRest
<1>2. /\ fresh \in SUBSET Id
      /\ \A i \in fresh : i \in collected /\ ~entity[i].finalizing
  OBVIOUS
<1> HIDE DEF fresh
<1>3. /\ Cardinality(fresh) \in Nat
      /\ \A n, m \in 1 .. Cardinality(fresh) : order[n] = order[m] => n = m
  BY <1>1, <1>2, OrderFacts
<1>4. PICK k \in Nat : k = Cardinality(fresh)
  BY <1>3
<1>5. order \in [1 .. k -> fresh] /\ \A n, m \in 1 .. k : order[n] = order[m] => n = m
  BY <1>3, <1>4
<1>6. \A i \in fresh : entity[i].uniq \in Uniqifier
  BY <1>2, ExistsFacts
<1>7. \A i \in fresh : /\ item(i) \in Announcements
                       /\ item(i).op = "removed" /\ item(i).id = i /\ item(i).uniq = entity[i].uniq
  BY <1>2, <1>6 DEF Announcements
<1> HIDE DEF item
<1>8. PICK t \in Seq(Announcements) :
         /\ Len(t) = k /\ mainQueue' = mainQueue \o t
         /\ \A n \in 1 .. k : order[n] \in fresh /\ t[n] = item(order[n])
  <2>1. DOMAIN order = 1 .. k
    BY <1>5
  <2>2. PICK t : t = [n \in 1 .. k |-> item(order[n])]
    OBVIOUS
  <2>3. \A n \in 1 .. k : order[n] \in fresh /\ item(order[n]) \in Announcements
    BY <1>5, <1>7
  <2>4. t \in [1 .. k -> Announcements]
    BY <2>2, <2>3
  <2>5. t \in Seq(Announcements) /\ Len(t) = k
    BY <2>4
  <2>6. mainQueue' = mainQueue \o t
    BY <1>1, <2>1, <2>2
  <2>7. \A n \in 1 .. k : t[n] = item(order[n])
    BY <2>2
  <2> QED
    BY <2>3, <2>5, <2>6, <2>7
<1>9. mainQueue \in Seq(Announcements)
  BY DEF TypeOK, Announcements
<1>10. PICK L \in Nat : L = Len(mainQueue)
  BY <1>9
<1>11. /\ mainQueue' \in Seq(Announcements)
       /\ \A n \in DOMAIN mainQueue' :
            \/ n \in DOMAIN mainQueue /\ mainQueue'[n] = mainQueue[n]
            \/ /\ n - L \in 1 .. k /\ mainQueue'[n] = t[n - L] /\ n \in Nat
               /\ \A m \in DOMAIN mainQueue : m < n
  BY <1>8, <1>9, <1>10, ConcatFacts
<1>12. ASSUME NEW n \in DOMAIN mainQueue', n \notin DOMAIN mainQueue
       PROVE  /\ mainQueue'[n].op = "removed" /\ mainQueue'[n].id \in fresh
              /\ mainQueue'[n].uniq = entity[mainQueue'[n].id].uniq
              /\ \A m \in DOMAIN mainQueue : m < n
              /\ n \in Nat /\ n - L \in 1 .. k /\ mainQueue'[n].id = order[n - L]
  <2>1. /\ n - L \in 1 .. k /\ mainQueue'[n] = t[n - L] /\ n \in Nat
        /\ \A m \in DOMAIN mainQueue : m < n
    BY <1>11, <1>12
  <2>2. PICK j \in fresh : j = order[n - L]
    BY <1>8, <2>1
  <2>3. mainQueue'[n] = item(j)
    BY <1>8, <2>1, <2>2
  <2> QED
    BY <1>7, <2>1, <2>2, <2>3
<1>13. ASSUME NEW n \in DOMAIN mainQueue', n \notin DOMAIN mainQueue,
              NEW m \in DOMAIN mainQueue', m \notin DOMAIN mainQueue, mainQueue'[m].id = mainQueue'[n].id
       PROVE  m = n
  <2>1. /\ n \in Nat /\ n - L \in 1 .. k /\ mainQueue'[n].id = order[n - L]
        /\ m \in Nat /\ m - L \in 1 .. k /\ mainQueue'[m].id = order[m - L]
    BY <1>12, <1>13
  <2>2. n - L = m - L
    BY <1>5, <1>13, <2>1
  <2> QED
    BY <1>10, <2>1, <2>2
<1> QED
  BY <1>2, <1>11, <1>12, <1>13

\* The tick.
LEMMA TickInv == ASSUME Inv, Tick PROVE Inv'
<1>0. TypeOK /\ Uniques /\ Relevant
  BY DEF Inv
<1>1. /\ marking = None /\ freeing = NotFreeing
      /\ UNCHANGED <<conn, granting, sent, used, marking, creating, freeing, made, fromMain, fromNet, lost>>
  BY DEF Tick, SyncIdle
<1>2. PICK collected \in SUBSET Id, ending \in SUBSET Id, others \in SUBSET Id :
        \E R \in [others -> SUBSET Registered], owner \in [others -> Client \cup {None}] :
          /\ TickStep(collected, ending, others, R, owner)
          /\ TickRest(collected, ending, others, R, owner)
  BY TickFacts
<1>3. PICK R \in [others -> SUBSET Registered], owner \in [others -> Client \cup {None}] :
          /\ TickStep(collected, ending, others, R, owner)
          /\ TickRest(collected, ending, others, R, owner)
  BY <1>2
<1>4. /\ \A i \in collected : Exists(i) /\ i \notin ending /\ i \notin others
      /\ \A i \in ending : Exists(i) /\ i \notin others
      /\ \A i \in others : Exists(i)
  BY <1>3 DEF TickStep
<1>5. /\ entity' \in [Id -> Entities \cup {NoEntity}]
      /\ \A i \in Id : ~Exists(i) => entity'[i] = NoEntity
      /\ \A i \in Id : Exists(i) =>
           /\ entity'[i] \in Entities /\ entity'[i].uniq = entity[i].uniq
           /\ entity'[i].deleting = entity[i].deleting
           /\ i \in collected \/ i \in ending \/ i \in others
           /\ TickOf(i, collected, ending, others, R, owner)
  BY <1>0, <1>3, TickEntities
<1>6. /\ synced' \in [Client -> SUBSET Uniqifier] /\ pool' \in [Client -> SUBSET Id]
      /\ \A c \in Client : c \in Registered =>
           \A u \in synced'[c] : \E i \in others : c \in R[i] /\ u = entity[i].uniq
      /\ \A c \in Client : c \notin Registered => synced'[c] = synced[c]
      /\ \A c \in Client, i \in Id : i \in pool'[c] /\ i \notin pool[c] =>
           /\ i \in ending /\ i \notin stolen /\ c \in Registered
           /\ c \notin entity[i].deletedFor /\ c = entity[i].owner
           /\ \A n \in DOMAIN fromNet : ~Gives(n, c, i)
  BY <1>0, <1>3, <1>4, TickClients
<1>7. PICK taken \in SUBSET Id :
        /\ taken \subseteq others
        /\ \A i \in others : i \notin taken => owner[i] = entity[i].owner
        /\ objectIds' = Holders(taken, owner)
        /\ stolen \subseteq stolen' /\ taken \subseteq stolen'
        /\ \A i \in Id : i \in stolen' => i \in stolen \/ i \in others
  BY <1>0, <1>3, TickIds
<1>8. /\ mainQueue' \in Seq(Announcements)
      /\ \A n \in DOMAIN mainQueue' :
           \/ n \in DOMAIN mainQueue /\ mainQueue'[n] = mainQueue[n]
           \/ /\ mainQueue'[n].op = "removed"
              /\ mainQueue'[n].id \in collected /\ ~entity[mainQueue'[n].id].finalizing
              /\ mainQueue'[n].uniq = entity[mainQueue'[n].id].uniq
              /\ \A m \in DOMAIN mainQueue : m < n
              /\ \A m \in DOMAIN mainQueue' :
                   m \notin DOMAIN mainQueue /\ mainQueue'[m].id = mainQueue'[n].id => m = n
  BY <1>0, <1>3, <1>4, TickQueue
<1>9. \A i \in Id : entity'[i].uniq = entity[i].uniq /\ (Exists(i)' <=> Exists(i))
  <2>1. \A i \in Id : ~Exists(i) => entity[i] = NoEntity
    BY <1>0, ExistsFacts
  <2>2. \A i \in Id : entity'[i].uniq = entity[i].uniq
    BY <1>5, <2>1
  <2> QED
    BY <2>2 DEF Exists
<1>10. \A i \in Id : Exists(i) => (entity[i].finalizing => entity'[i].finalizing)
  BY <1>5 DEF TickOf
<1>11. \A i \in Id, c \in Client : Exists(i) /\ c \in Registered /\ entity[i].uniq \in synced'[c] => i \in others /\ c \in R[i]
  <2>1. ASSUME NEW i \in Id, NEW c \in Client, Exists(i), c \in Registered, entity[i].uniq \in synced'[c]
        PROVE  i \in others /\ c \in R[i]
    <3>1. PICK j \in others : c \in R[j] /\ entity[i].uniq = entity[j].uniq
      BY <1>6, <2>1
    <3>2. i = j
      BY <1>0, <2>1, <3>1 DEF Uniques
    <3> QED
      BY <3>1, <3>2
  <2> QED
    BY <2>1
<1>12. /\ \A n \in DOMAIN fromNet' : n \in Nat /\ n + 0 \in DOMAIN fromNet /\ fromNet'[n] = fromNet[n + 0]
       /\ \A n \in DOMAIN fromMain' : n \in Nat /\ n + 0 \in DOMAIN fromMain /\ fromMain'[n] = fromMain[n + 0]
  BY <1>0, <1>1, SameQueue DEF TypeOK
<1>18. raced' \in BOOLEAN /\ (raced => raced')
  BY <1>3 DEF TickRest
<1>13. TypeOK'
  <2>1. objectIds' \in [Client -> SUBSET Id]
    BY <1>0, <1>7, HoldersFacts
  <2>2. ASSUME NEW i \in Id, Exists(i)', ~entity'[i].deleting PROVE entity'[i].deletedFor = {}
    <3>1. Exists(i) /\ ~entity[i].deleting
      BY <1>5, <1>9, <2>2
    <3>2. entity[i].deletedFor = {} /\ i \notin ending
      BY <1>0, <1>5, <3>1 DEF TypeOK, TickOf
    <3> QED
      BY <1>5, <3>1, <3>2 DEF TickOf
  <2>3. stolen' \subseteq Id
    <3>1. \A i \in stolen' : i \in stolen \/ i \in others
      BY <1>3 DEF TickRest
    <3> QED
      BY <1>0, <3>1 DEF TypeOK
  <2> QED
    BY <1>0, <1>1, <1>5, <1>6, <1>8, <1>18, <2>1, <2>2, <2>3, ConstantSets DEF TypeOK, Announcements
<1>14. Uniques'
  <2>1. \A c \in Client : \A u \in synced'[c] : u \in synced[c] \/ \E i \in Id : u = entity[i].uniq
    BY <1>6
  <2> QED
    BY <1>0, <1>1, <1>9, <1>12, <2>1, UniquesKept
<1>15. Relevant'
  <2>1. ASSUME NEW i \in Id, NEW c \in Client, conn'[c] \in {"on", "leaving", "handled"}, Exists(i)',
                 entity'[i].uniq \in synced'[c]
        PROVE  c \in entity'[i].relevantTo
    <3>1. Exists(i) /\ c \in Registered /\ entity[i].uniq \in synced'[c]
      BY <1>1, <1>9, <2>1 DEF Registered
    <3>2. i \in others /\ c \in R[i]
      BY <1>11, <3>1
    <3>3. entity[i].uniq \in synced[c] => c \in entity[i].relevantTo
      BY <1>0, <3>1 DEF Relevant, Registered
    <3> QED
      BY <1>5, <3>1, <3>2, <3>3 DEF TickOf
  <2>2. \A c \in Client : conn'[c] = "new" => synced'[c] = {}
    BY <1>0, <1>1, <1>6 DEF Relevant, Registered
  <2>3. \A n \in DOMAIN fromNet' : conn'[fromNet'[n].from] # "new"
    BY <1>0, <1>1 DEF Relevant
  <2> QED
    BY <2>1, <2>2, <2>3, ConstantSets DEF Relevant
<1>16. Drops'
  BY <1>1 DEF Inv, Drops
<1>17. ASSUME ~raced' PROVE Ids' /\ Tokens' /\ Announced' /\ Removals'
  <2>0. Ids /\ Tokens /\ Announced /\ Removals
    BY <1>17, <1>18 DEF Inv
  <2>1. \A d \in Client : Present(d)' <=> Present(d)
    BY <1>1 DEF Present, Handled
  <2>2. \A i \in taken : Exists(i) /\ Carried(i) /\ ~InHand(i)
    BY <1>4, <1>7, <2>0 DEF Ids, IdOK
  <2>10. \A i \in Id : InHand(i)' <=> InHand(i)
    BY <1>1 DEF InHand, NoEntity
  <2>3. /\ \A i \in taken : \A d \in Client : Holds(d, i)' <=> (owner[i] = d /\ Present(d))
        /\ \A i \in Id : i \notin taken => \A d \in Client : Holds(d, i)' <=> Holds(d, i)
    <3>1. \A i \in Id, d \in Client : Holds(d, i) => Present(d)
      BY DEF Holds, Present
    <3>2. \A d \in Client : Present(d)' => Present(d)
      BY <2>1
    <3>3. /\ \A i \in taken : Carried(i) =>
               \A d \in Client : Holds(d, i)' <=> (owner[i] = d /\ Present(d)')
          /\ \A i \in Id : i \notin taken =>
               \A d \in Client : Holds(d, i)' <=> (Holds(d, i) /\ Present(d)')
      BY <1>0, <1>1, <1>7, <3>2, Reassigned
    <3> QED
      BY <2>1, <2>2, <3>1, <3>3
  <2>4. ASSUME NEW i \in Id PROVE IdOK(i)'
    <3>1. CASE i \in taken
      <4>1. entity'[i].owner = owner[i] /\ i \in stolen'
        BY <1>5, <1>7, <2>2, <3>1 DEF TickOf
      <4>2. i \in used' \/ (marking' = i /\ i \in sent')
        BY <1>1, <2>2, <3>1 DEF Carried
      <4>3. \A d \in Client : Holds(d, i)' <=> (entity'[i].owner = d /\ Present(d)')
        BY <2>1, <2>3, <3>1, <4>1
      <4>4. Carried(i)'
        BY <4>1, <4>2, <4>3 DEF Carried
      <4> QED
        BY <1>9, <2>2, <2>10, <3>1, <4>4 DEF IdOK
    <3>2. CASE i \notin taken /\ Exists(i) /\ i \in stolen'
      <4>1. Carried(i) /\ ~InHand(i)
        BY <2>0, <3>2 DEF Ids, IdOK
      <4>2. entity'[i].owner = entity[i].owner
        BY <1>5, <1>7, <3>2 DEF TickOf
      <4>3. i \in used' \/ (marking' = i /\ i \in sent')
        BY <1>1, <4>1 DEF Carried
      <4>4. \A d \in Client : Holds(d, i)' <=> (entity'[i].owner = d /\ Present(d)')
        BY <2>1, <2>3, <3>2, <4>1, <4>2 DEF Carried
      <4>5. Carried(i)'
        BY <3>2, <4>3, <4>4 DEF Carried
      <4> QED
        BY <1>9, <2>10, <3>2, <4>1, <4>5 DEF IdOK
    <3>3. CASE i \notin taken /\ (Exists(i) => i \notin stolen')
      <4>1. IdOK(i)
        BY <2>0 DEF Ids, IdOK
      <4>2. Exists(i) => entity'[i].owner = entity[i].owner
        BY <1>5, <1>7, <3>3 DEF TickOf
      <4>3. i \in stolen' <=> i \in stolen
        BY <1>4, <1>7, <3>3
      <4>4. \A d \in Client : Holds(d, i)' <=> Holds(d, i)
        BY <2>3, <3>3
      <4> QED
        BY <1>1, <1>9, <2>1, <4>1, <4>2, <4>3, <4>4, IdKept
    <3> QED
      BY <3>1, <3>2, <3>3
  <2>5. Ids'
    BY <2>4, ConstantSets DEF Ids, IdOK
  <2>6. ASSUME NEW d \in Client, NEW j \in Id, Present(d)',
               j \in pool[d] \/ \E n \in DOMAIN fromNet' : Creates(n, d, j)'
        PROVE  MayReuse(d, j)' /\ (Exists(j)' => Exists(j))
    <3>1. Token(d, j)
      BY <1>1, <2>6 DEF Token, Creates
    <3>2. MayReuse(d, j) /\ Holds(d, j)
      BY <2>0, <2>1, <2>6, <3>1, TokenFacts
    <3>3. Exists(j) => entity[j].deleting /\ j \notin others
      <4>1. Exists(j) => entity[j].deleting
        BY <3>2 DEF MayReuse
      <4> QED
        BY <1>5, <4>1 DEF TickOf
    <3>4. j \notin others /\ j \notin taken
      BY <1>4, <1>7, <3>3
    <3>5. Holds(d, j)' /\ (j \in stolen' => j \in stolen)
      BY <1>7, <2>3, <3>2, <3>4
    <3>6. Exists(j) => (entity[j].uniq \in synced'[d] => entity[j].uniq \in synced[d])
      BY <1>6, <1>11, <3>4
    <3>7. Exists(j) => /\ entity'[j].uniq = entity[j].uniq
                       /\ entity[j].deleting => entity'[j].deleting
                       /\ d \in entity[j].deletedFor => d \in entity'[j].deletedFor
      BY <1>5, <3>4 DEF TickOf
    <3>8. Exists(j)' \/ InHand(j)' => j \notin stolen'
      BY <1>9, <2>10, <3>2, <3>5 DEF MayReuse
    <3> QED
      BY <1>9, <3>2, <3>5, <3>6, <3>7, <3>8, MayReuseKept
  <2>7. ASSUME NEW d \in Client, NEW j \in Id, Present(d)', j \in pool'[d], j \notin pool[d]
        PROVE  /\ MayReuse(d, j)'
               /\ \A n \in DOMAIN fromNet' : ~Creates(n, d, j)' /\ ~(Exists(j)' /\ Gives(n, d, j)')
    <3>1. /\ j \in ending /\ j \notin stolen /\ d \in Registered
          /\ d \notin entity[j].deletedFor /\ d = entity[j].owner
          /\ \A n \in DOMAIN fromNet : ~Gives(n, d, j)
      BY <1>6, <2>7
    <3>2. Exists(j) /\ j \notin others /\ j \notin taken /\ Carried(j) /\ Present(d)
      BY <1>4, <1>7, <2>0, <2>1, <2>7, <3>1 DEF Ids, IdOK
    <3>3. Holds(d, j)'
      BY <2>3, <3>1, <3>2 DEF Carried
    <3>4. j \notin stolen'
      BY <1>7, <3>1, <3>2
    <3>5. entity'[j].deleting /\ d \in entity'[j].deletedFor
      BY <1>5, <3>1, <3>2 DEF TickOf
    <3>6. entity'[j].uniq \notin synced'[d]
      BY <1>9, <1>11, <3>1, <3>2
    <3>7. MayReuse(d, j)'
      BY <3>3, <3>4, <3>5, <3>6 DEF MayReuse
    <3>8. ~Token(d, j)
      <4> SUFFICES ASSUME Token(d, j) PROVE FALSE
        OBVIOUS
      <4>1. MayReuse(d, j)
        BY <2>0, <3>2, TokenFacts
      <4> QED
        BY <3>1, <3>2, <4>1 DEF MayReuse
    <3>9. \A n \in DOMAIN fromNet' : ~Creates(n, d, j)'
      BY <1>1, <3>8 DEF Token, Creates
    <3>10. \A n \in DOMAIN fromNet' : ~Gives(n, d, j)'
      BY <1>1, <3>1 DEF Gives
    <3> QED
      BY <3>7, <3>9, <3>10
  <2>8. Tokens'
    BY <1>12, <2>0, <2>1, <2>6, <2>7, TokensKept
  <2>9. Announced' /\ Removals'
    <3> DEFINE fresh == {i \in collected : ~entity[i].finalizing}
    <3>1. fresh \in SUBSET Id /\ \A i \in fresh : Exists(i) /\ ~entity[i].finalizing /\ i \in collected
      BY <1>4
    <3>2. \A i \in collected : ~entity[i].finalizing => i \in fresh
      OBVIOUS
    <3> HIDE DEF fresh
    <3>3. \A i \in fresh : ~entity[i].finalizing /\ entity'[i].finalizing
      BY <1>5, <3>1 DEF TickOf
    <3>4. \A i \in Id : Exists(i) => entity'[i].uniq = entity[i].uniq
                                       /\ (entity[i].finalizing => entity'[i].finalizing)
      BY <1>9, <1>10
    <3>5. \A i \in fresh : Exists(i)
      BY <3>1
    <3>6. \A n \in DOMAIN mainQueue' :
           \/ n \in DOMAIN mainQueue /\ mainQueue'[n] = mainQueue[n]
           \/ /\ mainQueue'[n].op = "removed" /\ mainQueue'[n].id \in fresh
              /\ mainQueue'[n].uniq = entity[mainQueue'[n].id].uniq
              /\ \A m \in DOMAIN mainQueue : m < n
              /\ \A m \in DOMAIN mainQueue' : m \notin DOMAIN mainQueue /\ mainQueue'[m].id = mainQueue'[n].id => m = n
      BY <1>8, <3>2
    <3> QED
      BY <1>0, <1>1, <2>0, <3>1, <3>3, <3>4, <3>5, <3>6, TickTasks
  <2> QED
    BY <2>5, <2>8, <2>9
<1> QED
  BY <1>13, <1>14, <1>15, <1>16, <1>17 DEF Inv

-----------------------------------------------------------------------------
(* The theorems *)

\* The invariant holds at the start.
LEMMA InitInv == Init => Inv
<1> SUFFICES ASSUME Init PROVE Inv
  OBVIOUS
<1>1. /\ conn = [c \in Client |-> "new"] /\ granting = None
      /\ sent = {} /\ used = {} /\ stolen = {} /\ lost = {}
      /\ objectIds = [c \in Client |-> {}] /\ synced = [c \in Client |-> {}] /\ pool = [c \in Client |-> {}]
      /\ entity = [i \in Id |-> NoEntity] /\ marking = None /\ creating = NoEntity /\ freeing = NotFreeing
      /\ made = 0 /\ raced = FALSE
      /\ mainQueue = <<>> /\ fromMain = <<>> /\ fromNet = <<>>
  BY DEF Init
<1>2. \A i \in Id : entity[i] = NoEntity /\ ~Exists(i) /\ entity[i].uniq = 0
  BY <1>1 DEF Exists, NoEntity
<1>3. /\ mainQueue \in Seq(Announcements) /\ fromMain \in Seq(Posted) /\ fromNet \in Seq(Packets)
      /\ DOMAIN mainQueue = {} /\ DOMAIN fromMain = {} /\ DOMAIN fromNet = {}
  BY <1>1
<1>4. TypeOK
  <2>1. entity \in [Id -> Entities \cup {NoEntity}]
    BY <1>1
  <2>2. made \in 0 .. MaxEntity
    BY <1>1, MaxEntityAssumption
  <2>3. /\ conn \in [Client -> {"new", "on", "leaving", "dropped", "handled", "gone"}]
        /\ objectIds \in [Client -> SUBSET Id]
        /\ synced \in [Client -> SUBSET Uniqifier] /\ pool \in [Client -> SUBSET Id]
    BY <1>1
  <2> QED
    BY <1>1, <1>2, <1>3, <2>1, <2>2, <2>3 DEF TypeOK, Announcements
<1>5. Uniques /\ Drops /\ Relevant
  <2>1. \A c \in Client : synced[c] = {}
    BY <1>1
  <2>2. \A i \in Id : entity[i].uniq <= made
    BY <1>1, <1>2
  <2> QED
    BY <1>1, <1>2, <1>3, <2>1, <2>2 DEF Uniques, Drops, Relevant
<1>6. Ids
  <2>1. \A c \in Client, i \in Id : ~Holds(c, i)
    BY <1>1 DEF Holds
  <2>2. \A i \in Id : marking # i
    BY <1>1, MaxIdAssumption DEF Id
  <2>3. \A i \in Id : ~InHand(i)
    BY <1>1 DEF InHand, NotFreeing
  <2>4. \A i \in Id : Idle(i)
    BY <1>1, <2>1, <2>2 DEF Idle
  <2> QED
    BY <1>2, <2>3, <2>4 DEF Ids, IdOK
<1>7. Tokens
  <2>1. \A c \in Client : pool[c] = {}
    BY <1>1
  <2> QED
    BY <1>3, <2>1 DEF Tokens
<1>8. Announced /\ Removals
  BY <1>3 DEF Announced, Removals
<1> QED
  BY <1>4, <1>5, <1>6, <1>7, <1>8 DEF Inv

\* Nothing in the invariant mentions more than the variables.
LEMMA StutterInv == ASSUME Inv, UNCHANGED vars PROVE Inv'
<1>0. UNCHANGED <<conn, granting, sent, used, stolen, objectIds, entity, synced, pool, marking, creating, freeing, made,
                  mainQueue, fromMain, fromNet, raced, lost>>
  BY DEF vars, idVars, entityVars, queueVars
<1>1. TypeOK'
  BY <1>0, ConstantSets DEF Inv, TypeOK, Exists, NotFreeing
<1>2. \A d \in Client : Present(d)' <=> Present(d)
  BY <1>0 DEF Present, Handled
<1>3. \A i \in Id : Untouched(i)
  BY <1>0 DEF Untouched, Same
<1>4. /\ \A n \in DOMAIN fromNet' : n \in Nat /\ n + 0 \in DOMAIN fromNet /\ fromNet'[n] = fromNet[n + 0]
      /\ \A n \in DOMAIN fromMain' : n \in Nat /\ n + 0 \in DOMAIN fromMain /\ fromMain'[n] = fromMain[n + 0]
  BY <1>0, SameQueue DEF Inv, TypeOK
<1>5. Uniques' /\ Relevant' /\ (~raced' => Ids' /\ Tokens')
  BY <1>0, <1>1, <1>2, <1>3, <1>4, QuietInv
<1>6. Drops' /\ (~raced' => Announced' /\ Removals')
  BY <1>0, <1>1, <1>4, QuietTasks
<1> QED
  BY <1>1, <1>5, <1>6 DEF Inv

\* The invariant is inductive.
LEMMA StepInv == Inv /\ [Next]_vars => Inv'
<1> SUFFICES ASSUME Inv, [Next]_vars PROVE Inv'
  OBVIOUS
<1>1. ASSUME NEW c \in Client, Connect(c) \/ SendPacket(c) \/ DropClient(c) \/ RemoveClient(c) PROVE Inv'
  BY <1>1, ConnectInv, SendPacketInv, DropClientInv, RemoveClientInv
<1>2. ASSUME NEW i \in Id, DeleteEntity(i) PROVE Inv'
  BY <1>2, DeleteEntityInv
<1>3. CASE GrantFirstIds
  BY <1>3, GrantFirstIdsInv
<1>4. CASE HandlePacket
  BY <1>4, HandlePacketInv
<1>5. CASE MarkUsed
  BY <1>5, MarkUsedInv
<1>6. CASE RunPosted
  BY <1>6, RunPostedInv
<1>7. CASE Tick
  BY <1>7, TickInv
<1>8. CASE RunMain
  BY <1>8, RunMainInv
<1>9. CASE CreateEntityFromTree
  BY <1>9, CreateInv
<1>10. CASE InsertEntity
  BY <1>10, InsertEntityInv
<1>11. CASE FreeObjectId
  BY <1>11, FreeObjectIdInv
<1>12. CASE EraseHolder
  BY <1>12, EraseHolderInv
<1>13. CASE UNCHANGED vars
  BY <1>13, StutterInv
<1> QED
  BY <1>1, <1>2, <1>3, <1>4, <1>5, <1>6, <1>7, <1>8, <1>9, <1>10, <1>11, <1>12, <1>13 DEF Next

\* The inductive invariant of the object ids, for every number of clients, ids and entities.
THEOREM Invariant == Spec => []Inv
  BY InitInv, StepInv, PTL DEF Spec

\* Every variable keeps its type, and only an entity that is being deleted has
\* clients that were told of its deletion.
THEOREM TypeCorrect == Spec => []TypeOK
<1>1. Inv => TypeOK
  BY DEF Inv
<1> QED
  BY <1>1, Invariant, PTL

\* GetFreeObjectIds and CreateEntityFromTree never give out an id that a client
\* holds or an entity carries, and no two clients hold the same id.
THEOREM IdsHeldOnce == Spec => []HeldOnce
<1>1. Inv => HeldOnce
  <2> SUFFICES ASSUME Inv, ~raced PROVE /\ \A c, d \in Client, i \in Id : Holds(c, i) /\ Holds(d, i) => c = d
                                        /\ \A c \in Client, i \in Id : Holds(c, i) => i \notin Free
                                        /\ \A i \in Id : Exists(i) => i \notin Free
    BY DEF HeldOnce
  <2>1. Ids
    BY DEF Inv
  <2>2. \A i \in Free : ~Exists(i) /\ \A c \in Client : ~Holds(c, i)
    BY <2>1, FreeFacts
  <2>3. ASSUME NEW c \in Client, NEW d \in Client, NEW i \in Id, Holds(c, i), Holds(d, i) PROVE c = d
    <3>1. CASE Exists(i)
      BY <2>1, <2>3, <3>1 DEF Ids, IdOK, Carried
    <3>2. CASE ~Exists(i) /\ ~InHand(i)
      BY <2>1, <2>3, <3>2 DEF Ids, IdOK, Idle
    <3>3. CASE ~Exists(i) /\ InHand(i)
      BY <2>1, <2>3, <3>3 DEF Ids, IdOK, Handed
    <3> QED
      BY <3>1, <3>2, <3>3
  <2> QED
    BY <2>2, <2>3
<1> QED
  BY <1>1, Invariant, PTL

\* No id leaks: one that is not free is held by a client, carried by an entity or
\* in the hands of a thread.  Excepted are an id that GetFreeObjectIds lends to a
\* client whose drop was handled, and what follows a race that the code loses.
THEOREM IdsNotLeaked == Spec => []NoIdLeak
<1>1. Inv => NoIdLeak
  <2> SUFFICES ASSUME Inv, ~raced, NEW i \in Id \ (Free \cup lost), ~Exists(i), ~InHand(i)
               PROVE  \E c \in Client : Holds(c, i)
    BY DEF NoIdLeak
  <2>1. Idle(i)
    BY DEF Inv, Ids, IdOK
  <2>2. i \in sent \/ i \in used
    BY DEF Free
  <2> QED
    BY <2>1, <2>2 DEF Idle
<1> QED
  BY <1>1, Invariant, PTL

\* A creation that a script cancels removes the entity it was about, although
\* RemoveClone goes by the id alone and runs two queues later.
THEOREM CancelMeetsItsEntity == Spec => []CancelsOwnCreation
<1>1. Inv => CancelsOwnCreation
  <2> SUFFICES ASSUME Inv, ~raced, fromMain # <<>>, Head(fromMain).op = "delete", Head(fromMain).by = "filter"
               PROVE  Meant(Head(fromMain))
    BY DEF CancelsOwnCreation
  <2>1. fromMain \in Seq(Posted)
    BY DEF Inv, TypeOK
  <2>2. Head(fromMain) = fromMain[1] /\ 1 \in DOMAIN fromMain
    BY <2>1, TailFacts
  <2>3. entity[fromMain[1].id].uniq = fromMain[1].uniq
    BY <2>2 DEF Inv, Announced, Filter
  <2> QED
    BY <2>2, <2>3 DEF Meant
<1> QED
  BY <1>1, Invariant, PTL

-----------------------------------------------------------------------------
(* Giving an entity up *)

\* A step does not remove the entity of an id, nor start to finalize it.
Stays(i) ==
  Exists(i) => entity'[i].uniq = entity[i].uniq /\ entity'[i].finalizing = entity[i].finalizing

\* Nothing that is done to a single entity gives one up.
LEMMA ReplaceStays ==
  ASSUME TypeOK, NEW i \in Id, NEW f, entity' = [entity EXCEPT ![i] = f], ~Exists(i)
  PROVE  \A j \in Id : Stays(j)
  BY DEF TypeOK, Stays

\* No packet gives an entity up.
LEMMA PacketStays == ASSUME Inv, HandlePacket PROVE \A i \in Id : Stays(i)
<1>0. TypeOK
  BY DEF Inv
<1>1. fromNet # <<>> /\ fromNet' = Tail(fromNet)
  BY DEF HandlePacket
<1>2. PICK m \in Packets : m = Head(fromNet)
  BY <1>1, PacketFacts
<1>3. m.from \in Client /\ (m.op # "requestIds" => m.id \in Id /\ m.uniq \in Uniqifier)
  BY MessageFacts
<1>4. CASE entity' = entity
  BY <1>4 DEF Stays
<1>5. CASE entity' # entity
  <2>1. /\ m.op # "requestIds"
        /\ \/ CloneCreate(m)
           \/ CloneSync(m)
           \/ CloneTakeover(m)
           \/ CloneRemove(m)
    BY <1>2, <1>5 DEF HandlePacket
  <2>2. PICK i \in Id, s \in Client : i = m.id /\ s = m.from
    BY <1>3, <2>1
  <2>3. CASE CloneCreate(m)
    <3>1. PICK f : ~Exists(i) /\ entity' = [entity EXCEPT ![i] = f]
      BY <1>5, <2>2, <2>3 DEF CloneCreate
    <3> QED
      BY <1>0, <3>1, ReplaceStays
  <2>4. CASE CloneSync(m) \/ CloneRemove(m)
    <3>1. Exists(i)
      <4>1. CloneSync(m) => entity[i].uniq = m.uniq
        BY <1>5, <2>2 DEF CloneSync
      <4>2. CloneRemove(m) => Exists(i)
        BY <1>5, <2>2 DEF CloneRemove, RemoveClone
      <4> QED
        BY <1>3, <2>1, <2>4, <4>1, <4>2, MaxEntityAssumption DEF Exists, Uniqifier
    <3>2. \/ \E c \in Client : entity' = [entity EXCEPT ![i].relevantTo = @ \cup {c}]
          \/ entity' = [entity EXCEPT ![i].deleting = TRUE]
      <4>1. CloneSync(m) => entity' = [entity EXCEPT ![i].relevantTo = @ \cup {s}]
        BY <1>5, <2>2 DEF CloneSync
      <4>2. CloneRemove(m) => entity' = [entity EXCEPT ![i].deleting = TRUE]
        BY <1>5, <2>2 DEF CloneRemove, RemoveClone
      <4> QED
        BY <2>4, <4>1, <4>2
    <3>3. \A j \in Id : Untouched(j)
      BY <1>0, <3>1, <3>2, QuietUpdate
    <3> QED
      BY <3>3 DEF Untouched, Same, Stays
  <2>5. CASE CloneTakeover(m)
    <3>1. PICK c \in Registered \cup {s} : Exists(i) /\ entity' = [entity EXCEPT ![i].owner = c]
      BY <1>5, <2>2, <2>5 DEF CloneTakeover
    <3>2. c \in Client
      BY DEF Registered
    <3>3. \A j \in Id : entity'[j].uniq = entity[j].uniq /\ entity'[j].finalizing = entity[j].finalizing
      BY <1>0, <3>1, <3>2, OwnerUpdate
    <3> QED
      BY <3>3 DEF Stays
  <2> QED
    BY <2>1, <2>3, <2>4, <2>5
<1> QED
  BY <1>4, <1>5

\* What the main thread posted gives up only an entity that is being finalized.
LEMMA PostedStays ==
  ASSUME Inv, ~raced, RunPosted
  PROVE  \A i \in Id : Exists(i) /\ ~entity[i].finalizing => Stays(i)
<1>0. TypeOK
  BY DEF Inv
<1>1. fromMain # <<>> /\ fromMain \in Seq(Posted)
  BY <1>0 DEF RunPosted, TypeOK
<1>2. Head(fromMain) \in Posted /\ Head(fromMain) = fromMain[1] /\ 1 \in DOMAIN fromMain
  BY <1>1, TailFacts
<1>3. PICK m \in Posted : m = fromMain[1]
  BY <1>2
<1>4. (m.op = "drop" => m.from \in Client) /\ (m.op # "drop" => m.id \in Id)
  BY MessageFacts
<1>5. \/ m.op = "drop" /\ HandleClientDrop(m.from)
      \/ m.op = "doRemove" /\ DoRemove(m.id)
      \/ m.op = "delete" /\ RemoveClone(m.id)
  BY <1>2, <1>3 DEF RunPosted
<1>6. CASE m.op = "drop" /\ HandleClientDrop(m.from)
  <2>1. PICK c \in Client : c = m.from
    BY <1>4, <1>6
  <2>2. HandleClientDrop(c) /\ Present(c)
    BY <1>2, <1>3, <1>6, <2>1 DEF Inv, Drops, Present, Handled
  <2>3. \A i \in Id : Exists(i) => entity'[i].uniq = entity[i].uniq /\ entity'[i].finalizing = entity[i].finalizing
    BY <1>0, <2>2, DropFacts
  <2> QED
    BY <2>3 DEF Stays
<1>7. CASE m.op = "doRemove" /\ DoRemove(m.id)
  <2>1. PICK i \in Id : i = m.id
    BY <1>4, <1>7
  <2>2. entity[i].finalizing
    BY <1>2, <1>3, <1>7, <2>1 DEF Inv, Removals, Finalizing
  <2>3. entity' = [entity EXCEPT ![i] = NoEntity]
    BY <1>7, <2>1 DEF DoRemove
  <2>4. \A j \in Id : j # i => entity'[j] = entity[j]
    BY <1>0, <2>3 DEF TypeOK
  <2> QED
    BY <2>2, <2>4 DEF Stays
<1>8. CASE m.op = "delete" /\ RemoveClone(m.id)
  <2>1. PICK i \in Id : i = m.id
    BY <1>4, <1>8
  <2>2. entity' = entity \/ (Exists(i) /\ entity' = [entity EXCEPT ![i].deleting = TRUE])
    BY <1>8, <2>1 DEF RemoveClone
  <2>3. CASE entity' = entity
    BY <2>3 DEF Stays
  <2>4. CASE Exists(i) /\ entity' = [entity EXCEPT ![i].deleting = TRUE]
    <3>1. \A j \in Id : Untouched(j)
      BY <1>0, <2>4, QuietUpdate
    <3> QED
      BY <3>1 DEF Untouched, Same, Stays
  <2> QED
    BY <2>2, <2>3, <2>4
<1> QED
  BY <1>5, <1>6, <1>7, <1>8

\* The tick gives up only an entity that is relevant to nobody.
LEMMA TickGivesUp ==
  ASSUME Inv, Tick
  PROVE  \A i \in Id : Exists(i) => Stays(i) \/ \A c \in Registered : entity[i].uniq \notin synced[c]
<1>0. TypeOK /\ Relevant
  BY DEF Inv
<1>1. PICK collected \in SUBSET Id, ending \in SUBSET Id, others \in SUBSET Id :
        \E R \in [others -> SUBSET Registered], owner \in [others -> Client \cup {None}] :
          TickStep(collected, ending, others, R, owner)
  BY TickFacts
<1>2. PICK R \in [others -> SUBSET Registered], owner \in [others -> Client \cup {None}] :
          TickStep(collected, ending, others, R, owner)
  BY <1>1
<1> SUFFICES ASSUME NEW i \in Id, Exists(i)
             PROVE  Stays(i) \/ \A c \in Registered : entity[i].uniq \notin synced[c]
  OBVIOUS
<1>3. /\ entity'[i].uniq = entity[i].uniq
      /\ i \in collected \/ i \in ending \/ i \in others
      /\ TickOf(i, collected, ending, others, R, owner)
  BY <1>0, <1>2, TickEntities
<1>4. CASE i \in collected
  <2>1. entity[i].relevantTo = {}
    BY <1>3, <1>4 DEF TickOf
  <2> QED
    BY <1>0, <2>1 DEF Relevant, Registered
<1>5. CASE i \in ending \/ i \in others
  BY <1>3, <1>5 DEF TickOf, Stays
<1> QED
  BY <1>3, <1>4, <1>5

\* The tick gives an entity up only when no connected client still has it, and
\* nothing else does: no client keeps a ghost of it.
THEOREM NoGhostEntities == Spec => NoGhost
<1> DEFINE Given == ~raced' => \A i \in Id :
              Exists(i) /\ ~entity[i].finalizing /\ (entity'[i] = NoEntity \/ entity'[i].finalizing)
                => \A c \in Registered : entity[i].uniq \notin synced[c]
<1>1. ASSUME Inv, Next PROVE Given
  <2> SUFFICES ASSUME ~raced', NEW i \in Id, Exists(i), ~entity[i].finalizing,
                      entity'[i] = NoEntity \/ entity'[i].finalizing
               PROVE  \A c \in Registered : entity[i].uniq \notin synced[c]
    OBVIOUS
  <2> HIDE DEF Given
  <2>0. TypeOK
    BY <1>1 DEF Inv
  <2>1. ~Stays(i)
    <3>1. entity'[i] = NoEntity => entity'[i].uniq = 0
      BY DEF NoEntity
    <3> QED
      BY <3>1 DEF Stays, Exists
  <2>2. entity' # entity
    BY <2>1 DEF Stays
  <2>3. HandlePacket \/ RunPosted \/ Tick \/ InsertEntity
    BY <1>1, <2>2 DEF Next, Connect, SendPacket, DropClient, RemoveClient, GrantFirstIds, MarkUsed,
                      FreeObjectId, EraseHolder, RunMain, CreateEntityFromTree, DeleteEntity, entityVars
  <2>4. CASE HandlePacket
    BY <1>1, <2>1, <2>4, PacketStays
  <2>5. CASE RunPosted
    <3>1. ~raced
      BY <2>5 DEF RunPosted
    <3> QED
      BY <1>1, <2>1, <2>5, <3>1, PostedStays
  <2>6. CASE Tick
    BY <1>1, <2>1, <2>6, TickGivesUp
  <2>7. CASE InsertEntity
    <3>1. ~raced /\ creating # NoEntity
      BY <2>7 DEF InsertEntity
    <3>2. PICK j \in Id : j = creating.id
      BY <2>0, <3>1 DEF TypeOK
    <3>3. InHand(j) /\ ~Exists(j)
      BY <1>1, <3>1, <3>2 DEF Inv, Ids, IdOK, InHand
    <3>4. PICK f : entity' = [entity EXCEPT ![j] = f]
      BY <2>7, <3>2 DEF InsertEntity
    <3> QED
      BY <2>0, <2>1, <3>3, <3>4, ReplaceStays
  <2> QED
    BY <2>3, <2>4, <2>5, <2>6, <2>7
<1>2. Inv /\ [Next]_vars => [Given]_vars
  BY <1>1
<1> HIDE DEF Given
<1>3. Spec => [][Given]_vars
  BY <1>2, Invariant, PTL DEF Spec
<1> QED
  BY <1>3 DEF NoGhost, Given
=============================================================================
