--------------------------- MODULE LatentDelivery ---------------------------
(***************************************************************************)
(* What the latent-event channel promises, without fragments, lists, ticks *)
(* or acknowledgements.  An event is offered once, to a set of nodes.  A   *)
(* node may receive it only while it is a candidate; one that was given up *)
(* is never a candidate again; and the sender considers a node served only *)
(* after that node has received the event.                                 *)
(***************************************************************************)
CONSTANTS Event, Node

VARIABLES
  offered,     \* events that were triggered
  candidates,  \* candidates[e]: nodes that may still receive e
  received,    \* <<t, e>>: t has received e
  served       \* served[e]: nodes the sender of e is done with

vars == <<offered, candidates, received, served>>

Init ==
  /\ offered = {}
  /\ candidates = [e \in Event |-> {}]
  /\ received = {}
  /\ served = [e \in Event |-> {}]

Offer(e) ==
  /\ e \notin offered
  /\ offered' = offered \cup {e}
  /\ \E T \in SUBSET Node : candidates' = [candidates EXCEPT ![e] = T]
  /\ UNCHANGED <<received, served>>

Deliver(t, e) ==
  /\ t \in candidates[e]
  /\ candidates' = [candidates EXCEPT ![e] = @ \ {t}]
  /\ received' = received \cup {<<t, e>>}
  /\ UNCHANGED <<offered, served>>

Serve(t, e) ==
  /\ <<t, e>> \in received
  /\ served' = [served EXCEPT ![e] = @ \cup {t}]
  /\ UNCHANGED <<offered, candidates, received>>

\* Nodes are unregistered, or the last copies on their way to them are lost.
GiveUp ==
  /\ \A e \in Event : candidates'[e] \subseteq candidates[e]
  /\ UNCHANGED <<offered, received, served>>

Next ==
  \/ \E e \in Event : Offer(e)
  \/ \E t \in Node, e \in Event : Deliver(t, e) \/ Serve(t, e)
  \/ GiveUp

Spec == Init /\ [][Next]_vars
=============================================================================
