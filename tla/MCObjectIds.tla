---------------------------- MODULE MCObjectIds ----------------------------
(* Instances of ObjectIds for TLC. *)
EXTENDS ObjectIds, TLC

CONSTANTS c1, c2

TwoClients == {c1, c2}

PlainKinds == {[script |-> s, keep |-> FALSE] : s \in {"none", "client"}}
KeptKinds == {[script |-> "none", keep |-> TRUE], [script |-> "client", keep |-> FALSE]}

Symmetry == Permutations(TwoClients)

\* Every property excuses the states after a race that the code loses.
NotRaced == ~raced
=============================================================================
