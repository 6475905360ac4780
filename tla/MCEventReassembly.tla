------------------------- MODULE MCEventReassembly -------------------------
(***************************************************************************)
(* Instances of EventReassembly for TLC: who sends which event, in how     *)
(* many fragments and with which protocol.                                 *)
(***************************************************************************)
EXTENDS EventReassembly, TLC

CONSTANTS
  c1, c2, \* the clients
  a, b     \* the events

\* Two events of client c1, of two fragments and of one, compete for a slot.
UpSender == [e \in {a, b} |-> c1]
UpDest == [e \in {a, b} |-> Server]
UpFrags == (a :> 2) @@ (b :> 1)
UpVersion == (a :> 1) @@ (b :> 2)

\* One event of c1, for the questions that need no second one.
OneSender == [e \in {a} |-> c1]
OneDest == [e \in {a} |-> Server]
OneFrags(n) == [e \in {a} |-> n]
OneOf1 == OneFrags(1)
OneOf3 == OneFrags(3)
OneV1 == [e \in {a} |-> 1]
OneV2 == [e \in {a} |-> 2]

\* One event of the server for all its clients.
CastSender == [e \in {a} |-> Server]
CastDest == [e \in {a} |-> Everyone]

\* The fields on the wire have 17 and 16 bits; here 2 bits, so that 4 fragments
\* are the largest count an accepted event can have.
Limits == [v \in {1, 2} |-> 4]
=============================================================================
