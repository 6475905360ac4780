-------------------------- MODULE MCClientDeferral --------------------------
(* Instances of ClientDeferral for TLC. *)
EXTENDS ClientDeferral

CONSTANTS r1, r2, r3

ThreeResources == {r1, r2, r3}
=============================================================================
