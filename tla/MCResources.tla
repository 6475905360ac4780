---------------------------- MODULE MCResources ----------------------------
(* A resource that depends on two others, of which one depends on the other. *)
EXTENDS Resources

CONSTANTS app, lib, core

ThreeResources == {app, lib, core}

Layered == (app :> {lib, core}) @@ (lib :> {core}) @@ (core :> {})
=============================================================================
