---------------------------- MODULE MCStateBags ----------------------------
(* Instances of StateBags for TLC. *)
EXTENDS StateBags, TLC

CONSTANTS p1, p2, k1, v1, v2

TwoPeers == {p1, p2}
OneKey == {k1}
TwoVals == {v1, v2}

\* Peers and values are compared and never ordered.
Symmetry == Permutations(TwoPeers) \cup Permutations(TwoVals)
=============================================================================
