-------------------------- MODULE MCClientLifecycle -------------------------
(* Small instances of ClientLifecycle. *)
EXTENDS ClientLifecycle, TLC

CONSTANTS a1, a2, b1, a, b

\* Two connections at a time: of one player who connects twice, or of two.
Conns == {a1, a2, b1}
Guids2 == {a, b}
Players == [c \in Conns |-> IF c = b1 THEN b ELSE a]

Symmetry == Permutations({a1, a2})
=============================================================================
