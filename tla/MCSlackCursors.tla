--------------------------- MODULE MCSlackCursors ---------------------------
(* c1 has a cold-start floor and c2 has none; SlackCursors.cfg takes c2 alone. *)
EXTENDS SlackCursors, TLC

CONSTANTS c1, c2, p1, p2

MCSince == [c \in Channel |-> IF c = c1 THEN 1 ELSE 0]
Symmetry == Permutations(Pass)
=============================================================================
