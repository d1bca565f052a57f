--------------------------- MODULE MCIssueCursors ---------------------------
(* A small instance of the issue trackers: two issues in one resource, one in the
   other, a comment on the first, two notification threads. *)
EXTENDS IssueCursors, TLC

CONSTANTS c1, p1, p2

MCResOf == [i \in Issue \union Thread |-> IF i \in {1, 2, 11} THEN 1 ELSE 2]
MCIssueOf == [c \in Comment |-> 1]
MCStart == [i \in Issue \union Comment \union Thread |->
              IF i \in {1, 11} THEN 1 ELSE IF i = c1 THEN 0 ELSE 2]
ProcessSymmetry == Permutations(Process)
=============================================================================
