----------------------------- MODULE MCTaskHome -----------------------------
(* One server makes two calls, the other one.                              *)
EXTENDS TaskHome

CONSTANTS w1, w2

MCMaxOps == [p \in Server |-> IF p = w1 THEN 2 ELSE 1]
=============================================================================
