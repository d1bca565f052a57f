--------------------------- MODULE MCSourceStore ---------------------------
(* The source store on small instances: two document versions, of which one *)
(* is older than the retention cutoff.                                      *)
EXTENDS SourceStore

CONSTANTS s1, s2, old, new, p1, p2

=============================================================================
