---------------------------- MODULE SourceMemory ----------------------------
(***************************************************************************)
(* What the store promises about each source, without logs, projections,   *)
(* indexes or passes: content is held or it is gone; where it is gone by   *)
(* the user's wish it comes back only after the user lifts that wish, and  *)
(* age takes the text of no recent source.                                 *)
(***************************************************************************)
CONSTANT Source

VARIABLES
    status,     \* what became of each source
    kept,       \* the sources whose text exists anywhere in the store
    recent      \* the sources last observed after retention's cutoff

vars == <<status, kept, recent>>

Status == {"unknown", "held", "blanked", "purged"}

Init ==
    /\ status = [s \in Source |-> "unknown"]
    /\ kept = {}
    /\ recent = {}

\* A sync stores a version of the source, over whatever it held of it.
Ingest(s) ==
    /\ status[s] # "purged"
    /\ status' = [status EXCEPT ![s] = "held"]
    /\ kept' = kept \union {s}
    /\ recent' \in {recent \union {s}, recent \ {s}}

\* Retention gives up the text of some held sources, none of them recent, and keeps
\* the rest of them.
Blanking(C) ==
    /\ C # {}
    /\ \A s \in C : status[s] = "held"
    /\ C \intersect recent = {}
    /\ status' = [s \in Source |-> IF s \in C THEN "blanked" ELSE status[s]]
    /\ kept' = kept \ C
    /\ UNCHANGED recent

\* The user forgets the source.
Purge(s) ==
    /\ status[s] \in {"held", "blanked"}
    /\ status' = [status EXCEPT ![s] = "purged"]
    /\ kept' = kept \ {s}
    /\ recent' = recent \ {s}

\* The user allows the source again; nothing of it is restored.
Lift(s) ==
    /\ status[s] = "purged"
    /\ status' = [status EXCEPT ![s] = "unknown"]
    /\ UNCHANGED <<kept, recent>>

Next ==
    \/ \E s \in Source : Ingest(s) \/ Purge(s) \/ Lift(s)
    \/ \E C \in SUBSET Source : Blanking(C)

Spec == Init /\ [][Next]_vars

\* The promise itself: text exists for exactly the sources that are held.
KeptIffHeld == kept = {s \in Source : status[s] = "held"}
=============================================================================
