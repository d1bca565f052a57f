---------------------------- MODULE SourceEvents ----------------------------
(***************************************************************************)
(* The source-related domain events, the reducer that folds them into the  *)
(* projections, the replay behind `projections rebuild`, and the redaction *)
(* that forget and retention apply to the event log.                       *)
(*                                                                         *)
(* The reducer's source cases read and write only the rows of the event's  *)
(* own externalId, and every query of the log is by externalId, so the     *)
(* log is kept per source: a log here is the subsequence of the `events`   *)
(* table, in seq order, that carries one externalId.                       *)
(***************************************************************************)
EXTENDS Naturals, Sequences

CONSTANTS
    Content,    \* the versions an upstream document can be in
    Absent,     \* no row, no index entry, no recorded value
    Blank       \* the empty body that redaction leaves behind

(***************************************************************************)
(* A body is the text kept of one version: the connector's own (its name   *)
(* only, for an Office or PDF file) or the sidecar-extracted text.         *)
(***************************************************************************)
Text == [of : Content, form : {"name", "extracted"}]
Body == Text \union {Blank}

\* A row of `sources`: fingerprint, body, and whether body_dropped_at is set.
Row == [fp : Content, body : Body, dropped : BOOLEAN]

ASSUME SourceEventsAssumption ==
    /\ Absent \notin Row \union Body \union Content
    /\ Blank \notin Text

BodyTypes   == {"SourceObserved", "SourceBodyUpdated"}
MarkerTypes == {"SourceBodyDropped", "SourceForgotten", "SourceUnforgotten"}

BodyEvent == [type : BodyTypes, fp : Content, body : Body]
Marker    == [type : MarkerTypes]
Event     == BodyEvent \union Marker

Ingested(t, c, b) == [type |-> t, fp |-> c, body |-> b]
Mark(t)           == [type |-> t]
-----------------------------------------------------------------------------
(***************************************************************************)
(* What the projections hold about one source: its `sources` row and its   *)
(* `forgotten_sources` tombstone.                                          *)
(***************************************************************************)
View == [row : Row \union {Absent}, tomb : BOOLEAN]

NoView == [row |-> Absent, tomb |-> FALSE]

\* The upsert of SourceObserved and the UPDATE of SourceBodyUpdated name every
\* column but body_dropped_at, which keeps its value.
Store(v, e) ==
    [v EXCEPT !.row = [fp      |-> e.fp,
                       body    |-> e.body,
                       dropped |-> v.row # Absent /\ v.row.dropped]]

Drop(v) ==
    [v EXCEPT !.row = [fp |-> v.row.fp, body |-> Blank, dropped |-> TRUE]]

Fold(v, e) ==
    CASE e.type = "SourceObserved"      -> Store(v, e)
      [] e.type = "SourceBodyUpdated"   -> IF v.row = Absent THEN v ELSE Store(v, e)
      [] e.type = "SourceBodyDropped"   -> IF v.row = Absent THEN v ELSE Drop(v)
      [] e.type = "SourceForgotten"     -> [row |-> Absent, tomb |-> TRUE]
      [] e.type = "SourceUnforgotten"   -> [v EXCEPT !.tomb = FALSE]

\* Mutant: an update of a source with no row indexes its body all the same.
FoldIndexOrphan(f, v, e) ==
    CASE e.type \in BodyTypes                             -> e.body
      [] e.type \in {"SourceBodyDropped", "SourceForgotten"} -> Absent
      [] e.type = "SourceUnforgotten"                     -> f

\* The live maintenance of the source's `sources_fts` entry f by the same event;
\* a rebuild defers it and indexes the final rows instead.
FoldIndex(f, v, e) ==
    CASE e.type = "SourceObserved"      -> e.body
      [] e.type = "SourceBodyUpdated"   -> IF v.row = Absent THEN f ELSE e.body
      [] e.type = "SourceBodyDropped"   -> Absent
      [] e.type = "SourceForgotten"     -> Absent
      [] e.type = "SourceUnforgotten"   -> f

\* The views after 0, 1, .. Len(l) events, and the last of them.
Views(l) ==
    LET v[i \in 0 .. Len(l)] == IF i = 0 THEN NoView ELSE Fold(v[i - 1], l[i])
    IN  v

Replay(l) == Views(l)[Len(l)]
-----------------------------------------------------------------------------
\* Mutant: only the first observation is redacted, not its updates.
RedactObserved(e) == IF e.type = "SourceObserved" THEN [e EXCEPT !.body = Blank] ELSE e

\* json_set(payload, '$.body', '') over the source's body-carrying events.
RedactEvent(e) == IF e.type \in BodyTypes THEN [e EXCEPT !.body = Blank] ELSE e

Redact(l) == [i \in DOMAIN l |-> RedactEvent(l[i])]

CarriesBody(e) == e.type \in BodyTypes /\ e.body # Blank

HasBody(l) == \E i \in DOMAIN l : CarriesBody(l[i])

EverLogged(l, types) == \E i \in DOMAIN l : l[i].type \in types
=============================================================================
