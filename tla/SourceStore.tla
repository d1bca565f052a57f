---------------------------- MODULE SourceStore ----------------------------
(***************************************************************************)
(* The event-sourced store of ingested sources and everything that writes  *)
(* it: connector sync passes, source.forget and source.unforget, body      *)
(* retention, and the projection rebuild.                                  *)
(*                                                                         *)
(* One SQLite file is shared by several processes (a long-running MCP      *)
(* server, cron-started `suasor <connector> sync`, CLI commands) and a     *)
(* sync pass awaits between its reads and its writes, so the steps of a    *)
(* pass interleave with everything else.  A step here is one transaction,  *)
(* or one read together with the decision taken on it.                     *)
(***************************************************************************)
EXTENDS SourceEvents, FiniteSets

CONSTANTS
    Source,         \* externalIds
    Sync,           \* the sync passes that may be in flight at the same time
    Extractable,    \* the sources whose records carry an `extractable` handle
    Extractor,      \* the extractor versions a pass may be configured with
    NoExtractor,    \* a pass configured without one
    OldContent,     \* the versions observed before the retention cutoff
    OneWriter,      \* TRUE: nothing is started while something is in flight
    MaxEdits,       \* bound: upstream edits
    MaxOps          \* bound: forgets, unforgets, retention runs and crashes

ASSUME SourceStoreAssumption ==
    /\ Extractable \subseteq Source
    /\ NoExtractor \notin Extractor
    /\ OldContent \subseteq Content
    /\ OneWriter \in BOOLEAN
    /\ MaxEdits \in Nat
    /\ MaxOps \in Nat

VARIABLES
    upstream,   \* the version each document has at its service
    log,        \* the events of each source (see SourceEvents)
    sources,    \* projection: the row of each source, or Absent
    forgotten,  \* projection: forgotten_sources, the tombstones
    index,      \* projection: the sources_fts body of each source, or Absent
    xmeta,      \* extraction_meta: version and state of each source, or Absent
    run,        \* local state of each sync pass
    sweep,      \* the candidates a retention run has selected and not dropped yet
    edits, ops  \* how much of MaxEdits and MaxOps is used

vars == <<upstream, log, sources, forgotten, index, xmeta, run, sweep, edits, ops>>

store == <<log, sources, forgotten, index>>

XMeta == [version : Extractor, state : {"extracted", "unsupported"}]

\* The record a pass is working on: its source, the fingerprint it was delivered
\* with, the fingerprint read from `sources` before, and the body to store.
Record == [src : Source, fp : Content, prior : Content \union {Absent}, body : Body]

\* The local state of a pass: where it is, the tombstones it preloaded, what the
\* connector has still to deliver, its extractor and its current record.
Pass == [pc   : {"idle", "scan", "extract", "record"},
         skip : SUBSET Source,
         todo : SUBSET Source,
         ext  : Extractor \union {NoExtractor},
         rec  : Record \union {Absent}]

Idle == [pc |-> "idle", skip |-> {}, todo |-> {}, ext |-> NoExtractor,
         rec |-> Absent]

TypeOK ==
    /\ upstream \in [Source -> Content]
    /\ log \in [Source -> Seq(Event)]
    /\ sources \in [Source -> Row \union {Absent}]
    /\ forgotten \subseteq Source
    /\ index \in [Source -> Body \union {Absent}]
    /\ xmeta \in [Source -> XMeta \union {Absent}]
    /\ run \in [Sync -> Pass]
    /\ \A p \in Sync : run[p].pc \in {"extract", "record"} => run[p].rec \in Record
    /\ sweep \subseteq Source
    /\ edits \in 0 .. MaxEdits
    /\ ops \in 0 .. MaxOps

Init ==
    /\ upstream \in [Source -> Content]
    /\ log = [s \in Source |-> <<>>]
    /\ sources = [s \in Source |-> Absent]
    /\ forgotten = {}
    /\ index = [s \in Source |-> Absent]
    /\ xmeta = [s \in Source |-> Absent]
    /\ run = [p \in Sync |-> Idle]
    /\ sweep = {}
    /\ edits = 0
    /\ ops = 0
-----------------------------------------------------------------------------
Quiet == (\A p \in Sync : run[p] = Idle) /\ sweep = {}

\* What a deployment that never overlaps two of its commands guarantees.
MayStart == OneWriter => Quiet

Spend == ops < MaxOps /\ ops' = ops + 1

ViewOf(s) == [row |-> sources[s], tomb |-> s \in forgotten]

\* Mutant: the projections are folded and the event is not appended.
RecordOverUnlogged(l, s, e) ==
    LET v == Fold(ViewOf(s), e) IN
    /\ log' = [log EXCEPT ![s] = l]
    /\ sources' = [sources EXCEPT ![s] = v.row]
    /\ forgotten' = IF v.tomb THEN forgotten \union {s} ELSE forgotten \ {s}
    /\ index' = [index EXCEPT ![s] = FoldIndex(@, ViewOf(s), e)]

\* Store.record: append and fold in one transaction, here for one event of s
\* over a log that the same transaction may have redacted to l.
RecordOver(l, s, e) ==
    LET v == Fold(ViewOf(s), e) IN
    /\ log' = [log EXCEPT ![s] = Append(l, e)]
    /\ sources' = [sources EXCEPT ![s] = v.row]
    /\ forgotten' = IF v.tomb THEN forgotten \union {s} ELSE forgotten \ {s}
    /\ index' = [index EXCEPT ![s] = FoldIndex(@, ViewOf(s), e)]
-----------------------------------------------------------------------------
(***************************************************************************)
(* The sync pass.                                                          *)
(***************************************************************************)

\* The document changes at its service (outside the program).
Edit(s, c) ==
    /\ edits < MaxEdits
    /\ c # upstream[s]
    /\ upstream' = [upstream EXCEPT ![s] = c]
    /\ edits' = edits + 1
    /\ UNCHANGED <<store, xmeta, run, sweep, ops>>

\* The pass preloads the tombstones once, before the first record.
Begin(p, x) ==
    /\ run[p] = Idle
    /\ MayStart
    /\ run' = [run EXCEPT ![p] = [pc |-> "scan", skip |-> forgotten, todo |-> Source,
                                  ext |-> x, rec |-> Absent]]
    /\ UNCHANGED <<upstream, store, xmeta, sweep, edits, ops>>

Fingerprint(s) == IF sources[s] = Absent THEN Absent ELSE sources[s].fp

\* The recorded extractor version differs from the pass's (or none is recorded).
Drifted(p, s) ==
    /\ run[p].ext # NoExtractor
    /\ s \in Extractable
    /\ xmeta[s] = Absent \/ xmeta[s].version # run[p].ext

\* Mutant: the tombstones are not consulted.
SkipsUnchanged(p, s) == Fingerprint(s) = upstream[s] /\ ~Drifted(p, s)

\* Mutant: a source that is already stored is never looked at again.
SkipsKnown(p, s) == s \in run[p].skip \/ Fingerprint(s) # Absent

Skips(p, s) ==
    \/ s \in run[p].skip
    \/ Fingerprint(s) = upstream[s] /\ ~Drifted(p, s)

\* A record of a forgotten or unchanged source is delivered and skipped.
Skip(p, s) ==
    /\ run[p].pc = "scan"
    /\ s \in run[p].todo
    /\ Skips(p, s)
    /\ run' = [run EXCEPT ![p].todo = @ \ {s}]
    /\ UNCHANGED <<upstream, store, xmeta, sweep, edits, ops>>

\* A new, changed or drifted record is delivered; the prior fingerprint is read
\* here and used two awaits later.
Fetch(p, s) ==
    /\ run[p].pc = "scan"
    /\ s \in run[p].todo
    /\ ~Skips(p, s)
    /\ run' = [run EXCEPT ![p].pc = "extract",
                          ![p].todo = @ \ {s},
                          ![p].rec = [src |-> s, fp |-> upstream[s],
                                      prior |-> Fingerprint(s), body |-> Blank]]
    /\ UNCHANGED <<upstream, store, xmeta, sweep, edits, ops>>

Name(c)      == [of |-> c, form |-> "name"]
Extracted(c) == [of |-> c, form |-> "extracted"]

\* What extractBody can return: the sidecar's text (cut or whole), the name-only
\* body when the file is unsupported or too large, and the name-only body with no
\* state at all when the call failed or there was nothing to call.
Outcome(c, s, x) ==
    {[body |-> Name(c), state |-> Absent]} \union
    IF x # NoExtractor /\ s \in Extractable
    THEN {[body |-> Extracted(c), state |-> "extracted"],
          [body |-> Name(c), state |-> "unsupported"]}
    ELSE {}

\* The extraction returns; its provenance is upserted on its own, before the event.
Extract(p) ==
    /\ run[p].pc = "extract"
    /\ \E o \in Outcome(run[p].rec.fp, run[p].rec.src, run[p].ext) :
          /\ run' = [run EXCEPT ![p].pc = "record", ![p].rec.body = o.body]
          /\ xmeta' = IF o.state = Absent THEN xmeta
                      ELSE [xmeta EXCEPT ![run[p].rec.src] =
                              [version |-> run[p].ext, state |-> o.state]]
    /\ UNCHANGED <<upstream, store, sweep, edits, ops>>

ExistingBody(s) == IF sources[s] = Absent THEN Absent ELSE sources[s].body

\* The delta decision, on the fingerprint read at Fetch; only a drift-only record
\* looks at the stored row again.
RecordSource(p) ==
    LET r == run[p].rec IN
    /\ run[p].pc = "record"
    /\ \/ /\ r.prior = Absent
          /\ RecordOver(log[r.src], r.src, Ingested("SourceObserved", r.fp, r.body))
       \/ /\ r.prior # Absent
          /\ r.prior # r.fp \/ r.body # ExistingBody(r.src)
          /\ RecordOver(log[r.src], r.src, Ingested("SourceBodyUpdated", r.fp, r.body))
       \/ /\ r.prior = r.fp
          /\ r.body = ExistingBody(r.src)
          /\ UNCHANGED store
    /\ run' = [run EXCEPT ![p].pc = "scan", ![p].rec = Absent]
    /\ UNCHANGED <<upstream, xmeta, sweep, edits, ops>>

\* The connector has no more records.
Finish(p) ==
    /\ run[p].pc = "scan"
    /\ run[p].todo = {}
    /\ run' = [run EXCEPT ![p] = Idle]
    /\ UNCHANGED <<upstream, store, xmeta, sweep, edits, ops>>

\* The connector throws, or the process dies, wherever the pass is.
Die(p) ==
    /\ run[p] # Idle
    /\ Spend
    /\ run' = [run EXCEPT ![p] = Idle]
    /\ UNCHANGED <<upstream, store, xmeta, sweep, edits>>
-----------------------------------------------------------------------------
(***************************************************************************)
(* Forget, unforget, retention, rebuild.                                   *)
(***************************************************************************)

EverForgotten(s) == EverLogged(log[s], {"SourceForgotten"})

\* A forget of an ingested source: redaction, sidecar purge and the audit event in
\* one transaction.
Forget(s) ==
    /\ MayStart
    /\ Spend
    /\ EverLogged(log[s], BodyTypes)
    /\ ~EverForgotten(s) \/ sources[s] # Absent
    /\ RecordOver(Redact(log[s]), s, Mark("SourceForgotten"))
    /\ xmeta' = [xmeta EXCEPT ![s] = Absent]
    /\ UNCHANGED <<upstream, run, sweep, edits>>

\* A forget of a source with a SourceForgotten in its log and no row: answered
\* `already_forgotten`, `tombstoned: true`, and nothing is written.
ForgetAgain(s) ==
    /\ MayStart
    /\ Spend
    /\ EverForgotten(s)
    /\ sources[s] = Absent
    /\ UNCHANGED <<upstream, store, xmeta, run, sweep, edits>>

Unforget(s) ==
    /\ MayStart
    /\ Spend
    /\ s \in forgotten
    /\ RecordOver(log[s], s, Mark("SourceUnforgotten"))
    /\ UNCHANGED <<upstream, xmeta, run, sweep, edits>>

\* Mutant: the cutoff is not applied.
ExpiredAnyAge ==
    {s \in Source : sources[s] # Absent /\ sources[s].body # Blank /\ ~sources[s].dropped}

\* Old enough, still carrying a body, never dropped.
Expired ==
    {s \in Source : /\ sources[s] # Absent
                    /\ sources[s].fp \in OldContent
                    /\ sources[s].body # Blank
                    /\ ~sources[s].dropped}

\* The candidates are selected first, outside the transaction that drops them.
RetainSelect ==
    /\ MayStart
    /\ Spend
    /\ sweep = {}
    /\ Expired # {}
    /\ sweep' = Expired
    /\ UNCHANGED <<upstream, store, xmeta, run, edits>>

RetainDrop ==
    LET e == Mark("SourceBodyDropped") IN
    /\ sweep # {}
    /\ log' = [s \in Source |-> IF s \in sweep THEN Append(Redact(log[s]), e) ELSE log[s]]
    /\ sources' = [s \in Source |-> IF s \in sweep THEN Fold(ViewOf(s), e).row ELSE sources[s]]
    /\ index' = [s \in Source |-> IF s \in sweep
                                  THEN FoldIndex(index[s], ViewOf(s), e) ELSE index[s]]
    /\ sweep' = {}
    /\ UNCHANGED <<upstream, forgotten, xmeta, run, edits, ops>>

\* rebuildSourcesFts: one index entry for every row.
IndexOf(v) == IF v.row = Absent THEN Absent ELSE v.row.body

\* Truncate and replay in one transaction; extraction_meta is not a projection.
Rebuild ==
    /\ MayStart
    /\ sources' = [s \in Source |-> Replay(log[s]).row]
    /\ forgotten' = {s \in Source : Replay(log[s]).tomb}
    /\ index' = [s \in Source |-> IndexOf(Replay(log[s]))]
    /\ UNCHANGED <<upstream, log, xmeta, run, sweep, edits, ops>>
-----------------------------------------------------------------------------
SyncStep(p) ==
    \/ \E s \in Source : Skip(p, s) \/ Fetch(p, s)
    \/ Extract(p)
    \/ RecordSource(p)
    \/ Finish(p)

Next ==
    \/ \E s \in Source, c \in Content : Edit(s, c)
    \/ \E p \in Sync, x \in Extractor \union {NoExtractor} : Begin(p, x)
    \/ \E p \in Sync : SyncStep(p) \/ Die(p)
    \/ \E s \in Source : Forget(s) \/ ForgetAgain(s) \/ Unforget(s)
    \/ RetainSelect
    \/ RetainDrop
    \/ Rebuild

Spec == Init /\ [][Next]_vars
-----------------------------------------------------------------------------
(***************************************************************************)
(* Properties.                                                             *)
(***************************************************************************)

\* What of a source's text the store holds, in a row, the index or the log.
HoldsText(s) ==
    \/ sources[s] # Absent /\ sources[s].body # Blank
    \/ index[s] \notin {Absent, Blank}
    \/ HasBody(log[s])

StatusOf(s) ==
    IF s \in forgotten THEN "purged"
    ELSE IF sources[s] = Absent THEN "unknown"
    ELSE IF sources[s].body = Blank THEN "blanked" ELSE "held"

Memory == INSTANCE SourceMemory
            WITH status <- [s \in Source |-> StatusOf(s)],
                 kept   <- {s \in Source : HoldsText(s)},
                 recent <- {s \in Source : sources[s] # Absent
                                           /\ sources[s].fp \notin OldContent}

\* Where commands never overlap, the whole store behaves as SourceMemory: text
\* exists for exactly the held sources, a purged source stays purged until an
\* unforget (ADR-0026 R1-1, ADR-0047 decision 2), and retention takes the text of
\* none observed since its cutoff (retention.ts:26,35).
ImplementsMemory == Memory!Spec

\* FR-MNT-1, rebuild idempotence (rebuild.ts:6-8): replaying the log, redacted or
\* not, yields exactly the rows and tombstones that live folding left.
ReplayMatches == \A s \in Source : ViewOf(s) = Replay(log[s])

\* The full-text index never answers with text the row no longer has, and never
\* misses text the row has, whatever interleaves with syncSourceFts.
IndexMatches ==
    \A s \in Source :
        /\ index[s] # Absent => sources[s] # Absent /\ index[s] = sources[s].body
        /\ sources[s] # Absent => sources[s].body \in {Blank, index[s]}

\* A row whose body reads as empty has no copy of that body left in the log: what
\* retention dropped can not come back through a rebuild (retention.ts:97-99).
BlankMeansErased ==
    \A s \in Source :
        sources[s] # Absent /\ sources[s].body = Blank => ~HasBody(log[s])

\* A tombstoned source has no row, no index entry, no extraction provenance and no
\* body anywhere in the log (source-forget.ts:5-18): forget purged all of it, and
\* no sync brought any of it back.
ForgottenStaysAbsent ==
    \A s \in forgotten :
        /\ sources[s] = Absent
        /\ index[s] = Absent
        /\ xmeta[s] = Absent
        /\ ~HasBody(log[s])

\* Every source that is not tombstoned ends up at its upstream version, however
\* passes overlap, die, or race a forget (FR-ING-3).
EventuallyCurrent ==
    \A s \in Source : <>[](s \in forgotten \/ Fingerprint(s) = upstream[s])

\* Passes that are started keep being scheduled, and cron keeps starting them; a
\* retention run goes through with its transaction.
Fairness ==
    /\ \A p \in Sync : /\ WF_vars(\E x \in Extractor \union {NoExtractor} : Begin(p, x))
                       /\ WF_vars(SyncStep(p))
    /\ WF_vars(RetainDrop)

FairSpec == Spec /\ Fairness
=============================================================================
