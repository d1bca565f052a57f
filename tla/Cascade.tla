------------------------------ MODULE Cascade ------------------------------
(***************************************************************************)
(* What a forget does to the text derived from a source.  Tasks,           *)
(* decisions, commitments, reply drafts, inbox items and candidates name   *)
(* the sources they come from, in their events and as `links` rows; a      *)
(* human adds links of his own.  A forget discloses what is derived and,   *)
(* with `cascade`, redacts it in the log and in the rows, by two different *)
(* keys: the sources an event names, and the links a row has.              *)
(*                                                                         *)
(* The ids are derived from the content and its sources, so every event of *)
(* an entity names the same sources.  The MCP tool waits for the human's   *)
(* confirmation, and other calls go on meanwhile.                          *)
(***************************************************************************)
EXTENDS Naturals, Sequences

CONSTANTS
    Source,     \* the ingested sources
    Entity,     \* ids of entities; each also stands for the candidate proposing it
    KindOf,     \* "task" (a decision too), "commitment", "draft" or "inbox"
    SrcOf,      \* the sources each entity is derived from
    MaxLog,     \* bound: events
    MaxForget   \* bound: forgets asked for

\* What the constants are.
CascadeConstants ==
    /\ KindOf \in [Entity -> {"task", "commitment", "draft", "inbox"}]
    /\ SrcOf \in [Entity -> SUBSET Source]
    /\ MaxLog \in Nat /\ MaxForget \in Nat

VARIABLES
    log,        \* the events, oldest first
    db,         \* the projections
    asked,      \* the forgets that wait for their confirmation
    told,       \* what the last forget disclosed
    wiped,      \* the sources cascaded, and not written about since
    cascades,   \* the sources ever cascaded
    forgets     \* how much of MaxForget is used

vars == <<log, db, asked, told, wiped, cascades, forgets>>

\* The entities with a free-text column.
Row == {e \in Entity : KindOf[e] \in {"task", "commitment"}}

TextBearing == {"Made", "Drafted", "Generated"}

Event(type, e, srcs) ==
    [type |-> type, id |-> e, srcs |-> srcs, text |-> type \in TextBearing]

Link(e, s, manual) == [id |-> e, src |-> s, manual |-> manual]

NoView == [title   |-> [e \in Row |-> "none"],
           summary |-> [e \in Entity |-> "none"],
           links   |-> {}]

Written(v, f) == IF f.text THEN "held" ELSE "redacted"

\* upsertLink, for each source the event names.
upsertLink(v, f) == v.links \union {Link(f.id, s, FALSE) : s \in f.srcs}

\* TaskProposed, DecisionRecorded, CommitmentOpened write the title they carry.
FoldMade(v, f) ==
    [v EXCEPT !.title[f.id] = Written(v, f), !.links = upsertLink(v, f)]

FoldGenerated(v, f) == [v EXCEPT !.summary[f.id] = Written(v, f)]

FoldLink(v, f) ==
    LET rows == {Link(f.id, s, TRUE) : s \in f.srcs} IN
    [v EXCEPT !.links = IF f.type = "LinkAdded" THEN @ \union rows ELSE @ \ rows]

Fold(v, f) ==
    CASE f.type = "Made"                           -> FoldMade(v, f)
      [] f.type \in {"Drafted", "InboxTriaged"}    -> [v EXCEPT !.links = upsertLink(v, f)]
      [] f.type = "Generated"                      -> FoldGenerated(v, f)
      [] f.type \in {"LinkAdded", "LinkRemoved"}   -> FoldLink(v, f)

Replay(l) ==
    LET after[i \in 0 .. Len(l)] == IF i = 0 THEN NoView ELSE Fold(after[i - 1], l[i])
    IN  after[Len(l)]

Init ==
    /\ log = <<>> /\ db = NoView
    /\ asked = {} /\ told = {} /\ wiped = {} /\ cascades = {} /\ forgets = 0
-----------------------------------------------------------------------------
\* Store.record.  Text about a source ends its being wiped.
Record(f) ==
    /\ Len(log) < MaxLog
    /\ log' = Append(log, f)
    /\ db' = Fold(db, f)
    /\ wiped' = IF f.text THEN wiped \ f.srcs ELSE wiped
    /\ UNCHANGED <<asked, told, cascades, forgets>>

\* propose.generate: a candidate that has a row is not recorded again.
Generate(e) ==
    /\ db.summary[e] = "none"
    /\ Record(Event("Generated", e, SrcOf[e]))

Type(e) == CASE e \in Row -> "Made" [] KindOf[e] = "draft" -> "Drafted" [] OTHER -> "InboxTriaged"

Known(e) == \E n \in DOMAIN log : log[n].type = Type(e) /\ log[n].id = e

\* propose.apply and the direct writes, of an entity that is not there.
Write(e) ==
    /\ ~Known(e)
    /\ Record(Event(Type(e), e, SrcOf[e]))

\* inbox.triage proposes a live task, or a decision, of the item's source again.
inboxTriage(e) ==
    /\ KindOf[e] = "task" /\ Known(e)
    /\ \E s \in Source : SrcOf[e] = {s}
    /\ Record(Event("Made", e, SrcOf[e]))

linkAdd(e, s) ==
    /\ Link(e, s, TRUE) \notin db.links
    /\ Record(Event("LinkAdded", e, {s}))

linkRemove(e, s) ==
    /\ Link(e, s, TRUE) \in db.links
    /\ Record(Event("LinkRemoved", e, {s}))
-----------------------------------------------------------------------------
\* What is disclosed: by derived links, and by the log for the candidates.
enumerateDerived(s) ==
    {<<KindOf[l.id], l.id>> : l \in {k \in db.links : k.src = s /\ ~k.manual}}
    \union {<<"proposal", log[n].id>> : n \in {k \in DOMAIN log :
                 log[k].type = "Generated" /\ s \in log[k].srcs}}

\* Every text in the log of an event that names s.
RedactLog(s) ==
    [n \in DOMAIN log |-> IF log[n].type \in TextBearing /\ s \in log[n].srcs
                          THEN [log[n] EXCEPT !.text = FALSE] ELSE log[n]]

\* Mutant: commitments are forgotten by the projections' half.
RedactTitlesOfTasks(s) ==
    [e \in Row |-> IF KindOf[e] = "task" /\ db.title[e] # "none"
                      /\ \E l \in db.links : l.id = e /\ l.src = s
                   THEN "redacted" ELSE db.title[e]]

\* The title of every row linked to s, by whatever link.
RedactTitles(s) ==
    [e \in Row |-> IF db.title[e] # "none" /\ \E l \in db.links : l.id = e /\ l.src = s
                   THEN "redacted" ELSE db.title[e]]

RedactSummaries(s) ==
    [e \in Entity |-> IF \E n \in DOMAIN log : log[n].type = "Generated" /\ log[n].id = e
                                               /\ s \in log[n].srcs
                      THEN "redacted" ELSE db.summary[e]]

\* One transaction.
redactDerived(s) ==
    /\ log' = RedactLog(s)
    /\ db' = [db EXCEPT !.title = RedactTitles(s), !.summary = RedactSummaries(s)]
    /\ wiped' = wiped \union {s}
    /\ cascades' = cascades \union {s}

\* source.forget reaches confirmSensitiveAction and waits.
Ask(s, cascade) ==
    /\ forgets < MaxForget
    /\ forgets' = forgets + 1
    /\ <<s, cascade>> \notin asked
    /\ asked' = asked \union {<<s, cascade>>}
    /\ UNCHANGED <<log, db, told, wiped, cascades>>

\* The human agrees, or the client cannot ask him.
Forget(s, cascade) ==
    /\ <<s, cascade>> \in asked
    /\ asked' = asked \ {<<s, cascade>>}
    /\ told' = enumerateDerived(s)
    /\ \/ cascade /\ redactDerived(s)
       \/ ~cascade /\ UNCHANGED <<log, db, wiped, cascades>>
    /\ UNCHANGED forgets

Decline(s, cascade) ==
    /\ <<s, cascade>> \in asked
    /\ asked' = asked \ {<<s, cascade>>}
    /\ UNCHANGED <<log, db, told, wiped, cascades, forgets>>

\* Truncate and replay, in one transaction.
Rebuild ==
    /\ db' = Replay(log)
    /\ UNCHANGED <<log, asked, told, wiped, cascades, forgets>>

Next ==
    \/ \E e \in Entity : Generate(e) \/ Write(e) \/ inboxTriage(e)
    \/ \E e \in Entity, s \in Source : linkAdd(e, s) \/ linkRemove(e, s)
    \/ \E s \in Source, cascade \in BOOLEAN :
          Ask(s, cascade) \/ Forget(s, cascade) \/ Decline(s, cascade)
    \/ Rebuild

Spec == Init /\ [][Next]_vars
-----------------------------------------------------------------------------
(***************************************************************************)
(* Properties.                                                             *)
(***************************************************************************)

\* Once linked by hand to a cascaded source it is not derived from.
ByHand(e) ==
    \E s \in cascades \ SrcOf[e], n \in DOMAIN log :
        log[n].type = "LinkAdded" /\ log[n].id = e /\ s \in log[n].srcs

\* A rebuild reproduces the redacted rows (cascade.ts:217-219), links and candidates
\* included.  One exception, against that comment: a title redacted only because a
\* human had linked its entity to the source is still in the log and comes back.
CascadeReplays ==
    LET replayed == Replay(log) IN
    /\ db.links = replayed.links
    /\ db.summary = replayed.summary
    /\ \A e \in Row : \/ db.title[e] = replayed.title[e]
                      \/ /\ db.title[e] = "redacted" /\ replayed.title[e] = "held"
                         /\ ByHand(e)

\* After a cascade nothing derived from the source holds text, in a row, a candidate
\* or the log, whatever is applied about other sources, linked, unlinked, forgotten or
\* rebuilt, and whatever was written while the confirmation was pending; until
\* something new is written about the source (ADR-0026 R1-2).
WipedStaysWiped ==
    \A s \in wiped :
        /\ \A n \in DOMAIN log : s \in log[n].srcs => ~log[n].text
        /\ \A e \in Entity : s \in SrcOf[e] =>
              /\ db.summary[e] # "held"
              /\ e \in Row => db.title[e] # "held"

\* A cascade takes no text it does not disclose, except by a link drawn by hand.
DisclosedStep ==
    \A e \in Entity :
       /\ db.summary[e] = "held" /\ db'.summary[e] = "redacted" => <<"proposal", e>> \in told'
       /\ e \in Row /\ db.title[e] = "held" /\ db'.title[e] = "redacted" =>
             \/ <<KindOf[e], e>> \in told'
             \/ \E l \in db.links : l.id = e /\ l.manual

Disclosed == [][DisclosedStep]_vars
=============================================================================
