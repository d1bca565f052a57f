---------------------------- MODULE LedgerEvents ----------------------------
(***************************************************************************)
(* The events of the propose ledger and of the entities candidates become, *)
(* what the reducer makes of them, and the redaction of a rejected         *)
(* candidate's summary in the log.                                         *)
(*                                                                         *)
(* Tasks, decisions, inbox items, reply drafts and commitments are kept in *)
(* one map from ids to entities; the base of an id tells them apart.       *)
(***************************************************************************)
EXTENDS Integers, Sequences, FiniteSets

CONSTANTS
    Minted,     \* candidates of kind task and decision, whose id is minted on apply
    Triage,     \* candidates of kind triage, which set the state of an inbox item
    Drafted,    \* candidates of kind reply_draft and commitment
    Base,       \* content-derived base ids
    BaseOf,     \* the base id of each candidate
    Target,     \* the inbox state each triage candidate asks for
    None        \* no candidate, and no row of `proposals`

Candidate == Minted \union Triage \union Drafted

ItemState == {"open", "snoozed", "done", "dismissed"}
TaskState == {"proposed", "open", "completed"}

\* base, base-2, base-3, ...
Id == Base \X (Nat \ {0})
nthId(b, n) == <<b, n>>

\* Tasks and drafts have a due date or not; an item or a decision never has.
Entity == [state : TaskState \union ItemState, due : BOOLEAN]

Row == [state   : {"pending", "applied", "rejected"},
        entity  : Id,
        summary : {"text", "redacted"},
        reason  : {"none", "feedback", "rejection"}]

ASSUME LedgerAssumption ==
    /\ Minted \intersect Triage = {}
    /\ Drafted \intersect (Minted \union Triage) = {}
    /\ BaseOf \in [Candidate -> Base]
    /\ Target \in [Triage -> ItemState]
    /\ None \notin Candidate \union Row

\* The id a candidate is generated with: entityId(candidate).
Planned(c) == nthId(BaseOf[c], 1)

Generated(c)     == [type |-> "ProposalGenerated", cand |-> c, summary |-> "text"]
Rejected(c)      == [type |-> "ProposalRejected", cand |-> c]
Feedback(c)      == [type |-> "ProposalFeedback", cand |-> c]
Proposed(i, c, d) == [type |-> "TaskProposed", id |-> i, cand |-> c, due |-> d]
Applied(i, s, d) == [type |-> "TaskApplied", id |-> i, to |-> s, due |-> d]
Triaged(i, c, s) == [type |-> "InboxItemTriaged", id |-> i, cand |-> c, to |-> s]
Draft(i, c)      == [type |-> "ReplyDraftProposed", id |-> i, cand |-> c]

\* `cand` of the last two is who wrote the event; the code does not store it.
Event ==
    [type : {"ProposalGenerated"}, cand : Candidate, summary : {"text", "redacted"}]
    \union [type : {"ProposalRejected", "ProposalFeedback"}, cand : Candidate]
    \union [type : {"TaskProposed"}, id : Id, cand : Candidate \union {None}, due : BOOLEAN]
    \union [type : {"TaskApplied"}, id : Id, to : TaskState, due : BOOLEAN]
    \union [type : {"InboxItemTriaged"}, id : Id, cand : Candidate \union {None}, to : ItemState]
    \union [type : {"ReplyDraftProposed"}, id : Id, cand : Candidate]

\* The projections: `proposals`, and the tables of the entities.
NoView == [proposals |-> [c \in Candidate |-> None], entities |-> [i \in {} |-> None]]

Put(f, k, x) == [j \in DOMAIN f \union {k} |-> IF j = k THEN x ELSE f[j]]
-----------------------------------------------------------------------------
IsPending(v, c) == v.proposals[c] # None /\ v.proposals[c].state = "pending"

\* Every pending row with this entity id is flipped.
markProposalApplied(v, i) ==
    [c \in Candidate |-> IF IsPending(v, c) /\ v.proposals[c].entity = i
                         THEN [v.proposals[c] EXCEPT !.state = "applied"]
                         ELSE v.proposals[c]]

\* The row of this candidate is flipped and told the minted id; without a candidate
\* (direct writes) the entity id decides.
markProposalAppliedFor(v, c, i) ==
    IF c = None THEN markProposalApplied(v, i)
    ELSE [v.proposals EXCEPT ![c] = IF IsPending(v, c)
                                    THEN [@ EXCEPT !.state = "applied", !.entity = i]
                                    ELSE @]

\* Mutant: a regenerated candidate is pending again.
GenerateReopens(v, e) ==
    [v.proposals EXCEPT ![e.cand] =
        [state |-> "pending", entity |-> Planned(e.cand), summary |-> e.summary,
         reason |-> "none"]]

\* The upsert of a generated candidate keeps the state and reason of an existing row.
GenerateRow(v, e) ==
    [v.proposals EXCEPT ![e.cand] =
        [state   |-> IF @ = None THEN "pending" ELSE @.state,
         entity  |-> Planned(e.cand),
         summary |-> e.summary,
         reason  |-> IF @ = None THEN "none" ELSE @.reason]]

RejectRow(v, e) ==
    [v.proposals EXCEPT ![e.cand] =
        IF IsPending(v, e.cand)
        THEN [@ EXCEPT !.state = "rejected", !.reason = "rejection"] ELSE @]

FeedbackRow(v, e) ==
    [v.proposals EXCEPT ![e.cand] =
        IF IsPending(v, e.cand) THEN [@ EXCEPT !.reason = "feedback"] ELSE @]

\* A task that exists keeps its state and takes the event's due date, none included.
ProposeTask(v, e) ==
    Put(v.entities, e.id,
        [state |-> IF e.id \in DOMAIN v.entities THEN v.entities[e.id].state ELSE "proposed",
         due   |-> e.due])

\* No row is made up for an unknown task; a null due date leaves the stored one.
ApplyTask(v, e) ==
    IF e.id \notin DOMAIN v.entities THEN v.entities
    ELSE [v.entities EXCEPT ![e.id] = [state |-> e.to, due |-> @.due \/ e.due]]

Fold(v, e) ==
    CASE e.type = "ProposalGenerated"  -> [v EXCEPT !.proposals = GenerateRow(v, e)]
      [] e.type = "ProposalRejected"   -> [v EXCEPT !.proposals = RejectRow(v, e)]
      [] e.type = "ProposalFeedback"   -> [v EXCEPT !.proposals = FeedbackRow(v, e)]
      [] e.type = "TaskProposed"       ->
            [proposals |-> markProposalAppliedFor(v, e.cand, e.id),
             entities  |-> ProposeTask(v, e)]
      [] e.type = "TaskApplied"        -> [v EXCEPT !.entities = ApplyTask(v, e)]
      [] e.type = "InboxItemTriaged"   ->
            [proposals |-> markProposalApplied(v, e.id),
             entities  |-> Put(v.entities, e.id, [state |-> e.to, due |-> FALSE])]
      [] e.type = "ReplyDraftProposed" ->
            [proposals |-> markProposalApplied(v, e.id),
             entities  |-> Put(v.entities, e.id, [state |-> "open", due |-> FALSE])]

\* The views after 0, 1, .. Len(l) events, and the last of them.
Views(l) ==
    LET v[n \in 0 .. Len(l)] == IF n = 0 THEN NoView ELSE Fold(v[n - 1], l[n])
    IN  v

Replay(l) == Views(l)[Len(l)]
-----------------------------------------------------------------------------
\* redactProposalSummary: the payloads of the candidate's ProposalGenerated events ...
RedactLog(l, c) ==
    [n \in DOMAIN l |-> IF l[n].type = "ProposalGenerated" /\ l[n].cand = c
                        THEN [l[n] EXCEPT !.summary = "redacted"] ELSE l[n]]

\* ... and the summary column of its row.
RedactRow(v, c) ==
    [v EXCEPT !.proposals[c] = IF @ = None THEN @ ELSE [@ EXCEPT !.summary = "redacted"]]
=============================================================================
