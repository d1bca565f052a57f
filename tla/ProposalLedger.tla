--------------------------- MODULE ProposalLedger ---------------------------
(***************************************************************************)
(* The propose ledger: candidates are generated by an agent, then applied, *)
(* rejected or sent back with feedback by a human, one by one or in a      *)
(* batch; the direct write tools create the same entities without one.     *)
(*                                                                         *)
(* Every agent host starts its own MCP server over the one store.  A       *)
(* server runs a tool call without awaiting, so calls interleave only      *)
(* between servers: a step is one transaction, or the reads a call makes   *)
(* before its next write.                                                  *)
(***************************************************************************)
EXTENDS LedgerEvents

CONSTANTS
    Client,     \* the MCP servers
    Decision,   \* the bases that are decisions; they have no life cycle
    Item,       \* the bases that are inbox items
    TaskOf,     \* the base a task or decision made from each inbox item has
    MaxList,    \* bound: how many candidates one apply or batch names (one where calls
                \* overlap)
    MaxOps      \* bound: calls and crashes

ASSUME ProposalLedgerAssumption ==
    /\ Decision \subseteq Base
    /\ Item \subseteq Base
    /\ TaskOf \in [Item -> Base]
    /\ MaxList \in Nat
    /\ MaxOps \in Nat

VARIABLES
    alone,  \* TRUE: a call starts only when no other is under way
    log,    \* the events, oldest first
    db,     \* the projections
    run,    \* local state of the call each server is executing
    ops     \* how much of MaxOps is used

vars == <<alone, log, db, run, ops>>

\* A call has candidates left to apply, those it applied (`seen`), and the events
\* it has decided to record and not recorded yet.
Call == [todo : Seq(Candidate), seen : SUBSET Candidate, out : Seq(Event)]

Idle == [todo |-> <<>>, seen |-> {}, out |-> <<>>]

TypeOK ==
    /\ alone \in BOOLEAN
    /\ log \in Seq(Event)
    /\ db.proposals \in [Candidate -> Row \union {None}]
    /\ DOMAIN db.entities \subseteq Id
    /\ \A i \in DOMAIN db.entities : db.entities[i] \in Entity
    /\ run \in [Client -> Call]
    /\ ops \in 0 .. MaxOps

Init ==
    /\ alone \in BOOLEAN
    /\ log = <<>>
    /\ db = NoView
    /\ run = [p \in Client |-> Idle]
    /\ ops = 0
-----------------------------------------------------------------------------
MayStart == alone => \A p \in Client : run[p] = Idle

Starts == MayStart /\ ops < MaxOps /\ ops' = ops + 1

\* Store.record
Record(e) ==
    /\ log' = Append(log, e)
    /\ db' = Fold(db, e)

Settled(r) == IF r.todo = <<>> /\ r.out = <<>> THEN Idle ELSE r

\* A call that has done its reads and is about to record these events in turn.
Enqueue(p, events) ==
    /\ run[p] = Idle
    /\ Starts
    /\ run' = [run EXCEPT ![p].out = events]
    /\ UNCHANGED <<alone, log, db>>

\* One Store.record of a call.
Write(p) ==
    /\ run[p].out # <<>>
    /\ Record(Head(run[p].out))
    /\ run' = [run EXCEPT ![p] = Settled([run[p] EXCEPT !.out = Tail(@)])]
    /\ UNCHANGED <<alone, ops>>

\* The server is killed in the middle of a call.
Die(p) ==
    /\ run[p] # Idle
    /\ ops < MaxOps
    /\ ops' = ops + 1
    /\ run' = [run EXCEPT ![p] = Idle]
    /\ UNCHANGED <<alone, log, db>>
-----------------------------------------------------------------------------
(***************************************************************************)
(* propose.generate, propose.apply, propose.batch, propose.reject,         *)
(* proposal.feedback                                                       *)
(***************************************************************************)

StateOf(v, c) == IF v.proposals[c] = None THEN "unknown" ELSE v.proposals[c].state

\* persistProposals, for one candidate: only one without a row is recorded.
Generate(p, c) ==
    /\ StateOf(db, c) = "unknown"
    /\ Enqueue(p, <<Generated(c)>>)

\* The first id of the base's minting sequence that has no row.
mintEntityId(v, b) ==
    nthId(b, CHOOSE n \in 1 .. Cardinality(DOMAIN v.entities) + 1 :
                /\ nthId(b, n) \notin DOMAIN v.entities
                /\ \A m \in 1 .. n - 1 : nthId(b, m) \in DOMAIN v.entities)

\* For the kinds that are not minted: the entity is there, for triage in that state.
entityExists(v, c) ==
    /\ Planned(c) \in DOMAIN v.entities
    /\ c \in Triage => v.entities[Planned(c)].state = Target[c]

\* resolveCandidateTarget answers `skipped`.
Skipped(v, c, seen) ==
    \/ c \in seen
    \/ StateOf(v, c) = "applied"
    \/ c \notin Minted /\ entityExists(v, c)

candidateToEvent(v, c) ==
    CASE c \in Minted  -> Proposed(mintEntityId(v, BaseOf[c]), c, FALSE)
      [] c \in Triage  -> Triaged(Planned(c), c, Target[c])
      [] c \in Drafted -> Draft(Planned(c), c)

Lists(S) == UNION {[1 .. n -> S] : n \in 1 .. IF alone THEN MaxList ELSE 1}

\* Mutant: the preflight is gone.
ApplyUnchecked(p, cs) ==
    /\ run[p] = Idle
    /\ Starts
    /\ run' = [run EXCEPT ![p].todo = cs]
    /\ UNCHANGED <<alone, log, db>>

\* proposeApply checks the whole list for rejected candidates, then takes them one
\* by one, each with a resolve and a record of its own.
Apply(p, cs) ==
    /\ run[p] = Idle
    /\ Starts
    /\ \A n \in DOMAIN cs : StateOf(db, cs[n]) # "rejected"
    /\ run' = [run EXCEPT ![p].todo = cs]
    /\ UNCHANGED <<alone, log, db>>

Resolve(p) ==
    LET c == Head(run[p].todo) IN
    /\ run[p].out = <<>>
    /\ run[p].todo # <<>>
    /\ \/ /\ Skipped(db, c, run[p].seen)
          /\ run' = [run EXCEPT ![p] = Settled([run[p] EXCEPT !.todo = Tail(@)])]
       \/ /\ ~Skipped(db, c, run[p].seen)
          /\ run' = [run EXCEPT ![p].todo = Tail(@),
                                ![p].seen = @ \union {c},
                                ![p].out  = <<candidateToEvent(db, c)>>]
    /\ UNCHANGED <<alone, log, db, ops>>

\* The steps of a batch share one transaction; `ok` is FALSE once one has thrown.
Batch0 == [log |-> log, db |-> db, seen |-> {}, ok |-> TRUE]

\* applyCandidateStep
applyCandidateStep(s, c) ==
    IF StateOf(s.db, c) = "rejected" THEN [s EXCEPT !.ok = FALSE]
    ELSE IF Skipped(s.db, c, s.seen) THEN s
    ELSE LET e == candidateToEvent(s.db, c) IN
         [s EXCEPT !.log = Append(@, e), !.db = Fold(@, e), !.seen = @ \union {c}]

\* Mutant: the row's summary is redacted, the log's is not.
RejectKeepsLog(s, c) ==
    IF ~IsPending(s.db, c) THEN s
    ELSE [s EXCEPT !.log = Append(@, Rejected(c)),
                   !.db  = RedactRow(Fold(@, Rejected(c)), c)]

\* rejectCandidateStep: a pending row is rejected and its summary redacted.
rejectCandidateStep(s, c) ==
    IF ~IsPending(s.db, c) THEN s
    ELSE [s EXCEPT !.log = RedactLog(Append(@, Rejected(c)), c),
                   !.db  = RedactRow(Fold(@, Rejected(c)), c)]

Op == [action : {"apply", "reject"}, cand : Candidate]

BatchStep(s, o) ==
    IF o.action = "apply" THEN applyCandidateStep(s, o.cand)
    ELSE rejectCandidateStep(s, o.cand)

\* The state after each operation of a batch.
BatchRun(operations) ==
    LET s[n \in 0 .. Len(operations)] ==
            IF n = 0 THEN Batch0 ELSE BatchStep(s[n - 1], operations[n])
    IN  s[Len(operations)]

\* propose.batch; propose.reject is the batch of one rejection.
Batch(operations) ==
    /\ Starts
    /\ BatchRun(operations).ok
    /\ log' = BatchRun(operations).log
    /\ db' = BatchRun(operations).db
    /\ UNCHANGED <<alone, run>>

proposeFeedback(c) ==
    /\ Starts
    /\ IsPending(db, c)
    /\ Record(Feedback(c))
    /\ UNCHANGED <<alone, run>>
-----------------------------------------------------------------------------
(***************************************************************************)
(* The direct writes: task.create, decision.record, task.update,           *)
(* inbox.add, inbox.triage                                                 *)
(***************************************************************************)

\* The rows that make a direct write of this content a duplicate: a decision's base
\* row, any task of the sequence that is not completed or dropped.
Duplicates(b) ==
    IF b \in Decision THEN {nthId(b, 1)} \intersect DOMAIN db.entities
    ELSE {i \in DOMAIN db.entities : i[1] = b /\ db.entities[i].state # "completed"}

taskCreate(p, b, d) ==
    /\ b \notin Item
    /\ Duplicates(b) = {}
    /\ d => b \notin Decision
    /\ Enqueue(p, <<Proposed(mintEntityId(db, b), None, d)>>)

taskUpdate(p, i, s, d) ==
    /\ i \in DOMAIN db.entities
    /\ i[1] \notin Decision \union Item
    /\ i[1] \notin {BaseOf[c] : c \in Drafted}
    /\ db.entities[i].state # s \/ d
    /\ Enqueue(p, <<Applied(i, s, d)>>)

inboxAdd(p, i) ==
    /\ nthId(i, 1) \notin DOMAIN db.entities
    /\ Enqueue(p, <<Triaged(nthId(i, 1), None, "open")>>)

\* Mutant: the item is closed before its task is recorded.
TriageOrder(made, closed) == <<closed, made>>

\* The entity first, the item's transition second.
InOrder(made, closed) == <<made, closed>>

\* `task` and `decision`: a live duplicate is proposed again, else a free id is taken.
\* The code takes the duplicate updated last; here any.
inboxTriage(p, i) ==
    /\ nthId(i, 1) \in DOMAIN db.entities
    /\ db.entities[nthId(i, 1)].state = "open"
    /\ \/ Enqueue(p, <<Triaged(nthId(i, 1), None, "dismissed")>>)
       \/ \E e \in IF Duplicates(TaskOf[i]) # {} THEN Duplicates(TaskOf[i])
                   ELSE {mintEntityId(db, TaskOf[i])} :
             Enqueue(p, InOrder(Proposed(e, None, FALSE),
                              Triaged(nthId(i, 1), None, "done")))
-----------------------------------------------------------------------------
\* Truncate and replay, in one transaction.
Rebuild ==
    /\ MayStart
    /\ db' = Replay(log)
    /\ UNCHANGED <<alone, log, run, ops>>

Next ==
    \/ \E p \in Client :
          \/ \E c \in Candidate : Generate(p, c)
          \/ \E cs \in Lists(Candidate) : Apply(p, cs)
          \/ Resolve(p)
          \/ \E b \in Base, d \in BOOLEAN : taskCreate(p, b, d)
          \/ \E i \in DOMAIN db.entities, s \in TaskState \ {"proposed"}, d \in BOOLEAN : taskUpdate(p, i, s, d)
          \/ \E i \in Item : inboxAdd(p, i) \/ inboxTriage(p, i)
          \/ Write(p)
          \/ Die(p)
    \/ \E operations \in Lists(Op) : Batch(operations)
    \/ \E c \in Candidate : proposeFeedback(c)
    \/ Rebuild

Spec == Init /\ [][Next]_vars
-----------------------------------------------------------------------------
(***************************************************************************)
(* Properties.                                                             *)
(***************************************************************************)

\* The events that turned a candidate into an entity.
MadeBy(c) ==
    {n \in DOMAIN log :
        /\ log[n].type \in {"TaskProposed", "InboxItemTriaged", "ReplyDraftProposed"}
        /\ log[n].cand = c}

Ledger == INSTANCE Verdicts
            WITH status <- [c \in Candidate |-> StateOf(db, c)],
                 acted  <- [c \in Candidate |-> Cardinality(MadeBy(c))]

\* A candidate is decided once, and acted upon after that only by a call that
\* overlapped the verdict (ADR-0004, ADR-0036): a human's recorded "no" is enforced
\* (apply.ts:112-120).
ImplementsVerdicts == Ledger!Spec

\* FR-MNT-1: a rebuild, of a redacted log too, reproduces ledger and entities.
ReplayMatches == db = Replay(log)

\* A verdict is final: whatever is generated, applied, rejected or written directly
\* afterwards, by any server, leaves the reason of a decided row alone, and a
\* rejected summary stays redacted unless an overlapping generate brings it again.
VerdictsStand ==
    [][\A c \in Candidate :
         StateOf(db, c) \in {"applied", "rejected"} =>
            /\ StateOf(db', c) = StateOf(db, c)
            /\ db'.proposals[c].reason = db.proposals[c].reason
            /\ alone /\ db.proposals[c].summary = "redacted" =>
                  db'.proposals[c].summary = "redacted"]_vars

\* Two candidates that propose the same title become two entities, where calls do
\* not overlap (identity.ts:26-31).
MintIsFresh ==
    alone =>
        \A c, d \in Minted : \A m \in MadeBy(c), n \in MadeBy(d) :
            m # n => log[m].id # log[n].id

\* An inbox item that a triage call closed as done has its task or decision, though
\* the two are separate transactions and the server may die between them.
DoneHasEntity ==
    \A n \in DOMAIN log :
        log[n].type = "InboxItemTriaged" /\ log[n].cand = None /\ log[n].to = "done" =>
            \E e \in DOMAIN db.entities : e[1] = TaskOf[log[n].id[1]]

\* Candidates and entities belong to each other, whoever dies or forgets in between.
OwnEntity == MintIsFresh /\ DoneHasEntity
=============================================================================
