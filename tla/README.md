# A verification project for suasor

suasor is a local-first second brain: connectors ingest documents (Slack, GitHub,
mail, calendars, files) into one SQLite file, an agent proposes tasks, decisions,
links and persons over them through an MCP server, and a human applies or rejects
the proposals. Everything that changes is an event in an append-only log; every
table the program reads is a projection of that log, or a sidecar that can be
rebuilt. This directory models that system in TLA+, checks the models with TLC and
proves the most important results with TLAPS.

## The system

### Processes and shared state

One SQLite file in WAL mode is shared by several processes that know nothing of each
other: the long-running MCP server (`src/mcp/serve.ts`), cron-started
`suasor <connector> sync` and `suasor sync-all`, and the maintenance commands. Inside
one process, Bun is single-threaded and every database call is synchronous, so code
between two `await`s is atomic with respect to the same process; between processes
only a SQL statement, or a `db.transaction`, is. `Store.record` appends its events and
folds them in one transaction. What is *not* in one transaction is where the hazards
are: a decision read before an `await` or before the transaction and used inside it.

### Inventory

| component | state | operations | interacts with | hard behaviour | what makes it correct |
| --- | --- | --- | --- | --- | --- |
| event log, `Store.record`, reducer, rebuild | `events`; every projection | append+fold; replay; truncate and rebuild | everyone | redacted events replayed; order of events of racing writers | replay equals live fold; rebuild changes nothing |
| sync pass | `sources`, `sources_fts`, `extraction_meta` | preload tombstones, skip, fetch, extract, record | connectors, extractor, forget | awaits between reads and writes; two passes overlap | forgotten stays absent; every document becomes current |
| forget, unforget | `forgotten_sources`, redacted log | forget, forget again, unforget | sync, rebuild, cascade, vectors | forget racing a sync or an embed job | no copy of purged text anywhere |
| retention | bodies of old rows | select, drop | sync, rebuild | selection outside the transaction | only old bodies dropped, never back |
| forget cascade | derived titles and notes | redact derived entities | propose ledger, links, rebuild | projection update and log redaction pick different entities | replay equals live state |
| propose ledger | `proposal_candidates`, tasks, decisions, inbox, links, persons | generate, apply, batch, reject, feedback, direct verbs | MCP clients, human | several clients decide one candidate; one id several candidates | decided once; rejected never applied |
| task home | `tasks.external_*`; remote issue | publish, write-through, read back | actuators, sync | crash after egress, before the event; read-back racing local edits | at most one external home; both sides agree in the end |
| persons and identities | `persons`, `person_identities` | resolve, merge, split | connectors' author fields, links | replay order of merges and splits | each identity belongs to one person |
| sync runs, sync-all, freshness | `sync_runs`; a pool of workers; the nest of loops of a pass | claim, step, report, start, end, classify | sync, connectors, `doctor`, `brief` | a crash leaves `running`; overlapping runs end out of order; a connector hangs; an account, unit or page fails | a pass says what it did; what is called fresh is; the others finish |
| embedding sidecar | `sources_vec`, `embedding_meta` | ingest job, drain, rebuild | embedder process, forget | four autocommit statements per vector; await before the write | meta present iff vector present; no vector of a forgotten source |
| extraction sidecar | `extraction_meta` | extract, rebuild, serve | sync pass | transient failure keeps provenance of the old version | a failed extraction is retried |
| retrieval | none | search, recall, fuse, truncate | both indexes, embedder | the store changes while the embedder is awaited; lists are cut before filter and fusion | an answer that does not say it was cut is complete |
| embedder client, retry helper | the call's chunk, slots and attempt | send, read, retry, isolate | embedding service | refusals, timeouts, gaps, answers out of order | no text gets another's vector or is lost for its neighbours' sake |
| attention: demand, priorities, lists, brief | `demand_seen`; the clock | ingest, mark, rank, cut | every connector, tasks, promises | late and unordered ingestion; caps before ranking; passing time | what is asked for and hidden is the least urgent, and the answer says so |
| connectors | one cursor per resource in `sync_state` | list, page, advance | sync pass | page failure midway; cursor saved at the end only | nothing is skipped for ever |
| database files, backup | the file, its mode, its schema | open, migrate, restrict, back up | all | every statement of an open commits alone; two processes open an old file at once; kills | an open store is complete and private; a backup is what it says |
| MCP server session | calls in flight | confirm, run, send, record, draft | human, actuators, export directory | the confirmation times out; the host hangs up between request and record | gated effects only with consent; drafts replace no file and are on record |
| tools over links | the walk of a call | related, expand, timeline | every process that links, updates, forgets | a statement per node while links come and go; walks are cut | what is told was there; what is short of its limit is complete |
| digest | posts, files | deliver to file, desktop, Slack | Slack, `brief` | lost and unreadable answers, second token | results are what the user got; a message arrives once |
| skills installer | mirrors, stamps | install, prune, list | the user's own files | kills between mirrors and stamp; upgrades and downgrades | the user's files are left alone; mirrors are known as such |
| configuration, onboarding | `config.toml`, crontab, keychain | wizard, follow, unfollow, edit, `auth set` | connectors, the user's editor | whole-file writes without a lock; a first account demotes flat keys | nothing is taken that was not meant to be; no account stops |
| names of Slack's ids | three name tables; caches of a run | ask, record, backfill | sync pass, Slack | requests fail, tokens may not ask, things are renamed; caches keep refusals | a name is the thing's own and is never lost |
| discovery | none | sweep, compare, tell | the services, `config.toml` | pages that fail, items that move while they are listed, several tokens | what is told as new or gone was so |
| registry, manifest, secrets, `doctor`, CLI printing | - | look-ups and probes | the verbs above | sequential | - |

PROJECT.json lists the same parts with the source files of each, and under `hazards`
the places in the code where something could go wrong that a test would hardly reach,
each with the property that would catch it or a note why none does yet.

## Modules and runs at a glance

| part | modules | abstract specification | runs | proofs |
| --- | --- | --- | --- | --- |
| source store | `SourceEvents`, `SourceStore`, `MCSourceStore` | `SourceMemory` | `SourceSolo`, `SourceRace` | `SourceStore_proofs` |
| propose ledger | `LedgerEvents`, `ProposalLedger`, `MCProposalLedger` | `Verdicts` | `Ledger` | `ProposalLedger_proofs` |
| task home | `TaskHome`, `MCTaskHome` | - | `TaskHome` | `TaskHome_proofs` |
| persons, commitments | `Persons`, `MCPersons` | - | `Persons` | `PersonsSync_proofs` |
| embedding sidecar | `Embeddings` | - | `Embeddings` | `EmbeddingsAttention_proofs` |
| issue-tracker cursors | `IssueCursors`, `MCIssueCursors` | - | `IssueCursors` | `IssueCursors_proofs` |
| Slack cursors | `SlackCursors`, `MCSlackCursors` | - | `SlackCursors` | `SlackCursors_proofs` |
| sync-all, sync runs | `SyncAll`, `MCSyncAll` | - | `SyncAll` | `PersonsSync_proofs` |
| demand, priorities, brief | `Attention`, `MCAttention` | - | `Attention` | `EmbeddingsAttention_proofs` |
| forget cascade | `Cascade` | - | `Desk` | - |
| skills installer | `Skills` | - | `Desk` | `Desk_proofs` |
| configuration, onboarding | `Setup` | - | `Desk` | `Desk_proofs` |
| digest | `Digest` | - | `Desk` | `Desk_proofs` |
| search | `Search` | - | `Desk` | - |
| tools over links | `Graph` | - | `Desk` | - |
| embedder client, retry | `EmbedCall` | - | `Desk` | `Desk_proofs` |
| full-scan connectors | `Scan` | - | `Desk` | - |
| discovery | `Discovery` | - | `Desk` | - |
| store file, backup | `Vault` | - | `Desk`, `OldStore` (violation) | `Desk_proofs` |
| MCP write tools, drafts | `WriteTools` | - | `Desk` | `Desk_proofs` |
| names of Slack's ids | `Names` | - | `Desk` | `Desk_proofs` |

`Desk` composes twelve small parts that share no state: a variable `part` says which of
them a behaviour is one of, and the variables v1, v2, ... are that part's. Its run says
of each part what a run of its own would; `MCDesk` gives the constants of the parts small
values.

Every module with a run of its own has a type invariant, `TypeOK` in most. It is no property of a
run: where a part has a module of proofs it is proved, and in the others it documents the
state, as the comments on the variables do in the parts of Desk. The induction that proofs
need, over the natural numbers, stated for a set of numbers, and along a function defined by
recursion over `0 .. N`, stands at the head of the modules of proofs that use it. The operators commented `Mutant:` are plausible slips of the code. PROJECT.json names, for
each property a run checks, one of them that makes TLC find the property violated: they
are no part of any specification.

## The plan

Every part of the system that keeps state across steps has a module, and the parts whose
state is shared, or outlives a failure, have their safety proved. What is left, in this order:

1. `WipedStaysWiped` of `Cascade`.
2. `DriftHonest` of `Discovery`, `SkippedIsCurrent` of `Scan`.

Liveness stays with TLC, and so does what sorts and selects (`Search`, `Graph`).

## Source store

### Modules

* `SourceEvents` - the events of one source and what folding them does. The reducer
  treats each source on its own, so the log is a sequence per source.
  `Fold` is `applyEvent` on `sources` and `forgotten_sources`; `FoldIndex` is
  `syncSourceFts`, which looks at the row *after* the fold; `Replay` is what a rebuild
  computes; `Redact` is the `json_remove` of the body that forget and retention run
  over the log.
* `SourceStore` - the state: upstream documents, log, the two projections, the index,
  `extraction_meta`, one record of local variables per sync pass (`run`), the
  selection a retention run holds (`sweep`). One action per step between two awaits or
  transactions: `Begin` (tombstone preload), `Skip` and `Fetch` (delta detection),
  `Extract`, `RecordSource`, `Finish`, `Die`, `Forget`, `ForgetAgain`, `Unforget`,
  `RetainSelect`, `RetainDrop`, `Rebuild`; `Edit` is the world.
* `SourceMemory` - what the store promises: each source is unknown, held, blanked or
  purged; text exists exactly for held sources; only an unforget leaves purged; a source
  observed since retention's cutoff (`recent`) is never blanked.
* `SourceStore_proofs` - the theorems, and the lemmas about logs they rest on.
* `MCSourceStore` - constants for TLC.

A body is abstracted to which version it is of and which form (name only, extracted or
blank); a fingerprint is the version. `OldContent` stands for the retention cutoff.

### Runs

| run | shows |
| --- | --- |
| `SourceSolo` | commands never overlap (`OneWriter`), two sources, an extractor: the safety properties, and that the store implements `SourceMemory` |
| `SourceRace` | two passes and every maintenance command interleave: the index agrees with the rows, and every source without tombstone becomes current |

`OneWriter` is what a single user who waits for his commands has. Without it
`ForgottenStaysAbsent` and `ImplementsMemory` fail: see "Disagreements".

Bounds: one or two sources are enough because the fold never relates two sources (the
second matters for the pass's `todo` and for retention's set); two passes are the
smallest number that overlap; two versions with one old give an edit across the
cutoff; three `ops` allow forget, unforget, forget. `MaxEdits`
and `MaxOps` are the only counters.

Fairness (`SourceRace`): cron keeps starting passes, a started pass keeps being
scheduled, and a retention run that has selected goes on to its transaction. Crashes
(`Die`) get none and are bounded by `MaxOps`.

### Proofs

For every set of sources, passes, versions and extractors:

* `ErasureReplays` - replaying a redacted log yields the view with the body blanked.
* `TypeCorrect`, `ReplayCorrect`, `IndexCorrect`, `ErasureCorrect` - `TypeOK`,
  `ReplayMatches`, `IndexMatches` and `BlankMeansErased` are invariants of `Spec`, with
  racing writers.
* `ForgetCorrect` - with `OneWriter`, `ForgottenStaysAbsent` is one too. The assumption
  is needed: TLC finds a counterexample without it ("Disagreements", first entry).

`IInv` is the inductive invariant: types, that a pass in `record` has a body of its
record's version (`BodyReady`), and per source that the row is the replay of its log,
the index agrees with the row and a blank row has no body left in its log. The last
needs the first two: a `SourceBodyUpdated` that lands after a forget appends a body to
the log of a source without row, and only the row's absence excuses it. `StepOn`/`Steps`
reduce every action to six things that can happen to one source, and the proof has one
step for each. `FInv` adds that nothing is in flight while a command starts (`Alone`).
The fold is a recursive function, so `FoldRedacted` and `ReplayRedact` are proved by
well-founded induction stated for a set of naturals.

`MemoryImplemented` has `ImplementsMemory` for every constant, with `OneWriter`: Init maps
to the memory's Init, and every step to a step of one source's memory or to a stutter. The
mapping reads the kind of memory off the row, the tombstone and what the log has had. A
step needs three facts beside `IInv` and `FInv` (`MInv`): the version a pass found stored
when it decided to fetch is still the stored one when it records (`Working`), what a
retention run selected is still expired when it drops it (`SweepOK`), and a source that is
forgotten, or that had a body and has no row, has a forget in its log (`LogOK`). The first
two are what racing commands break.

Only model-checked: `EventuallyCurrent` (liveness).

`SourceStore` assumes that a pass lists every document, as the connectors without a
cursor do (Google, Microsoft Graph, Notion, Box, web, local files). For GitHub and Jira
`IssueCursors` says when a pass lists a changed document.

## Propose ledger

### Modules

* `LedgerEvents` - the events and what folding them does to the ledger (`proposals`) and
  to the tables of the entities, kept as one map from ids to entities. `nthId` is the
  minting sequence `base, base-2, base-3, ...`; `Fold` is the reducer, with
  `markProposalApplied` flipping every pending row of an entity id and
  `markProposalAppliedFor` also giving the row the minted id; `RedactLog` and `RedactRow`
  are what a rejection does to the summary.
* `ProposalLedger` - one record per MCP server (`run`): candidates left to apply,
  candidates applied by this call, events decided and not yet recorded. A server executes
  a tool call without awaiting, so calls interleave only between servers, and a step is
  one `Store.record`, one batch transaction, or the reads before the next write:
  `Generate`, `Apply` (the preflight), `Resolve` (one candidate: skip or mint),
  `Write`, `Batch` (apply and reject steps in one transaction, undone if one throws),
  `proposeFeedback`, the direct verbs `taskCreate`, `taskUpdate`, `inboxAdd`,
  `inboxTriage`, `Rebuild`, and `Die` between two records.
* `Verdicts` - the promise: a candidate is offered, decided once, and not acted upon
  after the decision. `ImplementsVerdicts` instantiates it with the rows' states and the
  number of events each candidate was turned into.

Candidates come in three classes by how their entity id is found: `Minted` (task,
decision), `Triage` (the id is the inbox item's) and `Drafted` (reply draft, commitment:
content-derived). `link`, `person_merge` and `person_split` candidates resolve like
`Drafted` ones. Titles are base ids; a summary is present or redacted.

### Runs

Run `Ledger` has two worlds, told apart by `alone`: in one a call waits for the one before,
in the other two servers interleave between records.

* `ReplayMatches` - the projections are the replay of the log, redactions included.
* `OwnEntity` - an item closed as done has the entity it was triaged to, whoever dies in
  between; and, where calls do not overlap, a minted id is no one else's.
* `ImplementsVerdicts` - the ledger implements `Verdicts`, in which a candidate is acted
  upon after its verdict only where calls overlap.
* `VerdictsStand` - a candidate that was applied or rejected stays so, with its reason; and,
  where calls do not overlap, a redacted summary stays redacted.

Bounds: six candidates, two of each class, the pairs sharing a base or an item, are the
smallest set in which ids collide; a list of two is the smallest that can die halfway (of
one, where calls overlap); three calls allow generate, decide and one more. No fairness is assumed: nothing here
must happen by itself. Servers are symmetric.

### Proofs

For any candidates, servers, lists and log length: `TypeCorrect`, `ReplayCorrect`
(`ReplayMatches`), `VerdictsCorrect` (`VerdictsStand`), `EntityCorrect` (`OwnEntity`) and
`VerdictsImplemented` (`ImplementsVerdicts`).

`IInv` relates, event by event, the log to the tables: the tables are its replay; a pending
row names the id its candidate was generated with (`PlannedOK`, which is why flipping the
rows of an id flips no decided one); what the log created is there (`Logged`, as nothing
deletes an entity); where calls do not overlap no two minted candidates created one id
(`Apart`); and an item closed as done has its entity (`DoneHas`). Of a call it says what
the events it decided on rely on (`CallInv`): the entity a triage names exists or comes
first in the same list, a minted id is still free, and no candidate left on the list has
been rejected. Another server keeps the first (entities only grow) and may break the other
two: hence `alone` in the theorems' properties. `ReplayRedact`, that redacting a summary
and replaying commute, carries the replay over a rejection. `MintFree` is the pigeonhole
that among one more ids than there are rows one is free.

What holds only without overlap fails with two servers (see `hazards`): ADR-0020 holds
that the human in the loop serialises writes, so these are recorded as hazards and not
as findings.

The publish half of `applyAndPublish` is in `WriteTools` and `TaskHome`. Not modelled: the
loop avoidance of `propose.generate`.

## Task home

### Module

`TaskHome` has one task, its row, the items created for it outside, the copy of each item
in `sources`, one command per server, and the decided-and-not-recorded event of a
read-back (`held`). A step runs from the answer of one request to the sending of the
next, so the human in the tool, syncs of other processes and crashes fall between:
`taskPublish`, `Search` (the marker), `Create`, `Link` (`TaskPublished`), `EgressFails`
(a lost answer or an error; Slack fails over to a second token), `Die`; `taskAct`,
`taskUpdate`, `Act`, `Apply` (write-through: the home first, the log after); `Ingest`
(what a connector stores, and GitHub's fingerprint that covers title and text only),
`reconcileReadback`, `ReadbackApplied`; `Edit`, the human in the tool.

`raced` and `crossed` are history variables: they record that two publishes overlapped,
and that the task changed under a local `task.update`, which the properties exempt.
The tool's search is assumed to be up to date with its own writes.

### Runs

Run `TaskHome` has three homes and two servers. `OneItemPerHome`: a home that looks for the
marker gets at most one item, unless publishes overlapped. `HomeDecides`: a linked task
keeps its link, and what is completed here was completed there. `FollowsHome`: the task
follows its item in the end.

Bounds: two items allow one duplicate; one edit by the human before or after any step;
one server makes two calls and the other one, which allows publish followed by an
update, and a racing call. Fairness: cron keeps syncing, a changed item is stored in the
end, and some syncs pass the Slack home's columns (`suasor <connector> sync` does,
`sync-all` does not), which `FollowsHome` needs.

### Proofs

For any homes, items, due dates and servers: `TypeCorrect`, `OneItemCorrect`
(`OneItemPerHome`), `HomeCorrect` (`HomeDecides`). The invariant follows a publish from the
search to the link: while publishes do not overlap the task of a publish has no item yet,
and between the search that found nothing and the creation there is none with the marker
in that home (`Good`). A completion is followed the other way, through whatever may bring it
to the row: an item in the state completed has been done, a row of `sources` that reads so
was made from an item that had been done, and so was the read-back under way (`ItemsOK`,
`RowsOK`, `HeldOK`); a write-through about to be applied has had its answer. `HomeDecides`
restricts two variables of one step, and is proved of each action from the same invariant.
The assumption on the homes is the code's: Slack alone has no marker and no dropping.

`FollowsHome` is liveness and stays with TLC.

## Persons

`Persons` has `person_identities`, `persons` with its stored counter, `commitments`, and
per server the event decided and not recorded. A write tool reads, decides and records;
two servers interleave between the decision and the record. Actions: `Observe` (a synced
author), `personMerge`, `personSplit`, `proposeApply`, `commitmentTransition`, `Record`.
There is no log: the fold has no branch that a replay takes differently, and no event
of this part is redacted.

Run `Persons`: three identities (two of one human, two sharing a handle), four persons,
two servers, three observations and three calls. `CountsMatch`: the counter by which
merge tombstones are hidden is the number of identities. `CommitmentsFollow`: a
commitment linked by key or by handle stays with that identity through merges and
splits. `OnlyHumansMove`: re-observing never undoes a merge.

Proved for any identities, persons, commitments and servers: `TypeCorrect`,
`CountsCorrect`, `FollowCorrect` (from `KeyCorrect` and `HandleCorrect`),
`OnlyHumansMoveCorrect` (`PersonsSync_proofs`). Types and counts are inductive together,
since a merge recounts only the two persons it names and the others' counts must be
right already; the two link invariants need only the types. Commitments linked by
display name are left out of both: a split leaves them behind (see below).

## Embeddings

`Embeddings` has the texts, the tombstones, the two sidecar tables (`vec`, `meta`), the
configured model and one record per job. `upsertSourceVector` is four statements that
each commit on their own, so it is four actions (`DeleteVec`, `InsertVec`, `DeleteMeta`,
`InsertMeta`), with `Conflict` where another job's row is already there. A job reads
bodies (`fetchBodies`), awaits the embedder (`Answer` with holes, `Outage`) and stores.
`Forget`, `RebuildProjections` and `SwapModel` remove or outdate vectors.

Run `Embeddings`: two jobs overlap (`JobsOverlap`), maintenance does not
(`UpkeepOverlaps = FALSE`; with overlap a vector of a purged text is left, see
`hazards`). `ReportHonest`: every vector is of a stored source, and there is a meta row
exactly where there is a vector, except for sources in `torn`, those a process died on.
`FullRebuildHeals`: full rebuilds bring every vector to its text and model. Its fairness: a job goes on by itself
(weak), the embedder answers for each source again and again (strong: an outage is always
possible), and the operator's full rebuild gets its turn (strong: other jobs may keep
starting). Overlaps are bounded by `MaxOps`: two jobs that overlap for ever can abort
each other on a primary key for ever.

Proved for any sources, versions, models, jobs and chunk sizes, where maintenance does not
overlap (the run's `UpkeepOverlaps = FALSE`): `TypeCorrect` and `ReportCorrect`
(`ReportHonest`). The report is not inductive, as it says nothing of the states between
the four statements; `HalfDone` says that whatever they leave undone, some job is at the
statement that mends it, and `Inserted` that a vector whose meta row is still to be written
is of the active model. Both need `JobsOK`: every job works with the active model, on
sources that have text. A job that meets a conflict may give up, as the other job's vector
is then in place; one that dies leaves its source to `torn`.

## Issue-tracker cursors

`IssueCursors` has the trackers' issues, comments and notification threads with their
times, the stored cursor (GitHub: one floor shared by all repositories; Jira: one per
project; both: the inbox floor), and one record per pass (what is left to list, what was
recorded, the marks so far). A step is a response and everything recorded before the
next request. Actions: `EditIssue`, `EditComment`, `EditThread`, `Reconfigure`, `Begin`
(`--full` or not), `ListPage`, `RecordIssue` (an issue with its comments),
`ResourceFails`, `InboxPage`, `InboxFails`, `Finish` (the cursor is stored), `Die`.

Run `IssueCursors` has two overlapping passes. `NothingSkipped`: whatever is not stored as
it is upstream will be listed by the next pass, unless its resource changed during its
own listing, failed behind the shared floor or was newly configured.
`NotificationsKept`: notification threads likewise.

Bounds: two resources are the smallest number of which one fails; a page of one issue
makes every listing take several requests; three issues put two in one resource; three
instants order an issue before, at and after a floor. Passes are symmetric. A resource
that changes during its own listing is exempt (`raced`), since both trackers page by
position; so are those the shared floor has left `behind` (see "Disagreements").

Proved for any finite lists of issues and threads, any resources, comments, page sizes and
processes: `TypeCorrect`, `IssuesCorrect` (`NothingSkipped`), `NotificationsCorrect`
(`NotificationsKept`). What holds of the store between passes is kept because of what each
pass knows of its own past, `PassOK`: the floors it read are low enough to list what is not
stored (`CoversOK`); what it has listed is recorded, or is on the page it holds, or is
ranked behind the position it has read to, in every resource that has not changed since
(`ProgressOK`); an entry of its page that is no longer fresh is of a resource that has
(`BatchOK`); and a notification it has not met is ranked behind its position or is as new as
the floor it will leave (`InboxOK`). No mark or floor is ahead of the last change (`Past`):
a mark that was would pass by the next one. `Ranks` counts that a page holds the items
whose rank lies between its ends. A second pass that stores something newer
only helps, and a pass that overlaps another knows that everything may have changed
(`Apart`). Assumed of the constants: a comment exists only with its issue, and lists are
finite.

## Slack cursors

`SlackCursors` has the posts in the order they were made (a reply names its parent), the
stored cursor (the newest item seen in each channel, the newest reply seen in each
active thread), and one record per pass: the cursor it read, the one it will store, how
many tokens are alive, and where it is in a channel. A step is a response and everything
recorded before the next request: `HistoryPage` goes down from the newest message and
turns to the replies of a message that has some, `ReplyPage` goes up through a thread,
and `Nexts` says what is asked for next: a page, an active thread that history did not
show, or the next channel. `RequestFails` is one of two kinds, for the channel or for the
token; a second token starts the channel anew, else the channel keeps the entries the
pass read (`Keep`). `Begin` takes the dead tokens and `--full`; `Finish` stores the
cursor unless every channel failed for its tokens alone; `Die`; `cursorReset` and
`cursorBackfill` are the CLI verbs. `Say` and `Delete` are the people.

Run `SlackCursors`: one channel, two tokens, two passes. `NothingSkipped`: a message
without a row is above the cursor, so the next pass lists it. `RepliesFollowed`: a reply
without a row is above its thread's mark, and the thread will be listed or polled. Four history
variables name the exceptions, and TLC finds a violation without each of them:

* `overtaken` - a reply is fetched after the page of history and raises the channel's
  mark past a message posted in between (`slack.ts:962`);
* `adrift` - a channel whose first pass ever fails keeps the newest item of the failed
  attempt as its cursor (`slack.ts:1026`: there is no prior entry to put back), or the
  cursor was put forward by hand;
* `late` - a message without replies when it was listed gets no mark, so a thread that
  starts later is never polled (`slack.ts:1274`), although ADR-0015 has threads followed
  "without omission" since its revision R1;
* `letgo` - a thread that is no longer active, or older than the floor a cursor verb set,
  loses its mark.

Bounds: four posts are the fewest with which a reply overtakes a message; a page of one
item makes every listing take several requests; two failures, crashes, deletions,
overlaps, `--full` passes or verbs let both tokens fail, or one of them fail in one of
two overlapping passes. Passes are symmetric; any token may be able to read a channel,
so only the number of live ones is kept. Channels interact only through the tokens, and
one suffices for the marks; with `Channel = {c1, c2}`, of which `c1` has a cold-start
floor, and `Pass = {p1}` the same properties hold over 5.7 million states. The mark of a
channel may fall to a reply (the newest item *of that pass*), which `NothingSkipped` shows
harmless. A cursor verb reads and records in one step; in the code
another pass may end in between, as it may before.

Proved for any channels, tokens, passes, posts and window, in `SlackCursors_proofs`:
`TypeOK`, `NothingSkipped` and `RepliesFollowed`. The two properties are about the stored
cursor alone, and a pass replaces it by one that it put together from stale parts; so the
invariant says of every cursor in use, stored, read (`prev`) or to be stored (`next`),
that it leaves nothing out (`Covers`): the messages that must still be listed are above
it, a message whose thread counts is above it or has a mark, and a mark is below the
replies that the store lacks. `next` covers only the channels the pass is through with.
For the channel it is at (`FetchOK`) a message to be listed is below the next page, or
newer than the first page and than everything the pass has seen; a thread that counts is
being fetched, has its mark in `threadOut`, has an old mark and is not handled yet, is on
a page to come, or is newer than the first page; and `threadOut`, `from` and the high-water
mark are below the replies that the store lacks. So, when the pages and the polls
have ended, `Ingested` turns `FetchOK` into `Covers`. No cursor is ahead of the posts but
by a floor (`Past`), which is why a new post disturbs nothing, and replies are not nested
(`PostsOK`). TLC finds this invariant true over the run's states. Assumed of the constants:
there is a channel and a token, and a floor is no later than the last post the model
allows.

## Sync-all, runs and freshness

`SyncAll` has the configuration of a scenario, the bulk run (`job`, its `slots`), the pool's
workers and one process of `suasor <connector> sync` (`proc`), the sources written and the
rows of `sync_runs`. A pass walks the connector's nest of accounts, units and items, and
every level has its own answer to a failure: `Step` reads the next item, or one of its
levels fails. `Launch`, `Claim`, `Report` are the bulk run's, `LaunchManual` the other
process's; `CrashBulk` and `CrashManual` kill one; `Tick` is an hour.

Run `SyncAll`: seven scenarios over connectors of six kinds. `PassHonest`: a pass is a success
exactly when every unit was read to the end, is without counts only when none was, what it
read is stored whatever failed beside it, and a connector is claimed once. The one exception
(`Vacant`) was found by proving it: an account with `calendarIds = []` (`google.ts:88-92`) reads
nothing and counts as read, so a pass whose other accounts all fail may be a partial success
without anything read; the scenario `NoCalendar` has one. `FreshIsFresh`:
a connector called fresh has had a run that ended well within the threshold, however runs
overlapped. `OthersFinish`: connectors that hang hold up their own workers only. It assumes
that the event loop goes on (`PoolGoesOn`, weak): a claim, an answer of a service that does
answer, the report. Nothing makes a hung service answer, nor time pass.

Bounds: two launches are the fewest that overlap; two workers with one connector that may
hang; a threshold of zero hours makes a run stale after one tick.

Proved for any scenarios, connectors, nests of accounts, units and pages, pool and launches
(`PersonsSync_proofs`): `PassHonest`, `FreshIsFresh` and the types. `SyncInv` is the inductive
invariant. A connector's accounts are a grid (`Grid`), and of every pass it says where in the
grid it is and that what it has left behind it has read, unless it counted a failure there
(`ProcsOK`): the failed units of the account it is in are `bad` many, and the outcomes of the
accounts it has left are those of what was read of them. So what the loops tell each other by
counts and outcomes is what was read, and an entry, made from those, says so (`EntriesOK`).
`Pooled` and `JobOK` say that the names below `next` are claimed, each by one worker.
`StoreInv` adds that what was read is stored: two units of one connector that give one id
give one copy (`SameIdSameCopy`), which is why a unit that is read twice, or by two
processes, overwrites nothing. `Freshened` relates the row and the last good run of a
connector: a row that ended well is not younger than it. `SyncAssumption` has what the
constants are assumed to be: what the configuration's filters yield (`ResolvedOK`) is stated
of their results, since the provers know nothing of `SelectSeq`; TLC evaluates it.

## Attention

`Attention` has what the services hold (`upstream`), the rows as last ingested, the marks of
`demand.mark`, tasks and promises, and the clock. The read tools are operators over that
state: `Demand` with one clause per family, `Priorities` with the scores as exact
multiples, `CommitmentList`, `OverdueTaskList` and `Brief`; a list cut at a limit is the set
of answers that ties allow. Actions are what moves their input: `Ingest`, changes upstream,
`Mark`, retention's drop, changes of tasks and promises, `Tick`.

Run `Attention`: eight scenarios of up to three items. `ShownHonest`: the meeting that is
about to start leads; what a limit or the candidate cap cuts is the least urgent; an answer
that does not say it was cut is complete. `LastWordDecides`: a mail thread calls for an
answer exactly if its last word does, in whatever order its mails came in. `DemandSteady`:
nothing leaves the list silently, and time alone never lowers what is due.

`EmbeddingsAttention_proofs` proves the three for any scenarios of finitely many rows, any
windows in the code's order, any saturation points with a common multiple, any cap and limits.
The first two are read off the state, so that types are all the invariant they need
(`AttentionTypeOK`: no timestamp is ahead of the clock, no row is of an unknown shape); the
third is shown action by action. A page is not computed but characterised: any `n` rows that no
other row comes before (`Pages`). So `ImminentFirst` follows the soonest meeting through the
candidate cap, whose order puts a meeting as soon as it on the page or itself
(`FirstMeetingKept`), and through the limit (`TopTierLeads`); `UrgencyScores` says that what
`MoreUrgent` puts later scores no more; `RankingHonest` counts: fewer candidates than the cap
are all there are. `DueTermUp` has the jump at the due date: a late row starts above where an
imminent one ends.

Bounds: three items exceed a candidate cap of two; five instants put one on either side of
each window, whose constants keep the code's order; the score's scale is a multiple of all
saturation points, so that nothing is rounded.

## The parts of Desk

Each has a few variables and bounds of its own, given values in `MCDesk`; no fairness is assumed.

* **Cascade** (`CascadeHolds`: `DisclosedStep`, `WipedStaysWiped` and `CascadeReplays` of the
  module) - the log, rows and candidates of three entities
  derived from two sources. The confirmation is awaited (`Ask`, `Forget`, `Decline`), and
  other calls write in between. The redaction goes by two keys, the sources an event names
  and the links a row has; the properties say where these differ. Log of three events, two
  forgets.
* **Skills** (`SkillsApart`: `UsersKeptStep` and `MirrorsKnown` of the module) - files, their
  authors and the stamps of two hosts; `Install` goes on file by file (`Mirror`,
  `WriteStamp`), `Prune` by `Remove` and `Unclaim`; a kill may fall in any write and cut the
  file. Two versions of the catalog with a skill that stays, one that goes and one retired
  long ago; two commands, two edits by the user, one kill.
* **Setup** (`KeepsOthers`) - `config.toml` as sections, accounts and channels, the
  credentials, the wizard with its discovery, `slack follow`, `config edit`, the crontab.
  Every writer reads the whole file and writes it whole. One run of the wizard and two
  other writes give every pair of writers. Not modelled: inline tables, other sections, the
  write itself, which is one step.
* **Digest** (`ResultsHonest`) - a run's jobs in order, each to a file, the desktop or Slack,
  with up to three tokens and three attempts; an answer may be lost, unreadable, a refusal
  or a rate limit. The notifier exits (`Exited`) or is killed by a signal (`Signalled`), which
  `defaultSpawn` takes for an exit with zero: the job is delivered then, shown or not.
* **Search** (`SearchComplete`) - one call of the tool: the page of the word hits when it
  arrives (`Ask`), if that is full the count of all matches, which is a statement of its own
  (`Count`), and the vectors after the embedder has answered; one change by another process
  at any point. Four sources, two orders of the words and one of the distances.
* **Graph** (`GraphHonest`) - one call of `graph.related`, `graph.expand` or
  `activity.timeline`: `listLinks` asks for a node's links in one direction, the rows coming in
  any order, and `Onward` is `expandGraph` between two questions; `Fetch` reads a node for the
  timeline. Four entities, two shapes of links (one with a cycle and a source whose moment is
  not in UTC), one or two hops, limits below and above what there is, and two changes by other
  processes at any point.
* **EmbedCall** (`SlotsAligned`) - one call of up to three texts in chunks of one, two or
  all; attempts, waits, the timer, broken and misordered answers, texts sent alone.
* **Scan** (`SkippedIsCurrent`) - for each of eleven kinds of item what the connector reads
  and fingerprints (Microsoft's files are as Drive's in all the module tells apart, so the run
  leaves them out); two items on two pages, edited twice, two passes, the extractor switched
  once. Extraction's meta (`Extract`) and the row (`RecordRow`) are two statements, and a pass
  may be killed at any point (`Kill`), between them too. The exceptions the property names are
  the code's.
* **Discovery** (`DriftHonest`) - eight sweeps over the pages of one or two tokens while one
  item comes or goes, with filters, limits, missing scopes and failing pages.
* **Vault** (`StoreKept`) - an open statement by statement, by two processes, on a store that
  any of four older versions made; `export backup` in both formats. Three opens, one kill.
  Every chmod may do nothing, as it does on Windows and where it fails: `ignored` remembers it
  for the open or the backup whose chmod it was, and the property asks for the owner's mode of
  all the others.
* **WriteTools** (`WritesHonest`) - two calls of one server session among seven tools: the
  confirmation with its answers, the request, the record; a draft's way to its file. The
  host hangs up or kills the server at any point; another program writes into the export
  directory. `source.forget` stands for `person.merge`, which is gated the same way.
* **Names** (`NamesKept`) - what a sync pass and `slack resolve-names` ask of Slack, id by id
  and token by token, their caches, and the rows they leave. Two tokens of two workspaces,
  one of which sees less, a channel and a group with one message each; two runs one after
  another, one renaming, one failing request. `auth.test` describes the second token only; a
  token it does not describe leaves the first of `self_user_ids` out of a group's name, or
  nobody, and the run has none configured. With both described TLC finds no violation either
  (324 000 states). Runs meet in the rows only, where the last one wins: nor with two
  processes at once and one message, in 4.3 million states, nor with a direct conversation
  in the channel's place.

Seven of the parts are proved about, for any values of their constants, within the
composition (`Desk_proofs`): a step of the desk is a step of the part it is one of
(`PartSteps`), so what that part's steps keep, the desk keeps. The inductive invariants stand
at the end of the modules, and TLC checked each before it was proved.

* `DigestInv` (for `ResultsHonest`): of the jobs done, what their results account for; of the
  job in flight, that its message arrived at most once for every token already given up, and
  only unread (`InFlight`); of those to come, that nothing of theirs has arrived. A job whose
  notifier was killed is among the `unsure` ones, as is one whose post had no readable answer.
* `ToolsInv` (for `WritesHonest`): `CallOK` says what a call may have done at each of its
  stages - nothing before its confirmation, and after it what was confirmed - and `DraftOK`
  which files are its. `Exclusive` says that one call at a time is between finding a free name
  and recording its draft, since that stretch of the code awaits nothing; without it two
  drafts could take one name.
* `EmbedInv` (for `SlotsAligned`): the filled slots are whole chunks (`RequestOK`), so that
  the next chunk starts where they end; where the service did not break and had fewer faults
  than attempts, a request has used no more attempts than there were faults, and a hole is of
  a text the service cannot embed. A service's entries are a permutation of the texts, and a
  permutation of an interval reaches all of it, which is what makes misordered answers
  readable (`Permuted`, `RestoredInOrder`).
* `VaultInv` (for `StoreKept`): what each station of an opening has behind it - the journal
  mode, the tables, the columns up to the one it checks, the file's mode unless its own chmod
  did nothing - which other processes only add to (`ProcOK`); that two processes opening at once have met (`Meet`), since
  an open may fail only for that or for the missing index column; and of a backup, that the
  file at its path is its own copy, with the mode its chmod left (`CopyMode`), or someone
  else's untouched (`BackupOK`).
* `SkillsInv` (for `SkillsApart`): a name in a stamp is of a mirror, unless something is on
  record of how it came otherwise, and a mirror's name is in a stamp (`FileOK`). Both fail
  while a command runs: an install has mirrors it has yet to record (`Mirrored`), a prune names
  whose files are gone (`Unpruned`). So `InstallOK` says that an install's evidence is still
  what the stamps say as long as it writes mirrors, and that every place it is through with
  is a mirror or skipped - only then may the stamp claim it; `PruneOK` that what a prune has
  yet to delete is in the stamp.
* `SetupInv` (for `KeepsOthers`): the wizard's plan is of the file it started with
  (`WizardOK`), and the text it keeps over its discovery is the file it read with the sections
  and the account its plan and the keychain asked for (`TextOK`). So what it writes back has
  all of what it read (`TextAdds`), which is the file if nobody wrote meanwhile; and where the
  first account demotes flat keys, the account that synced by them is declared with it
  (`DeclaredKept`).

* `NamesInv` (for `NamesKept`): a name in a run's cache is made of the names its thing may have
  had since the run began (`CacheOwn`), and where no request failed an empty one is of a thing
  its token may not ask for (`TellsAll`); after its sweep a token has the names of the
  workspaces it lists (`SweepOK`). Of an id in hand, the tokens already given up could not have
  told it (`IdOK`): so when the last one is through, no token tried could have.

They assume what `DeskAssumption` has: of a digest that its jobs are records of its
channels, of the tools that a suffix comes with all smaller ones, of the embedder that the
limits are numbers, of the skills that their catalogs are of the named skills, of Slack
that users, conversations and workspaces have different ids. The chunk size, the texts, the
tokens, attempts, processes, versions, hosts, accounts, channels, ids and workspaces are
any.

Run `OldStore` is `Vault` with one process alone: on a store whose commitments table was made
before `person_id`, `initSchema` creates the index on that column before `ensureColumn` adds
it, and the open throws, against `data-model.md:72`.

## Disagreements

Met while modelling, most of them as TLC's counterexamples to a property without the
exception that names them; the one with a run is `OldStore`:

* **Retention race**: a sync that stores a new version between `applyRetention`'s
  selection and its transaction has that version dropped (`retention.ts:67`).
* **Drop flag**: `body_dropped_at` survives a new body, and retention never looks at
  the row again (`reducer.ts:197`; `connection.ts:69-70` has it NULL when intact).
* **Forget, unforget, forget** without a sync in between answers `tombstoned: true` and
  leaves no tombstone (`source-forget.ts:166`).
* **Rejection race**: another server's rejection between preflight and record of an
  apply does not stop it (`apply.ts:297`).
* **Triage of an existing task** proposes it again with empty scheduling fields
  (`inbox-triage.ts:156`).
* **Split and display names**: commitments written by display name stay with the person
  the identity left (`reducer.ts:688-690`).
* **Embedding hole**: a changed source whose embedding fails keeps the old vector and
  counts as embedded until a full rebuild (`recall.ts:161`).
* **Due-date-only `task.update`** writes back the state it read (`task-update.ts:128`).
* **Second destination**: a publish retried to another home, or to a Slack list without
  marker column, creates a second item (`task-publish.ts:188`).
* **Paging by position** skips an issue when the order changes between pages, and a Jira
  comment's time raises the mark past issues that changed meanwhile
  (`jira/client.ts:336`, `jira.ts:318`). `--full` heals both.
* **Sibling verdicts**: a verdict on an inbox item is marked `applied` as soon as its
  sibling is, or the item is captured or triaged, though nothing persisted it
  (`reducer.ts:82`; `mcp-surface.md:379` has `applied` mean persisted).
* **Slack**: the first three exceptions of `SlackCursors` above. `--full` heals them.

* **Forget during a pass**: a pass that read the tombstones before a forget stores the
  source again after it (`sync.ts:339`; its comment at 386-389 has the tombstone win). Set
  `OneWriter = FALSE` and `Sync = {p1, p2}` in `SourceSolo.cfg`.
* **One floor for all repositories**: what a failed or newly configured repository has from
  before the floor is not listed again until `--full` (`github.ts:334`;
  `docs/guide/connectors.md:302`, `github.ts:327-329`). Drop `behind` from `NothingSkipped`.
* **A closed GitHub issue does not close the task**: the fingerprint covers title and text,
  so the row's state is not refreshed (`github.ts:139`; `task-readback.ts:9-11`).
* **Cascade and manual links**: titles redacted by a link a human made come back with a
  rebuild (`cascade.ts:184-188`; its comment at 217-219); reasons of feedback and rejection
  are not redacted; a candidate applied after a cascade brings its text back.
* **Sync runs**: a run in flight or killed makes a connector read `never`; `partial` counts
  as fresh; a loader that fails records no run, so the previous verdict stays; the comment
  at `reducer.ts:313-317` speaks of newer rows, the update is unconditional. An unreadable
  root of the local connector is a success. `suasor sync` does not pass `slackHome`.
* **Attention**: tasks and mails are capped newest first, so the longest overdue fall out of
  a full list; a newer mail that is bulk or not to the operator hides an older one that is;
  a meeting moved or declined by the organiser stays in demand (`google.ts:428-446`;
  `docs/adr/0044` line 115, `mcp-surface.md:162`); a marked meeting or notification stays
  hidden when it changes; two mails of one instant both show; retention takes a mention out
  of demand; the staleness of commitment scans counts by the last *proposal*.
* **Confirmations** that time out or cannot be asked let the call proceed (`elicit.ts:80`,
  whose head says "only on an explicit accept"); a late decline is ignored. A hang-up during
  a publish leaves an item without event, during a draft a file without event.
* **Digest**: a message whose answer is unreadable is posted again with the next token;
  "failed" may have arrived; two jobs of one filename overwrite each other; a notifier that a
  signal kills counts as delivered, though nothing may have been shown (`channels.ts:177`).
* **Search**: a source forgotten while the embedder is awaited may still be among the hits;
  vectors of dropped sources take places among the nearest, and matches behind them are
  missing without `truncated`; a match forgotten between the page and the count is not counted
  (`search.ts:302`, `:368`), and the answer says that it is complete when it is cut.
* **Embedder**: with a batch limit of one an unusable first text loses the rest
  (`embedder.ts:45`; `tests/retrieval/embedder-robustness.test.ts:364-369`); the timer is
  cleared at the headers, so a body that never ends hangs; a malformed answer to a later
  chunk discards earlier vectors.
* **Full scans**: a transient extraction failure of a changed file is not retried; a pass
  killed between the new meta of a drifted file and its row leaves the file with the text it
  had, or none, for good (`sync.ts:484-494`); a renamed
  hashed file keeps its old name; Notion edits within the listed minute go unseen; files of
  Google Drive and Microsoft carry no `name`, so `extraction status` never counts them
  (`extraction/maintenance.ts:99-106`; `docs/adr/0034` line 75); a body that cannot be
  parsed is an empty page.
* **Discovery**: nested Box folders, Box's `0` and Google's `primary` are told as removed, as
  are archived channels, and with `--limit` or a missing scope channels that are still
  there; paging by offset skips items.
* **Setup**: the wizard and `config edit` lose updates made meanwhile; `crontab -l` failing
  is taken for an empty crontab (`onboard.ts:1503-1513`); the wizard prints "appended" for a
  Slack app without channels; `config edit` keeps an invalid file when the editor fails.
* **Skills**: a torn stamp loses the ownership of its mirrors; a user's copy of a bundled
  skill becomes suasor's; a user's file in the place of a mirror is overwritten.
* **Store file**: two opens of an old store meet in "duplicate column"; two first opens in
  "database is locked", as the journal mode is set before the busy timeout; a backup is
  refused when an event is appended while it runs; a full disk leaves a partial copy; `tar`
  may replace a file that came after the check. That a chmod which fails is silent is meant
  (`file-permissions.ts:37-41`), and no disagreement.
* **Team names**: the backfill names a workspace that no token can list by that of the token
  it asked (`slack/team.ts:118-128`, whose comment has it the token's own).
* **Links and time**: `graph.expand` with a limit of one returns two nodes. Moments are
  compared as text, though Box's and Jira's are stored as they are sent (`box.ts:156`,
  `jira.ts:128`), with an offset where they have one (`events/types.ts:21`), and the tools take
  bounds with one (`server-shared.ts:26`); so a timeline may be out of order and its window off by hours
  (`queries.ts:20-21`: "valid because the stored timestamps are zero-padded UTC"). Drop `InUtc`
  from `TimelineHonest`.

Read, and not modelled:

* **Unforget under a cursor**: a GitHub or Jira source is not listed again until
  `--full`, though `mcp-surface.md:721` has the next sync bring it back.
* **Discovery marker**: the Slack cursor verbs write the cursor back without its
  `__discovery__` entry, which `slack.ts:552-556` says they never clobber.
* **Digest**: it does not pass `selfAddresses`.

## What only TLC checks

Liveness (`EventuallyCurrent`, `FullRebuildHeals`, `FollowsHome`, `OthersFinish`) stays with
TLC: the proof system reasons about safety, not about fairness and `ENABLED`. So does
what a recursive definition computes for every input: folds are proved about by
induction on the position in a log, stated for sets of naturals, but not by induction
over data in general. No module with a theorem uses a `RECURSIVE` operator.

Model-checked only are, of `Desk`, `SearchComplete` and `GraphHonest`, whose answers are
sorted and selected (`SortSeq`, `SelectSeq`, folds: the provers know nothing of them);
`CascadeHolds`, which folds the log over two histories; and `DriftHonest` and
`SkippedIsCurrent`, which have no proof yet. `OldStore` is a counterexample.

## What is not modelled

PROJECT.json gives the reason part by part. Left out are functions of one input and
look-ups (parsing and validation of the configuration, warnings, the manifest, the
authentication specs, `doctor`, `store info`, the printing of the verbs), the HTTP formats
of the services, the rendering of drafts and of the digest, Slack lists and the discovery
marker, and the life of the extraction
process (`extraction serve`, `extraction status`). SQLite is taken at its word: a statement
or transaction is a step, and what it commits stays.
