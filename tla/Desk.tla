-------------------------------- MODULE Desk --------------------------------
(***************************************************************************)
(* Parts of suasor that do not interact, composed for one run: `part` says *)
(* which of them a behaviour is one of, and v1, v2, ... hold the variables *)
(* of that part.                                                           *)
(***************************************************************************)
EXTENDS Naturals

\* The constants of the parts.  A name that several parts use is told apart
\* here, as the instances below say.
CONSTANTS
    Source, Entity, KindOf, SrcOf, MaxLog, MaxForget,               \* Cascade
    Name, Host, Catalogs, Retired,                                  \* Skills
    SkillRuns, SkillEdits, MaxCrashes,
    Placed,         \* bound: bodies of skills that the user puts there
    AccountName, Channel, MaxWizards, SetupEdits,                         \* Setup
    JobLists, MaxTokens, PostAttempts,                              \* Digest
    Searched, Typed, WordOrders, NearOrders, Limits,                   \* Search
    Overfetch, RrfK, SearchChanges, MaxAsks,
    MaxTexts, BatchSizes, Backends, RequestAttempts,                \* EmbedCall
    BaseWait, MaxBackoff, RetryAfters, RequestTimeout,
    ScanKinds, Pages, ScanEdits, MaxPasses, MaxSwitches,            \* Scan
    Sweeps, Seen, Listings, SweepChanges,                            \* Discovery
    Opener, Columns, Indexed, MaxEvents, MaxStarts, MaxKills,       \* Vault
    ToolCalls, Tools, Task, Suffix,                                 \* WriteTools
    User, Conv, Team, MembersOf, Group, SlackPost, Namer, SlackToken, TeamOf, \* Names
    SelfOf, SelfIds, Sees, Reach, Renamed, Described,
    NameRuns, MaxRenames, MaxFaults,
    Node, Dated, Ingested, Shapes, Linkable, GraphAsks,                  \* Graph
    Factor, DefaultLimit, GraphChanges

VARIABLES part, v1, v2, v3, v4, v5, v6, v7, v8, v9, v10

from5 == <<v6, v7, v8, v9, v10>>
from7 == <<v8, v9, v10>>
from8 == <<v9, v10>>
deskVars == <<part, v1, v2, v3, v4, v5, v6, v7, from7>>

Of(p) == part = p /\ UNCHANGED part

Casc == INSTANCE Cascade WITH
    log <- v1, db <- v2, asked <- v3, told <- v4, wiped <- v5, cascades <- v6, forgets <- v7

Skil == INSTANCE Skills WITH
    MaxRuns <- SkillRuns, MaxEdits <- SkillEdits,
    version <- v1, text <- v2, author <- v3, stamp <- v4, job <- v5, runs <- v6,
    edits <- v7, crashes <- v8, blurred <- v9, lost <- v10

Conf == INSTANCE Setup WITH
    Named <- AccountName, MaxEdits <- SetupEdits,
    file <- v1, stored <- v2, joined <- v3, wiz <- v4, fol <- v5, ed <- v6,
    cron <- v7, cronSeen <- v8, runs <- v9, edits <- v10

Push == INSTANCE Digest WITH
    MaxAttempts <- PostAttempts,
    jobs <- v1, dryRun <- v2, env <- v3, dm <- v4, files <- v5, shown <- v6,
    posts <- v7, unsure <- v8, results <- v9

Find == INSTANCE Search WITH
    Source <- Searched, MaxChanges <- SearchChanges,
    backend <- v1, wordOrder <- v2, nearOrder <- v3, stored <- v4, matching <- v5,
    vectors <- v6, call <- v7, answer <- v8, changes <- v9, asks <- v10

Embd == INSTANCE EmbedCall WITH
    MaxAttempts <- RequestAttempts,
    job <- v1, pc <- v2, mode <- v3, attempt <- v4, wait <- v5, out <- v6, isolated <- v7,
    produced <- v8, faults <- v9

Pass == INSTANCE Scan WITH
    Kinds <- ScanKinds, MaxEdits <- ScanEdits,
    kind <- v1, remote <- v2, minute <- v3, sidecar <- v4, rows <- v5, meta <- v6, bare <- v7,
    pass <- v8, used <- v9

Disc == INSTANCE Discovery WITH
    Kinds <- Sweeps, Written <- Listings, MaxChanges <- SweepChanges,
    kind <- v1, conf <- v2, opts <- v3, remote <- v4, sweep <- v5, report <- v6, span <- v7,
    changes <- v8

Keep == INSTANCE Vault WITH
    Proc <- Opener,
    file <- v1, schema <- v2, log <- v3, proc <- v4, backup <- v5, dest <- v6, lost <- v7,
    used <- v8

Tool == INSTANCE WriteTools WITH
    Calls <- ToolCalls,
    elicits <- v1, session <- v2, tool <- v3, said <- v4, call <- v5, events <- v6, sent <- v7,
    files <- v8

Call == INSTANCE Names WITH
    Post <- SlackPost, Proc <- Namer, Token <- SlackToken, MaxRuns <- NameRuns,
    upstream <- v1, rows <- v2, stored <- v3, run <- v4, used <- v5

Walk == INSTANCE Graph WITH
    Timed <- Dated, Calls <- GraphAsks, MaxChanges <- GraphChanges,
    links <- v1, moment <- v2, call <- v3, walk <- v4, items <- v5, ever <- v6, stay <- v7,
    touched <- v8, changes <- v9

ASSUME DeskAssumption ==
    /\ Casc!CascadeConstants /\ Skil!SkillsConstants /\ Conf!SetupConstants
    /\ Placed \subseteq Skil!Bodies
    /\ Push!DigestConstants /\ Find!SearchConstants /\ Embd!EmbedCallConstants
    /\ Pass!ScanConstants /\ Disc!DiscoveryConstants /\ Keep!VaultConstants
    /\ Tool!WriteToolsConstants /\ Call!NamesConstants /\ Walk!GraphConstants

Unused == "unused"

DeskInit ==
    \/ part = "cascade" /\ Casc!Init /\ v8 = Unused /\ v9 = Unused /\ v10 = Unused
    \/ part = "skills" /\ Skil!Init
    \/ part = "setup" /\ Conf!Init
    \/ part = "digest" /\ Push!Init /\ v10 = Unused
    \/ part = "search" /\ Find!Init
    \/ part = "embed" /\ Embd!Init /\ v10 = Unused
    \/ part = "scan" /\ Pass!Init /\ v10 = Unused
    \/ part = "discovery" /\ Disc!Init /\ v9 = Unused /\ v10 = Unused
    \/ part = "vault" /\ Keep!Init /\ v9 = Unused /\ v10 = Unused
    \/ part = "tools" /\ Tool!Init /\ v9 = Unused /\ v10 = Unused
    \/ part = "names" /\ Call!Init
          /\ v6 = Unused /\ v7 = Unused /\ v8 = Unused /\ v9 = Unused /\ v10 = Unused
    \/ part = "graph" /\ Walk!Init /\ v10 = Unused

-----------------------------------------------------------------------------
\* The steps of each part.

Hosts == (SUBSET Host) \ {{}}

CascadeSteps ==
    \/ Of("cascade") /\ \E e \in Entity : Casc!Generate(e) /\ UNCHANGED from7
    \/ Of("cascade") /\ \E e \in Entity : Casc!Write(e) /\ UNCHANGED from7
    \/ Of("cascade") /\ \E e \in Entity : Casc!inboxTriage(e) /\ UNCHANGED from7
    \/ Of("cascade") /\ \E e \in Entity, s \in Source : Casc!linkAdd(e, s) /\ UNCHANGED from7
    \/ Of("cascade") /\ \E e \in Entity, s \in Source :
          Casc!linkRemove(e, s) /\ UNCHANGED from7
    \/ Of("cascade") /\ \E s \in Source, b \in BOOLEAN : Casc!Ask(s, b) /\ UNCHANGED from7
    \/ Of("cascade") /\ \E s \in Source, b \in BOOLEAN : Casc!Forget(s, b) /\ UNCHANGED from7
    \/ Of("cascade") /\ \E s \in Source, b \in BOOLEAN : Casc!Decline(s, b) /\ UNCHANGED from7
    \/ Of("cascade") /\ Casc!Rebuild /\ UNCHANGED from7

SkillsSteps ==
    \/ Of("skills") /\ \E h \in Hosts, force \in BOOLEAN : Skil!Install(h, force)
    \/ Of("skills") /\ \E h \in Hosts : Skil!Prune(h)
    \/ Of("skills") /\ Skil!Mirror
    \/ Of("skills") /\ Skil!WriteStamp
    \/ Of("skills") /\ Skil!Remove
    \/ Of("skills") /\ Skil!Unclaim
    \/ Of("skills") /\ Skil!Crash
    \/ Of("skills") /\ Skil!CrashInMirror
    \/ Of("skills") /\ Skil!CrashInStamp
    \/ Of("skills") /\ \E p \in Name \X Host, body \in {"absent", "mine"} \union Placed :
          Skil!Edit(p, body)
    \/ Of("skills") /\ \E v \in Skil!Versions : Skil!Upgrade(v)

SetupSteps ==
    \/ Of("setup") /\ \E c \in Conf!Conn, a \in Conf!Account \union {Conf!Flat} : Conf!Start(c, a)
    \/ Of("setup") /\ Conf!Token
    \/ Of("setup") /\ Conf!Quit
    \/ Of("setup") /\ Conf!Append
    \/ Of("setup") /\ Conf!Discovered
    \/ Of("setup") /\ Conf!Suggest
    \/ Of("setup") /\ Conf!Confirm
    \/ Of("setup") /\ \E ch \in Channel : Conf!Unfollow(ch)
    \/ Of("setup") /\ \E ch \in Channel : Conf!Join(ch)
    \/ Of("setup") /\ Conf!Hand
    \/ Of("setup") /\ Conf!Open
    \/ Of("setup") /\ Conf!Close
    \/ Of("setup") /\ \E a \in Conf!Account : Conf!authSet(a)
    \/ Of("setup") /\ Conf!ListCron
    \/ Of("setup") /\ Conf!WriteCron
    \/ Of("setup") /\ Conf!EditCron

DigestSteps ==
    \/ Of("digest") /\ Push!Skip /\ UNCHANGED v10
    \/ Of("digest") /\ Push!deliverToFile /\ UNCHANGED v10
    \/ Of("digest") /\ Push!deliverToOsNotification /\ UNCHANGED v10
    \/ Of("digest") /\ Push!StartDm /\ UNCHANGED v10
    \/ Of("digest") /\ Push!Open /\ UNCHANGED v10
    \/ Of("digest") /\ Push!Post /\ UNCHANGED v10

SearchSteps ==
    \/ Of("search") /\ \E m \in {"fts", "semantic", "hybrid"}, b \in BOOLEAN, limit \in Limits :
          Find!Ask(m, b, limit)
    \/ Of("search") /\ Find!Count
    \/ Of("search") /\ Find!Embedded
    \/ Of("search") /\ Find!Unreachable
    \/ Of("search") /\ Find!Return
    \/ Of("search") /\ Find!Change

EmbedSteps ==
    \/ Of("embed") /\ Embd!Send /\ UNCHANGED v10
    \/ Of("embed") /\ Embd!Headers /\ UNCHANGED v10
    \/ Of("embed") /\ Embd!Answer /\ UNCHANGED v10
    \/ Of("embed") /\ Embd!Reject /\ UNCHANGED v10
    \/ Of("embed") /\ Embd!Break /\ UNCHANGED v10
    \/ Of("embed") /\ Embd!Refuse /\ UNCHANGED v10
    \/ Of("embed") /\ Embd!TimeOut /\ UNCHANGED v10
    \/ Of("embed") /\ Embd!Wake /\ UNCHANGED v10

ScanSteps ==
    \/ Of("scan") /\ \E n \in Pass!Items, field \in {"name", "text", "attrs"} :
          Pass!Edit(n, field) /\ UNCHANGED v10
    \/ Of("scan") /\ \E v \in 0..2 : Pass!Switch(v) /\ UNCHANGED v10
    \/ Of("scan") /\ \E state \in {"extracted", "unsupported", "too_large", "failed"} :
          Pass!Extract(state) /\ UNCHANGED v10
    \/ Of("scan") /\ Pass!Tick /\ UNCHANGED v10
    \/ Of("scan") /\ Pass!Begin /\ UNCHANGED v10
    \/ Of("scan") /\ Pass!ListPage /\ UNCHANGED v10
    \/ Of("scan") /\ Pass!ListFails /\ UNCHANGED v10
    \/ Of("scan") /\ Pass!ReadItem /\ UNCHANGED v10
    \/ Of("scan") /\ Pass!Skip /\ UNCHANGED v10
    \/ Of("scan") /\ Pass!Store /\ UNCHANGED v10
    \/ Of("scan") /\ Pass!RecordRow /\ UNCHANGED v10
    \/ Of("scan") /\ Pass!Kill /\ UNCHANGED v10

DiscoverySteps ==
    \/ Of("discovery") /\ Disc!mintAccessToken /\ UNCHANGED from8
    \/ Of("discovery") /\ Disc!fetchPage /\ UNCHANGED from8
    \/ Of("discovery") /\ Disc!Unreadable /\ UNCHANGED from8
    \/ Of("discovery") /\ Disc!Fails /\ UNCHANGED from8
    \/ Of("discovery") /\ Disc!MissingScope /\ UNCHANGED from8
    \/ Of("discovery") /\ Disc!Report /\ UNCHANGED from8
    \/ Of("discovery") /\ \E p \in {1, 2} \X Disc!Items, level \in 0..2 :
          Disc!Change(p, level) /\ UNCHANGED from8

VaultSteps ==
    \/ Of("vault") /\ \E p \in Opener : Keep!Start(p) /\ UNCHANGED from8
    \/ Of("vault") /\ \E p \in Opener : Keep!SetWal(p) /\ UNCHANGED from8
    \/ Of("vault") /\ \E p \in Opener : Keep!Busy(p) /\ UNCHANGED from8
    \/ Of("vault") /\ \E p \in Opener : Keep!EarlyTables(p) /\ UNCHANGED from8
    \/ Of("vault") /\ \E p \in Opener : Keep!Index(p) /\ UNCHANGED from8
    \/ Of("vault") /\ \E p \in Opener : Keep!LateTables(p) /\ UNCHANGED from8
    \/ Of("vault") /\ \E p \in Opener : Keep!Check(p) /\ UNCHANGED from8
    \/ Of("vault") /\ \E p \in Opener : Keep!Alter(p) /\ UNCHANGED from8
    \/ Of("vault") /\ \E p \in Opener : Keep!restrictDatabaseFiles(p) /\ UNCHANGED from8
    \/ Of("vault") /\ \E p \in Opener : Keep!Append(p) /\ UNCHANGED from8
    \/ Of("vault") /\ \E p \in Opener : Keep!Close(p) /\ UNCHANGED from8
    \/ Of("vault") /\ \E p \in Opener : Keep!Kill(p) /\ UNCHANGED from8
    \/ Of("vault") /\ \E f \in {"sqlite", "tgz"} : Keep!backupStore(f) /\ UNCHANGED from8
    \/ Of("vault") /\ Keep!vacuumInto /\ UNCHANGED from8
    \/ Of("vault") /\ Keep!DiskFull /\ UNCHANGED from8
    \/ Of("vault") /\ Keep!verify /\ UNCHANGED from8
    \/ Of("vault") /\ Keep!tar /\ UNCHANGED from8
    \/ Of("vault") /\ Keep!restrictPath /\ UNCHANGED from8
    \/ Of("vault") /\ Keep!KillBackup /\ UNCHANGED from8
    \/ Of("vault") /\ Keep!Appear /\ UNCHANGED from8

ToolsSteps ==
    \/ Of("tools") /\ Tool!Boot /\ UNCHANGED from8
    \/ Of("tools") /\ Tool!HangUp /\ UNCHANGED from8
    \/ Of("tools") /\ Tool!Kill /\ UNCHANGED from8
    \/ Of("tools") /\ \E c \in Tool!Call, name \in Tools :
          Tool!Ask(c, name) /\ UNCHANGED from8
    \/ Of("tools") /\ \E c \in Tool!Call, name \in Tools :
          Tool!Run(c, name) /\ UNCHANGED from8
    \/ Of("tools") /\ \E c \in Tool!Call, name \in Tools \intersect Tool!Drafts :
          Tool!draftExport(c, name) /\ UNCHANGED from8
    \/ Of("tools") /\ \E c \in Tool!Call, answer \in Tool!Answers :
          Tool!Answer(c, answer) /\ UNCHANGED from8
    \/ Of("tools") /\ \E c \in Tool!Call : Tool!NoAnswer(c) /\ UNCHANGED from8
    \/ Of("tools") /\ \E c \in Tool!Call : Tool!Send(c) /\ UNCHANGED from8
    \/ Of("tools") /\ \E c \in Tool!Call : Tool!Succeed(c) /\ UNCHANGED from8
    \/ Of("tools") /\ \E c \in Tool!Call : Tool!Fail(c) /\ UNCHANGED from8
    \/ Of("tools") /\ \E c \in Tool!Call : Tool!Composed(c) /\ UNCHANGED from8
    \/ Of("tools") /\ \E c \in Tool!Call : Tool!writeFile(c) /\ UNCHANGED from8
    \/ Of("tools") /\ \E c \in Tool!Call : Tool!recordDraft(c) /\ UNCHANGED from8
    \/ Of("tools") /\ \E n \in Suffix : Tool!Appear(n) /\ UNCHANGED from8

NamesSteps ==
    \/ Of("names") /\ \E q \in Namer : Call!BeginSync(q) /\ UNCHANGED from5
    \/ Of("names") /\ \E q \in Namer : Call!FetchItem(q) /\ UNCHANGED from5
    \/ Of("names") /\ \E q \in Namer : Call!Ask(q) /\ UNCHANGED from5
    \/ Of("names") /\ \E q \in Namer : Call!Degrade(q) /\ UNCHANGED from5
    \/ Of("names") /\ \E q \in Namer, edited \in BOOLEAN :
          Call!RecordItem(q, edited) /\ UNCHANGED from5
    \/ Of("names") /\ \E q \in Namer, force \in BOOLEAN :
          Call!backfillSlackNames(q, force) /\ UNCHANGED from5
    \/ Of("names") /\ \E q \in Namer : Call!NextId(q) /\ UNCHANGED from5
    \/ Of("names") /\ \E q \in Namer : Call!RecordId(q) /\ UNCHANGED from5
    \/ Of("names") /\ \E q \in Namer : Call!End(q) /\ UNCHANGED from5
    \/ Of("names") /\ \E x \in Renamed : Call!Rename(x) /\ UNCHANGED from5

GraphSteps ==
    \/ Of("graph") /\ Walk!listLinks /\ UNCHANGED v10
    \/ Of("graph") /\ Walk!Fetch /\ UNCHANGED v10
    \/ Of("graph") /\ Walk!buildActivityTimeline /\ UNCHANGED v10
    \/ Of("graph") /\ \E l \in Linkable : Walk!LinkAdded(l) /\ UNCHANGED v10
    \/ Of("graph") /\ \E l \in Linkable : Walk!LinkRemoved(l) /\ UNCHANGED v10
    \/ Of("graph") /\ \E n \in Dated, m \in {Walk!Unset, [time |-> 9, offset |-> 0]} :
          Walk!Touch(n, m) /\ UNCHANGED v10

DeskNext ==
    \/ CascadeSteps
    \/ SkillsSteps
    \/ SetupSteps
    \/ DigestSteps
    \/ SearchSteps
    \/ EmbedSteps
    \/ ScanSteps
    \/ DiscoverySteps
    \/ VaultSteps
    \/ ToolsSteps
    \/ NamesSteps
    \/ GraphSteps

DeskSpec == DeskInit /\ [][DeskNext]_deskVars
-----------------------------------------------------------------------------
\* The properties, each of the behaviours of its part.

\* Nothing derived from a cascaded source holds text, a rebuild brings none back, and the
\* cascade takes nothing it does not disclose.
CascadeHolds ==
    [][part = "cascade" =>
          /\ Casc!DisclosedStep
          /\ UNCHANGED <<v1, v2, v5>> \/ (Casc!WipedStaysWiped /\ Casc!CascadeReplays)']_deskVars

\* `skills install` and `prune` leave the user's skills alone, and suasor knows the mirrors
\* it wrote (there are none at first).
SkillsApart == [][part = "skills" => Skil!UsersKeptStep /\ Skil!MirrorsKnown']_deskVars

\* A name that is shown was so in the run that recorded it, is not lost, and is found by
\* `slack resolve-names` if a token it tries may ask for it.
NamesKept == [][part = "names" => Call!NamesKeptStep /\ Call!BackfilledStep]_deskVars

\* The writers of config.toml and the crontab take only what they mean to take, and
\* adding an account stops none.
KeepsOthers == [][part = "setup" => Conf!KeepsOthersStep /\ Conf!FirstAccountKeptStep]_deskVars

\* A digest's results are what the user got, and a message to oneself arrives once.
ResultsHonest == part = "digest" => Push!ResultsHonest /\ Push!OneMessage

\* Without `truncated`, every match is there that did not go meanwhile; a hit was in the
\* store when its list was read, and hits of both lists go first.
SearchComplete == part = "search" => Find!SearchComplete /\ Find!FusedInOrder

\* The tools over links tell of what was there, and of all of it unless cut; a timeline has
\* the latest.
GraphHonest == part = "graph" => Walk!WalkHonest /\ Walk!RelatedHonest /\ Walk!TimelineHonest

\* A text gets its own vector or none, and is not lost for its neighbours' sake.
SlotsAligned == part = "embed" => Embd!SlotsAligned /\ Embd!SiblingsKept

\* A row that passes skip is what the service has.
SkippedIsCurrent == part = "scan" => Pass!SkippedIsCurrent

\* What a sweep tells of is so.
DriftHonest == part = "discovery" => Disc!DriftHonest

\* A store that is open is complete and its owner's alone, as far as chmod works; a backup is
\* what it says, and leaves others' files alone.
StoreKept == part = "vault" => Keep!OpenHonest /\ Keep!BackupHonest

\* What is gated happens with consent, as far as the client can give it; drafts replace
\* no file, and are on record.
WritesHonest == part = "tools" => Tool!ConsentKept /\ Tool!DraftsKept
=============================================================================
