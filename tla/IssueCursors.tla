---------------------------- MODULE IssueCursors ----------------------------
(***************************************************************************)
(* The two issue-tracker connectors that resume from a time: GitHub, whose *)
(* repositories share one floor beside a second one for notifications, and *)
(* Jira, whose projects have a floor each.  A pass lists what was updated  *)
(* at or after the floor, page by page; a repository or project that fails *)
(* is left out and the rest goes on; the floors of the next pass are       *)
(* stored at the end.                                                      *)
(*                                                                         *)
(* What recording does to the store is in SourceStore.  Here an item is    *)
(* `stale` as long as its stored version is not the upstream one.  A step  *)
(* is a response and all that is recorded before the next request.         *)
(***************************************************************************)
EXTENDS Naturals, FiniteSets, FiniteSetsExt

CONSTANTS
    Resource,   \* repositories, projects, numbered in the order of the configuration
    Issue,      \* issues and pull requests, numbered
    Comment,    \* Jira's comments
    Thread,     \* GitHub's notification threads, numbered
    ResOf,      \* where each issue and thread belongs
    IssueOf,    \* the issue of each comment
    Start,      \* when what is upstream at first was updated
    Process,    \* the sync processes
    Shared,     \* the axis all repositories share
    PageSize,   \* issues and threads on a page
    MaxTime,    \* bound: the clock, in units of the floors' precision
    MaxEdits,   \* bound: upstream changes
    MaxOps      \* bound: passes, configuration changes, crashes

ASSUME IssueCursorsAssumption ==
    /\ Resource \subseteq Nat
    /\ Issue \subseteq Nat /\ IsFiniteSet(Issue)
    /\ Thread \subseteq Nat /\ IsFiniteSet(Thread)
    /\ Issue \intersect Thread = {}
    /\ Comment \intersect (Issue \union Thread) = {}
    /\ ResOf \in [Issue \union Thread -> Resource]
    /\ IssueOf \in [Comment -> Issue]
    /\ Start \in [Issue \union Comment \union Thread -> 0 .. MaxTime]
    /\ \A c \in Comment : Start[c] > 0 => Start[IssueOf[c]] > 0
    /\ Shared \notin Resource
    /\ PageSize \in Nat \ {0}
    /\ MaxTime \in Nat \ {0}
    /\ MaxEdits \in Nat
    /\ MaxOps \in Nat

VARIABLES
    connector,  \* which of the two it is
    mode,       \* GitHub's notifications setting
    config,     \* the configured repositories or projects
    updated,    \* when each upstream item changed last; 0 before it exists
    stale,      \* the items the store has not in their upstream version
    cursor,     \* the floors in the last ConnectorSyncCompleted; 0 is none
    run,        \* local state of each process's pass
    raced,      \* resources changed upstream while a pass was running
    behind,     \* repositories that a pass which raised the floor did not list
    always,     \* resources that were configured in every pass
    crossed,    \* passes have overlapped
    edits, ops  \* how much of MaxEdits and MaxOps is used

settings == <<connector, mode>>
history == <<raced, behind, always, crossed>>
vars == <<settings, config, updated, stale, cursor, run, history, edits, ops>>

Item == Issue \union Comment \union Thread
Time == 0 .. MaxTime
Axis == Resource \union {Shared}

Floors == [issues : [Axis -> Time], inbox : Time]

\* What is left of a page; an issue that changed since is not fresh.
Entry == [id : Issue, fresh : BOOLEAN]

Pass ==
    [pc     : {"idle", "list", "inbox", "done"},
     full   : BOOLEAN,              \* --full
     config : SUBSET Resource,
     prev   : Floors,               \* what it read at its start
     todo   : SUBSET Resource,      \* the first of them is being listed
     skip   : Nat,                  \* startAt, the page number
     more   : BOOLEAN,              \* the last page said that there are more
     batch  : SUBSET Entry,
     mark   : [Resource -> Time],   \* repoMaxUpdatedAt, highWater
     inbox  : Time,                 \* maxNotificationUpdatedAt
     failed : SUBSET Resource,
     dirty  : SUBSET Resource]      \* changed since its start, or seen by another pass

TypeOK ==
    /\ connector \in {"github", "jira"}
    /\ mode \in {"off", "repos", "all"}
    /\ config \subseteq Resource
    /\ updated \in [Item -> Time]
    /\ stale \subseteq Item
    /\ cursor \in Floors
    /\ run \in [Process -> Pass]
    /\ \A p \in Process :
          /\ run[p].pc = "list" <=> run[p].todo # {}
          /\ run[p].batch # {} => run[p].pc = "list"
    /\ raced \subseteq Resource
    /\ behind \subseteq Resource
    /\ always \subseteq Resource
    /\ crossed \in BOOLEAN
    /\ edits \in 0 .. MaxEdits
    /\ ops \in 0 .. MaxOps

NoFloor == [issues |-> [a \in Axis |-> 0], inbox |-> 0]

Idle ==
    [pc |-> "idle", full |-> FALSE, config |-> {}, prev |-> NoFloor, todo |-> {},
     skip |-> 0, more |-> FALSE, batch |-> {}, mark |-> [r \in Resource |-> 0],
     inbox |-> 0, failed |-> {}, dirty |-> {}]

Init ==
    /\ connector \in {"github", "jira"}
    /\ mode \in {"off", "repos", "all"}
    /\ connector = "jira" => mode = "off"
    /\ config \in (SUBSET Resource) \ {{}}
    /\ updated = [i \in Item |-> IF connector = "github" /\ i \in Comment THEN 0 ELSE Start[i]]
    /\ stale = {i \in Item : updated[i] > 0}
    /\ cursor = NoFloor
    /\ run = [p \in Process |-> Idle]
    /\ raced = {}
    /\ behind = {}
    /\ always = Resource
    /\ crossed = FALSE
    /\ edits = 0
    /\ ops = 0
-----------------------------------------------------------------------------
(***************************************************************************)
(* The services.  Items come and change; a comment touches its issue.      *)
(***************************************************************************)

Running(p) == run[p].pc # "idle"

\* The time of the last change.
Now == Max({1} \union {updated[i] : i \in Item})

\* Items of a resource change, in the same unit of time as the last change or later.
Change(items, r) ==
    /\ edits < MaxEdits
    /\ edits' = edits + 1
    /\ \E now \in {Now, Now + 1} \intersect Time :
          updated' = [i \in Item |-> IF i \in items THEN now ELSE updated[i]]
    /\ stale' = stale \union items
    /\ run' = [p \in Process |->
                 IF Running(p)
                 THEN [run[p] EXCEPT
                         !.dirty = @ \union {r},
                         !.batch = {[e EXCEPT !.fresh = @ /\ e.id \notin items] : e \in @}]
                 ELSE run[p]]
    /\ raced' = IF \E p \in Process : Running(p) THEN raced \union {r} ELSE raced
    /\ UNCHANGED <<settings, config, cursor, behind, always, crossed, ops>>

EditIssue(i) == Change({i}, ResOf[i])

EditComment(c) ==
    /\ connector = "jira"
    /\ updated[IssueOf[c]] > 0
    /\ Change({c, IssueOf[c]}, ResOf[IssueOf[c]])

EditThread(n) == mode # "off" /\ Change({n}, ResOf[n])

There(S) == {i \in S : updated[i] > 0}

\* Mutant: `updated >` in place of `updated >=`.
ListedAfter(r, floor) ==
    {i \in There(Issue) : ResOf[i] = r /\ (floor = 0 \/ updated[i] > floor)}

\* What a request for a resource with this floor asks for.
Listed(r, floor) == {i \in There(Issue) : ResOf[i] = r /\ updated[i] >= floor}

ListedThreads(floor) == {n \in There(Thread) : updated[n] >= floor}

Before(i, j) == updated[i] < updated[j] \/ (updated[i] = updated[j] /\ i < j)

\* The page after the first `skip` items, in the order of update or its reverse.
Page(S, skip) ==
    {i \in S : Cardinality({j \in S : Before(j, i)}) \in skip .. skip + PageSize - 1}

PageDesc(S, skip) ==
    {i \in S : Cardinality({j \in S : Before(i, j)}) \in skip .. skip + PageSize - 1}

Latest(t, ids) == Max({t} \union {updated[i] : i \in ids})
-----------------------------------------------------------------------------
(***************************************************************************)
(* A pass.                                                                 *)
(***************************************************************************)

Spend == ops < MaxOps /\ ops' = ops + 1

Local == <<settings, config, updated, cursor, history, edits, ops>>

AxisOf(r) == IF connector = "github" THEN Shared ELSE r

\* The cursor is read once; --full reads none.
Begin(p, full) ==
    LET prev   == IF full THEN NoFloor ELSE cursor
        others == {q \in Process : Running(q)}
    IN
    /\ ~Running(p)
    /\ Spend
    /\ run' = [q \in Process |->
                 IF q = p
                 THEN [Idle EXCEPT !.pc = "list", !.full = full, !.config = config,
                                   !.prev = prev, !.todo = config, !.inbox = prev.inbox,
                                   !.dirty = IF others = {} THEN {} ELSE Resource]
                 ELSE IF q \in others THEN [run[q] EXCEPT !.dirty = Resource]
                 ELSE run[q]]
    /\ crossed' = (crossed \/ others # {})
    /\ UNCHANGED <<settings, config, updated, stale, cursor, raced, behind, always, edits>>

\* The resource being listed.
Current(u) == Min(u.todo)

\* On to the next resource, or, behind the last one, to the notifications.
NextResource(u) ==
    LET left == u.todo \ {Current(u)} IN
    [u EXCEPT !.todo = left, !.skip = 0, !.batch = {},
              !.more = left = {} /\ mode # "off",
              !.pc = IF left # {} THEN "list" ELSE IF mode # "off" THEN "inbox" ELSE "done"]

\* ... once nothing of this one is left to record or to ask for.
Through(u) == IF u.batch = {} /\ ~u.more THEN NextResource(u) ELSE u

\* The next page of the resource.  GitHub records it all; Jira has it to go through.
ListPage(p) ==
    LET u    == run[p]
        r    == Current(u)
        all  == Listed(r, u.prev.issues[AxisOf(r)])
        page == Page(all, u.skip)
        next == u.skip + Cardinality(page)
    IN  /\ u.pc = "list"
        /\ u.batch = {}
        /\ run' = [run EXCEPT ![p] = Through([u EXCEPT
                     !.skip = next,
                     !.more = page # {} /\ next < Cardinality(all),
                     !.mark[r] = Latest(@, page),
                     !.batch = IF connector = "github" THEN {}
                               ELSE {[id |-> i, fresh |-> TRUE] : i \in page}])]
        /\ stale' = IF connector = "github" THEN stale \ page ELSE stale
        /\ UNCHANGED Local

\* An issue that has changed since it was listed is stored as it was then.
Stored(e) == IF e.fresh THEN stale \ {e.id} ELSE stale \union {e.id}

\* Jira records an issue, then asks for its comments, whose times raise the mark, too.
RecordIssue(p, e) ==
    LET u  == run[p]
        cs == {c \in There(Comment) : IssueOf[c] = e.id}
    IN  /\ e \in u.batch
        /\ stale' = Stored(e) \ cs
        /\ run' = [run EXCEPT ![p] = Through([u EXCEPT
                     !.batch = @ \ {e}, !.mark[Current(u)] = Latest(@, cs)])]
        /\ UNCHANGED Local

AllFailed(u) == u.failed = u.config

\* A request fails for good, for a page or for the comments of an issue that is stored
\* already.  The resource has failed and the next one is taken up; if it was the last
\* one and all have failed, the pass throws and no cursor is stored.
ResourceFails(p) ==
    LET u == [run[p] EXCEPT !.failed = @ \union {Current(run[p])}] IN
    /\ run[p].pc = "list"
    /\ run' = [run EXCEPT ![p] = IF AllFailed(u) THEN Idle ELSE NextResource(u)]
    /\ \/ UNCHANGED stale
       \/ \E e \in u.batch : stale' = Stored(e)
    /\ UNCHANGED Local

Allowed(u, n) == mode = "all" \/ ResOf[n] \in u.config

\* Threads come newest first; those of other repositories raise the mark all the same.
InboxPage(p) ==
    LET u    == run[p]
        all  == ListedThreads(u.prev.inbox)
        page == PageDesc(all, u.skip)
        next == u.skip + Cardinality(page)
        more == page # {} /\ next < Cardinality(all)
    IN  /\ u.pc = "inbox"
        /\ run' = [run EXCEPT ![p] = [u EXCEPT
                     !.skip = next, !.more = more, !.inbox = Latest(@, page),
                     !.pc = IF more THEN "inbox" ELSE "done"]]
        /\ stale' = stale \ {n \in page : Allowed(u, n)}
        /\ UNCHANGED Local

\* A notifications request has no isolation: the pass throws.
InboxFails(p) ==
    /\ run[p].pc = "inbox"
    /\ run' = [run EXCEPT ![p] = Idle]
    /\ UNCHANGED <<stale, Local>>
-----------------------------------------------------------------------------
Ok(u) == u.config \ u.failed

\* Projects that left the configuration lose their floor; a failed one keeps it.
JiraFloor(u, r) ==
    IF r \notin u.config THEN 0
    ELSE IF r \in u.failed THEN u.prev.issues[r]
    ELSE Max({u.prev.issues[r], u.mark[r]})

\* Mutant: one floor for both axes.
GithubFloorsJoined(u) ==
    LET top == Max({u.prev.issues[Shared], u.inbox} \union {u.mark[r] : r \in Ok(u)})
    IN  [issues |-> [u.prev.issues EXCEPT ![Shared] = top], inbox |-> top]

\* The shared floor is the latest update of any repository that was listed to its end.
GithubFloors(u) ==
    [issues |-> [u.prev.issues EXCEPT ![Shared] =
                   Max({@} \union {u.mark[r] : r \in Ok(u)})],
     inbox  |-> u.inbox]

NextFloors(u) ==
    IF connector = "github" THEN GithubFloors(u)
    ELSE [issues |-> [a \in Axis |-> IF a = Shared THEN 0 ELSE JiraFloor(u, a)], inbox |-> 0]

\* What a full pass that nothing disturbed has caught up with.
Healed(p) == IF run[p].full THEN Ok(run[p]) \ run[p].dirty ELSE {}

\* finalize and ConnectorSyncCompleted.
Finish(p) ==
    LET u      == run[p]
        raised == NextFloors(u).issues[Shared] > u.prev.issues[Shared]
    IN  /\ u.pc = "done"
        /\ cursor' = NextFloors(u)
        /\ run' = [run EXCEPT ![p] = Idle]
        /\ raced' = raced \ Healed(p)
        /\ behind' = (behind \union IF raised THEN Resource \ Ok(u) ELSE {}) \ Healed(p)
        /\ always' = always \intersect u.config
        /\ UNCHANGED <<settings, config, updated, stale, crossed, edits, ops>>

Die(p) ==
    /\ Running(p)
    /\ Spend
    /\ run' = [run EXCEPT ![p] = Idle]
    /\ UNCHANGED <<settings, config, updated, stale, cursor, history, edits>>

\* The operator edits the configuration; running passes keep what they loaded.
Reconfigure(C) ==
    /\ C # config
    /\ Spend
    /\ config' = C
    /\ UNCHANGED <<settings, updated, stale, cursor, run, history, edits>>
-----------------------------------------------------------------------------
PassStep(p) ==
    \/ ListPage(p)
    \/ \E e \in run[p].batch : RecordIssue(p, e)
    \/ ResourceFails(p)
    \/ InboxPage(p)
    \/ InboxFails(p)
    \/ Finish(p)

Next ==
    \/ \E i \in Issue : EditIssue(i)
    \/ \E c \in Comment : EditComment(c)
    \/ \E n \in Thread : EditThread(n)
    \/ \E p \in Process : (\E full \in BOOLEAN : Begin(p, full)) \/ PassStep(p) \/ Die(p)
    \/ \E C \in (SUBSET Resource) \ {{}} : Reconfigure(C)

Spec == Init /\ [][Next]_vars
-----------------------------------------------------------------------------
(***************************************************************************)
(* Properties.                                                             *)
(***************************************************************************)

IssueItself(i) == IF i \in Comment THEN IssueOf[i] ELSE i

\* The next pass that reaches the resource lists the issue, or the comment's issue.
WillBeListed(i) ==
    LET r == ResOf[IssueItself(i)]
    IN  IssueItself(i) \in Listed(r, cursor.issues[AxisOf(r)])

\* Nothing is skipped for ever (github.ts:228-236, jira.ts:328-335): whatever failed,
\* crashed, overlapped or left and re-entered the configuration, what the store does
\* not have will be listed again.  Not so for resources that changed while a pass was
\* running, nor for a repository that was not listed when the others raised the
\* shared floor; a full pass that nothing disturbs brings both back.
NothingSkipped ==
    \A i \in stale \ Thread :
        ResOf[IssueItself(i)] \notin raced \union behind => WillBeListed(i)

\* No notification is skipped, changes in the middle of a pass included, as long as
\* passes do not overlap and its repository is allowed all the time.
NotificationsKept ==
    \A n \in stale \intersect Thread :
        ~crossed /\ (mode = "all" \/ ResOf[n] \in always)
            => n \in ListedThreads(cursor.inbox)
=============================================================================
