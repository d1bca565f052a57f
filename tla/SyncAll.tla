------------------------------ MODULE SyncAll ------------------------------
(***************************************************************************)
(* `suasor sync`: a bulk run of every enabled connector by a bounded pool  *)
(* of workers, next to a `suasor <connector> sync` of another process.     *)
(*                                                                         *)
(* A pass is the connector's own nest of loops (accounts, units of an      *)
(* account, pages of a unit) with an isolation layer for each: a unit or   *)
(* an account that fails is left behind and the rest is read.  A pass      *)
(* writes every item as it comes, and its run is kept in sync_runs, which  *)
(* `sync status`, `doctor` and `brief` read the freshness of a connector   *)
(* from.  The upstream does not change here; the passes of SourceStore do  *)
(* that.                                                                   *)
(***************************************************************************)
EXTENDS Naturals, Sequences, FiniteSets, SequencesExt

CONSTANTS
  Scenarios,    \* a sequence of configurations, see ScenarioOK
  Contents,     \* the items a resource, calendar, folder, url or root lists
  Workers,      \* the bulk run's pool at its largest, 1..n
  Concurrencies,\* values of --concurrency
  MaxLaunches,  \* bound: processes started in a behaviour
  Threshold     \* hours after which a run is stale

Kinds == {"google", "ms-graph", "box", "notion", "web", "local"}
Cli == 0
Procs == Workers \union {Cli}
None == "none"
AgeLimit == Threshold + 1       \* ages are counted up to here
NeverRan == AgeLimit + 1

\* A scenario: the connectors with a slice, in registry order; of each its
\* kind and its accounts; the build, the ones that are off, that may hang,
\* what --connector may name, what another process may sync.
ScenarioOK(s) ==
  /\ Range(s.names) = DOMAIN s.kind /\ DOMAIN s.accounts = DOMAIN s.kind
  /\ \A n \in DOMAIN s.kind : s.kind[n] \in Kinds
  /\ s.binary \in BOOLEAN /\ s.off \subseteq DOMAIN s.kind
  /\ s.hung \subseteq DOMAIN s.kind /\ s.requests \subseteq SUBSET DOMAIN s.kind
  /\ s.others \subseteq DOMAIN s.kind

VARIABLES
  setup,    \* the scenario, fixed
  accounts, \* of each connector the accounts it is built with, fixed
  job,      \* the bulk run: names, workers asked for and started, failFast,
            \* the next unclaimed index
  slots,    \* its entries, one per name
  manual,   \* the entry of the last `suasor <connector> sync`
  proc,     \* the pass each worker, and the other process, is in
  store,    \* sources: external id to the copy stored
  syncRuns, \* sync_runs: connector to its row
  good,     \* history: hours since a run of the connector last ended well
  launches  \* processes started

fixed == <<setup, accounts>>
syncVars == <<setup, accounts, job, slots, manual, proc, store, syncRuns, good, launches>>

Names == DOMAIN setup.kind
Kind(n) == setup.kind[n]

----------------------------------------------------------------------------
(* What a connector reads: its accounts and the units of each.             *)

Unit(resource, calendar, namespace) ==
  [resource |-> resource, calendar |-> calendar, namespace |-> namespace]
PlainUnit(resource) == Unit(resource, None, None)

\* Blank calendar ids and repeats of one are dropped.
CalendarIds(a) ==
  SelectSeq([i \in DOMAIN a.calendars |->
               IF \E j \in 1..(i - 1) : a.calendars[j] = a.calendars[i]
               THEN "" ELSE a.calendars[i]],
            LAMBDA id : id # "")

\* The id of a calendar is in the ids of its events once several are read.
CalendarUnits(a) ==
  LET ids == CalendarIds(a)
  IN [i \in DOMAIN ids |->
        Unit("calendar", ids[i], IF Len(ids) > 1 THEN ids[i] ELSE None)]

GoogleUnits(a) ==
  FlattenSeq([i \in DOMAIN a.scope |->
                IF a.scope[i] = "calendar" THEN CalendarUnits(a)
                ELSE <<PlainUnit(a.scope[i])>>])

PlainUnits(a) == [i \in DOMAIN a.scope |-> PlainUnit(a.scope[i])]

Resolved(kind, a) ==
  [name |-> a.name, secret |-> a.secret, settings |-> a.settings,
   units |-> IF kind = "google" THEN GoogleUnits(a) ELSE PlainUnits(a)]

\* An account that ingests nothing is left out of the pass.
ActiveAccounts(kind, configured) ==
  LET active == SelectSeq(configured, LAMBDA a : a.scope # <<>>)
  IN [i \in DOMAIN active |-> Resolved(kind, active[i])]

Items(u) == Contents[IF u.calendar = None THEN u.resource ELSE u.calendar]

BundledInBinary == {"notion", "local"}

\* The enabled connectors, in registry order; those of --connector; those the
\* standalone binary can run.
Selected(s, request) ==
  SelectSeq(s.names,
            LAMBDA n : /\ n \notin s.off /\ n \in request
                       /\ s.binary => s.kind[n] \in BundledInBinary)

IsSequence(q) == Len(q) \in Nat /\ DOMAIN q = 1..Len(q)

\* The accounts a connector is built with: a table has each name once, and an
\* account each calendar, told apart by its namespace.  Every unit lists
\* something here; an account may have none ("calendarIds = []").
ManyAccounts == {"google", "ms-graph", "box"}
AccountsOK(kind, as) ==
  /\ IsSequence(as)
  /\ kind \notin ManyAccounts => Len(as) <= 1
  /\ \A i, j \in DOMAIN as : as[i].name = as[j].name => i = j
  /\ \A i \in DOMAIN as :
       /\ as[i].secret \in BOOLEAN /\ as[i].settings \in BOOLEAN
       /\ as[i].name # None /\ IsSequence(as[i].units)
       /\ \A k \in DOMAIN as[i].units :
            /\ IsSequence(Items(as[i].units[k])) /\ Len(Items(as[i].units[k])) > 0
            /\ kind # "google" => as[i].units[k].calendar = None
       /\ \A k, l \in DOMAIN as[i].units :
            /\ as[i].units[k].resource = as[i].units[l].resource
            /\ as[i].units[k].namespace = as[i].units[l].namespace
            => as[i].units[k].calendar = as[i].units[l].calendar

\* What the filters over a configuration yield.
ResolvedOK(s) ==
  /\ \A n \in DOMAIN s.kind :
       AccountsOK(s.kind[n], ActiveAccounts(s.kind[n], s.accounts[n]))
  /\ \A request \in s.requests : Selected(s, request) \in Seq(DOMAIN s.kind)

ASSUME SyncAssumption ==
  /\ \A i \in DOMAIN Scenarios : ScenarioOK(Scenarios[i]) /\ ResolvedOK(Scenarios[i])
  /\ IsFiniteSet(Workers) /\ Workers = 1..Cardinality(Workers)
  /\ Concurrencies \subseteq Nat /\ MaxLaunches \in Nat /\ Threshold \in Nat

AccountPrefix(a) == IF a.name = "default" THEN None ELSE a.name

GoogleId(n, a, u, x) == <<n, AccountPrefix(a), u.resource, u.namespace, x>>
GraphId(n, a, u, x) == <<n, AccountPrefix(a), u.resource, None, x>>
BoxId(n, a, u, x) == <<n, AccountPrefix(a), "file", None, x>>
NotionId(n, a, u, x) ==
  <<n, None, IF u.resource = "pages" THEN "page" ELSE u.resource, None, x>>
PlaceId(n, a, u, x) == <<n, None, None, None, x>>   \* of a url or a path

ExternalId(n, a, u, x) ==
  CASE Kind(n) = "google"   -> GoogleId(n, a, u, x)
    [] Kind(n) = "ms-graph" -> GraphId(n, a, u, x)
    [] Kind(n) = "box"      -> BoxId(n, a, u, x)
    [] Kind(n) = "notion"   -> NotionId(n, a, u, x)
    [] OTHER                -> PlaceId(n, a, u, x)

\* A mailbox's or a calendar's copy of an item has its own text; a file, a
\* page, a url has one wherever it is listed.
Copy(n, a, u, x) ==
  IF Kind(n) \in {"google", "ms-graph"}
  THEN <<a.name, u.resource, u.calendar, x>> ELSE <<x>>

\* A central check: some secret of the connector, of any account, resolves.
NeedsSecret(n) == Kind(n) \notin {"web", "local"}
Authorised(n) ==
  NeedsSecret(n) =>
    \E i \in DOMAIN setup.accounts[n] : setup.accounts[n][i].secret

----------------------------------------------------------------------------
(* sync_runs and the freshness read from it.                               *)

Row(status, ended) == [status |-> status, ended |-> ended, age |-> 0]

RunStarted(n) == syncRuns' = [syncRuns EXCEPT ![n] = Row("running", FALSE)]

\* The row of the connector, whichever run it was showing.
RunEnded(n, status) ==
  /\ syncRuns' = [syncRuns EXCEPT ![n] = Row(status, TRUE)]
  /\ good' = [good EXCEPT ![n] = IF status = "error" THEN @ ELSE 0]

NoRow == Row("absent", FALSE)

\* Mutant: a run counts whatever came of it.
FreshnessOfAny(n) ==
  CASE ~syncRuns[n].ended -> "never"
    [] OTHER -> IF syncRuns[n].age > Threshold THEN "stale" ELSE "ok"

Freshness(n) ==
  CASE ~syncRuns[n].ended           -> "never"
    [] syncRuns[n].status = "error" -> "failing"
    [] OTHER -> IF syncRuns[n].age > Threshold THEN "stale" ELSE "ok"

----------------------------------------------------------------------------
(* A pass.                                                                 *)

Idle == [name |-> None]

\* at: account, unit and page being read, unit 0 before the account's
\* precheck.  bad: units of this account that failed.
NewPass(n, index) ==
  [name |-> n, index |-> index, stage |-> "load", acct |-> 1, unit |-> 0,
   page |-> 1, bad |-> 0, partial |-> FALSE, outcomes |-> <<>>,
   read |-> {}]

Busy(p) == proc[p] # Idle
In(p, stage) == Busy(p) /\ proc[p].stage = stage

Account(p) == accounts[proc[p].name][proc[p].acct]
UnitsOf(p) == Account(p).units
UnitAt(p) == UnitsOf(p)[proc[p].unit]
Scanning(p) ==
  /\ In(p, "scan") /\ Authorised(proc[p].name)
  /\ proc[p].acct \in 1..Len(accounts[proc[p].name])

\* Every unit the connector is configured to read, by account and place.
Scope(n) == UNION {{<<i, j>> : j \in DOMAIN accounts[n][i].units} :
                   i \in DOMAIN accounts[n]}

Entry(p, ok, thrown) ==
  [name |-> proc[p].name, ok |-> ok, thrown |-> thrown, read |-> proc[p].read]
Empty == [name |-> None]

\* Where the result of a pass goes.  A fail-fast run stops at a failure.
Settle(p, entry) ==
  /\ proc' = [proc EXCEPT ![p] = Idle]
  /\ IF p = Cli THEN manual' = entry /\ UNCHANGED <<slots, job>>
     ELSE /\ slots' = [slots EXCEPT ![proc[p].index] = entry]
          /\ job' = IF job.failFast /\ ~entry.ok
                    THEN [job EXCEPT !.next = Len(job.names) + 1] ELSE job
          /\ UNCHANGED manual

\* A pass that throws: an errored run, no counts.
Throw(p) ==
  /\ RunEnded(proc[p].name, "error")
  /\ Settle(p, Entry(p, FALSE, TRUE))

\* The connector cannot be built: nothing of the run is recorded.
LoadFails(p) ==
  /\ In(p, "load")
  /\ Settle(p, Entry(p, FALSE, TRUE))
  /\ UNCHANGED <<fixed, store, syncRuns, good, launches>>

Begin(p) ==
  /\ In(p, "load")
  /\ RunStarted(proc[p].name)
  /\ proc' = [proc EXCEPT ![p].stage = "scan"]
  /\ UNCHANGED <<fixed, job, slots, manual, store, good, launches>>

CredentialMissing(p) ==
  /\ In(p, "scan") /\ ~Authorised(proc[p].name)
  /\ Throw(p)
  /\ UNCHANGED <<fixed, store, launches>>

NextAccount(pass, outcome) ==
  [pass EXCEPT !.acct = @ + 1, !.unit = 0, !.page = 1, !.bad = 0,
               !.outcomes = Append(@, outcome)]

\* An account without a secret is skipped; one whose settings cannot address
\* its API throws before its first request.
EnterAccount(p) ==
  /\ Scanning(p) /\ proc[p].unit = 0
  /\ proc' = [proc EXCEPT ![p] =
       IF NeedsSecret(@.name) /\ ~Account(p).secret THEN NextAccount(@, "skipped")
       ELSE IF ~Account(p).settings THEN NextAccount(@, "failed")
       ELSE [@ EXCEPT !.unit = 1]]
  /\ UNCHANGED <<fixed, job, slots, manual, store, syncRuns, good, launches>>

NextPage(pass, pages) ==
  IF pass.page < pages THEN [pass EXCEPT !.page = @ + 1]
  ELSE [pass EXCEPT !.unit = @ + 1, !.page = 1]

\* A page of a unit, one item: it is written as it comes, unless the store
\* holds this copy.
FetchPage(p) ==
  /\ Scanning(p) /\ proc[p].unit \in 1..Len(UnitsOf(p))
  /\ LET n == proc[p].name
         x == Items(UnitAt(p))[proc[p].page]
         id == ExternalId(n, Account(p), UnitAt(p), x)
     IN store' = [i \in DOMAIN store \union {id} |->
                    IF i = id THEN Copy(n, Account(p), UnitAt(p), x) ELSE store[i]]
  /\ proc' = [proc EXCEPT ![p] =
       [NextPage(proc[p], Len(Items(UnitAt(p)))) EXCEPT
          !.read = @ \union {<<proc[p].acct, proc[p].unit, proc[p].page>>}]]
  /\ UNCHANGED <<fixed, job, slots, manual, syncRuns, good, launches>>

FailedUnit(pass) == [pass EXCEPT !.unit = @ + 1, !.page = 1, !.bad = @ + 1]

\* A unit fails at some page.  It is left behind; a url has nothing to
\* isolate it, and fails the pass.
UnitFails(p) ==
  /\ Scanning(p) /\ proc[p].unit \in 1..Len(UnitsOf(p))
  /\ Kind(proc[p].name) \notin {"web", "local"}
  /\ proc' = [proc EXCEPT ![p] = FailedUnit(@)]
  /\ UNCHANGED <<fixed, job, slots, manual, store, syncRuns, good, launches>>

SnapshotFails(p) ==
  /\ Scanning(p) /\ proc[p].unit \in 1..Len(UnitsOf(p))
  /\ Kind(proc[p].name) = "web"
  /\ Throw(p)
  /\ UNCHANGED <<fixed, store, launches>>

\* A root, a directory or a file that cannot be read is warned about, and the
\* walk goes on behind it.
RootUnreadable(p) ==
  /\ Scanning(p) /\ proc[p].unit \in 1..Len(UnitsOf(p)) /\ proc[p].page = 1
  /\ Kind(proc[p].name) = "local"
  /\ proc' = [proc EXCEPT ![p].unit = @ + 1]
  /\ UNCHANGED <<fixed, job, slots, manual, store, syncRuns, good, launches>>

EntryUnreadable(p) ==
  /\ Scanning(p) /\ proc[p].unit \in 1..Len(UnitsOf(p))
  /\ Kind(proc[p].name) = "local"
  /\ proc' = [proc EXCEPT ![p] = NextPage(@, Len(Items(UnitAt(p))))]
  /\ UNCHANGED <<fixed, job, slots, manual, store, syncRuns, good, launches>>

\* All units of an account failed: the account did.
AccountOutcome(pass, units) ==
  IF units > 0 /\ pass.bad = units THEN "failed" ELSE "ok"

LeaveAccount(p) ==
  /\ Scanning(p) /\ proc[p].unit = Len(UnitsOf(p)) + 1
  /\ LET outcome == AccountOutcome(proc[p], Len(UnitsOf(p)))
     IN proc' = [proc EXCEPT ![p] =
          [NextAccount(proc[p], outcome) EXCEPT
             !.partial = @ \/ (outcome = "ok" /\ proc[p].bad > 0)]]
  /\ UNCHANGED <<fixed, job, slots, manual, store, syncRuns, good, launches>>

\* No account could be read.
AllLost(outcomes) == outcomes # <<>> /\ "ok" \notin Range(outcomes)

\* Mutant: the inner layer's failures are forgotten.
DegradedOutside(pass) == \E o \in Range(pass.outcomes) : o # "ok"

Degraded(pass) == pass.partial \/ \E o \in Range(pass.outcomes) : o # "ok"

PassEnds(p) ==
  /\ In(p, "scan") /\ Authorised(proc[p].name)
  /\ proc[p].acct = Len(accounts[proc[p].name]) + 1
  /\ IF AllLost(proc[p].outcomes) THEN Throw(p)
     ELSE /\ RunEnded(proc[p].name, IF Degraded(proc[p]) THEN "partial" ELSE "ok")
          /\ Settle(p, Entry(p, ~Degraded(proc[p]), FALSE))
  /\ UNCHANGED <<fixed, store, launches>>

Scan(p) == \/ EnterAccount(p) \/ FetchPage(p) \/ UnitFails(p)
           \/ SnapshotFails(p) \/ RootUnreadable(p) \/ EntryUnreadable(p)
           \/ LeaveAccount(p) \/ PassEnds(p)
Step(p) == LoadFails(p) \/ Begin(p) \/ CredentialMissing(p) \/ Scan(p)

----------------------------------------------------------------------------
(* The commands.                                                           *)

NoJob == [phase |-> "idle", names |-> <<>>, asked |-> 0, pool |-> 0,
          failFast |-> FALSE, next |-> 1]

Smaller(a, b) == IF a < b THEN a ELSE b

\* Mutant: one worker whatever is asked.
ResolveToOne(count, requested) == 1

ResolveConcurrency(count, requested) ==
  Smaller(IF requested > 0 THEN requested ELSE 1, count)

\* `suasor sync`.  A name that is not enabled is refused; with nothing left
\* to run it exits 0.
Launch(request, requested, failFast) ==
  /\ job.phase = "idle" /\ launches < MaxLaunches
  /\ request \intersect setup.off = {} /\ Selected(setup, request) # <<>>
  /\ LET names == Selected(setup, request)
     IN /\ job' = [phase |-> "running", names |-> names, asked |-> requested,
                   failFast |-> failFast, pool |-> IF failFast THEN 1
                            ELSE ResolveConcurrency(Len(names), requested),
                   next |-> 1]
        /\ slots' = [i \in DOMAIN names |-> Empty]
  /\ launches' = launches + 1
  /\ UNCHANGED <<fixed, manual, proc, store, syncRuns, good>>

\* An idle worker claims the next index.
Claim(w) ==
  /\ job.phase = "running" /\ w <= job.pool /\ ~Busy(w)
  /\ job.next <= Len(job.names)
  /\ proc' = [proc EXCEPT ![w] = NewPass(job.names[job.next], job.next)]
  /\ job' = [job EXCEPT !.next = @ + 1]
  /\ UNCHANGED <<fixed, slots, manual, store, syncRuns, good, launches>>

\* All workers are through.
Report ==
  /\ job.phase = "running" /\ job.next > Len(job.names)
  /\ \A w \in Workers : ~Busy(w)
  /\ job' = [job EXCEPT !.phase = "idle"]
  /\ UNCHANGED <<fixed, slots, manual, proc, store, syncRuns, good, launches>>

\* `suasor <connector> sync`, in a process of its own.
LaunchManual(n) ==
  /\ ~Busy(Cli) /\ launches < MaxLaunches
  /\ proc' = [proc EXCEPT ![Cli] = NewPass(n, 1)]
  /\ launches' = launches + 1
  /\ UNCHANGED <<fixed, job, slots, manual, store, syncRuns, good>>

\* A process is killed.  Its run stays `running`.
CrashBulk ==
  /\ job.phase = "running"
  /\ proc' = [p \in Procs |-> IF p = Cli THEN proc[p] ELSE Idle]
  /\ job' = NoJob /\ slots' = <<>>
  /\ UNCHANGED <<fixed, manual, store, syncRuns, good, launches>>

CrashManual ==
  /\ Busy(Cli)
  /\ proc' = [proc EXCEPT ![Cli] = Idle]
  /\ UNCHANGED <<fixed, job, slots, manual, store, syncRuns, good, launches>>

Older(age) == Smaller(age + 1, AgeLimit)

\* An hour passes.
Tick ==
  /\ syncRuns' = [n \in Names |-> IF syncRuns[n].ended
                  THEN [syncRuns[n] EXCEPT !.age = Older(@)] ELSE syncRuns[n]]
  /\ good' = [n \in Names |-> IF good[n] = NeverRan THEN NeverRan
                           ELSE Older(good[n])]
  /\ UNCHANGED <<fixed, job, slots, manual, proc, store, launches>>

SyncInit ==
  /\ setup \in Range(Scenarios)
  /\ accounts = [n \in Names |-> ActiveAccounts(Kind(n), setup.accounts[n])]
  /\ job = NoJob /\ slots = <<>> /\ manual = Empty
  /\ proc = [p \in Procs |-> Idle]
  /\ store = <<>> /\ syncRuns = [n \in Names |-> NoRow]
  /\ good = [n \in Names |-> NeverRan] /\ launches = 0

SyncNext ==
  \/ \E request \in setup.requests, requested \in Concurrencies,
        failFast \in BOOLEAN : Launch(request, requested, failFast)
  \/ \E n \in setup.others : LaunchManual(n)
  \/ \E w \in Workers : Claim(w)
  \/ \E p \in Procs : Step(p)
  \/ Report \/ CrashBulk \/ CrashManual \/ Tick

\* The event loop of the bulk run goes on as long as a worker can claim, the
\* service of a connector under way answers, or all are through.
Responsive(w) == Busy(w) /\ proc[w].name \notin setup.hung /\ Step(w)
PoolGoesOn == Report \/ \E w \in Workers : Claim(w) \/ Responsive(w)
Fairness == WF_syncVars(PoolGoesOn)
SyncSpec == SyncInit /\ [][SyncNext]_syncVars /\ Fairness

----------------------------------------------------------------------------
SyncTypeOK ==
  /\ setup \in Range(Scenarios)
  /\ job.phase \in {"idle", "running"} /\ job.pool \in Nat
  /\ job.next \in 1..(Len(job.names) + 1) /\ DOMAIN slots \subseteq Nat
  /\ \A p \in Procs : Busy(p) =>
       /\ proc[p].name \in Names /\ proc[p].stage \in {"load", "scan"}
       /\ IF proc[p].unit = 0 THEN proc[p].bad = 0
          ELSE proc[p].bad \in 0..(proc[p].unit - 1)
  /\ \A n \in Names :
       /\ syncRuns[n].status \in {"absent", "running", "ok", "partial", "error"}
       /\ syncRuns[n].age \in 0..AgeLimit
       /\ good[n] \in 0..NeverRan
  /\ launches \in 0..MaxLaunches

UnitOf(e, s) == accounts[e.name][s[1]].units[s[2]]
Settled == ({slots[i] : i \in DOMAIN slots} \union {manual}) \ {Empty}

\* A connector's pass is a success exactly when every account and every unit
\* it is configured for was read to the end, through both layers of isolation
\* (an unreadable path is the one exception, by design).  It is without counts
\* only when no unit was read to the end, so that one failure never hides what
\* was read beside it; of the urls, that nothing isolates, the last is lost.
\* An account configured to read nothing counts as read, perhaps as the only one.
Vacant(n) == \E i \in DOMAIN accounts[n] : Len(accounts[n][i].units) = 0
WholeUnits(e) ==
  {s \in Scope(e.name) :
     \A k \in DOMAIN Items(UnitOf(e, s)) : <<s[1], s[2], k>> \in e.read}
OutcomeHonest ==
  \A e \in Settled :
    /\ Kind(e.name) # "local" => (e.ok => WholeUnits(e) = Scope(e.name))
    /\ ~e.ok /\ ~e.thrown => Vacant(e.name) \/ WholeUnits(e) \notin {{}, Scope(e.name)}
    /\ e.thrown => \/ WholeUnits(e) = {}
                   \/ Kind(e.name) = "web" /\ WholeUnits(e) # Scope(e.name)

\* What a pass has read is in the store, whatever failed before or after it
\* or beside it, and whichever process read it.
ReadIsStored ==
  \A e \in Settled \union {proc[p] : p \in {q \in Procs : Busy(q)}} :
    \A r \in e.read :
      LET a == accounts[e.name][r[1]]
          u == UnitOf(e, r)
          x == Items(u)[r[3]]
          id == ExternalId(e.name, a, u, x)
      IN id \in DOMAIN store /\ store[id] = Copy(e.name, a, u, x)

\* A connector is claimed once in a run and its entry stands in its own slot,
\* and no more passes are under way than asked for.
ClaimedOnce ==
  /\ \A v, w \in Workers : Busy(v) /\ Busy(w) /\ v # w => proc[v].index # proc[w].index
  /\ \A i \in DOMAIN slots : slots[i] # Empty =>
       /\ slots[i].name = job.names[i]
       /\ \A w \in Workers : Busy(w) => proc[w].index # i
  /\ job.phase = "running" => Cardinality({w \in Workers : Busy(w)}) <= job.pool

\* A pass says what it did, has stored what it read, and was the only one of its run.
PassHonest == OutcomeHonest /\ ReadIsStored /\ ClaimedOnce

\* A connector said to be fresh has had a run that ended, and not in error,
\* within the threshold, however its runs overlapped and whichever were killed.
FreshIsFresh ==
  \A n \in Names : Freshness(n) = "ok" => good[n] <= Threshold

\* Connectors that hang hold up their own workers only: a pool with one more
\* worker than that reports every other connector, unless it is killed.
Waiting == {i \in DOMAIN slots : slots[i] = Empty /\ job.names[i] \notin setup.hung}
OthersFinish ==
  (job.phase = "running" /\ ~job.failFast /\ job.asked > Cardinality(setup.hung))
    ~> (job.phase = "idle" \/ Waiting = {})
=============================================================================
