----------------------------- MODULE Attention -----------------------------
(***************************************************************************)
(* What suasor puts in front of the operator: the demand list, the ranked  *)
(* next actions, the list tools and the period brief.  All of them are     *)
(* read-time derivations (mcp/queries.ts) over what the connectors         *)
(* ingested, late and in any order, over the marks of demand.mark and over *)
(* the task and commitment projections, against a clock that moves on.     *)
(*                                                                         *)
(* A scenario (`world`) names the upstream items, tasks and promises of a  *)
(* behaviour, and which of them change upstream.  Time is counted in ticks; the windows and saturation points *)
(* of the code are constants in ticks, in the code's order.  A score is    *)
(* exact: ten times the code's, in units of 1 / Scale.                     *)
(***************************************************************************)
EXTENDS Naturals, FiniteSets, FiniteSetsExt

CONSTANTS
  Worlds,          \* the scenarios: [items, tasks, promises, edited]
  MaxNow,          \* bound: the last tick
  StartingSoon,    \* STARTING_SOON_MINUTES
  MeetingSoon,     \* MEETING_SOON_MINUTES
  MeetingPrep,     \* MEETING_PREP_MINUTES, also the saturation of `prep`
  SatOverdue, SatAging, SatFreshness, SatDueSoon,   \* SATURATION
  Scale,           \* a common multiple of the saturation points
  CandidateCap,    \* PRIORITY_CANDIDATE_CAP
  Limits           \* the row limits asked for

ASSUME WindowOrder == /\ StartingSoon <= MeetingSoon
                      /\ MeetingSoon <= MeetingPrep
ASSUME ScaleDivides ==
  \A sat \in {SatOverdue, SatAging, SatFreshness, SatDueSoon, MeetingPrep} :
    sat > 0 /\ Scale % sat = 0
ASSUME SomeLimits == Limits \subseteq Nat \ {0}
ASSUME AttentionNumbers ==
  /\ {MaxNow, CandidateCap} \subseteq Nat \ {0}
  /\ {StartingSoon, MeetingSoon, MeetingPrep, SatOverdue, SatAging, SatFreshness,
      SatDueSoon, Scale} \subseteq Nat
ASSUME FiniteWorlds ==
  \A w \in Worlds :
    IsFiniteSet(DOMAIN w.items) /\ IsFiniteSet(w.tasks) /\ IsFiniteSet(w.promises)

VARIABLES
  world,     \* the scenario, fixed
  now,       \* the reader's clock
  upstream,  \* what each service holds now: [item -> record]
  sources,   \* the sources projection: [item -> record], as last ingested
  seen,      \* demand_seen: [item -> "acked" | "dismissed"]
  tasks,     \* the tasks projection
  promises   \* the commitments projection

attentionVars == <<world, now, upstream, sources, seen, tasks, promises>>

Never  == MaxNow + 1          \* no due date
Active == {"open", "in_progress"}
Static(i) == world.items[i]
Family(i) == Static(i).source

(***************************************************************************)
(* Time ranges, pages and the truncation probe.                            *)
(***************************************************************************)
InRange(t, range) == range.after <= t /\ t < range.before

\* ORDER BY ... LIMIT n: any n rows no other row comes before.
Pages(rows, Before(_, _), n) ==
  {page \in SUBSET rows :
     /\ Cardinality(page) = Min({n, Cardinality(rows)})
     /\ \A kept \in page, cut \in rows \ page : ~Before(cut, kept)}

\* Ask for one row more than the limit; if it comes back, drop it and say so.
ListWithTruncation(rows, Before(_, _), limit) ==
  UNION {IF Cardinality(probe) > limit
         THEN {[rows |-> page, truncated |-> TRUE] : page \in Pages(probe, Before, limit)}
         ELSE {[rows |-> probe, truncated |-> FALSE]}
         : probe \in Pages(rows, Before, limit + 1)}

(***************************************************************************)
(* Sources, tasks and commitments.                                         *)
(***************************************************************************)
NewestFirst(i, j) == sources[i].at > sources[j].at

SourceRows(range) == {i \in DOMAIN sources : InRange(sources[i].at, range)}

MeetingsStarting(range) ==
  {i \in DOMAIN sources : Family(i) = "calendar" /\ InRange(sources[i].start, range)}

Overdue(row) == row.due < now /\ row.state \in Active

TaskRows(state, horizon) ==
  {t \in DOMAIN tasks : tasks[t].state \in state /\ tasks[t].due < horizon}

LastTouched(a, b) == tasks[a].updated > tasks[b].updated

OverdueTasks == {t \in DOMAIN tasks : Overdue(tasks[t])}

\* Overdue first, then dated, then undated; the earliest due date leads.
Tier(c) ==
  IF Overdue(promises[c]) THEN 0 ELSE IF promises[c].due # Never THEN 1 ELSE 2

\* Mutant: recency alone, as before urgency ordering.
FresherFirst(a, b) == promises[a].updated > promises[b].updated

MoreUrgent(a, b) ==
  \/ Tier(a) < Tier(b)
  \/ /\ Tier(a) = Tier(b)
     /\ \/ promises[a].due < promises[b].due
        \/ /\ promises[a].due = promises[b].due
           /\ promises[a].updated > promises[b].updated

OpenPromises == {c \in DOMAIN promises : promises[c].state = "open"}

(***************************************************************************)
(* Demand: what calls for the operator's attention.                        *)
(***************************************************************************)
SlackDemand ==
  {i \in DOMAIN sources : /\ Family(i) = "slack"
                          /\ Static(i).dm \/ (Static(i).mention /\ sources[i].body)}

Mails == {i \in DOMAIN sources : Family(i) = "email"}
SameThread(i, j) == Static(i).thread = Static(j).thread

\* Mutant: any reply in the thread, however old, answers it.
AnsweredOnce ==
  {i \in Mails :
     /\ ~Static(i).mine /\ Static(i).to # "none" /\ ~Static(i).bulk
     /\ ~\E reply \in Mails : SameThread(reply, i) /\ Static(reply).mine
     /\ ~\E newer \in Mails : /\ SameThread(newer, i) /\ ~Static(newer).mine
                              /\ sources[newer].at > sources[i].at}

\* The newest inbound message of a thread, addressed to me and unanswered.
EmailDemand ==
  {i \in Mails :
     /\ ~Static(i).mine /\ Static(i).to # "none" /\ ~Static(i).bulk
     /\ ~\E reply \in Mails : /\ SameThread(reply, i) /\ Static(reply).mine
                              /\ sources[reply].at > sources[i].at
     /\ ~\E newer \in Mails : /\ SameThread(newer, i) /\ ~Static(newer).mine
                              /\ sources[newer].at > sources[i].at}

\* Mutant: a meeting that begins right now is gone already.
GoneAtStart ==
  {i \in DOMAIN sources :
     /\ Family(i) = "calendar"
     /\ now < sources[i].start /\ sources[i].start <= now + MeetingPrep
     /\ ~Static(i).allDay /\ Static(i).attend /\ ~sources[i].declined
     /\ sources[i].start <= now + MeetingSoon \/ Static(i).prepare}
\* A meeting I have to attend, not begun: close, or to be prepared.
CalendarDemand ==
  {i \in DOMAIN sources :
     /\ Family(i) = "calendar"
     /\ now <= sources[i].start /\ sources[i].start <= now + MeetingPrep
     /\ ~Static(i).allDay /\ Static(i).attend /\ ~sources[i].declined
     /\ sources[i].start <= now + MeetingSoon \/ Static(i).prepare}

GithubDemand ==
  {i \in DOMAIN sources : Family(i) = "github" /\ Static(i).worthy}

Outstanding(i) ==
  /\ i \notin DOMAIN seen
  /\ Family(i) = "github" => sources[i].unread

Demand == {i \in SlackDemand \union EmailDemand \union CalendarDemand \union GithubDemand :
             Outstanding(i)}

\* Calendar rows lead, soonest first; the others follow, newest first.
DemandBefore(i, j) ==
  \/ Family(i) = "calendar" /\ Family(j) # "calendar"
  \/ /\ Family(i) = "calendar" /\ Family(j) = "calendar"
     /\ sources[i].start < sources[j].start
  \/ /\ (Family(i) = "calendar") = (Family(j) = "calendar")
     /\ Family(i) = "calendar" => sources[i].start = sources[j].start
     /\ \/ sources[i].at > sources[j].at
        \/ sources[i].at = sources[j].at /\ Static(i).ord > Static(j).ord

(***************************************************************************)
(* Scores: one term per row (two for a task with a declared priority).     *)
(***************************************************************************)
Since(t, later) == IF later > t THEN later - t ELSE 0
Ramp(ticks, sat) == Min({ticks, sat}) * (Scale \div sat)

\* 3 * (0.5 + 0.5 * ramp): being late at all beats the most imminent due date.
OverdueTerm(due) == 15 * (Scale + Ramp(Since(due, now), SatOverdue))
DueSoonTerm(due) == 14 * (Scale - Ramp(Since(now, due), SatDueSoon))

DueTerm(row) ==
  IF Overdue(row) THEN OverdueTerm(row.due)
  ELSE IF row.due # Never THEN DueSoonTerm(row.due) ELSE 0

TaskScore(t) == DueTerm(tasks[t]) + IF tasks[t].high THEN 10 * Scale ELSE 0

\* A mention decays as it ages; mail addressed to me gets worse.
DemandScore(i) ==
  LET age == Since(sources[i].at, now)
  IN  IF Family(i) = "calendar"
      THEN 18 * (Scale - Ramp(Since(now, sources[i].start), MeetingPrep))
      ELSE IF Family(i) = "email" /\ Static(i).to = "to"
      THEN 25 * Ramp(age, SatAging)
      ELSE 15 * (Scale - Ramp(age, SatFreshness))

Imminent(i) == Family(i) = "calendar" /\ Since(now, sources[i].start) <= StartingSoon

(***************************************************************************)
(* The ranked next actions.                                                *)
(***************************************************************************)
Row(entity, id, tier, start, score, key) ==
  [entity |-> entity, id |-> id, tier |-> tier, start |-> start, score |-> score, key |-> key]

TaskRow(t)    == Row("task", t, 1, 0, TaskScore(t), tasks[t].updated)
PromiseRow(c) == Row("commitment", c, 1, 0, DueTerm(promises[c]), promises[c].updated)
DemandRow(i)  == Row("demand", i, IF Imminent(i) THEN 0 ELSE 1,
                     IF Imminent(i) THEN sources[i].start ELSE 0,
                     DemandScore(i), sources[i].at)

\* Every list the ranking is made from is first cut at the candidate cap.
CandidateSets ==
  {  {TaskRow(t) : t \in open \union started}
       \union {PromiseRow(c) : c \in owed} \union {DemandRow(i) : i \in calls} :
     open    \in Pages(TaskRows({"open"}, Never + 1), LastTouched, CandidateCap),
     started \in Pages(TaskRows({"in_progress"}, Never + 1), LastTouched, CandidateCap),
     owed    \in Pages(OpenPromises, MoreUrgent, CandidateCap),
     calls   \in Pages(Demand, DemandBefore, CandidateCap)}

\* comparePriority, up to its last ties (entity and id), which decide nothing here.
Outranks(a, b) ==
  \/ a.tier < b.tier
  \/ /\ a.tier = b.tier
     /\ LET ahead == IF a.tier = 0 THEN a.start < b.start ELSE a.score > b.score
            level == IF a.tier = 0 THEN a.start = b.start ELSE a.score = b.score
        IN  ahead \/ (level /\ a.key > b.key)

Priorities(limit) ==
  UNION {{[rows |-> top, truncated |-> Cardinality(candidates) > limit]
            : top \in Pages(candidates, Outranks, limit)}
         : candidates \in CandidateSets}

(***************************************************************************)
(* The list tools and the brief, as the MCP server answers them.           *)
(***************************************************************************)
SourceList(range, limit) == ListWithTruncation(SourceRows(range), NewestFirst, limit)
MeetingList(range, limit) == ListWithTruncation(MeetingsStarting(range), NewestFirst, limit)
TaskList(state, horizon, limit) ==
  ListWithTruncation(TaskRows(state, horizon), LastTouched, limit)
\* The filter comes before the cut: `overdue` is no column.
OverdueTaskList(limit) == ListWithTruncation(OverdueTasks, LastTouched, limit)
CommitmentList(limit) == ListWithTruncation(OpenPromises, MoreUrgent, limit)
DemandList(limit) == ListWithTruncation(Demand, DemandBefore, limit)

\* Calendar rows are about now and not about a period, so a brief has none.
BriefDemand(range) ==
  {i \in Demand : Family(i) # "calendar" /\ InRange(sources[i].at, range)}

Brief(range, limit) ==
  [demand : ListWithTruncation(BriefDemand(range), DemandBefore, limit),
   sources : SourceList(range, limit),
   commitments : CommitmentList(limit)]

----------------------------------------------------------------------------
(***************************************************************************)
(* The services, the sync, the operator and the clock.                     *)
(***************************************************************************)
AttentionInit ==
  /\ world \in Worlds
  /\ now = 0
  /\ upstream = <<>> /\ sources = <<>> /\ seen = <<>>
  /\ tasks = <<>> /\ promises = <<>>

Tick ==
  /\ now < MaxNow
  /\ now' = now + 1
  /\ UNCHANGED <<world, upstream, sources, seen, tasks, promises>>

Put(f, x, v) == [y \in DOMAIN f \union {x} |-> IF y = x THEN v ELSE f[y]]

\* A mail is sent, a message posted, a notification raised, a meeting booked.
Send(i) ==
  /\ i \in DOMAIN world.items \ DOMAIN upstream
  /\ \E start \in IF Family(i) = "calendar" THEN now .. MaxNow - 1 ELSE {0} :
       upstream' = Put(upstream, i, [text |-> 1, body |-> TRUE, at |-> now, start |-> start,
                                     declined |-> FALSE, unread |-> TRUE])
  /\ UNCHANGED <<world, now, sources, seen, tasks, promises>>

Change(i, rec) ==
  /\ upstream' = [upstream EXCEPT ![i] = rec]
  /\ UNCHANGED <<world, now, sources, seen, tasks, promises>>

\* The title or the description of a meeting is edited, with or without its time.
Reword(i) ==
  /\ i \in DOMAIN upstream \intersect world.edited /\ Family(i) = "calendar"
  /\ upstream[i].text = 1
  /\ \E start \in {upstream[i].start, MaxNow - 1} :
       Change(i, [upstream[i] EXCEPT !.text = 2, !.at = now, !.start = start])

Decline(i) ==
  /\ i \in DOMAIN upstream \intersect world.edited /\ Family(i) = "calendar"
  /\ ~upstream[i].declined
  /\ Change(i, [upstream[i] EXCEPT !.declined = TRUE, !.at = now])

ReadOnGithub(i) ==
  /\ i \in DOMAIN upstream \intersect world.edited /\ Family(i) = "github"
  /\ upstream[i].unread
  /\ Change(i, [upstream[i] EXCEPT !.unread = FALSE])

\* A sync reaches the item.  Mail, meetings and notifications have no fingerprint
\* of their own: only a changed text counts as a change, the rest is not compared.
Ingest(i) ==
  /\ i \in DOMAIN upstream
  /\ i \in DOMAIN sources => sources[i].text # upstream[i].text
  /\ sources' = Put(sources, i, upstream[i])
  /\ UNCHANGED <<world, now, upstream, seen, tasks, promises>>

\* Retention empties the body of an old message and keeps the row.
DropBody(i) ==
  /\ i \in DOMAIN sources /\ Family(i) = "slack"
  /\ sources[i].body /\ sources[i].at < now
  /\ sources' = [sources EXCEPT ![i].body = FALSE]
  /\ UNCHANGED <<world, now, upstream, seen, tasks, promises>>

\* demand.mark: a source that exists, and not in that state already.
Mark(i, state) ==
  /\ i \in DOMAIN sources
  /\ i \in DOMAIN seen => seen[i] # state
  /\ seen' = Put(seen, i, state)
  /\ UNCHANGED <<world, now, upstream, sources, tasks, promises>>

Dues == {1, 3, Never}

AddTask(t) ==
  /\ t \in world.tasks \ DOMAIN tasks
  /\ \E due \in Dues, high \in BOOLEAN :
       tasks' = Put(tasks, t, [state |-> "open", due |-> due, high |-> high, updated |-> now])
  /\ UNCHANGED <<world, now, upstream, sources, seen, promises>>

MoveTask(t) ==
  /\ t \in DOMAIN tasks /\ tasks[t].state \in Active
  /\ \E state \in {"in_progress", "completed"} \ {tasks[t].state} :
       tasks' = [tasks EXCEPT ![t].state = state, ![t].updated = now]
  /\ UNCHANGED <<world, now, upstream, sources, seen, promises>>

AddPromise(c) ==
  /\ c \in world.promises \ DOMAIN promises
  /\ \E due \in Dues :
       promises' = Put(promises, c, [state |-> "open", due |-> due, updated |-> now])
  /\ UNCHANGED <<world, now, upstream, sources, seen, tasks>>

ClosePromise(c) ==
  /\ c \in OpenPromises
  /\ promises' = [promises EXCEPT ![c].state = "resolved", ![c].updated = now]
  /\ UNCHANGED <<world, now, upstream, sources, seen, tasks>>

AttentionNext ==
  \/ Tick
  \/ \E i \in DOMAIN world.items :
       \/ Send(i) \/ Reword(i) \/ Decline(i) \/ ReadOnGithub(i)
       \/ Ingest(i) \/ DropBody(i)
       \/ \E state \in {"acked", "dismissed"} : Mark(i, state)
  \/ \E t \in world.tasks : AddTask(t) \/ MoveTask(t)
  \/ \E c \in world.promises : AddPromise(c) \/ ClosePromise(c)

AttentionSpec == AttentionInit /\ [][AttentionNext]_attentionVars

----------------------------------------------------------------------------
(***************************************************************************)
(* Properties.                                                             *)
(***************************************************************************)
\* An item as a service holds it or as it was ingested: written in the past, at a
\* time that has come, and beginning within the bound.
ItemRow == [text : {1, 2}, body : BOOLEAN, at : 0 .. now, start : 0 .. MaxNow,
            declined : BOOLEAN, unread : BOOLEAN]

\* The shape of the state: nothing is ingested that no service had, nothing marked that
\* was not ingested, and no timestamp is ahead of the clock.
AttentionTypeOK ==
  /\ world \in Worlds /\ now \in 0 .. MaxNow
  /\ DOMAIN sources \subseteq DOMAIN upstream
  /\ DOMAIN upstream \subseteq DOMAIN world.items
  /\ \A i \in DOMAIN upstream : upstream[i] \in ItemRow
  /\ \A i \in DOMAIN sources : sources[i] \in ItemRow
  /\ DOMAIN seen \subseteq DOMAIN sources
  /\ DOMAIN tasks \subseteq world.tasks /\ DOMAIN promises \subseteq world.promises
  /\ \A t \in DOMAIN tasks :
       tasks[t] \in [state : Active \union {"completed"}, due : Dues, high : BOOLEAN,
                    updated : 0 .. now]
  /\ \A c \in DOMAIN promises :
       promises[c] \in [state : {"open", "resolved"}, due : Dues, updated : 0 .. now]

\* A meeting the operator has to be in within StartingSoon and has not marked is
\* on top of the next actions, the soonest one first, whatever else is overdue,
\* however short the list and however many rows the candidate cap leaves out.
ImminentLeads ==
  LET soon == {i \in DOMAIN sources \ DOMAIN seen :
                 /\ Family(i) = "calendar" /\ Static(i).attend /\ ~Static(i).allDay
                 /\ ~sources[i].declined
                 /\ sources[i].start \in now .. now + StartingSoon}
  IN  soon # {} =>
        \A answer \in UNION {Priorities(limit) : limit \in Limits} :
          \E r \in answer.rows : r.id \in soon /\ \A i \in soon : r.start <= sources[i].start

\* A list of promises cut at its limit, and the candidates of the ranking cut at
\* the cap, lose the promises that score least: one long overdue and untouched
\* since is never dropped in favour of a fresher one.
CutLeastUrgent ==
  \A answer \in UNION {CommitmentList(limit) : limit \in Limits \union {CandidateCap}} :
    \A kept \in answer.rows, cut \in OpenPromises \ answer.rows :
      DueTerm(promises[cut]) <= DueTerm(promises[kept])

\* An answer that does not say it was cut is complete, and one that says so is a
\* full page: the list tools and the brief for every limit, the overdue filter
\* included, and the next actions for every limit below the candidate cap.
TruncationHonest ==
  LET Honest(answer, rows, limit) ==
        /\ ~answer.truncated => answer.rows = rows
        /\ answer.truncated => Cardinality(answer.rows) = limit /\ answer.rows # rows
      period == [after |-> 1, before |-> MaxNow + 1]
      wanted == {TaskRow(t) : t \in TaskRows(Active, Never + 1)}
                  \union {PromiseRow(c) : c \in OpenPromises} \union {DemandRow(i) : i \in Demand}
  IN  \A limit \in Limits :
        /\ \A answer \in DemandList(limit) : Honest(answer, Demand, limit)
        /\ \A answer \in CommitmentList(limit) : Honest(answer, OpenPromises, limit)
        /\ \A answer \in OverdueTaskList(limit) :
             Honest(answer, {t \in DOMAIN tasks : Overdue(tasks[t])}, limit)
        /\ \A brief \in Brief(period, limit) :
             /\ Honest(brief.demand, BriefDemand(period), limit)
             /\ Honest(brief.sources, SourceRows(period), limit)
        /\ limit < CandidateCap =>
             \A answer \in Priorities(limit) : Honest(answer, wanted, limit)

\* What is asked for and not shown is the least urgent, and the answer says so.
ShownHonest == ImminentLeads /\ CutLeastUrgent /\ TruncationHonest

\* A mail thread calls for an answer exactly when the last word in it that has been
\* ingested is a mail to or cc the operator, no newsletter, and not marked; and it
\* calls once: replying is enough to end it, in whatever order a sync brings the
\* mails in.
LastWordDecides ==
  \A i \in Mails :
    LET thread == {j \in Mails : SameThread(i, j)}
        last   == {j \in thread : \A k \in thread \ {j} : sources[k].at < sources[j].at}
        owed   == {j \in last : /\ ~Static(j).mine /\ ~Static(j).bulk /\ Static(j).to # "none"
                                /\ j \notin DOMAIN seen}
    IN  last # {} => thread \intersect Demand = owed

\* Nothing leaves the demand list silently.  Time takes away the meetings that have
\* begun and nothing else; a mark takes the marked row; an ingested item takes its
\* own former row, or older mail of its thread; retention takes the emptied message.
VanishStep ==
  LET gone == Demand \ Demand'
      entered == {i \in DOMAIN sources' : i \notin DOMAIN sources \/ sources'[i] # sources[i]}
  IN  \A i \in gone :
        \/ Family(i) = "calendar" /\ sources[i].start < now'
        \/ i \in DOMAIN seen' /\ (i \in DOMAIN seen => seen'[i] # seen[i])
        \/ i \in entered
        \/ \E j \in entered : /\ Family(i) = "email" /\ Family(j) = "email"
                              /\ SameThread(i, j) /\ sources'[j].at > sources[i].at

\* As time alone passes, a dated task or promise, a meeting ahead and a mail to the
\* operator never score less, the moment a due date passes included; and a mention,
\* a message, a notification or a mail in copy never scores more.
UrgencyStep ==
  now' > now =>
    /\ \A t \in DOMAIN tasks : TaskScore(t)' >= TaskScore(t)
    /\ \A c \in OpenPromises : DueTerm(promises[c])' >= DueTerm(promises[c])
    /\ \A i \in Demand \intersect Demand' :
         LET grows == Family(i) = "calendar" \/ (Family(i) = "email" /\ Static(i).to = "to")
         IN  IF grows THEN DemandScore(i)' >= DemandScore(i)
                      ELSE DemandScore(i)' <= DemandScore(i)

\* What calls for the operator changes for a reason.
DemandSteady == [][VanishStep /\ UrgencyStep]_attentionVars
============================================================================
