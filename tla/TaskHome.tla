------------------------------ MODULE TaskHome ------------------------------
(***************************************************************************)
(* One task and its home outside: the GitHub issue, Jira issue or Slack    *)
(* list item a human had it published to.  The tool is the authority on    *)
(* its state: a change asked for here is made there first and recorded     *)
(* after, and every sync ends by reading back what the connectors stored   *)
(* of the item.                                                            *)
(*                                                                         *)
(* A step of a server runs from the answer of one request to the sending   *)
(* of the next.  The human working in the tool and the syncs of other      *)
(* processes move in between.  The tool's search knows every item.         *)
(***************************************************************************)
EXTENDS Naturals, Sequences, FiniteSets

CONSTANTS
    Home,       \* the configured destinations
    Marked,     \* those whose publish looks for the task's marker before it creates
    CanDrop,    \* those that can express a drop (a Slack checkbox cannot)
    Due,        \* due dates
    Server,     \* the MCP servers
    None,       \* no due date, no state, no row, no event, no action
    MaxItems,   \* bound: items created
    MaxEdits,   \* bound: changes made in the tool
    MaxOps      \* bound: tool calls of each server

TaskState == {"open", "in_progress", "completed", "dropped"}

ASSUME TaskHomeAssumption ==
    /\ Home \subseteq {"github", "jira", "slack"}
    /\ Home \ {"slack"} \subseteq Marked
    /\ Home \intersect {"github"} \subseteq CanDrop
    /\ Marked \subseteq Home /\ CanDrop \subseteq Home
    /\ None \notin Due \union Server \union TaskState \union {"complete", "reopen", "drop"}
    /\ {MaxItems, MaxEdits} \subseteq Nat
    /\ MaxOps \in [Server -> Nat]

VARIABLES
    task,       \* the row of tasks: state, due date, and its item (0: not published)
    items,      \* the items carrying the task's marker, in the order of creation
    row,        \* the row of sources of each item, or None
    cmd,        \* the call each server is in
    held,       \* the TaskApplied a read-back has decided on, or None
    raced,      \* TRUE once two publishes overlapped
    crossed,    \* TRUE once the task changed under a task.update that asks no home
    edits, ops  \* how much of MaxEdits and MaxOps is used

tool == <<items, edits>>
history == <<raced, crossed>>
vars == <<task, tool, row, cmd, held, history, ops>>

Item == 1 .. MaxItems
Created == 1 .. Len(items)

\* The task states an item of a home can be read back as.
Expresses(h) ==
    CASE h = "github" -> {"open", "completed", "dropped"}
      [] h = "jira"   -> {"open", "in_progress", "completed"}
      [] h = "slack"  -> {"open", "completed"} \union {d \in {"dropped"} : h \in CanDrop}

Idle == [op |-> "idle"]
Publishing(p) == cmd[p].op \in {"search", "create", "linking"}
Acting(p) == cmd[p].op \in {"acting", "applying"} /\ cmd[p].action # None
Updating(p) == cmd[p].op = "applying" /\ cmd[p].action = None
Crossed(p) == crossed \/ \E q \in Server \ {p} : Updating(q)

TypeOK ==
    /\ task \in [state : TaskState \union {"proposed"}, due : Due \union {None},
                 item : 0 .. Len(items)]
    /\ Len(items) <= MaxItems
    /\ \A i \in Created :
          /\ items[i].home \in Home
          /\ items[i].state \in Expresses(items[i].home)
          /\ items[i].due \in Due \union {None}
          /\ {items[i].edited, items[i].done} \subseteq BOOLEAN
    /\ row \in [Item -> [state : TaskState, due : Due \union {None}] \union {None}]
    /\ \A p \in Server :
          \/ cmd[p] = Idle
          \/ cmd[p] \in [op : {"search", "create"}, home : Home, tries : 1 .. 2]
          \/ cmd[p] \in [op : {"linking"}, home : Home, tries : 1 .. 2, item : Created]
          \/ cmd[p] \in [op : {"acting", "applying"}, action : {"complete", "reopen", "drop", None},
                         tries : 1 .. 2, item : 0 .. Len(items),
                         state : TaskState \union {None}, due : Due \union {None}]
    /\ held \in [state : TaskState, due : Due \union {None}] \union {None}
    /\ {raced, crossed} \subseteq BOOLEAN
    /\ edits \in 0 .. MaxEdits
    /\ \A p \in Server : ops[p] \in 0 .. MaxOps[p]

Init ==
    /\ task = [state |-> "proposed", due |-> None, item |-> 0]
    /\ items = <<>>
    /\ row = [i \in Item |-> None]
    /\ cmd = [p \in Server |-> Idle]
    /\ held = None
    /\ raced = FALSE /\ crossed = FALSE
    /\ edits = 0
    /\ ops = [p \in Server |-> 0]

Call(p) ==
    /\ cmd[p] = Idle
    /\ ops[p] < MaxOps[p]
    /\ ops' = [ops EXCEPT ![p] = @ + 1]
-----------------------------------------------------------------------------
(***************************************************************************)
(* task.publish.                                                           *)
(***************************************************************************)

\* Slack tries a second token of the pool, from the search on, when the first throws.
Tries(h) == IF h = "slack" THEN 2 ELSE 1

Attempt(h, n) == [op |-> IF h \in Marked THEN "search" ELSE "create", home |-> h, tries |-> n]

\* A published task is answered with its home; for another, ask the home.
taskPublish(p, h) ==
    /\ Call(p)
    /\ task.item = 0
    /\ cmd' = [cmd EXCEPT ![p] = Attempt(h, Tries(h))]
    /\ raced' = (raced \/ \E q \in Server : Publishing(q))
    /\ UNCHANGED <<task, tool, row, held, crossed>>

\* TaskPublished: the link, recorded when the answer with the item arrives.
TaskPublished(p, i) ==
    /\ task' = [task EXCEPT !.item = i]
    /\ crossed' = Crossed(p)
    /\ cmd' = [cmd EXCEPT ![p] = Idle]

Carrying(h) == {i \in Created : items[i].home = h}

\* Mutant: the marker is not looked for.
SearchFindsNothing(p) ==
    /\ cmd[p].op = "search"
    /\ cmd' = [cmd EXCEPT ![p].op = "create"]
    /\ UNCHANGED <<task, tool, row, held, history, ops>>

\* The search for the marker answers: link the item found, or go on to create one.
Search(p) ==
    /\ cmd[p].op = "search"
    /\ \/ \E i \in Carrying(cmd[p].home) : TaskPublished(p, i)
       \/ /\ Carrying(cmd[p].home) = {}
          /\ cmd' = [cmd EXCEPT ![p].op = "create"]
          /\ UNCHANGED <<task, crossed>>
    /\ UNCHANGED <<tool, row, held, raced, ops>>

\* The tool creates the item; its answer is on the way.
Create(p) ==
    /\ cmd[p].op = "create"
    /\ Len(items) < MaxItems
    /\ items' = Append(items, [home |-> cmd[p].home, state |-> "open", due |-> None,
                               edited |-> FALSE, done |-> FALSE])
    /\ cmd' = [cmd EXCEPT ![p] = [op |-> "linking", home |-> @.home, tries |-> @.tries,
                                  item |-> Len(items')]]
    /\ UNCHANGED <<task, row, held, history, edits, ops>>

\* The answer arrives, and for GitHub that of the board after it.
Link(p) ==
    /\ cmd[p].op = "linking"
    /\ TaskPublished(p, cmd[p].item)
    /\ UNCHANGED <<tool, row, held, raced, ops>>

\* The request throws, whether the tool acted on it or not.  Slack fails over to
\* a second token; otherwise the call ends in EGRESS_FAILED and records nothing.
EgressFails(p) ==
    /\ Publishing(p) \/ Acting(p)
    /\ cmd' = [cmd EXCEPT ![p] = IF @.tries = 1 THEN Idle
                                 ELSE IF Publishing(p) THEN Attempt(@.home, 1)
                                 ELSE [@ EXCEPT !.op = "acting", !.tries = 1]]
    /\ UNCHANGED <<task, tool, row, held, history, ops>>

\* The server is killed.
Die(p) ==
    /\ cmd[p] # Idle
    /\ cmd' = [cmd EXCEPT ![p] = Idle]
    /\ UNCHANGED <<task, tool, row, held, history, ops>>
-----------------------------------------------------------------------------
(***************************************************************************)
(* task.act and task.update.                                               *)
(***************************************************************************)

\* A drop a Slack list or a Jira workflow cannot express does nothing; where Jira's
\* workflow can, it ends in a status of category done, and a reopening in any other.
Effects(h, action, state) ==
    CASE action = "complete" -> {"completed"}
      [] action = "reopen"   -> Expresses(h) \ {"completed", "dropped"}
      [] action = "drop"     -> IF h \notin CanDrop THEN {state}
                                ELSE IF h = "jira" THEN {"completed"} ELSE {"dropped"}

\* Asks the task's own home, whatever the default is now.
Ask(p, action, s, d) ==
    cmd' = [cmd EXCEPT ![p] = [op |-> "acting", action |-> action,
                              tries |-> Tries(items[task.item].home),
                              item |-> task.item, state |-> s, due |-> d]]

Record(p, s, d) ==
    cmd' = [cmd EXCEPT ![p] = [op |-> "applying", action |-> None, tries |-> 1,
                              item |-> task.item, state |-> s, due |-> d]]

taskAct(p, action) ==
    /\ Call(p)
    /\ task.item # 0
    /\ Ask(p, action, None, None)
    /\ UNCHANGED <<task, tool, row, held, history>>

actionForState(s) ==
    CASE s = "completed" -> "complete" [] s = "dropped" -> "drop" [] OTHER -> "reopen"

\* Mutant: the local state first, whatever the home.
UpdateLocally(p, s, d) ==
    /\ Call(p)
    /\ s # task.state \/ d # None
    /\ Record(p, s, d)
    /\ UNCHANGED <<task, tool, row, held, history>>

\* A change of the state of a published task goes through its home first.
taskUpdate(p, s, d) ==
    /\ Call(p)
    /\ s # task.state \/ d # None
    /\ IF task.item # 0 /\ s # task.state
       THEN Ask(p, actionForState(s), s, d)
       ELSE Record(p, s, d)
    /\ UNCHANGED <<task, tool, row, held, history>>

\* The tool acts; its answer is on the way.
Act(p) ==
    /\ cmd[p].op = "acting"
    /\ LET i == cmd[p].item IN
       \E s \in Effects(items[i].home, cmd[p].action, items[i].state) :
          items' = [items EXCEPT ![i].state = s, ![i].done = @ \/ s = "completed"]
    /\ cmd' = [cmd EXCEPT ![p].op = "applying"]
    /\ UNCHANGED <<task, row, held, history, edits, ops>>

\* TaskApplied: a due date that is not given stays.
TaskApplied(s, d) ==
    task' = [task EXCEPT !.state = s, !.due = IF d = None THEN @ ELSE d]

\* task.update is recorded; the TaskActionIssued of a task.act changes no row.
Apply(p) ==
    /\ cmd[p].op = "applying"
    /\ IF cmd[p].state = None THEN UNCHANGED task ELSE TaskApplied(cmd[p].state, cmd[p].due)
    /\ crossed' = Crossed(p)
    /\ cmd' = [cmd EXCEPT ![p] = Idle]
    /\ UNCHANGED <<tool, row, held, raced, ops>>
-----------------------------------------------------------------------------
(***************************************************************************)
(* The sync: what the connector stores of an item, and the read-back.      *)
(***************************************************************************)

\* Mutant: what is stored once is never looked at again.
IngestOnce(i) ==
    /\ row[i] = None
    /\ row' = [row EXCEPT ![i] = [state |-> items[i].state, due |-> items[i].due]]
    /\ items' = [items EXCEPT ![i].edited = FALSE]
    /\ UNCHANGED <<task, cmd, held, history, edits, ops>>

\* An item is stored anew if its fingerprint changed: Jira's is the time of its last
\* update and Slack's its cells, but GitHub's is its title and text alone.
Ingest(i) ==
    LET seen == [state |-> items[i].state, due |-> items[i].due] IN
    /\ row[i] # seen
    /\ row[i] = None \/ items[i].home # "github" \/ items[i].edited
    /\ row' = [row EXCEPT ![i] = seen]
    /\ items' = [items EXCEPT ![i].edited = FALSE]
    /\ UNCHANGED <<task, cmd, held, history, edits, ops>>

\* reconcileReadback reads the tasks and decides: a drop stays, an unknown state and a
\* row that agrees say nothing, only Jira speaks of due dates, and never of their
\* absence.  A sync without the Slack home's columns cannot read its cells.
reconcileReadback(readsLists) ==
    /\ task.item # 0
    /\ row[task.item] # None
    /\ items[task.item].home = "slack" => readsLists
    /\ LET seen == row[task.item]
           due  == IF items[task.item].home = "jira" /\ seen.due # task.due
                   THEN seen.due ELSE None
       IN  /\ task.state = "dropped" => seen.state = "dropped"
           /\ seen.state # task.state \/ due # None
           /\ held' = [state |-> seen.state, due |-> due]
    /\ UNCHANGED <<task, tool, row, cmd, history, ops>>

\* ... and records it.
ReadbackApplied ==
    /\ held # None
    /\ TaskApplied(held.state, held.due)
    /\ held' = None
    /\ crossed' = Crossed(None)
    /\ UNCHANGED <<tool, row, cmd, raced, ops>>
-----------------------------------------------------------------------------
(***************************************************************************)
(* The tool and whoever works in it.                                       *)
(***************************************************************************)

\* Someone moves the item, or edits the text it was stored with.
Edit(i) ==
    /\ edits < MaxEdits
    /\ edits' = edits + 1
    /\ \/ \E s \in Expresses(items[i].home),
             d \in (IF items[i].home = "jira" THEN Due \union {None} ELSE {None}) :
             /\ <<s, d>> # <<items[i].state, items[i].due>>
             /\ items' = [items EXCEPT ![i].state = s, ![i].due = d,
                                       ![i].done = @ \/ s = "completed"]
       \/ items[i].home = "github" /\ row[i] # None /\ items' = [items EXCEPT ![i].edited = TRUE]
    /\ UNCHANGED <<task, row, cmd, held, history, ops>>

\* A task.update is given a new state or a new due date.
Next ==
    \/ \E p \in Server :
          \/ \E h \in Home : taskPublish(p, h)
          \/ Search(p)
          \/ Create(p)
          \/ Link(p)
          \/ EgressFails(p)
          \/ Die(p)
          \/ \E action \in {"complete", "reopen", "drop"} : taskAct(p, action)
          \/ \E s \in TaskState : taskUpdate(p, s, None)
          \/ \E s \in TaskState \intersect {task.state}, d \in Due : taskUpdate(p, s, d)
          \/ Act(p)
          \/ Apply(p)
    \/ \E i \in Created : Ingest(i) \/ Edit(i)
    \/ \E readsLists \in BOOLEAN : reconcileReadback(readsLists)
    \/ ReadbackApplied

Spec == Init /\ [][Next]_vars
-----------------------------------------------------------------------------
(***************************************************************************)
(* Properties.                                                             *)
(***************************************************************************)

\* A publish that is retried after a lost answer or a crash reuses the item it made
\* (ADR-0036 section 4): where the marker is looked for, a home gets at most one item,
\* unless two publishes overlapped.
OneItemPerHome ==
    ~raced =>
        \A i, j \in Created : items[i].home = items[j].home /\ items[i].home \in Marked => i = j

\* A task keeps the home it was published to, unless two publishes overlapped
\* (task-publish.ts:137-144).
KeepsItsHome == task.item # 0 /\ task'.item # task.item => raced

\* The tool is the authority (ADR-0036 section 3): from when it is linked, the task is
\* marked completed only if its item has been, unless it changed under a task.update
\* that, having read the same state or no home, asked none.
DoneThereFirst ==
    /\ task'.state = "completed" /\ task.state # "completed"
    /\ task.item # 0
    /\ ~raced /\ ~crossed
    => items[task.item].done

HomeDecides == [][KeepsItsHome /\ DoneThereFirst]_vars

\* Once nothing changes any more, a published task has the state of its item as the
\* connector stored it, and that is the item's state, except GitHub's.
Follows(i) ==
    /\ row[i] # None
    /\ row[i].state = items[i].state \/ items[i].home = "github"
    /\ task.state \in {row[i].state, "dropped"}
    /\ items[i].home = "jira" /\ items[i].due # None /\ task.state # "dropped"
         => task.due = items[i].due

FollowsHome == <>[](task.item # 0 => Follows(task.item))

\* Cron keeps syncing, and some of its syncs read Slack cells.
Fairness ==
    /\ \A i \in Item : WF_vars(i \in Created /\ Ingest(i))
    /\ WF_vars(reconcileReadback(TRUE))
    /\ WF_vars(ReadbackApplied)

FairSpec == Spec /\ Fairness
=============================================================================
