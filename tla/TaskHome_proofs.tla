--------------------------- MODULE TaskHome_proofs ---------------------------
(***************************************************************************)
(* A task and its home for any homes, servers, items, edits and calls: a   *)
(* home that is searched gets one item, the task keeps the home it was     *)
(* published to, and it is done here only after its item was done there.   *)
(***************************************************************************)
EXTENDS TaskHome, TLAPS

Dates == Due \union {None}

TaskRow(n) == [state : TaskState \union {"proposed"}, due : Dates, item : 0 .. n]

ItemRow == [home : Home, state : TaskState, due : Dates, edited : BOOLEAN, done : BOOLEAN]

Seen == [state : TaskState, due : Dates]

\* What a server may be in while there are n items.
Command(n) ==
  {Idle}
  \union [op : {"search", "create"}, home : Home, tries : 1 .. 2]
  \union [op : {"linking"}, home : Home, tries : 1 .. 2, item : 1 .. n]
  \union [op : {"acting", "applying"}, action : {"complete", "reopen", "drop", None},
          tries : 1 .. 2, item : 0 .. n, state : TaskState \union {None}, due : Dates]

Pub(c) == c.op \in {"search", "create", "linking"}
Asked(c) == c.op \in {"acting", "applying"} /\ c.action # None
Untold(c) == c.op = "applying" /\ c.action = None

\* The parameters are the task, the items, whether publishes overlapped and whether
\* the task changed under an update that asks no home.
Good(c, t, its, ra, cr) ==
  /\ c \in Command(Len(its))
  /\ c.op = "acting" => Asked(c)
  /\ ~ ra /\ Pub(c) => t.item = 0
  /\ ~ ra /\ c.op = "create" /\ c.home \in Marked =>
       \A i \in 1 .. Len(its) : its[i].home # c.home
  /\ Asked(c) => /\ c.item \in 1 .. Len(its)
                 /\ c.state = "completed" => c.action = "complete"
                 /\ ~ ra => c.item = t.item
                 /\ c.op = "applying" /\ c.state = "completed" => its[c.item].done
  /\ ~ cr /\ Untold(c) => c.item = t.item /\ (c.item = 0 \/ c.state = t.state)

\* One publish at a time.
OneAtATime(cm, ra) ==
  ~ ra => \A p, q \in Server : Pub(cm[p]) /\ Pub(cm[q]) => p = q

ItemsOK(its) ==
  /\ its \in Seq(ItemRow) /\ Len(its) <= MaxItems
  /\ \A i \in 1 .. Len(its) : /\ its[i].state \in Expresses(its[i].home)
                              /\ its[i].state = "completed" => its[i].done

RowsOK(rw, its) ==
  /\ rw \in [Item -> Seen \union {None}]
  /\ \A i \in Item : rw[i] # None =>
        i \in 1 .. Len(its) /\ (rw[i].state = "completed" => its[i].done)

\* A read-back that is under way read an item that had been done.
HeldOK(h, t, its, ra) ==
  /\ h \in Seen \union {None}
  /\ h # None /\ ~ ra =>
       t.item \in 1 .. Len(its) /\ (h.state = "completed" => its[t.item].done)

OneEach(its, ra) ==
  ~ ra => \A i, j \in 1 .. Len(its) :
             its[i].home = its[j].home /\ its[i].home \in Marked => i = j

World(t, its, rw, h, ra) ==
  /\ t \in TaskRow(Len(its))
  /\ ItemsOK(its)
  /\ RowsOK(rw, its)
  /\ HeldOK(h, t, its, ra)
  /\ OneEach(its, ra)

Counters ==
  /\ edits \in 0 .. MaxEdits
  /\ ops = [p \in Server |-> ops[p]] /\ \A p \in Server : ops[p] \in 0 .. MaxOps[p]

IInv ==
  /\ World(task, items, row, held, raced)
  /\ cmd = [p \in Server |-> cmd[p]]
  /\ \A p \in Server : Good(cmd[p], task, items, raced, crossed)
  /\ OneAtATime(cmd, raced)
  /\ raced \in BOOLEAN /\ crossed \in BOOLEAN
  /\ Counters
-----------------------------------------------------------------------------
(***************************************************************************)
(* What a step may do to what the other servers rely on.                   *)
(***************************************************************************)

\* Items are never deleted, moved to another home or made undone.
Longer(its, jts) ==
  /\ Len(its) <= Len(jts)
  /\ \A i \in 1 .. Len(its) : jts[i].home = its[i].home /\ (its[i].done => jts[i].done)

\* The task t becomes u, the items its become jts, raced and crossed become rb and cs;
\* c is the call of a server that does not move.
Bears(c, t, its, u, jts, rb, cs) ==
  /\ ~ rb /\ Pub(c) => u.item = t.item /\ Len(jts) = Len(its)
  /\ ~ rb /\ t.item # 0 => u.item = t.item
  /\ ~ cs /\ Untold(c) => u.item = t.item /\ u.state = t.state

LEMMA HomeFacts ==
  ASSUME NEW h \in Home
  PROVE  /\ "open" \in Expresses(h) /\ "completed" \in Expresses(h)
         /\ Expresses(h) \subseteq TaskState
         /\ \A s \in Expresses(h), a \in {"complete", "reopen", "drop"} :
              Effects(h, a, s) \subseteq Expresses(h)
         /\ \A s : Effects(h, "complete", s) = {"completed"}
<1>1. CASE h = "github"
  BY <1>1, TaskHomeAssumption DEF Expresses, Effects, TaskState
<1>2. CASE h = "jira"
  BY <1>2, TaskHomeAssumption DEF Expresses, Effects, TaskState
<1>3. CASE h = "slack"
  BY <1>3, TaskHomeAssumption DEF Expresses, Effects, TaskState
<1> QED BY <1>1, <1>2, <1>3, TaskHomeAssumption

LEMMA OtherServer ==
  ASSUME NEW c, NEW t, NEW its, NEW ra, NEW cr, Good(c, t, its, ra, cr),
         NEW u, NEW jts, NEW rb, NEW cs, Longer(its, jts),
         Len(its) \in Nat, Len(jts) \in Nat, ra => rb, cr => cs,
         Bears(c, t, its, u, jts, rb, cs)
  PROVE  Good(c, u, jts, rb, cs)
<1>1. c \in Command(Len(jts))
  <2>1. 1 .. Len(its) \subseteq 1 .. Len(jts) /\ 0 .. Len(its) \subseteq 0 .. Len(jts)
    BY DEF Longer
  <2>2. c \in Command(Len(its))
    BY DEF Good
  <2> QED BY <2>1, <2>2 DEF Command
<1>2. ~ rb /\ Pub(c) => u.item = 0
  BY DEF Good, Bears
<1>3. ~ rb /\ c.op = "create" /\ c.home \in Marked =>
        \A i \in 1 .. Len(jts) : jts[i].home # c.home
  BY DEF Good, Bears, Longer, Pub
<1>4. Asked(c) => /\ c.item \in 1 .. Len(jts)
                  /\ c.state = "completed" => c.action = "complete"
                  /\ ~ rb => c.item = u.item
                  /\ c.op = "applying" /\ c.state = "completed" => jts[c.item].done
  BY DEF Good, Bears, Longer
<1>5. ~ cs /\ Untold(c) => u.item = t.item /\ u.state = t.state /\ c.item = t.item
                           /\ (c.item = 0 \/ c.state = t.state)
  BY DEF Good, Bears
<1> QED BY <1>1, <1>2, <1>3, <1>4, <1>5 DEF Good

\* A step of server p, which ends in the command c.
LEMMA ServerSteps ==
  ASSUME IInv, NEW p \in Server, NEW c, cmd' = [cmd EXCEPT ![p] = c],
         World(task', items', row', held', raced'), Counters',
         Good(c, task', items', raced', crossed'),
         raced' \in BOOLEAN, crossed' \in BOOLEAN, raced => raced', crossed => crossed',
         Longer(items, items'),
         ~ raced' /\ Pub(c) => \A q \in Server : q # p => ~ Pub(cmd[q]),
         \A q \in Server : q # p =>
            Bears(cmd[q], task, items, task', items', raced', crossed')
  PROVE  IInv'
<1>1. /\ cmd' = [q \in Server |-> cmd'[q]] /\ cmd'[p] = c
      /\ \A q \in Server : q # p => cmd'[q] = cmd[q]
  BY DEF IInv
<1>2. Len(items) \in Nat /\ Len(items') \in Nat
  BY DEF IInv, World, ItemsOK
<1>3. ASSUME NEW q \in Server PROVE Good(cmd'[q], task', items', raced', crossed')
  <2>1. CASE q = p
    BY <1>1, <2>1
  <2>2. CASE q # p
    <3>1. Good(cmd[q], task, items, raced, crossed)
      BY DEF IInv
    <3>2. Good(cmd[q], task', items', raced', crossed')
      BY <1>2, <2>2, <3>1, OtherServer
    <3> QED BY <1>1, <2>2, <3>2
  <2> QED BY <2>1, <2>2
<1>4. OneAtATime(cmd', raced')
  BY <1>1 DEF IInv, OneAtATime
<1> QED BY <1>1, <1>3, <1>4 DEF IInv, Counters

\* A step of no server.
LEMMA WorldSteps ==
  ASSUME IInv, cmd' = cmd,
         World(task', items', row', held', raced'), Counters',
         raced' = raced, crossed' \in BOOLEAN, crossed => crossed',
         Longer(items, items'),
         \A q \in Server : Bears(cmd[q], task, items, task', items', raced', crossed')
  PROVE  IInv'
<1>1. Len(items) \in Nat /\ Len(items') \in Nat
  BY DEF IInv, World, ItemsOK
<1>2. ASSUME NEW q \in Server PROVE Good(cmd'[q], task', items', raced', crossed')
  <2>1. Good(cmd[q], task, items, raced, crossed)
    BY DEF IInv
  <2> QED BY <1>1, <2>1, OtherServer
<1>3. OneAtATime(cmd', raced')
  BY DEF IInv, OneAtATime
<1> QED BY <1>2, <1>3 DEF IInv, Counters
-----------------------------------------------------------------------------
(***************************************************************************)
(* The changes a step makes to task, items, rows and read-back.            *)
(***************************************************************************)

LEMMA SameItems ==
  ASSUME NEW its
  PROVE  Longer(its, its) \/ Len(its) \notin Nat
BY DEF Longer

\* The link, made while the task has none or by publishes that overlapped.
LEMMA LinkWorld ==
  ASSUME NEW t, NEW its, NEW rw, NEW h, NEW ra, World(t, its, rw, h, ra),
         NEW i \in 1 .. Len(its), ~ ra => t.item = 0
  PROVE  LET u == [t EXCEPT !.item = i] IN
         World(u, its, rw, h, ra) /\ u.item = i /\ u.state = t.state
<1> DEFINE u == [t EXCEPT !.item = i]
<1>1. t \in TaskRow(Len(its)) /\ Len(its) \in Nat
  BY DEF World, ItemsOK
<1>2. u \in TaskRow(Len(its)) /\ u.item = i /\ u.state = t.state
  BY <1>1 DEF TaskRow
<1> HIDE DEF u
<1>3. HeldOK(h, u, its, ra)
  BY <1>1 DEF World, HeldOK
<1>4. World(u, its, rw, h, ra)
  BY <1>2, <1>3 DEF World
<1> QED BY <1>2, <1>4 DEF u

\* TaskApplied, with some due date.
Applied(t, u, s) ==
  \E d \in Dates : u = [t EXCEPT !.state = s, !.due = IF d = None THEN @ ELSE d]

LEMMA ApplyWorld ==
  ASSUME NEW t, NEW its, NEW rw, NEW h, NEW ra, World(t, its, rw, h, ra),
         NEW s \in TaskState, NEW u, Applied(t, u, s)
  PROVE  World(u, its, rw, h, ra) /\ u.item = t.item /\ u.state = s
<1> PICK d \in Dates : u = [t EXCEPT !.state = s, !.due = IF d = None THEN @ ELSE d]
  BY DEF Applied
<1> DEFINE v == [t EXCEPT !.state = s]
<1>1. t \in TaskRow(Len(its))
  BY DEF World
<1>2. v \in TaskRow(Len(its)) /\ v.item = t.item /\ v.state = s /\ v.due = t.due
  BY <1>1 DEF TaskRow
<1>3. u = [v EXCEPT !.due = IF d = None THEN t.due ELSE d]
  OBVIOUS
<1> HIDE DEF v
<1>4. u \in TaskRow(Len(its)) /\ u.item = t.item /\ u.state = s
  BY <1>2, <1>3 DEF TaskRow, Dates
<1>5. HeldOK(h, u, its, ra)
  BY <1>4 DEF World, HeldOK
<1>6. World(u, its, rw, h, ra)
  BY <1>5, <1>4 DEF World
<1> QED BY <1>6, <1>4

\* An item is created in a home that has none, if it is searched.
LEMMA CreateWorld ==
  ASSUME NEW t, NEW its, NEW rw, NEW h, NEW ra, World(t, its, rw, h, ra),
         Len(its) < MaxItems, NEW x \in Home,
         ~ ra /\ x \in Marked => \A i \in 1 .. Len(its) : its[i].home # x
  PROVE  LET jts == Append(its, [home |-> x, state |-> "open", due |-> None,
                                 edited |-> FALSE, done |-> FALSE])
         IN  /\ World(t, jts, rw, h, ra) /\ Longer(its, jts)
             /\ Len(jts) \in Nat /\ Len(jts) = Len(its) + 1
<1> DEFINE y == [home |-> x, state |-> "open", due |-> None, edited |-> FALSE, done |-> FALSE]
           jts == Append(its, y)
           N == Len(its)
<1>1. its \in Seq(ItemRow) /\ N \in Nat /\ MaxItems \in Nat /\ t \in TaskRow(N)
  BY TaskHomeAssumption DEF World, ItemsOK
<1>2. y \in ItemRow /\ y.state \in Expresses(y.home) /\ y.state # "completed" /\ y.home = x
  BY HomeFacts DEF ItemRow, TaskState, Dates
<1> HIDE DEF y
<1>3. /\ jts \in Seq(ItemRow) /\ Len(jts) = N + 1 /\ jts[N + 1] = y
      /\ \A i \in 1 .. N : jts[i] = its[i]
      /\ \A i \in 1 .. N + 1 : i \in 1 .. N \/ i = N + 1
      /\ 1 .. N \subseteq 1 .. N + 1 /\ 0 .. N \subseteq 0 .. N + 1
  BY <1>1, <1>2
<1> HIDE DEF jts, N
<1>4. Longer(its, jts)
  BY <1>1, <1>3 DEF Longer, N
<1>5. ItemsOK(jts)
  <2>1. Len(jts) <= MaxItems
    BY <1>1, <1>3 DEF N
  <2>2. ASSUME NEW i \in 1 .. N + 1
        PROVE  /\ jts[i].state \in Expresses(jts[i].home)
               /\ jts[i].state = "completed" => jts[i].done
    BY <1>2, <1>3 DEF World, ItemsOK, N
  <2> QED BY <1>3, <2>1, <2>2 DEF ItemsOK
<1>6. t \in TaskRow(Len(jts))
  BY <1>1, <1>3 DEF TaskRow
<1>7. RowsOK(rw, jts)
  BY <1>3 DEF World, RowsOK, N
<1>8. HeldOK(h, t, jts, ra)
  BY <1>3 DEF World, HeldOK, N
<1>9. OneEach(jts, ra)
  <2> SUFFICES ASSUME ~ ra, NEW i \in 1 .. N + 1, NEW j \in 1 .. N + 1,
                      jts[i].home = jts[j].home, jts[i].home \in Marked
               PROVE  i = j
    BY <1>3 DEF OneEach
  <2>1. CASE i \in 1 .. N /\ j \in 1 .. N
    BY <1>3, <2>1 DEF World, OneEach, N
  <2>2. CASE i = N + 1 \/ j = N + 1
    BY <1>2, <1>3, <2>2 DEF N
  <2> QED BY <1>3, <2>1, <2>2
<1> QED BY <1>1, <1>3, <1>4, <1>5, <1>6, <1>7, <1>8, <1>9 DEF World, jts, y, N

\* One item changes: it stays in its home, done if it was.
Changes(its, jts) ==
  \E i \in 1 .. Len(its), x \in ItemRow :
     /\ x.home = its[i].home
     /\ its[i].done => x.done
     /\ x.state \in Expresses(x.home)
     /\ x.state = "completed" => x.done
     /\ jts = [its EXCEPT ![i] = x]

LEMMA ItemWorld ==
  ASSUME NEW t, NEW its, NEW rw, NEW h, NEW ra, World(t, its, rw, h, ra),
         NEW jts, Changes(its, jts)
  PROVE  World(t, jts, rw, h, ra) /\ Longer(its, jts) /\ Len(jts) = Len(its)
<1> PICK i \in 1 .. Len(its), x \in ItemRow :
       /\ x.home = its[i].home
       /\ its[i].done => x.done
       /\ x.state \in Expresses(x.home)
       /\ x.state = "completed" => x.done
       /\ jts = [its EXCEPT ![i] = x]
  BY DEF Changes
<1> DEFINE N == Len(its)
<1>1. its \in Seq(ItemRow) /\ N \in Nat /\ t \in TaskRow(N)
  BY DEF World, ItemsOK
<1>2. /\ jts \in Seq(ItemRow) /\ Len(jts) = N /\ jts[i] = x
      /\ \A j \in 1 .. N : j # i => jts[j] = its[j]
  BY <1>1
<1> HIDE DEF N
<1>3. Longer(its, jts)
  BY <1>1, <1>2 DEF Longer, N
<1>4. ItemsOK(jts)
  BY <1>2 DEF World, ItemsOK, N
<1>5. RowsOK(rw, jts)
  BY <1>2 DEF World, RowsOK, N
<1>6. HeldOK(h, t, jts, ra)
  BY <1>2 DEF World, HeldOK, N
<1>7. OneEach(jts, ra)
  BY <1>2 DEF World, OneEach, N
<1> QED BY <1>1, <1>2, <1>3, <1>4, <1>5, <1>6, <1>7 DEF World, N

\* Rows and read-back change with the items as they are.
LEMMA SeenWorld ==
  ASSUME NEW t, NEW its, NEW rw, NEW h, NEW ra, World(t, its, rw, h, ra),
         NEW i \in 1 .. Len(its)
  PROVE  LET x == [state |-> its[i].state, due |-> its[i].due] IN
         World(t, its, [rw EXCEPT ![i] = x], h, ra)
<1> DEFINE x == [state |-> its[i].state, due |-> its[i].due]
<1>1. /\ its[i] \in ItemRow
      /\ its[i].state = "completed" => its[i].done
      /\ rw \in [Item -> Seen \union {None}]
      /\ i \in Item
  BY TaskHomeAssumption DEF World, ItemsOK, RowsOK, Item
<1>2. its[i].state \in TaskState /\ its[i].due \in Dates
  BY <1>1 DEF ItemRow
<1>3. x \in Seen /\ x.state = its[i].state
  BY <1>2 DEF Seen
<1> HIDE DEF x
<1>4. RowsOK([rw EXCEPT ![i] = x], its)
  BY <1>1, <1>3 DEF World, RowsOK
<1> QED BY <1>4 DEF World, x

\* A read-back decides.
LEMMA HeldWorld ==
  ASSUME NEW t, NEW its, NEW rw, NEW h, NEW ra, World(t, its, rw, h, ra),
         t.item # 0, rw[t.item] # None, NEW d \in Dates
  PROVE  World(t, its, rw, [state |-> rw[t.item].state, due |-> d], ra)
<1> DEFINE s == rw[t.item].state
           k == [state |-> s, due |-> d]
<1>1. t.item \in Item /\ t.item \in 1 .. Len(its)
  BY TaskHomeAssumption DEF World, TaskRow, ItemsOK, Item
<1>2. rw[t.item] \in Seen
  BY <1>1 DEF World, RowsOK
<1>3. s \in TaskState /\ (s = "completed" => its[t.item].done)
  BY <1>1, <1>2 DEF World, RowsOK, Seen
<1> HIDE DEF s
<1>4. k \in Seen /\ k.state = s
  BY <1>3 DEF Seen
<1> HIDE DEF k
<1>5. HeldOK(k, t, its, ra)
  BY <1>1, <1>3, <1>4 DEF HeldOK
<1> QED BY <1>5 DEF World, k, s

\* A read-back has been recorded.
LEMMA ToldWorld ==
  ASSUME NEW t, NEW its, NEW rw, NEW h, NEW ra, World(t, its, rw, h, ra)
  PROVE  World(t, its, rw, None, ra)
BY DEF World, HeldOK

\* Publishes have overlapped.
LEMMA RacedWorld ==
  ASSUME NEW t, NEW its, NEW rw, NEW h, NEW ra, NEW rb, World(t, its, rw, h, ra), ra => rb
  PROVE  World(t, its, rw, h, rb)
BY DEF World, HeldOK, OneEach
-----------------------------------------------------------------------------
(***************************************************************************)
(* Every action keeps the invariant, moves a linked task only if publishes *)
(* overlapped and marks it completed after its item.                       *)
(***************************************************************************)

LEMMA CommandIs ==
  ASSUME NEW n \in Nat, NEW c \in Command(n)
  PROVE  /\ c.op \in {"idle", "search", "create", "linking", "acting", "applying"}
         /\ c.op = "idle" => c = Idle
         /\ c.op \in {"search", "create"} =>
              /\ c.home \in Home /\ c.tries \in 1 .. 2
              /\ c = [op |-> c.op, home |-> c.home, tries |-> c.tries]
         /\ c.op = "linking" => c.home \in Home /\ c.tries \in 1 .. 2 /\ c.item \in 1 .. n
         /\ c.op \in {"acting", "applying"} =>
              /\ c.action \in {"complete", "reopen", "drop", None} /\ c.tries \in 1 .. 2
              /\ c.item \in 0 .. n /\ c.state \in TaskState \union {None} /\ c.due \in Dates
              /\ c = [op |-> c.op, action |-> c.action, tries |-> c.tries, item |-> c.item,
                      state |-> c.state, due |-> c.due]
<1>1. CASE c = Idle
  BY <1>1 DEF Idle
<1>2. CASE c \in [op : {"search", "create"}, home : Home, tries : 1 .. 2]
  BY <1>2
<1>3. CASE c \in [op : {"linking"}, home : Home, tries : 1 .. 2, item : 1 .. n]
  BY <1>3
<1>4. CASE c \in [op : {"acting", "applying"}, action : {"complete", "reopen", "drop", None},
                  tries : 1 .. 2, item : 0 .. n, state : TaskState \union {None}, due : Dates]
  BY <1>4
<1> QED BY <1>1, <1>2, <1>3, <1>4 DEF Command

LEMMA IdleIsGood ==
  ASSUME NEW t, NEW its, NEW ra, NEW cr
  PROVE  Good(Idle, t, its, ra, cr) /\ ~ Pub(Idle) /\ ~ Untold(Idle)
BY DEF Good, Idle, Pub, Asked, Untold, Command

LEMMA CountersStep ==
  ASSUME Counters, edits' = edits,
         \/ ops' = ops
         \/ \E p \in Server : ops[p] < MaxOps[p] /\ ops' = [ops EXCEPT ![p] = @ + 1]
  PROVE  Counters'
<1>1. CASE ops' = ops
  BY <1>1 DEF Counters
<1>2. ASSUME NEW p \in Server, ops[p] < MaxOps[p], ops' = [ops EXCEPT ![p] = @ + 1]
      PROVE  Counters'
  <2>1. ops' = [q \in Server |-> ops'[q]] /\ ops'[p] = ops[p] + 1
        /\ \A q \in Server : q # p => ops'[q] = ops[q]
    BY <1>2 DEF Counters
  <2>2. \A q \in Server : MaxOps[q] \in Nat /\ ops[q] \in 0 .. MaxOps[q]
    BY TaskHomeAssumption DEF Counters
  <2>3. ASSUME NEW q \in Server PROVE ops'[q] \in 0 .. MaxOps[q]
    BY <1>2, <2>1, <2>2
  <2> QED BY <2>1, <2>3 DEF Counters
<1> QED BY <1>1, <1>2

Steps == IInv' /\ KeepsItsHome /\ DoneThereFirst

LEMMA ServerState ==
  ASSUME IInv, NEW p \in Server
  PROVE  /\ Len(items) \in Nat /\ Longer(items, items)
         /\ cmd[p] \in Command(Len(items)) /\ Good(cmd[p], task, items, raced, crossed)
         /\ ~ raced /\ Pub(cmd[p]) => task.item = 0 /\ \A q \in Server : q # p => ~ Pub(cmd[q])
BY DEF IInv, World, ItemsOK, Longer, Good, OneAtATime

\* A step that moves nothing but the call of a server.
LEMMA CallMoves ==
  ASSUME IInv, NEW p \in Server, NEW c, cmd' = [cmd EXCEPT ![p] = c],
         UNCHANGED <<task, items, row, held, raced, crossed, edits>>,
         \/ ops' = ops
         \/ ops[p] < MaxOps[p] /\ ops' = [ops EXCEPT ![p] = @ + 1],
         Good(c, task, items, raced, crossed), Pub(c) => Pub(cmd[p])
  PROVE  Steps
<1>1. Counters'
  BY CountersStep DEF IInv
<1>2. World(task', items', row', held', raced') /\ Good(c, task', items', raced', crossed')
      /\ raced' \in BOOLEAN /\ crossed' \in BOOLEAN /\ Longer(items, items')
  BY ServerState DEF IInv
<1>3. ~ raced' /\ Pub(c) => \A q \in Server : q # p => ~ Pub(cmd[q])
  BY ServerState
<1>4. \A q \in Server : Bears(cmd[q], task, items, task', items', raced', crossed')
  BY DEF Bears
<1>5. IInv'
  BY <1>1, <1>2, <1>3, <1>4, ServerSteps
<1> QED BY <1>5 DEF Steps, KeepsItsHome, DoneThereFirst

LEMMA PublishSteps ==
  ASSUME IInv, NEW p \in Server, NEW h \in Home, taskPublish(p, h)
  PROVE  Steps
<1> DEFINE c == Attempt(h, Tries(h))
<1>1. /\ cmd[p] = Idle /\ task.item = 0 /\ cmd' = [cmd EXCEPT ![p] = c]
      /\ ops[p] < MaxOps[p] /\ ops' = [ops EXCEPT ![p] = @ + 1]
      /\ raced' = (raced \/ \E q \in Server : Pub(cmd[q]))
      /\ task' = task /\ items' = items /\ edits' = edits /\ row' = row /\ held' = held
      /\ crossed' = crossed
  BY DEF taskPublish, Call, Publishing, Pub, tool
<1>2. raced \in BOOLEAN /\ crossed \in BOOLEAN /\ World(task, items, row, held, raced) /\ Counters
  BY DEF IInv
<1>3. raced' \in BOOLEAN /\ (raced => raced')
  BY <1>1, <1>2, Zenon
<1>4. World(task', items', row', held', raced')
  BY <1>1, <1>2, <1>3, RacedWorld
<1>5. c \in [op : {"search", "create"}, home : Home, tries : 1 .. 2]
      /\ (c.op = "create" => c.home \notin Marked)
  BY DEF Attempt, Tries
<1> HIDE DEF c
<1>6. Good(c, task', items', raced', crossed')
  BY <1>1, <1>5 DEF Good, Command, Pub, Asked, Untold
<1>7. ~ raced' => \A q \in Server : ~ Pub(cmd[q])
  BY <1>1
<1>8. \A q \in Server : Bears(cmd[q], task, items, task', items', raced', crossed')
  BY <1>1 DEF Bears
<1>9. Counters' /\ crossed' \in BOOLEAN /\ (crossed => crossed') /\ Longer(items, items')
  BY <1>1, <1>2, CountersStep, ServerState
<1>10. IInv'
  BY <1>1, <1>3, <1>4, <1>6, <1>7, <1>8, <1>9, ServerSteps
<1> QED BY <1>1, <1>10 DEF Steps, KeepsItsHome, DoneThereFirst

\* The link, by a server that publishes.
LEMMA LinkingSteps ==
  ASSUME IInv, NEW p \in Server, NEW i \in Created, Pub(cmd[p]), TaskPublished(p, i),
         UNCHANGED <<tool, row, held, raced, ops>>
  PROVE  Steps
<1>1. /\ cmd' = [cmd EXCEPT ![p] = Idle] /\ items' = items /\ edits' = edits /\ row' = row
      /\ held' = held /\ raced' = raced /\ ops' = ops
      /\ crossed' = (crossed \/ \E q \in Server \ {p} : Untold(cmd[q]))
      /\ task' = [task EXCEPT !.item = i]
  BY DEF TaskPublished, tool, Crossed, Updating, Untold
<1>2. raced \in BOOLEAN /\ crossed \in BOOLEAN /\ World(task, items, row, held, raced) /\ Counters
  BY DEF IInv
<1>3. ~ raced => task.item = 0 /\ \A q \in Server : q # p => ~ Pub(cmd[q])
  BY ServerState
<1>4. World(task', items', row', held', raced') /\ task'.state = task.state
  BY <1>1, <1>2, <1>3, LinkWorld DEF Created
<1>5. crossed' \in BOOLEAN /\ (crossed => crossed')
  BY <1>1, <1>2, Zenon
<1>6. ASSUME NEW q \in Server, q # p
      PROVE  Bears(cmd[q], task, items, task', items', raced', crossed')
  <2>1. Untold(cmd[q]) => crossed'
    BY <1>1, <1>6, Zenon
  <2>2. ~ raced' => ~ Pub(cmd[q]) /\ task.item = 0
    BY <1>1, <1>3, <1>6
  <2> QED BY <2>1, <2>2 DEF Bears
<1>7. Counters' /\ Longer(items, items')
  BY <1>1, <1>2, CountersStep, ServerState
<1>8. IInv'
  <2>1. Good(Idle, task', items', raced', crossed') /\ ~ Pub(Idle)
    BY IdleIsGood
  <2>2. raced' \in BOOLEAN /\ (raced => raced')
    BY <1>1, <1>2
  <2> QED BY <1>1, <1>4, <1>5, <1>6, <1>7, <2>1, <2>2, ServerSteps
<1> QED BY <1>3, <1>4, <1>8 DEF Steps, KeepsItsHome, DoneThereFirst

LEMMA SearchSteps ==
  ASSUME IInv, NEW p \in Server, Search(p)
  PROVE  Steps
<1>1. cmd[p].op = "search" /\ Pub(cmd[p])
  BY DEF Search, Pub
<1>2. ASSUME NEW i \in Carrying(cmd[p].home), TaskPublished(p, i)
      PROVE  Steps
  <2>1. i \in Created
    BY DEF Carrying
  <2>2. UNCHANGED <<tool, row, held, raced, ops>>
    BY DEF Search
  <2> QED BY <1>1, <1>2, <2>1, <2>2, LinkingSteps
<1>3. ASSUME Carrying(cmd[p].home) = {}, cmd' = [cmd EXCEPT ![p].op = "create"],
             UNCHANGED <<task, crossed>>
      PROVE  Steps
  <2> DEFINE c == [op |-> "create", home |-> cmd[p].home, tries |-> cmd[p].tries]
  <2>1. /\ cmd[p].home \in Home /\ cmd[p].tries \in 1 .. 2
        /\ cmd[p] = [op |-> cmd[p].op, home |-> cmd[p].home, tries |-> cmd[p].tries]
    BY <1>1, ServerState, CommandIs
  <2>2. cmd' = [cmd EXCEPT ![p] = c]
    <3>1. [cmd[p] EXCEPT !.op = "create"] = c
      BY <2>1
    <3> QED BY <1>3, <3>1
  <2>3. c \in Command(Len(items)) /\ c.op = "create" /\ c.home = cmd[p].home
    BY <2>1 DEF Command
  <2> HIDE DEF c
  <2>4. \A i \in 1 .. Len(items) : items[i].home # c.home
    BY <1>3, <2>3 DEF Carrying, Created
  <2>5. Good(c, task, items, raced, crossed) /\ Pub(c)
    BY <1>1, <2>3, <2>4, ServerState DEF Good, Pub, Asked, Untold
  <2>6. UNCHANGED <<task, items, row, held, raced, crossed, edits>> /\ ops' = ops
    BY <1>3 DEF Search, tool
  <2> QED BY <1>1, <2>2, <2>5, <2>6, CallMoves
<1> QED BY <1>2, <1>3 DEF Search

LEMMA CreateSteps ==
  ASSUME IInv, NEW p \in Server, Create(p)
  PROVE  Steps
<1> DEFINE h == cmd[p].home
           N == Len(items)
           c == [op |-> "linking", home |-> h, tries |-> cmd[p].tries, item |-> N + 1]
<1>1. /\ cmd[p].op = "create" /\ Pub(cmd[p]) /\ N < MaxItems
      /\ items' = Append(items, [home |-> h, state |-> "open", due |-> None,
                                 edited |-> FALSE, done |-> FALSE])
      /\ task' = task /\ row' = row /\ held' = held /\ raced' = raced /\ crossed' = crossed
      /\ edits' = edits /\ ops' = ops
  BY DEF Create, Pub, history
<1>2. /\ raced \in BOOLEAN /\ crossed \in BOOLEAN /\ World(task, items, row, held, raced)
      /\ Counters
  BY DEF IInv
<1>3. /\ N \in Nat /\ h \in Home /\ cmd[p].tries \in 1 .. 2
      /\ Good(cmd[p], task, items, raced, crossed)
      /\ ~ raced => task.item = 0 /\ \A q \in Server : q # p => ~ Pub(cmd[q])
  BY <1>1, ServerState, CommandIs
<1>4. ~ raced /\ h \in Marked => \A i \in 1 .. N : items[i].home # h
  BY <1>1, <1>3 DEF Good
<1>5. /\ World(task, items', row, held, raced) /\ Longer(items, items')
      /\ Len(items') \in Nat /\ Len(items') = N + 1
  BY <1>1, <1>2, <1>3, <1>4, CreateWorld
<1>6. cmd' = [cmd EXCEPT ![p] = c]
  BY <1>5 DEF Create
<1>7. c \in Command(N + 1) /\ c.op = "linking"
  BY <1>3 DEF Command
<1> HIDE DEF c, h, N
<1>8. Good(c, task', items', raced', crossed')
  BY <1>1, <1>3, <1>5, <1>7 DEF Good, Pub, Asked, Untold
<1>9. \A q \in Server : q # p => Bears(cmd[q], task, items, task', items', raced', crossed')
  BY <1>1, <1>3 DEF Bears
<1>10. Counters'
  BY <1>1, <1>2, CountersStep
<1>11. World(task', items', row', held', raced')
  BY <1>1, <1>5
<1>12. ~ raced' /\ Pub(c) => \A q \in Server : q # p => ~ Pub(cmd[q])
  BY <1>1, <1>3
<1>13. IInv'
  BY <1>1, <1>2, <1>5, <1>6, <1>8, <1>9, <1>10, <1>11, <1>12, ServerSteps
<1> QED BY <1>1, <1>13 DEF Steps, KeepsItsHome, DoneThereFirst

LEMMA LinkSteps ==
  ASSUME IInv, NEW p \in Server, Link(p)
  PROVE  Steps
<1>1. cmd[p].op = "linking" /\ Pub(cmd[p])
  BY DEF Link, Pub
<1>2. cmd[p].item \in Created
  BY <1>1, ServerState, CommandIs DEF Created
<1> QED BY <1>1, <1>2, LinkingSteps DEF Link

LEMMA DieSteps ==
  ASSUME IInv, NEW p \in Server, Die(p)
  PROVE  Steps
<1>1. cmd' = [cmd EXCEPT ![p] = Idle] /\ ops' = ops
      /\ UNCHANGED <<task, items, row, held, raced, crossed, edits>>
  BY DEF Die, tool, history
<1>2. Good(Idle, task, items, raced, crossed) /\ ~ Pub(Idle)
  BY IdleIsGood
<1> QED BY <1>1, <1>2, CallMoves

LEMMA EgressSteps ==
  ASSUME IInv, NEW p \in Server, EgressFails(p)
  PROVE  Steps
<1>1. ops' = ops /\ UNCHANGED <<task, items, row, held, raced, crossed, edits>>
  BY DEF EgressFails, tool, history
<1>2. CASE cmd[p].tries = 1
  <2>1. cmd' = [cmd EXCEPT ![p] = Idle]
    BY <1>2 DEF EgressFails
  <2>2. Good(Idle, task, items, raced, crossed) /\ ~ Pub(Idle)
    BY IdleIsGood
  <2> QED BY <1>1, <2>1, <2>2, CallMoves
<1>3. CASE cmd[p].tries # 1 /\ Pub(cmd[p])
  <2> DEFINE c == Attempt(cmd[p].home, 1)
  <2>1. cmd' = [cmd EXCEPT ![p] = c]
    BY <1>3 DEF EgressFails, Publishing, Pub
  <2>2. cmd[p].home \in Home
    BY <1>3, ServerState, CommandIs DEF Pub
  <2>3. c \in Command(Len(items)) /\ (c.op = "create" => c.home \notin Marked)
        /\ c.op \in {"search", "create"}
    BY <2>2 DEF Attempt, Command
  <2> HIDE DEF c
  <2>4. Good(c, task, items, raced, crossed)
    BY <1>3, <2>3, ServerState DEF Good, Pub, Asked, Untold
  <2> QED BY <1>1, <1>3, <2>1, <2>4, CallMoves
<1>4. CASE cmd[p].tries # 1 /\ ~ Pub(cmd[p])
  <2> DEFINE c == [op |-> "acting", action |-> cmd[p].action, tries |-> 1,
                   item |-> cmd[p].item, state |-> cmd[p].state, due |-> cmd[p].due]
  <2>1. Asked(cmd[p])
    BY <1>4 DEF EgressFails, Publishing, Acting, Asked, Pub
  <2>2. cmd[p].action \in {"complete", "reopen", "drop", None} /\ cmd[p].item \in 0 .. Len(items)
        /\ cmd[p].state \in TaskState \union {None} /\ cmd[p].due \in Dates
        /\ cmd[p] = [op |-> cmd[p].op, action |-> cmd[p].action, tries |-> cmd[p].tries,
                     item |-> cmd[p].item, state |-> cmd[p].state, due |-> cmd[p].due]
    BY <2>1, ServerState, CommandIs DEF Asked
  <2>3. cmd' = [cmd EXCEPT ![p] = c]
    <3> DEFINE b == [cmd[p] EXCEPT !.op = "acting"]
               d == [b EXCEPT !.tries = 1]
    <3>1. b = [op |-> "acting", action |-> cmd[p].action, tries |-> cmd[p].tries,
               item |-> cmd[p].item, state |-> cmd[p].state, due |-> cmd[p].due]
      BY <2>2
    <3> HIDE DEF b
    <3>2. d = c
      BY <3>1
    <3>3. cmd' = [cmd EXCEPT ![p] = d]
      BY <1>4 DEF EgressFails, Publishing, Pub, b
    <3> QED BY <3>2, <3>3
  <2>4. c \in Command(Len(items))
    BY <2>2 DEF Command
  <2>5. /\ c.op = "acting" /\ c.action = cmd[p].action /\ c.item = cmd[p].item
        /\ c.state = cmd[p].state
    OBVIOUS
  <2> HIDE DEF c
  <2>6. Good(c, task, items, raced, crossed) /\ ~ Pub(c)
    BY <2>1, <2>4, <2>5, ServerState DEF Good, Pub, Asked, Untold
  <2> QED BY <1>1, <2>3, <2>6, CallMoves
<1> QED BY <1>2, <1>3, <1>4

\* A call that asks the home of the task.
LEMMA AskSteps ==
  ASSUME IInv, NEW p \in Server, NEW action \in {"complete", "reopen", "drop"},
         NEW s \in TaskState \union {None}, NEW d \in Dates,
         s = "completed" => action = "complete",
         Call(p), task.item # 0, Ask(p, action, s, d), UNCHANGED <<task, tool, row, held, history>>
  PROVE  Steps
<1> DEFINE c == [op |-> "acting", action |-> action, tries |-> Tries(items[task.item].home),
                 item |-> task.item, state |-> s, due |-> d]
<1>1. /\ cmd' = [cmd EXCEPT ![p] = c]
      /\ ops[p] < MaxOps[p] /\ ops' = [ops EXCEPT ![p] = @ + 1]
      /\ UNCHANGED <<task, items, row, held, raced, crossed, edits>>
  BY DEF Ask, Call, tool, history
<1>2. task.item \in 1 .. Len(items) /\ Len(items) \in Nat
  BY DEF IInv, World, TaskRow, ItemsOK
<1>3. Tries(items[task.item].home) \in 1 .. 2
  BY DEF Tries
<1>4. c \in Command(Len(items)) /\ c.op = "acting" /\ c.action = action /\ c.state = s
      /\ c.item = task.item /\ action # None
  BY <1>2, <1>3, TaskHomeAssumption DEF Command
<1> HIDE DEF c
<1>5. Good(c, task, items, raced, crossed) /\ ~ Pub(c)
  BY <1>2, <1>4 DEF Good, Pub, Asked, Untold
<1> QED BY <1>1, <1>5, CallMoves

LEMMA taskActSteps ==
  ASSUME IInv, NEW p \in Server, NEW action \in {"complete", "reopen", "drop"}, taskAct(p, action)
  PROVE  Steps
<1>1. None # "completed" /\ None \in TaskState \union {None} /\ None \in Dates
  BY TaskHomeAssumption DEF TaskState, Dates
<1> QED BY <1>1, AskSteps DEF taskAct

LEMMA taskUpdateSteps ==
  ASSUME IInv, NEW p \in Server, NEW s \in TaskState, NEW d \in Dates, taskUpdate(p, s, d)
  PROVE  Steps
<1>1. CASE task.item # 0 /\ s # task.state
  <2>1. actionForState(s) \in {"complete", "reopen", "drop"}
        /\ (s = "completed" => actionForState(s) = "complete")
    BY DEF actionForState, TaskState
  <2>2. Ask(p, actionForState(s), s, d) /\ Call(p)
        /\ UNCHANGED <<task, tool, row, held, history>>
    BY <1>1 DEF taskUpdate
  <2> QED BY <1>1, <2>1, <2>2, AskSteps
<1>2. CASE ~ (task.item # 0 /\ s # task.state)
  <2> DEFINE c == [op |-> "applying", action |-> None, tries |-> 1, item |-> task.item,
                   state |-> s, due |-> d]
  <2>1. /\ cmd' = [cmd EXCEPT ![p] = c]
        /\ ops[p] < MaxOps[p] /\ ops' = [ops EXCEPT ![p] = @ + 1]
        /\ UNCHANGED <<task, items, row, held, raced, crossed, edits>>
    BY <1>2 DEF taskUpdate, Record, Call, tool, history
  <2>2. task.item \in 0 .. Len(items)
    BY DEF IInv, World, TaskRow
  <2>3. c \in Command(Len(items)) /\ c.op = "applying" /\ c.action = None /\ c.state = s
        /\ c.item = task.item
    BY <2>2 DEF Command
  <2> HIDE DEF c
  <2>4. Good(c, task, items, raced, crossed) /\ ~ Pub(c)
    BY <1>2, <2>3 DEF Good, Pub, Asked, Untold
  <2> QED BY <2>1, <2>4, CallMoves
<1> QED BY <1>1, <1>2

\* One item changed as ItemWorld allows.
LEMMA ItemFields ==
  ASSUME NEW r \in ItemRow
  PROVE  /\ r.home \in Home /\ r.state \in TaskState /\ r.due \in Dates
         /\ r.edited \in BOOLEAN /\ r.done \in BOOLEAN
         /\ r = [home |-> r.home, state |-> r.state, due |-> r.due,
                 edited |-> r.edited, done |-> r.done]
BY DEF ItemRow

LEMMA ActSteps ==
  ASSUME IInv, NEW p \in Server, Act(p)
  PROVE  Steps
<1> DEFINE i == cmd[p].item
           r == items[i]
<1>1. /\ cmd[p].op = "acting" /\ task' = task /\ row' = row /\ held' = held
      /\ raced' = raced /\ crossed' = crossed /\ edits' = edits /\ ops' = ops
      /\ cmd' = [cmd EXCEPT ![p] = [cmd[p] EXCEPT !.op = "applying"]]
  BY DEF Act, history
<1>2. /\ raced \in BOOLEAN /\ crossed \in BOOLEAN /\ World(task, items, row, held, raced)
      /\ Counters
  BY DEF IInv
<1>3. /\ cmd[p].action \in {"complete", "reopen", "drop", None} /\ cmd[p].tries \in 1 .. 2
      /\ i \in 0 .. Len(items) /\ cmd[p].state \in TaskState \union {None} /\ cmd[p].due \in Dates
      /\ cmd[p] = [op |-> cmd[p].op, action |-> cmd[p].action, tries |-> cmd[p].tries,
                   item |-> i, state |-> cmd[p].state, due |-> cmd[p].due]
      /\ Good(cmd[p], task, items, raced, crossed) /\ Len(items) \in Nat
  BY <1>1, ServerState, CommandIs
<1>4. /\ i \in 1 .. Len(items) /\ cmd[p].action \in {"complete", "reopen", "drop"}
      /\ cmd[p].state = "completed" => cmd[p].action = "complete"
      /\ ~ raced => i = task.item
  BY <1>1, <1>3 DEF Good, Asked
<1>5. r \in ItemRow /\ r.state \in Expresses(r.home)
  BY <1>4, <1>2 DEF World, ItemsOK
<1>6. PICK s \in Effects(r.home, cmd[p].action, r.state) :
         items' = [items EXCEPT ![i].state = s, ![i].done = @ \/ s = "completed"]
  BY DEF Act
<1> DEFINE x == [home |-> r.home, state |-> s, due |-> r.due, edited |-> r.edited,
                 done |-> r.done \/ s = "completed"]
<1>7. s \in Expresses(r.home) /\ s \in TaskState /\ (cmd[p].action = "complete" => s = "completed")
  BY <1>4, <1>5, <1>6, HomeFacts, ItemFields
<1>8. items' = [items EXCEPT ![i] = x]
  <2> DEFINE one == [items EXCEPT ![i].state = s]
             two == [one EXCEPT ![i].done = @ \/ s = "completed"]
             y == [home |-> r.home, state |-> s, due |-> r.due, edited |-> r.edited, done |-> r.done]
  <2>1. [r EXCEPT !.state = s] = y
    BY <1>5, ItemFields
  <2>2. one = [items EXCEPT ![i] = y]
    BY <2>1
  <2>3. items \in Seq(ItemRow)
    BY <1>2 DEF World, ItemsOK
  <2> HIDE DEF y
  <2>4. one[i] = y /\ DOMAIN one = DOMAIN items /\ one = [j \in DOMAIN items |-> one[j]]
        /\ \A j \in DOMAIN items : j # i => one[j] = items[j]
    BY <1>4, <2>2, <2>3
  <2> HIDE DEF one
  <2>5. [y EXCEPT !.done = @ \/ s = "completed"] = x
    BY DEF y
  <2>6. two = [items EXCEPT ![i] = x]
    BY <1>4, <2>3, <2>4, <2>5
  <2>7. items' = two
    BY <1>6 DEF one
  <2> QED BY <2>6, <2>7
<1>9. x \in ItemRow /\ x.home = r.home /\ x.state = s /\ x.done \in BOOLEAN
      /\ (r.done => x.done) /\ (s = "completed" => x.done)
  <2>1. (r.done \/ s = "completed") \in BOOLEAN
    OBVIOUS
  <2>2. x.done = (r.done \/ s = "completed")
    OBVIOUS
  <2>3. (r.done => x.done) /\ (s = "completed" => x.done)
    BY <2>2, Zenon
  <2> QED BY <1>5, <1>7, <2>1, <2>3, ItemFields DEF ItemRow
<1> DEFINE c == [op |-> "applying", action |-> cmd[p].action, tries |-> cmd[p].tries,
                 item |-> i, state |-> cmd[p].state, due |-> cmd[p].due]
<1>10. cmd' = [cmd EXCEPT ![p] = c]
  <2>1. [cmd[p] EXCEPT !.op = "applying"] = c
    BY <1>3
  <2> QED BY <1>1, <2>1
<1>11. c \in Command(Len(items)) /\ c.op = "applying" /\ c.action = cmd[p].action /\ c.item = i
       /\ c.state = cmd[p].state
  BY <1>3 DEF Command
<1> HIDE DEF c, x, i
<1>12. /\ World(task, items', row, held, raced) /\ Longer(items, items')
       /\ Len(items') = Len(items)
  <2>1. Changes(items, items')
    BY <1>4, <1>7, <1>8, <1>9 DEF Changes
  <2> QED BY <1>2, <2>1, ItemWorld
<1>13. items'[i] = x
  BY <1>2, <1>4, <1>8 DEF World, ItemsOK
<1>14. Good(c, task', items', raced', crossed') /\ ~ Pub(c)
  <2>1. c \in Command(Len(items')) /\ ~ Pub(c) /\ Asked(c) /\ ~ Untold(c) /\ c.op = "applying"
    BY <1>4, <1>11, <1>12, TaskHomeAssumption DEF Pub, Asked, Untold
  <2>2. c.item \in 1 .. Len(items') /\ (c.state = "completed" => c.action = "complete")
        /\ (~ raced' => c.item = task'.item)
    BY <1>1, <1>4, <1>11, <1>12
  <2>3. c.state = "completed" => items'[c.item].done
    BY <1>4, <1>7, <1>9, <1>11, <1>13
  <2> QED BY <2>1, <2>2, <2>3 DEF Good
<1>15. \A q \in Server : q # p => Bears(cmd[q], task, items, task', items', raced', crossed')
  BY <1>1, <1>12 DEF Bears
<1>16. Counters'
  BY <1>1, <1>2, CountersStep
<1>17. World(task', items', row', held', raced')
  BY <1>1, <1>12
<1>18. IInv'
  BY <1>1, <1>2, <1>10, <1>12, <1>14, <1>15, <1>16, <1>17, ServerSteps
<1> QED BY <1>1, <1>18 DEF Steps, KeepsItsHome, DoneThereFirst

LEMMA ApplySteps ==
  ASSUME IInv, NEW p \in Server, Apply(p)
  PROVE  Steps
<1> DEFINE c == cmd[p]
<1>1. /\ c.op = "applying" /\ cmd' = [cmd EXCEPT ![p] = Idle]
      /\ items' = items /\ edits' = edits /\ row' = row /\ held' = held /\ raced' = raced
      /\ ops' = ops
      /\ crossed' = (crossed \/ \E q \in Server \ {p} : Untold(cmd[q]))
  BY DEF Apply, tool, Crossed, Updating, Untold
<1>2. raced \in BOOLEAN /\ crossed \in BOOLEAN /\ World(task, items, row, held, raced) /\ Counters
  BY DEF IInv
<1>3. /\ c.state \in TaskState \union {None} /\ c.due \in Dates
      /\ Good(c, task, items, raced, crossed)
  BY <1>1, ServerState, CommandIs
<1>4. /\ World(task', items', row', held', raced') /\ task'.item = task.item
      /\ task'.state # task.state => task'.state = c.state
  <2>1. CASE c.state = None
    BY <1>1, <1>2, <2>1 DEF Apply
  <2>2. CASE c.state # None
    <3>1. c.state \in TaskState
      BY <1>3, <2>2
    <3>2. Applied(task, task', c.state)
      BY <1>3, <2>2 DEF Apply, TaskApplied, Applied
    <3> HIDE DEF c
    <3> QED BY <1>1, <1>2, <3>1, <3>2, ApplyWorld
  <2> QED BY <2>1, <2>2
<1>5. crossed' \in BOOLEAN /\ (crossed => crossed')
  BY <1>1, <1>2, Zenon
<1>6. ASSUME NEW q \in Server, q # p
      PROVE  Bears(cmd[q], task, items, task', items', raced', crossed')
  <2>1. Untold(cmd[q]) => crossed'
    BY <1>1, <1>6, Zenon
  <2> QED BY <1>1, <1>4, <2>1 DEF Bears
<1>7. Counters' /\ Longer(items, items')
  BY <1>1, <1>2, CountersStep, ServerState
<1>8. IInv'
  <2>1. Good(Idle, task', items', raced', crossed') /\ ~ Pub(Idle)
    BY IdleIsGood
  <2>2. raced' \in BOOLEAN /\ (raced => raced')
    BY <1>1, <1>2
  <2> QED BY <1>1, <1>4, <1>5, <1>6, <1>7, <2>1, <2>2, ServerSteps
<1>9. DoneThereFirst
  <2> SUFFICES ASSUME task'.state = "completed", task.state # "completed", task.item # 0,
                      ~ raced, ~ crossed
               PROVE  items[task.item].done
    BY DEF DoneThereFirst
  <2>1. c.state = "completed"
    BY <1>4
  <2>2. Asked(c) \/ Untold(c)
    BY <1>1 DEF Asked, Untold
  <2> HIDE DEF c
  <2>3. ~ Untold(c)
    BY <1>3, <2>1 DEF Good
  <2> QED BY <1>1, <1>3, <2>1, <2>2, <2>3 DEF Good
<1> QED BY <1>4, <1>8, <1>9 DEF Steps, KeepsItsHome

LEMMA EditedIs ==
  ASSUME NEW r \in ItemRow, NEW b \in BOOLEAN
  PROVE  LET x == [home |-> r.home, state |-> r.state, due |-> r.due, edited |-> b,
                   done |-> r.done]
         IN  x \in ItemRow /\ [r EXCEPT !.edited = b] = x
<1>1. \A h, s, d, e, f :
        [[home |-> h, state |-> s, due |-> d, edited |-> e, done |-> f] EXCEPT !.edited = b]
          = [home |-> h, state |-> s, due |-> d, edited |-> b, done |-> f]
  OBVIOUS
<1>2. /\ r.home \in Home /\ r.state \in TaskState /\ r.due \in Dates /\ r.done \in BOOLEAN
      /\ r = [home |-> r.home, state |-> r.state, due |-> r.due,
              edited |-> r.edited, done |-> r.done]
  BY ItemFields
<1>3. [home |-> r.home, state |-> r.state, due |-> r.due, edited |-> b,
       done |-> r.done] \in ItemRow
  BY <1>2, Zenon DEF ItemRow
<1>4. [r EXCEPT !.edited = b]
        = [home |-> r.home, state |-> r.state, due |-> r.due, edited |-> b, done |-> r.done]
  <2> PICK h, s, d, e, f : /\ h = r.home /\ s = r.state /\ d = r.due /\ f = r.done
                           /\ r = [home |-> h, state |-> s, due |-> d, edited |-> e, done |-> f]
    BY <1>2
  <2>1. [r EXCEPT !.edited = b]
          = [home |-> h, state |-> s, due |-> d, edited |-> b, done |-> f]
    BY <1>1
  <2> QED BY <2>1
<1> QED BY <1>3, <1>4

LEMMA IngestSteps ==
  ASSUME IInv, NEW i \in Created, Ingest(i)
  PROVE  Steps
<1> DEFINE r == items[i]
           x == [home |-> r.home, state |-> r.state, due |-> r.due, edited |-> FALSE,
                 done |-> r.done]
           seen == [state |-> r.state, due |-> r.due]
<1>1. /\ row' = [row EXCEPT ![i] = seen]
      /\ items' = [items EXCEPT ![i] = [items[i] EXCEPT !.edited = FALSE]]
      /\ task' = task /\ cmd' = cmd /\ held' = held /\ raced' = raced /\ crossed' = crossed
      /\ edits' = edits /\ ops' = ops
  BY DEF Ingest, history
<1>2. raced \in BOOLEAN /\ crossed \in BOOLEAN /\ World(task, items, row, held, raced) /\ Counters
  BY DEF IInv
<1>3. i \in 1 .. Len(items) /\ r \in ItemRow /\ r.state \in Expresses(r.home)
      /\ (r.state = "completed" => r.done)
  BY <1>2 DEF World, ItemsOK, Created
<1>4. x = [items[i] EXCEPT !.edited = FALSE] /\ x \in ItemRow /\ x.home = r.home
      /\ x.done = r.done /\ x.state = r.state
  <2>1. x \in ItemRow /\ [r EXCEPT !.edited = FALSE] = x
    BY <1>3, EditedIs
  <2> QED BY <2>1
<1>5. items' = [items EXCEPT ![i] = x]
  BY <1>1, <1>4
<1>6. World(task, items, row', held, raced)
  BY <1>1, <1>2, <1>3, SeenWorld
<1> HIDE DEF x
<1>7. /\ World(task, items', row', held, raced) /\ Longer(items, items')
      /\ Len(items') = Len(items)
  <2>1. Changes(items, items')
    BY <1>3, <1>4, <1>5 DEF Changes
  <2> QED BY <1>6, <2>1, ItemWorld
<1>8. \A q \in Server : Bears(cmd[q], task, items, task', items', raced', crossed')
  BY <1>1, <1>7 DEF Bears
<1>9. Counters' /\ World(task', items', row', held', raced')
  BY <1>1, <1>2, <1>7, CountersStep
<1>10. IInv'
  BY <1>1, <1>2, <1>7, <1>8, <1>9, WorldSteps
<1> QED BY <1>1, <1>10 DEF Steps, KeepsItsHome, DoneThereFirst

LEMMA EditSteps ==
  ASSUME IInv, NEW i \in Created, Edit(i)
  PROVE  Steps
<1> DEFINE r == items[i]
<1>1. /\ task' = task /\ cmd' = cmd /\ row' = row /\ held' = held /\ raced' = raced
      /\ crossed' = crossed /\ ops' = ops /\ edits' = edits + 1 /\ edits < MaxEdits
  BY DEF Edit, history
<1>2. raced \in BOOLEAN /\ crossed \in BOOLEAN /\ World(task, items, row, held, raced) /\ Counters
  BY DEF IInv
<1>3. /\ i \in 1 .. Len(items) /\ items \in Seq(ItemRow) /\ r \in ItemRow
      /\ r.state \in Expresses(r.home)
      /\ r.state = "completed" => r.done
  BY <1>2 DEF World, ItemsOK, Created
<1>4. ASSUME NEW s \in Expresses(r.home), NEW d \in Dates,
             items' = [items EXCEPT ![i].state = s, ![i].due = d, ![i].done = @ \/ s = "completed"]
      PROVE  Changes(items, items')
  <2> DEFINE one == [items EXCEPT ![i].state = s]
             two == [one EXCEPT ![i].due = d]
             three == [two EXCEPT ![i].done = r.done \/ s = "completed"]
             y == [home |-> r.home, state |-> s, due |-> r.due, edited |-> r.edited,
                   done |-> r.done]
             z == [home |-> r.home, state |-> s, due |-> d, edited |-> r.edited, done |-> r.done]
             x == [home |-> r.home, state |-> s, due |-> d, edited |-> r.edited,
                   done |-> r.done \/ s = "completed"]
  <2>1. [r EXCEPT !.state = s] = y /\ [y EXCEPT !.due = d] = z
        /\ [z EXCEPT !.done = r.done \/ s = "completed"] = x
    BY <1>3, ItemFields
  <2>2. x \in ItemRow /\ x.home = r.home /\ x.state = s
        /\ (r.done => x.done) /\ (s = "completed" => x.done)
    <3>1. x.done = (r.done \/ s = "completed")
      OBVIOUS
    <3>2. (r.done => x.done) /\ (s = "completed" => x.done)
      BY <3>1, Zenon
    <3>3. s \in TaskState /\ r.home \in Home /\ r.edited \in BOOLEAN
      BY <1>3, HomeFacts, ItemFields
    <3> QED BY <3>2, <3>3 DEF ItemRow
  <2> HIDE DEF x, y, z
  <2>3. one = [items EXCEPT ![i] = y]
    BY <2>1
  <2>4. /\ one[i] = y /\ DOMAIN one = DOMAIN items /\ one = [j \in DOMAIN items |-> one[j]]
        /\ \A j \in DOMAIN items : j # i => one[j] = items[j]
    BY <1>3, <2>3
  <2> HIDE DEF one
  <2>5. /\ two[i] = z /\ DOMAIN two = DOMAIN items /\ two = [j \in DOMAIN items |-> two[j]]
        /\ \A j \in DOMAIN items : j # i => two[j] = items[j]
    BY <1>3, <2>1, <2>4
  <2> HIDE DEF two
  <2>6. three = [items EXCEPT ![i] = x]
    BY <1>3, <2>1, <2>5
  <2>7. items' = [items EXCEPT ![i] = x]
    BY <1>4, <2>6 DEF one, two
  <2> QED BY <1>3, <2>2, <2>7 DEF Changes
<1>5. ASSUME items' = [items EXCEPT ![i].edited = TRUE]
      PROVE  Changes(items, items')
  <2> DEFINE x == [home |-> r.home, state |-> r.state, due |-> r.due, edited |-> TRUE,
                   done |-> r.done]
  <2>1. [items[i] EXCEPT !.edited = TRUE] = x /\ x \in ItemRow /\ x.home = r.home
        /\ x.done = r.done /\ x.state = r.state
    <3>1. x \in ItemRow /\ [r EXCEPT !.edited = TRUE] = x
      BY <1>3, EditedIs
    <3> QED BY <3>1
  <2>2. items' = [items EXCEPT ![i] = x]
    BY <1>5, <2>1
  <2> HIDE DEF x
  <2> QED BY <1>3, <2>1, <2>2 DEF Changes
<1>6. Changes(items, items')
  <2>1. CASE \E s \in Expresses(r.home),
                d \in (IF r.home = "jira" THEN Due \union {None} ELSE {None}) :
                items' = [items EXCEPT ![i].state = s, ![i].due = d,
                                       ![i].done = @ \/ s = "completed"]
    BY <1>4, <2>1 DEF Dates
  <2>2. CASE items' = [items EXCEPT ![i].edited = TRUE]
    BY <1>5, <2>2
  <2> QED BY <2>1, <2>2 DEF Edit
<1>7. World(task, items', row, held, raced) /\ Longer(items, items') /\ Len(items') = Len(items)
  BY <1>2, <1>6, ItemWorld
<1>8. \A q \in Server : Bears(cmd[q], task, items, task', items', raced', crossed')
  BY <1>1, <1>7 DEF Bears
<1>9. Counters' /\ World(task', items', row', held', raced')
  <2>1. edits' \in 0 .. MaxEdits
    BY <1>1, <1>2, TaskHomeAssumption DEF Counters
  <2> QED BY <1>1, <1>2, <1>7, <2>1 DEF Counters
<1>10. IInv'
  BY <1>1, <1>2, <1>7, <1>8, <1>9, WorldSteps
<1> QED BY <1>1, <1>10 DEF Steps, KeepsItsHome, DoneThereFirst

LEMMA reconcileReadbackSteps ==
  ASSUME IInv, NEW readsLists \in BOOLEAN, reconcileReadback(readsLists)
  PROVE  Steps
<1>1. /\ task' = task /\ cmd' = cmd /\ row' = row /\ items' = items /\ raced' = raced
      /\ crossed' = crossed /\ ops' = ops /\ edits' = edits
      /\ task.item # 0 /\ row[task.item] # None
  BY DEF reconcileReadback, history, tool
<1>2. raced \in BOOLEAN /\ crossed \in BOOLEAN /\ World(task, items, row, held, raced) /\ Counters
  BY DEF IInv
<1> DEFINE seen == row[task.item]
           due  == IF items[task.item].home = "jira" /\ seen.due # task.due
                   THEN seen.due ELSE None
<1>3. held' = [state |-> seen.state, due |-> due]
  BY DEF reconcileReadback
<1>4. due \in Dates
  <2>1. task.item \in Item
    BY <1>1, <1>2, TaskHomeAssumption DEF World, TaskRow, ItemsOK, Item
  <2>2. seen \in Seen
    BY <1>1, <1>2, <2>1 DEF World, RowsOK
  <2>3. seen.due \in Dates
    BY <2>2 DEF Seen
  <2> QED BY <2>3 DEF Dates
<1> HIDE DEF due
<1>5. World(task, items, row, held', raced)
  BY <1>1, <1>2, <1>3, <1>4, HeldWorld
<1>6. \A q \in Server : Bears(cmd[q], task, items, task', items', raced', crossed')
  BY <1>1 DEF Bears
<1>7. Counters' /\ World(task', items', row', held', raced') /\ Longer(items, items')
  BY <1>1, <1>2, <1>5, CountersStep DEF Longer, World, ItemsOK
<1>8. IInv'
  BY <1>1, <1>2, <1>6, <1>7, WorldSteps
<1> QED BY <1>1, <1>8 DEF Steps, KeepsItsHome, DoneThereFirst

LEMMA ReadbackAppliedSteps ==
  ASSUME IInv, ReadbackApplied
  PROVE  Steps
<1>1. /\ cmd' = cmd /\ row' = row /\ items' = items /\ raced' = raced /\ ops' = ops
      /\ edits' = edits /\ held # None /\ held' = None
      /\ crossed' = (crossed \/ \E q \in Server \ {None} : Untold(cmd[q]))
  BY DEF ReadbackApplied, tool, Crossed, Updating, Untold
<1>2. raced \in BOOLEAN /\ crossed \in BOOLEAN /\ World(task, items, row, held, raced) /\ Counters
  BY DEF IInv
<1>3. held \in Seen
  BY <1>1, <1>2 DEF World, HeldOK
<1>4. held.state \in TaskState /\ held.due \in Dates
  BY <1>3 DEF Seen
<1>5. Applied(task, task', held.state)
  BY <1>4 DEF ReadbackApplied, TaskApplied, Applied
<1>6. World(task', items, row, held, raced) /\ task'.item = task.item /\ task'.state = held.state
  BY <1>2, <1>4, <1>5, ApplyWorld
<1>7. World(task', items', row', held', raced')
  BY <1>1, <1>6, ToldWorld
<1>8. crossed' \in BOOLEAN /\ (crossed => crossed')
  BY <1>1, <1>2, Zenon
<1>9. ASSUME NEW q \in Server
      PROVE  Bears(cmd[q], task, items, task', items', raced', crossed')
  <2>1. q # None
    BY TaskHomeAssumption
  <2>2. Untold(cmd[q]) => crossed'
    BY <1>1, <2>1, Zenon
  <2> QED BY <1>1, <1>6, <2>2 DEF Bears
<1>10. Counters' /\ Longer(items, items')
  BY <1>1, <1>2, CountersStep DEF Longer, World, ItemsOK
<1>11. IInv'
  BY <1>1, <1>7, <1>8, <1>9, <1>10, WorldSteps
<1>12. DoneThereFirst
  BY <1>1, <1>2, <1>6 DEF World, HeldOK, DoneThereFirst
<1> QED BY <1>6, <1>11, <1>12 DEF Steps, KeepsItsHome

LEMMA NextSteps ==
  ASSUME IInv, [Next]_vars
  PROVE  Steps
<1>1. ASSUME NEW p \in Server, NEW h \in Home, taskPublish(p, h) PROVE Steps
  BY <1>1, PublishSteps
<1>2. ASSUME NEW p \in Server, Search(p) PROVE Steps
  BY <1>2, SearchSteps
<1>3. ASSUME NEW p \in Server, Create(p) PROVE Steps
  BY <1>3, CreateSteps
<1>4. ASSUME NEW p \in Server, Link(p) PROVE Steps
  BY <1>4, LinkSteps
<1>5. ASSUME NEW p \in Server, EgressFails(p) PROVE Steps
  BY <1>5, EgressSteps
<1>6. ASSUME NEW p \in Server, Die(p) PROVE Steps
  BY <1>6, DieSteps
<1>7. ASSUME NEW p \in Server, NEW a \in {"complete", "reopen", "drop"}, taskAct(p, a)
      PROVE  Steps
  BY <1>7, taskActSteps
<1>8. ASSUME NEW p \in Server, NEW s \in TaskState, NEW d \in Dates, taskUpdate(p, s, d)
      PROVE  Steps
  BY <1>8, taskUpdateSteps
<1>9. ASSUME NEW p \in Server, Act(p) PROVE Steps
  BY <1>9, ActSteps
<1>10. ASSUME NEW p \in Server, Apply(p) PROVE Steps
  BY <1>10, ApplySteps
<1>11. ASSUME NEW i \in Created, Ingest(i) \/ Edit(i) PROVE Steps
  BY <1>11, IngestSteps, EditSteps
<1>12. ASSUME NEW b \in BOOLEAN, reconcileReadback(b) PROVE Steps
  BY <1>12, reconcileReadbackSteps
<1>13. CASE ReadbackApplied
  BY <1>13, ReadbackAppliedSteps
<1>14. CASE UNCHANGED vars
  <2>1. /\ task' = task /\ items' = items /\ edits' = edits /\ row' = row /\ cmd' = cmd
        /\ held' = held /\ raced' = raced /\ crossed' = crossed /\ ops' = ops
    BY <1>14 DEF vars, tool, history
  <2>2. IInv'
    BY <2>1 DEF IInv, Counters
  <2> QED BY <2>1, <2>2 DEF Steps, KeepsItsHome, DoneThereFirst
<1>15. Due \subseteq Dates /\ None \in Dates
  BY DEF Dates
<1> QED
  BY <1>1, <1>2, <1>3, <1>4, <1>5, <1>6, <1>7, <1>8, <1>9, <1>10, <1>11, <1>12, <1>13, <1>14,
     <1>15
  DEF Next
-----------------------------------------------------------------------------
(***************************************************************************)
(* The theorems.                                                           *)
(***************************************************************************)

LEMMA InitIsGood == Init => IInv
<1> SUFFICES ASSUME Init PROVE IInv
  OBVIOUS
<1>1. task \in TaskRow(Len(items)) /\ ItemsOK(items) /\ Len(items) = 0
  BY TaskHomeAssumption DEF Init, TaskRow, ItemsOK, Dates
<1>2. RowsOK(row, items) /\ HeldOK(held, task, items, raced) /\ OneEach(items, raced)
  BY <1>1 DEF Init, RowsOK, HeldOK, OneEach
<1>3. \A p \in Server : Good(cmd[p], task, items, raced, crossed) /\ ~ Pub(cmd[p])
  BY IdleIsGood DEF Init
<1>4. Counters
  BY TaskHomeAssumption DEF Init, Counters
<1> QED BY <1>1, <1>2, <1>3, <1>4 DEF Init, IInv, World, OneAtATime

LEMMA Invariant == Spec => []IInv
<1>1. IInv /\ [Next]_vars => IInv'
  BY NextSteps DEF Steps
<1> QED BY InitIsGood, <1>1, PTL DEF Spec

\* The task, the items, the rows and the calls have their types, as far as a row of
\* tasks names an item that exists (task-publish.ts, task-act.ts, readback.ts).
THEOREM TypeCorrect == Spec => []TypeOK
<1>1. IInv => TypeOK
  <2> SUFFICES ASSUME IInv PROVE TypeOK
    OBVIOUS
  <2>1. task \in TaskRow(Len(items)) /\ ItemsOK(items) /\ RowsOK(row, items)
        /\ HeldOK(held, task, items, raced)
    BY DEF IInv, World
  <2>2. ASSUME NEW i \in Created
        PROVE  /\ items[i].home \in Home
               /\ items[i].state \in Expresses(items[i].home)
               /\ items[i].due \in Due \union {None}
               /\ {items[i].edited, items[i].done} \subseteq BOOLEAN
    <3>1. items[i] \in ItemRow
      BY <2>1 DEF ItemsOK, Created
    <3>2. items[i].state \in Expresses(items[i].home)
      BY <2>1 DEF ItemsOK, Created
    <3> QED BY <3>1, <3>2, ItemFields DEF Dates
  <2>3. ASSUME NEW p \in Server
        PROVE  cmd[p] \in Command(Len(items))
    BY ServerState
  <2>4. /\ raced \in BOOLEAN /\ crossed \in BOOLEAN /\ edits \in 0 .. MaxEdits
        /\ \A p \in Server : ops[p] \in 0 .. MaxOps[p]
    BY DEF IInv, Counters
  <2> QED
    BY <2>1, <2>2, <2>3, <2>4
    DEF TypeOK, TaskRow, ItemsOK, RowsOK, HeldOK, Seen, Dates, Command, Created
<1> QED BY Invariant, <1>1, PTL

\* Where the marker is looked for, a home gets at most one item of the task, unless two
\* publishes overlapped: an answer lost, a request that throws after the tool acted and
\* a server killed in between are retried with the item they made (ADR-0036 section 4).
THEOREM OneItemCorrect == Spec => []OneItemPerHome
<1>1. IInv => OneItemPerHome
  BY DEF IInv, World, OneEach, OneItemPerHome, Created
<1> QED BY Invariant, <1>1, PTL

\* A task keeps the home it was published to unless two publishes overlapped, and it is
\* marked completed only once its item was (ADR-0036 section 3), unless the task changed
\* under a task.update that asked no home.
THEOREM HomeCorrect == Spec => HomeDecides
<1>1. IInv /\ [Next]_vars => [KeepsItsHome /\ DoneThereFirst]_vars
  BY NextSteps DEF Steps
<1> QED BY Invariant, <1>1, PTL DEF Spec, HomeDecides
=============================================================================
