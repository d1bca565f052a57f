---------------------------- MODULE SlackCursors ----------------------------
(***************************************************************************)
(* The cursor of the Slack connector: the time of the newest item seen in  *)
(* each channel, and of the newest reply seen in each active thread.  A    *)
(* pass pages a channel's history from the newest message down to the      *)
(* cursor, fetches the replies of the threads it meets, then those of the  *)
(* active threads it did not meet, and keeps the marks of a channel only   *)
(* if one of its tokens got through.                                       *)
(*                                                                         *)
(* A step is a response and all that is recorded before the next request.  *)
(* People post in between, other passes and the cursor verbs run, and any  *)
(* request may fail.  A page has one item.  Posts are numbered by time.    *)
(***************************************************************************)
EXTENDS Naturals, Sequences, FiniteSets, FiniteSetsExt

CONSTANTS
    Channel,    \* the configured channels
    Tokens,     \* how many tokens the pool has; any of them may be able to read a channel
    Pass,       \* the processes that may be syncing at the same time
    Since,      \* the cold-start floor of each channel; 0: none
    Window,     \* how long a thread without replies stays active
    MaxPosts,   \* bound: posts
    MaxOps      \* bound: failures, crashes, deletions, overlaps, --full, cursor verbs

ASSUME SlackAssumption ==
    /\ Channel # {}
    /\ Tokens \in Nat \ {0}
    /\ {Window, MaxPosts, MaxOps} \subseteq Nat
    /\ Since \in [Channel -> 0 .. MaxPosts]

VARIABLES
    posts,      \* the posts, in order; a reply names its parent
    deleted,    \* the parents that were deleted
    stored,     \* the posts that have a row
    cursor,     \* the stored cursor
    run,        \* local state of each pass
    overtaken,  \* messages posted behind the front of a pass that then met a later reply
    late,       \* messages a pass met while they had no replies
    letgo,      \* threads whose mark was dropped: inactive, or by a cursor verb
    adrift,     \* channels whose cursor no pass got to: it failed cold, or was put forward
    ops         \* how much of MaxOps is used

world == <<posts, deleted>>
history == <<overtaken, late, letgo, adrift>>
vars == <<world, stored, cursor, run, history, ops>>

Ts == 1 .. MaxPosts
Time == 0 .. MaxPosts
Clock == Len(posts)
Top == MaxPosts + 1     \* above every page

Post == [ch : Channel, parent : Time]

\* The entries `<channel>` and `<channel>#<thread_ts>`; 0 is no entry.
Cursor == [chan : [Channel -> Time], thread : [Ts -> Time]]

NoCursor == [chan |-> [c \in Channel |-> 0], thread |-> [t \in Ts |-> 0]]

\* Where a pass is.  While a channel is fetched: whether with the second token, the page,
\* and the thread whose replies are being fetched.
Fetch ==
    [second  : BOOLEAN,
     below   : 0 .. Top,        \* the next page is below this; 0: there is none
     front   : Time,            \* the newest message of the first page
     handled : SUBSET Ts,
     out     : [Ts -> Time],    \* threadOut
     parent  : Time,            \* 0: a page of history comes next
     from    : Time,
     hwm     : Time,
     code    : BOOLEAN]         \* lastCode

NoFetch == [second |-> FALSE, below |-> Top, front |-> 0,
            handled |-> {}, out |-> NoCursor.thread, parent |-> 0, from |-> 0, hwm |-> 0,
            code |-> FALSE]

PassState ==
    [pc          : {"idle", "fetch", "done"},
     prev        : Cursor,          \* what it read
     next        : Cursor,          \* this.cursors
     now         : Time,
     live        : 0 .. Tokens,     \* tokens neither dead nor failed
     left        : SUBSET Channel,
     ch          : Channel,
     at          : Fetch,
     ingested    : BOOLEAN,
     unreachable : BOOLEAN]

Idle == [pc |-> "idle", prev |-> NoCursor, next |-> NoCursor, now |-> 0, live |-> 0,
         left |-> {}, ch |-> CHOOSE c \in Channel : TRUE, at |-> NoFetch,
         ingested |-> FALSE, unreachable |-> FALSE]

TypeOK ==
    /\ posts \in Seq(Post) /\ Len(posts) <= MaxPosts
    /\ \A t \in 1 .. Clock : posts[t].parent < t
    /\ \A S \in {deleted, stored, overtaken, late, letgo} : S \subseteq 1 .. Clock
    /\ cursor \in Cursor
    /\ run \in [Pass -> PassState]
    /\ \A p \in Pass : run[p].pc = "fetch" => run[p].live > 0
    /\ adrift \subseteq Channel
    /\ ops \in 0 .. MaxOps

Init ==
    /\ posts = <<>>
    /\ deleted = {}
    /\ stored = {}
    /\ cursor = NoCursor
    /\ run = [p \in Pass |-> Idle]
    /\ overtaken = {} /\ late = {} /\ letgo = {} /\ adrift = {}
    /\ ops = 0

Spend == ops < MaxOps /\ ops' = ops + 1
-----------------------------------------------------------------------------
(***************************************************************************)
(* Slack.                                                                  *)
(***************************************************************************)

Messages(c) == {t \in 1 .. Clock : posts[t].ch = c /\ posts[t].parent = 0} \ deleted
Replies(m) == {t \in 1 .. Clock : posts[t].parent = m}

Say(c, parent) ==
    /\ Clock < MaxPosts
    /\ parent \in Messages(c) \union {0}
    /\ posts' = Append(posts, [ch |-> c, parent |-> parent])
    /\ UNCHANGED <<deleted, stored, cursor, run, history, ops>>

\* A parent is deleted, and its thread can no longer be fetched.
Delete(m) ==
    /\ Spend
    /\ Replies(m) # {}
    /\ m \notin deleted
    /\ deleted' = deleted \union {m}
    /\ UNCHANGED <<posts, stored, cursor, run, history>>
-----------------------------------------------------------------------------
(***************************************************************************)
(* A pass.                                                                 *)
(***************************************************************************)

isThreadActive(hwm, now) == hwm + Window >= now

higherTs(a, b) == IF a >= b THEN a ELSE b

\* The cursor, or the floor of a channel that has none.
Oldest(cur, c) == IF cur.chan[c] = 0 THEN Since[c] ELSE cur.chan[c]

ThreadsOf(c) == {t \in 1 .. Clock : posts[t].ch = c}

\* Mutant: a failed channel keeps the marks of the attempt.
KeepMarks(r, cs) == [r EXCEPT !.left = @ \ cs]
\* A channel no token got through to keeps the entries the pass read.
Keep(r, cs) ==
    [r EXCEPT !.left = @ \ cs,
              !.next =
                 [chan   |-> [c \in Channel |-> IF c \in cs /\ r.prev.chan[c] # 0
                                               THEN r.prev.chan[c] ELSE r.next.chan[c]],
                  thread |-> [t \in Ts |-> IF \E c \in cs : t \in ThreadsOf(c)
                                          THEN r.prev.thread[t] ELSE r.next.thread[t]]]]

\* The next channel, with a live token.  With none left, the rest of them fail.
NextChannel(r) ==
    IF r.left = {} THEN {[r EXCEPT !.pc = "done", !.at = NoFetch]}
    ELSE IF r.live = 0
    THEN {[Keep(r, r.left) EXCEPT !.pc = "done", !.at = NoFetch, !.unreachable = TRUE]}
    ELSE {[r EXCEPT !.pc = "fetch", !.ch = c, !.at = NoFetch] : c \in r.left}

\* The stored cursor is read, unless --full ignores it, and every token describes
\* itself.  With none alive the pass throws.
Begin(p, full, live) ==
    /\ run[p].pc = "idle"
    /\ IF live = Tokens /\ ~full /\ \A q \in Pass : run[q].pc = "idle"
       THEN UNCHANGED ops ELSE Spend
    /\ \E r \in NextChannel([Idle EXCEPT !.prev = IF full THEN NoCursor ELSE cursor,
                                         !.now = Clock, !.live = live, !.left = Channel]) :
          run' = [run EXCEPT ![p] = r]
    /\ UNCHANGED <<world, stored, cursor, history>>

\* The threads of the channel that history did not show.
Unhandled(r) == {t \in ThreadsOf(r.ch) : r.prev.thread[t] # 0} \ r.at.handled

\* Mutant: threads are not polled again (ADR-0015 before R1).
PendingNever(r) == {}

\* Those of them that are active are polled.
Pending(r) == {t \in Unhandled(r) : isThreadActive(r.prev.thread[t], r.now)}

\* The channel is through: its marks count.
Ingested(r) ==
    [r EXCEPT !.left = @ \ {r.ch},
              !.ingested = TRUE,
              !.next =
                 [chan   |-> [r.next.chan EXCEPT ![r.ch] = IF @ = 0 THEN Oldest(r.prev, r.ch)
                                                           ELSE @],
                  thread |-> [t \in Ts |-> IF t \in ThreadsOf(r.ch) THEN r.at.out[t]
                                          ELSE r.next.thread[t]]]]

Poll(r, m, from, hwm) ==
    [r EXCEPT !.at = [r.at EXCEPT !.parent = m, !.from = from, !.hwm = hwm,
                                  !.handled = @ \union {m}]]

\* What a pass asks for next: a page, the replies of a thread, or the next channel.
Nexts(r) ==
    IF r.at.below # 0 THEN {[r EXCEPT !.at = [r.at EXCEPT !.parent = 0, !.from = 0, !.hwm = 0]]}
    ELSE IF Pending(r) # {}
    THEN {Poll(r, t, r.prev.thread[t], r.prev.thread[t]) : t \in Pending(r)}
    ELSE NextChannel(Ingested(r))

\* The mark of a thread that is no longer active is dropped, polled or not.
Continue(p, r) ==
    /\ \E s \in Nexts(r) : run' = [run EXCEPT ![p] = s]
    /\ letgo' = letgo
         \union {m \in {r.at.parent} \ {0} : ~isThreadActive(r.at.hwm, r.now)}
         \union {t \in Unhandled(r) : r.at.below = 0 /\ ~isThreadActive(r.prev.thread[t], r.now)}

Seen(r, t) == [r EXCEPT !.next.chan[r.ch] = higherTs(@, t)]

\* A page of history.  The replies of a message that has some are asked for at once.
HistoryPage(p) ==
    LET r    == run[p]
        page == {m \in Messages(r.ch) : Oldest(r.prev, r.ch) < m /\ m < r.at.below}
        m    == Max(page)
        s    == [Seen(r, m) EXCEPT
                   !.at = [r.at EXCEPT !.below = IF page = {m} THEN 0 ELSE m,
                                       !.front = IF r.at.below = Top THEN m ELSE @]]
    IN  /\ r.pc = "fetch" /\ r.at.parent = 0
        /\ \/ /\ page = {}
              /\ Continue(p, [r EXCEPT !.at = [r.at EXCEPT !.below = 0,
                                                           !.front = Oldest(r.prev, r.ch)]])
              /\ UNCHANGED <<stored, late>>
           \/ /\ page # {}
              /\ stored' = stored \union {m}
              /\ \/ /\ Replies(m) = {}
                    /\ late' = late \union {m}
                    /\ Continue(p, s)
                 \/ /\ Replies(m) # {}
                    /\ run' = [run EXCEPT ![p] =
                                 Poll(s, m, higherTs(Oldest(r.prev, r.ch), r.prev.thread[m]),
                                      higherTs(r.prev.thread[m], m))]
                    /\ UNCHANGED <<late, letgo>>
        /\ UNCHANGED <<world, cursor, overtaken, adrift, ops>>

\* The thread is fetched; its mark is kept as long as it is active.
ThreadDone(r) ==
    [r EXCEPT !.at.out[r.at.parent] = IF isThreadActive(r.at.hwm, r.now) THEN r.at.hwm ELSE 0]

\* A page of replies, oldest first.  A thread that is gone is dropped.
ReplyPage(p) ==
    LET r    == run[p]
        page == {t \in Replies(r.at.parent) : r.at.from < t}
        t    == Min(page)
        s    == [Seen(r, t) EXCEPT
                   !.at = [r.at EXCEPT !.from = t, !.hwm = higherTs(@, t)]]
    IN  /\ r.pc = "fetch" /\ r.at.parent # 0
        /\ \/ /\ r.at.parent \in deleted
              /\ Continue(p, r)
              /\ UNCHANGED <<stored, overtaken>>
           \/ /\ r.at.parent \notin deleted
              /\ page = {}
              /\ Continue(p, ThreadDone(r))
              /\ UNCHANGED <<stored, overtaken>>
           \/ /\ r.at.parent \notin deleted
              /\ page # {}
              /\ stored' = stored \union {t}
              /\ overtaken' = overtaken \union {m \in Messages(r.ch) : r.at.front < m /\ m < t}
              /\ IF page = {t} THEN Continue(p, ThreadDone(s))
                 ELSE run' = [run EXCEPT ![p] = s] /\ UNCHANGED letgo
        /\ UNCHANGED <<world, cursor, late, adrift, ops>>

\* A channel gets at most two tokens; the second has failed in no other channel.
Second(r) == ~r.at.second /\ r.live > 1

\* A request fails: for this channel, or for the token wherever it is used.  A second
\* token may start the channel anew, if the sweep found one; or the channel has failed.
RequestFails(p, scoped) ==
    LET r == [run[p] EXCEPT !.live = IF scoped THEN @ ELSE @ - 1, !.at.code = @ \/ scoped]
    IN  /\ run[p].pc = "fetch"
        /\ Spend
        /\ \/ /\ Second(run[p])
              /\ run' = [run EXCEPT ![p] =
                           [r EXCEPT !.at = [NoFetch EXCEPT !.second = TRUE, !.code = r.at.code]]]
              /\ UNCHANGED adrift
           \/ /\ \E s \in NextChannel([Keep(r, {r.ch}) EXCEPT !.unreachable = @ \/ r.at.code]) :
                    run' = [run EXCEPT ![p] = s]
              /\ adrift' = adrift \union {c \in {r.ch} : r.prev.chan[c] = 0 /\ r.next.chan[c] # 0}
        /\ UNCHANGED <<world, stored, cursor, overtaken, late, letgo>>

\* The pass records its cursor, unless every channel failed for its tokens alone.
Finish(p) ==
    LET r == run[p] IN
    /\ r.pc = "done"
    /\ cursor' = IF r.ingested \/ r.unreachable THEN r.next ELSE cursor
    /\ run' = [run EXCEPT ![p] = Idle]
    /\ UNCHANGED <<world, stored, history, ops>>

Die(p) ==
    /\ run[p].pc # "idle"
    /\ Spend
    /\ run' = [run EXCEPT ![p] = Idle]
    /\ UNCHANGED <<world, stored, cursor, history>>
-----------------------------------------------------------------------------
(***************************************************************************)
(* slack cursor reset and slack cursor backfill.                           *)
(***************************************************************************)

\* Both drop the channel's thread marks, of threads older than the new floor too.  The
\* read of the cursor and the record of the new one are one step.
Rewind(c, floor) ==
    /\ Spend
    /\ cursor' = [chan   |-> [cursor.chan EXCEPT ![c] = floor],
                  thread |-> [t \in Ts |-> IF t \in ThreadsOf(c) THEN 0 ELSE cursor.thread[t]]]
    /\ letgo' = letgo \union {t \in ThreadsOf(c) : cursor.thread[t] # 0 /\ t <= Oldest(cursor', c)}
    /\ adrift' = adrift \union {d \in {c} : Oldest(cursor, c) < floor}
    /\ UNCHANGED <<world, stored, run, overtaken, late>>

cursorReset(c) ==
    /\ cursor.chan[c] # 0 \/ \E t \in ThreadsOf(c) : cursor.thread[t] # 0
    /\ Rewind(c, 0)

\* To an older time; to a newer one the verb only warns.
cursorBackfill(c, floor) == Rewind(c, floor)
-----------------------------------------------------------------------------
Next ==
    \/ \E c \in Channel : \E parent \in Time : Say(c, parent)
    \/ \E m \in 1 .. Clock : Delete(m)
    \/ \E p \in Pass :
          \/ \E full \in BOOLEAN, live \in 1 .. Tokens : Begin(p, full, live)
          \/ HistoryPage(p)
          \/ ReplyPage(p)
          \/ \E scoped \in BOOLEAN : RequestFails(p, scoped)
          \/ Finish(p)
          \/ Die(p)
    \/ \E c \in Channel : cursorReset(c)
    \/ \E c \in Channel, floor \in 1 .. Clock : cursorBackfill(c, floor)

Spec == Init /\ [][Next]_vars
-----------------------------------------------------------------------------
(***************************************************************************)
(* Properties.                                                             *)
(***************************************************************************)

Missing == 1 .. Clock \ stored

WillBeListed(m) == m > Oldest(cursor, posts[m].ch)

\* The thread is expanded with its parent, or polled for its mark.
WillBePolled(t) ==
    LET m == posts[t].parent IN
    /\ t > cursor.thread[m]
    /\ WillBeListed(m) \/ cursor.thread[m] # 0

\* No message of a channel is passed by (ADR-0007, ADR-0011): whatever failed, crashed,
\* overlapped or was rewound, a message without a row is above the cursor.  Not so a
\* message that a later reply overtook, nor any of a channel that is adrift.
NothingSkipped ==
    \A m \in Missing \ (overtaken \union deleted) :
        posts[m].parent = 0 /\ posts[m].ch \notin adrift /\ m > Since[posts[m].ch]
            => WillBeListed(m)

Polled(m) ==
    /\ m \notin deleted \union overtaken \union letgo
    /\ m > Since[posts[m].ch]
    /\ posts[m].ch \notin adrift
    /\ cursor.thread[m] # 0 => isThreadActive(cursor.thread[m], Clock)

\* ADR-0015 R1: a reply to an older thread is still captured once the channel's cursor
\* has passed the parent, as long as the thread is active and had replies when it was
\* met (ADR-0015 claims it of every thread).
RepliesFollowed ==
    \A t \in Missing :
        posts[t].parent # 0 /\ Polled(posts[t].parent) /\ posts[t].parent \notin late
            => WillBePolled(t)
=============================================================================
