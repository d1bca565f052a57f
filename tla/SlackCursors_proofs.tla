------------------------ MODULE SlackCursors_proofs ------------------------
(***************************************************************************)
(* The marks of the Slack connector pass nothing by, for any channels,     *)
(* tokens, posts, threads and processes: a message the store does not have *)
(* will be listed, and a reply will be polled.                             *)
(***************************************************************************)
EXTENDS SlackCursors, WellFoundedInduction, TLAPS

(***************************************************************************)
(* Records of a pass.                                                      *)
(***************************************************************************)

LEMMA CursorFields ==
  ASSUME NEW x \in Cursor
  PROVE  /\ x.chan \in [Channel -> Time] /\ x.thread \in [Ts -> Time]
         /\ x = [chan |-> x.chan, thread |-> x.thread]
BY DEF Cursor

LEMMA CursorMade ==
  ASSUME NEW f \in [Channel -> Time], NEW g \in [Ts -> Time]
  PROVE  [chan |-> f, thread |-> g] \in Cursor
BY DEF Cursor

\* The entries of the channels cs are those the pass read.
KeptNext(x, y, cs) ==
  [chan   |-> [c \in Channel |-> IF c \in cs /\ x.chan[c] # 0 THEN x.chan[c] ELSE y.chan[c]],
   thread |-> [t \in Ts |-> IF \E c \in cs : t \in ThreadsOf(c) THEN x.thread[t]
                            ELSE y.thread[t]]]

LEMMA KeptNextTyped ==
  ASSUME NEW x \in Cursor, NEW y \in Cursor, NEW cs \in SUBSET Channel
  PROVE  /\ KeptNext(x, y, cs) \in Cursor
         /\ \A c \in Channel : KeptNext(x, y, cs).chan[c] =
              IF c \in cs /\ x.chan[c] # 0 THEN x.chan[c] ELSE y.chan[c]
         /\ \A t \in Ts : KeptNext(x, y, cs).thread[t] =
              IF \E c \in cs : t \in ThreadsOf(c) THEN x.thread[t] ELSE y.thread[t]
<1> DEFINE f == [c \in Channel |-> IF c \in cs /\ x.chan[c] # 0 THEN x.chan[c] ELSE y.chan[c]]
           T(t) == \E c \in cs : t \in ThreadsOf(c)
           g == [t \in Ts |-> IF T(t) THEN x.thread[t] ELSE y.thread[t]]
<1>1. f \in [Channel -> Time] /\ g \in [Ts -> Time]
  <2> HIDE DEF T
  <2> QED BY CursorFields
<1>2. KeptNext(x, y, cs) = [chan |-> f, thread |-> g]
  BY DEF KeptNext
<1>4. \A t \in Ts : g[t] = IF T(t) THEN x.thread[t] ELSE y.thread[t]
  OBVIOUS
<1>5. \A c \in Channel : f[c] = IF c \in cs /\ x.chan[c] # 0 THEN x.chan[c] ELSE y.chan[c]
  OBVIOUS
<1> HIDE DEF f, g
<1> QED BY <1>1, <1>2, <1>4, <1>5, CursorMade

LEMMA FetchFields ==
  ASSUME NEW a \in Fetch
  PROVE  /\ a.below \in 0 .. Top /\ a.front \in Time /\ a.handled \in SUBSET Ts
         /\ a.parent \in Time /\ a.from \in Time /\ a.hwm \in Time
         /\ \A t \in Ts : a.out[t] \in Time
BY DEF Fetch

\* What the steps of a pass leave alone.
SamePass(u, v) ==
  /\ v \in PassState
  /\ v.pc = u.pc /\ v.prev = u.prev /\ v.now = u.now /\ v.live = u.live /\ v.left = u.left
  /\ v.ch = u.ch

LEMMA PollIs ==
  ASSUME NEW u \in PassState, NEW m \in Ts, NEW from \in Time, NEW hwm \in Time
  PROVE  LET v == Poll(u, m, from, hwm) IN
         /\ SamePass(u, v) /\ v.next = u.next
         /\ v.at.below = u.at.below /\ v.at.front = u.at.front
         /\ v.at.handled = u.at.handled \union {m} /\ v.at.out = u.at.out
         /\ v.at.parent = m /\ v.at.from = from /\ v.at.hwm = hwm
<1> DEFINE h == u.at.handled \union {m}
           b == [u.at EXCEPT !.parent = m, !.from = from, !.hwm = hwm, !.handled = h]
<1>0. u.at \in Fetch
  BY DEF PassState
<1>1. h \in SUBSET Ts /\ m \in Time
  <2>1. u.at.handled \in SUBSET Ts
    BY <1>0 DEF Fetch
  <2>2. m \in Time
    BY ONLY m \in Ts, SlackAssumption DEF Ts, Time
  <2> QED BY <2>1, <2>2
<1>2. Poll(u, m, from, hwm) = [u EXCEPT !.at = b]
  BY DEF Poll
<1> HIDE DEF h
<1>3. /\ b \in Fetch
      /\ b.below = u.at.below /\ b.front = u.at.front /\ b.handled = h
      /\ b.out = u.at.out /\ b.parent = m /\ b.from = from /\ b.hwm = hwm
  BY <1>0, <1>1 DEF Fetch
<1> HIDE DEF b
<1>4. SamePass(u, [u EXCEPT !.at = b]) /\ [u EXCEPT !.at = b].at = b
      /\ [u EXCEPT !.at = b].next = u.next
  BY <1>3 DEF SamePass, PassState
<1> QED BY <1>2, <1>3, <1>4 DEF h

LEMMA ClearIs ==
  ASSUME NEW u \in PassState
  PROVE  LET v == [u EXCEPT !.at = [u.at EXCEPT !.parent = 0, !.from = 0, !.hwm = 0]] IN
         /\ SamePass(u, v) /\ v.next = u.next
         /\ v.at.below = u.at.below /\ v.at.front = u.at.front
         /\ v.at.handled = u.at.handled /\ v.at.out = u.at.out
         /\ v.at.parent = 0 /\ v.at.from = 0 /\ v.at.hwm = 0
<1> DEFINE b == [u.at EXCEPT !.parent = 0, !.from = 0, !.hwm = 0]
<1>0. u.at \in Fetch /\ 0 \in Time
  BY SlackAssumption DEF PassState, Time
<1>3. /\ b \in Fetch
      /\ b.below = u.at.below /\ b.front = u.at.front /\ b.handled = u.at.handled
      /\ b.out = u.at.out /\ b.parent = 0 /\ b.from = 0 /\ b.hwm = 0
  BY <1>0 DEF Fetch
<1> HIDE DEF b
<1>4. SamePass(u, [u EXCEPT !.at = b]) /\ [u EXCEPT !.at = b].at = b
      /\ [u EXCEPT !.at = b].next = u.next
  BY <1>3 DEF SamePass, PassState
<1> QED BY <1>3, <1>4 DEF b

Paged(u, low, f) == [u EXCEPT !.at = [u.at EXCEPT !.below = low, !.front = f]]

LEMMA PagedIs ==
  ASSUME NEW u \in PassState, NEW low \in 0 .. Top, NEW f \in Time
  PROVE  LET v == Paged(u, low, f) IN
         /\ SamePass(u, v) /\ v.next = u.next
         /\ v.at.below = low /\ v.at.front = f
         /\ v.at.handled = u.at.handled /\ v.at.out = u.at.out
         /\ v.at.parent = u.at.parent /\ v.at.from = u.at.from /\ v.at.hwm = u.at.hwm
<1> DEFINE b == [u.at EXCEPT !.below = low, !.front = f]
<1>0. u.at \in Fetch
  BY DEF PassState
<1>3. /\ b \in Fetch
      /\ b.below = low /\ b.front = f /\ b.handled = u.at.handled
      /\ b.out = u.at.out /\ b.parent = u.at.parent /\ b.from = u.at.from /\ b.hwm = u.at.hwm
  BY <1>0 DEF Fetch
<1> HIDE DEF b
<1>4. SamePass(u, [u EXCEPT !.at = b]) /\ [u EXCEPT !.at = b].at = b
      /\ [u EXCEPT !.at = b].next = u.next
  BY <1>3 DEF SamePass, PassState
<1> QED BY <1>3, <1>4 DEF b, Paged

Replied(u, f, w) == [u EXCEPT !.at = [u.at EXCEPT !.from = f, !.hwm = w]]

LEMMA RepliedIs ==
  ASSUME NEW u \in PassState, NEW f \in Time, NEW w \in Time
  PROVE  LET v == Replied(u, f, w) IN
         /\ SamePass(u, v) /\ v.next = u.next
         /\ v.at.below = u.at.below /\ v.at.front = u.at.front
         /\ v.at.handled = u.at.handled /\ v.at.out = u.at.out
         /\ v.at.parent = u.at.parent /\ v.at.from = f /\ v.at.hwm = w
<1> DEFINE b == [u.at EXCEPT !.from = f, !.hwm = w]
<1>0. u.at \in Fetch
  BY DEF PassState
<1>3. /\ b \in Fetch
      /\ b.below = u.at.below /\ b.front = u.at.front /\ b.handled = u.at.handled
      /\ b.out = u.at.out /\ b.parent = u.at.parent /\ b.from = f /\ b.hwm = w
  BY <1>0 DEF Fetch
<1> HIDE DEF b
<1>4. SamePass(u, [u EXCEPT !.at = b]) /\ [u EXCEPT !.at = b].at = b
      /\ [u EXCEPT !.at = b].next = u.next
  BY <1>3 DEF SamePass, PassState
<1> QED BY <1>3, <1>4 DEF b, Replied

LEMMA DoneIs ==
  ASSUME NEW u \in PassState
  PROVE  LET v == ThreadDone(u) IN
         /\ SamePass(u, v) /\ v.next = u.next
         /\ v.at.below = u.at.below /\ v.at.front = u.at.front
         /\ v.at.handled = u.at.handled
         /\ v.at.parent = u.at.parent /\ v.at.from = u.at.from /\ v.at.hwm = u.at.hwm
         /\ \A t \in Ts : v.at.out[t] =
              IF t = u.at.parent
              THEN IF isThreadActive(u.at.hwm, u.now) THEN u.at.hwm ELSE 0
              ELSE u.at.out[t]
<1> DEFINE w == IF isThreadActive(u.at.hwm, u.now) THEN u.at.hwm ELSE 0
           m == u.at.parent
           o == [u.at.out EXCEPT ![m] = w]
           b == [u.at EXCEPT !.out = o]
<1>0. u.at \in Fetch /\ 0 \in Time
  BY SlackAssumption DEF PassState, Time
<1>1. w \in Time /\ u.at.out \in [Ts -> Time]
  BY <1>0, Zenon DEF Fetch
<1>2. ThreadDone(u) = [u EXCEPT !.at = b]
  BY DEF ThreadDone
<1> HIDE DEF w, m
<1>3. o \in [Ts -> Time] /\ \A t \in Ts : o[t] = IF t = m THEN w ELSE u.at.out[t]
  BY <1>1
<1> HIDE DEF o
<1>4. /\ b \in Fetch
      /\ b.below = u.at.below /\ b.front = u.at.front /\ b.handled = u.at.handled
      /\ b.out = o /\ b.parent = u.at.parent /\ b.from = u.at.from /\ b.hwm = u.at.hwm
  BY <1>0, <1>3 DEF Fetch
<1> HIDE DEF b
<1>5. SamePass(u, [u EXCEPT !.at = b]) /\ [u EXCEPT !.at = b].at = b
      /\ [u EXCEPT !.at = b].next = u.next
  BY <1>4 DEF SamePass, PassState
<1> QED BY <1>2, <1>3, <1>4, <1>5 DEF w, m

LEMMA SeenIs ==
  ASSUME NEW u \in PassState, NEW t \in Time
  PROVE  LET v == Seen(u, t) IN
         /\ SamePass(u, v) /\ v.at = u.at /\ v.next.thread = u.next.thread
         /\ \A c \in Channel : v.next.chan[c] =
              IF c = u.ch THEN higherTs(u.next.chan[c], t) ELSE u.next.chan[c]
<1> DEFINE h == higherTs(u.next.chan[u.ch], t)
           f == [u.next.chan EXCEPT ![u.ch] = h]
           y == [u.next EXCEPT !.chan = f]
<1>1. u.next \in Cursor /\ u.ch \in Channel
  BY DEF PassState
<1>2. u.next.chan \in [Channel -> Time] /\ u.next.thread \in [Ts -> Time]
  BY <1>1, CursorFields
<1>3. h \in Time
  BY <1>1, <1>2 DEF higherTs
<1>4. Seen(u, t) = [u EXCEPT !.next = y]
  BY DEF Seen
<1>5. h = higherTs(u.next.chan[u.ch], t)
  OBVIOUS
<1> HIDE DEF h
<1>6. f \in [Channel -> Time]
      /\ \A c \in Channel : f[c] = IF c = u.ch THEN h ELSE u.next.chan[c]
  BY <1>1, <1>2, <1>3
<1> HIDE DEF f
<1>7. y \in Cursor /\ y.chan = f /\ y.thread = u.next.thread
  BY <1>1, <1>6 DEF Cursor
<1> HIDE DEF y
<1>8. SamePass(u, [u EXCEPT !.next = y]) /\ [u EXCEPT !.next = y].at = u.at
      /\ [u EXCEPT !.next = y].next = y
  BY <1>7 DEF SamePass, PassState
<1> QED BY <1>4, <1>5, <1>6, <1>7, <1>8

LEMMA IngestedIs ==
  ASSUME NEW u \in PassState
  PROVE  LET v == Ingested(u) IN
         /\ v \in PassState /\ v.pc = u.pc /\ v.prev = u.prev /\ v.now = u.now
         /\ v.live = u.live /\ v.ch = u.ch /\ v.at = u.at /\ v.left = u.left \ {u.ch}
         /\ \A c \in Channel : v.next.chan[c] =
              IF c = u.ch /\ u.next.chan[c] = 0 THEN Oldest(u.prev, u.ch) ELSE u.next.chan[c]
         /\ \A t \in Ts : v.next.thread[t] =
              IF t \in ThreadsOf(u.ch) THEN u.at.out[t] ELSE u.next.thread[t]
<1> DEFINE T == ThreadsOf(u.ch)
           old == Oldest(u.prev, u.ch)
           h == IF u.next.chan[u.ch] = 0 THEN old ELSE u.next.chan[u.ch]
           f == [u.next.chan EXCEPT ![u.ch] = h]
           g == [t \in Ts |-> IF t \in T THEN u.at.out[t] ELSE u.next.thread[t]]
           y == [chan |-> f, thread |-> g]
           left == u.left \ {u.ch}
<1>1. u.next \in Cursor /\ u.prev \in Cursor /\ u.ch \in Channel /\ u.at \in Fetch
      /\ left \in SUBSET Channel
  BY DEF PassState
<1>2. /\ u.next.chan \in [Channel -> Time] /\ u.next.thread \in [Ts -> Time]
      /\ u.prev.chan \in [Channel -> Time] /\ u.at.out \in [Ts -> Time]
  BY <1>1, CursorFields DEF Fetch
<1>3. old \in Time
  BY <1>1, <1>2, SlackAssumption DEF Oldest, Time
<1>4. Ingested(u) = [u EXCEPT !.left = left, !.ingested = TRUE, !.next = y]
  BY DEF Ingested
<1> HIDE DEF old, T, left
<1>5. h \in Time
  BY <1>1, <1>2, <1>3
<1>6. h = IF u.next.chan[u.ch] = 0 THEN old ELSE u.next.chan[u.ch]
  OBVIOUS
<1> HIDE DEF h
<1>7. f \in [Channel -> Time]
      /\ \A c \in Channel : f[c] = IF c = u.ch THEN h ELSE u.next.chan[c]
  BY <1>1, <1>2, <1>5
<1>8. g \in [Ts -> Time]
      /\ \A t \in Ts : g[t] = IF t \in T THEN u.at.out[t] ELSE u.next.thread[t]
  BY <1>2
<1> HIDE DEF f, g
<1>9. y \in Cursor /\ y.chan = f /\ y.thread = g
  BY <1>7, <1>8, CursorMade
<1> HIDE DEF y
<1>10. LET v == [u EXCEPT !.left = left, !.ingested = TRUE, !.next = y] IN
       /\ v \in PassState /\ v.pc = u.pc /\ v.prev = u.prev /\ v.now = u.now
       /\ v.live = u.live /\ v.ch = u.ch /\ v.at = u.at /\ v.left = left /\ v.next = y
  BY <1>1, <1>9 DEF PassState
<1> QED BY <1>4, <1>6, <1>7, <1>8, <1>9, <1>10 DEF old, T, left

LEMMA KeepIs ==
  ASSUME NEW u \in PassState, NEW cs \in SUBSET Channel
  PROVE  LET v == Keep(u, cs) IN
         /\ v \in PassState /\ v.pc = u.pc /\ v.prev = u.prev /\ v.now = u.now
         /\ v.live = u.live /\ v.ch = u.ch /\ v.at = u.at /\ v.left = u.left \ cs
         /\ v.next = KeptNext(u.prev, u.next, cs)
<1> DEFINE y == KeptNext(u.prev, u.next, cs)
           left == u.left \ cs
<1>1. u.next \in Cursor /\ u.prev \in Cursor /\ left \in SUBSET Channel
  BY DEF PassState
<1>2. y \in Cursor
  BY <1>1, KeptNextTyped
<1>3. Keep(u, cs) = [u EXCEPT !.left = left, !.next = y]
  BY DEF Keep, KeptNext
<1> HIDE DEF left, y
<1>4. LET v == [u EXCEPT !.left = left, !.next = y] IN
       /\ v \in PassState /\ v.pc = u.pc /\ v.prev = u.prev /\ v.now = u.now
       /\ v.live = u.live /\ v.ch = u.ch /\ v.at = u.at /\ v.left = left /\ v.next = y
  BY <1>1, <1>2 DEF PassState
<1> QED BY <1>3, <1>4 DEF left, y

LEMMA Numbers ==
  /\ MaxPosts \in Nat /\ Window \in Nat /\ MaxOps \in Nat /\ Tokens \in Nat /\ Tokens > 0
  /\ Channel # {} /\ \A c \in Channel : Since[c] \in Time
  /\ 0 \in Time /\ Top = MaxPosts + 1
  /\ \A t : t \in Time <=> t \in Nat /\ t <= MaxPosts
  /\ \A t : t \in Ts <=> t \in Time /\ t # 0
BY SlackAssumption DEF Time, Ts, Top

LEMMA NoCursorIs ==
  /\ NoCursor \in Cursor
  /\ \A c \in Channel : NoCursor.chan[c] = 0
  /\ \A t \in Ts : NoCursor.thread[t] = 0
BY Numbers DEF NoCursor, Cursor

LEMMA NoFetchIs ==
  /\ NoFetch \in Fetch
  /\ NoFetch.below = Top /\ NoFetch.front = 0 /\ NoFetch.handled = {}
  /\ NoFetch.parent = 0 /\ NoFetch.from = 0 /\ NoFetch.hwm = 0
  /\ \A t \in Ts : NoFetch.out[t] = 0
<1>1. Top \in 0 .. Top /\ 0 \in Time /\ {} \in SUBSET Ts /\ FALSE \in BOOLEAN
  BY Numbers
<1>2. NoCursor.thread \in [Ts -> Time]
  BY NoCursorIs, CursorFields
<1> QED BY <1>1, <1>2, NoCursorIs DEF NoFetch, Fetch

LEMMA IdleIs ==
  /\ Idle \in PassState /\ Idle.pc = "idle" /\ Idle.live = 0 /\ Idle.left = {}
  /\ Idle.prev = NoCursor /\ Idle.next = NoCursor /\ Idle.at = NoFetch
<1> DEFINE c == CHOOSE c \in Channel : TRUE
<1>1. c \in Channel /\ 0 \in 0 .. Tokens /\ 0 \in Time /\ {} \in SUBSET Channel
  BY Numbers
<1>2. Idle = [pc |-> "idle", prev |-> NoCursor, next |-> NoCursor, now |-> 0, live |-> 0,
              left |-> {}, ch |-> c, at |-> NoFetch, ingested |-> FALSE, unreachable |-> FALSE]
  BY DEF Idle
<1> HIDE DEF c
<1> QED BY <1>1, <1>2, NoCursorIs, NoFetchIs DEF PassState

Begun(x, now, live) ==
  [Idle EXCEPT !.prev = x, !.now = now, !.live = live, !.left = Channel]

LEMMA BegunIs ==
  ASSUME NEW x \in Cursor, NEW now \in Time, NEW live \in 1 .. Tokens
  PROVE  LET v == Begun(x, now, live) IN
         /\ v \in PassState /\ v.prev = x /\ v.next = NoCursor /\ v.live = live
         /\ v.left = Channel
<1> PICK u : u = Idle
  OBVIOUS
<1>1. u \in PassState /\ u.next = NoCursor /\ live \in 0 .. Tokens
  BY IdleIs, Numbers
<1>2. LET v == [u EXCEPT !.prev = x, !.now = now, !.live = live, !.left = Channel] IN
         /\ v \in PassState /\ v.prev = x /\ v.next = u.next /\ v.live = live
         /\ v.left = Channel
  BY <1>1 DEF PassState
<1> QED BY <1>1, <1>2 DEF Begun

LEMMA NextChannelIs ==
  ASSUME NEW u \in PassState, NEW v \in NextChannel(u)
  PROVE  /\ v \in PassState /\ v.prev = u.prev /\ v.at = NoFetch
         /\ \/ /\ v.pc = "done" /\ v.left = {} /\ v.next = u.next /\ u.left = {}
            \/ /\ v.pc = "done" /\ v.left = {} /\ v.next = KeptNext(u.prev, u.next, u.left)
            \/ /\ v.pc = "fetch" /\ v.ch \in u.left /\ v.left = u.left /\ v.next = u.next
               /\ v.live = u.live /\ u.live > 0
<1>0. NoFetch \in Fetch
  BY NoFetchIs
<1>1. CASE u.left = {}
  <2>1. v = [u EXCEPT !.pc = "done", !.at = NoFetch]
    BY <1>1 DEF NextChannel
  <2> QED BY <2>1, <1>0, <1>1 DEF PassState
<1>2. CASE u.left # {} /\ u.live = 0
  <2>0. u.left \in SUBSET Channel
    BY DEF PassState
  <2> PICK w : w = Keep(u, u.left)
    OBVIOUS
  <2>1. v = [w EXCEPT !.pc = "done", !.at = NoFetch, !.unreachable = TRUE]
    BY <1>2 DEF NextChannel
  <2>2. w \in PassState /\ w.prev = u.prev /\ w.left = {}
        /\ w.next = KeptNext(u.prev, u.next, u.left)
    <3>1. u.left \ u.left = {}
      OBVIOUS
    <3> QED BY <2>0, <3>1, KeepIs
  <2> QED BY <2>1, <2>2, <1>0 DEF PassState
<1>3. CASE u.left # {} /\ u.live # 0
  <2>1. PICK c \in u.left : v = [u EXCEPT !.pc = "fetch", !.ch = c, !.at = NoFetch]
    BY <1>3 DEF NextChannel
  <2>2. c \in Channel /\ u.live > 0
    BY <1>3, Numbers DEF PassState
  <2> QED BY <2>1, <2>2, <1>0 DEF PassState
<1> QED BY <1>1, <1>2, <1>3

\* A failed request costs a token, or none.
Failed(u, scoped) ==
  [u EXCEPT !.live = IF scoped THEN @ ELSE @ - 1, !.at.code = @ \/ scoped]

LEMMA FailedIs ==
  ASSUME NEW u \in PassState, NEW scoped \in BOOLEAN, u.live > 0
  PROVE  LET v == Failed(u, scoped) IN
         /\ v \in PassState
         /\ v.pc = u.pc /\ v.prev = u.prev /\ v.now = u.now /\ v.left = u.left
         /\ v.ch = u.ch /\ v.next = u.next
         /\ u.live > 1 => v.live > 0
<1> DEFINE l == IF scoped THEN u.live ELSE u.live - 1
           code == u.at.code \/ scoped
           b == [u.at EXCEPT !.code = code]
           w == [u EXCEPT !.live = l]
<1>1. l \in 0 .. Tokens /\ (u.live > 1 => l > 0)
  <2>1. u.live \in 0 .. Tokens
    BY DEF PassState
  <2>2. CASE scoped
    BY <2>1, <2>2, Numbers
  <2>3. CASE ~scoped
    BY <2>1, <2>3, Numbers
  <2> QED BY <2>2, <2>3
<1>2. u.at \in Fetch
  BY DEF PassState
<1>3. code \in BOOLEAN
  OBVIOUS
<1>4. [u EXCEPT !.live = IF scoped THEN @ ELSE @ - 1, !.at.code = @ \/ scoped]
        = [w EXCEPT !.at = b]
  OBVIOUS
<1> HIDE DEF l, code
<1>5. b \in Fetch
  BY <1>2, <1>3, Zenon DEF Fetch
<1> HIDE DEF b
<1>6. /\ w \in PassState
      /\ w.pc = u.pc /\ w.prev = u.prev /\ w.now = u.now /\ w.left = u.left
      /\ w.ch = u.ch /\ w.next = u.next /\ w.live = l
  BY <1>1 DEF PassState
<1> HIDE DEF w
<1>7. LET v == [w EXCEPT !.at = b] IN
         /\ v \in PassState
         /\ v.pc = w.pc /\ v.prev = w.prev /\ v.now = w.now /\ v.left = w.left
         /\ v.ch = w.ch /\ v.next = w.next /\ v.live = w.live
  BY <1>5, <1>6 DEF PassState
<1> QED BY <1>1, <1>4, <1>6, <1>7 DEF Failed

\* The channel is fetched anew with another token.
Anew(u, code) == [u EXCEPT !.at = [NoFetch EXCEPT !.second = TRUE, !.code = code]]

LEMMA AnewIs ==
  ASSUME NEW u \in PassState, NEW code \in BOOLEAN
  PROVE  LET v == Anew(u, code) IN
         /\ SamePass(u, v) /\ v.next = u.next
         /\ v.at.below = Top /\ v.at.front = 0 /\ v.at.handled = {}
         /\ v.at.parent = 0 /\ v.at.from = 0 /\ v.at.hwm = 0
         /\ \A t \in Ts : v.at.out[t] = 0
<1> DEFINE b == [NoFetch EXCEPT !.second = TRUE, !.code = code]
<1>1. /\ b \in Fetch
      /\ b.below = NoFetch.below /\ b.front = NoFetch.front /\ b.handled = NoFetch.handled
      /\ b.out = NoFetch.out /\ b.parent = NoFetch.parent /\ b.from = NoFetch.from
      /\ b.hwm = NoFetch.hwm
  <2> PICK a : a = NoFetch
    OBVIOUS
  <2>1. a \in Fetch
    BY NoFetchIs
  <2>2. LET d == [a EXCEPT !.second = TRUE, !.code = code] IN
        /\ d \in Fetch
        /\ d.below = a.below /\ d.front = a.front /\ d.handled = a.handled
        /\ d.out = a.out /\ d.parent = a.parent /\ d.from = a.from /\ d.hwm = a.hwm
    BY <2>1 DEF Fetch
  <2> QED BY <2>2
<1> HIDE DEF b
<1>2. SamePass(u, [u EXCEPT !.at = b]) /\ [u EXCEPT !.at = b].at = b
      /\ [u EXCEPT !.at = b].next = u.next
  BY <1>1 DEF SamePass, PassState
<1> QED BY <1>1, <1>2, NoFetchIs DEF b, Anew

Kept(u, code) == [Keep(u, {u.ch}) EXCEPT !.unreachable = @ \/ code]

LEMMA KeptIs ==
  ASSUME NEW u \in PassState, NEW code \in BOOLEAN
  PROVE  LET v == Kept(u, code) IN
         /\ v \in PassState /\ v.prev = u.prev /\ v.left = u.left \ {u.ch}
         /\ v.next = KeptNext(u.prev, u.next, {u.ch})
<1> PICK w : w = Keep(u, {u.ch})
  OBVIOUS
<1>1. {u.ch} \in SUBSET Channel
  BY DEF PassState
<1>2. /\ w \in PassState /\ w.prev = u.prev /\ w.left = u.left \ {u.ch}
      /\ w.next = KeptNext(u.prev, u.next, {u.ch})
  BY <1>1, KeepIs
<1> DEFINE f == w.unreachable \/ code
<1>3. f \in BOOLEAN
  OBVIOUS
<1>4. [w EXCEPT !.unreachable = @ \/ code] = [w EXCEPT !.unreachable = f]
  OBVIOUS
<1> HIDE DEF f
<1>5. LET v == [w EXCEPT !.unreachable = f] IN
      v \in PassState /\ v.prev = w.prev /\ v.left = w.left /\ v.next = w.next
  BY <1>2, <1>3 DEF PassState
<1> QED BY <1>2, <1>4, <1>5 DEF Kept
-----------------------------------------------------------------------------
(***************************************************************************)
(* The invariant.  L are the messages that must still be listed, E those   *)
(* whose thread counts, M the replies of E that the store does not have;   *)
(* ps are the posts, n is their number.                                    *)
(***************************************************************************)

\* The cursor x passes nothing of the channel by.
Covers(x, c, ps, L, E, M) ==
  /\ \A m \in L : ps[m].ch = c => m > Oldest(x, c)
  /\ \A m \in E : ps[m].ch = c => m > Oldest(x, c) \/ x.thread[m] # 0
  /\ \A m \in E, t \in M : ps[m].ch = c /\ ps[t].parent = m => t > x.thread[m]

\* What a message must still get: a page, or a poll, or a mark in `threadOut`, or a place
\* above all the pass has seen.  `cur` is the thread being fetched, 0 once it is through.
FetchOK(u, cur, ps, L, E, M) ==
  /\ u.at.below \notin {0, Top} => u.at.below <= u.at.front
  /\ u.at.below # Top => Oldest(u.prev, u.ch) <= u.at.front
  /\ cur # 0 => cur \in u.at.handled /\ u.at.hwm # 0
  /\ \A m \in L : ps[m].ch = u.ch =>
       m < u.at.below \/ (m > u.at.front /\ m > u.next.chan[u.ch])
  /\ \A m \in E : ps[m].ch = u.ch =>
       \/ m \in u.at.handled /\ (m = cur \/ u.at.out[m] # 0)
       \/ m \notin u.at.handled /\ u.prev.thread[m] # 0
       \/ Oldest(u.prev, u.ch) < m /\ m < u.at.below
       \/ u.at.below # Top /\ m > u.at.front /\ m > u.next.chan[u.ch]
  /\ \A m \in E, t \in M : ps[m].ch = u.ch /\ ps[t].parent = m =>
       t > u.at.out[m] /\ (m = cur => t > u.at.from /\ t > u.at.hwm)

\* Nothing is ahead of the posts but a floor.
Past(x, n) ==
  /\ \A c \in Channel : x.chan[c] <= n \/ x.chan[c] <= Since[c]
  /\ \A t \in Ts : x.thread[t] <= n

PastAt(a, c, n) ==
  /\ a.front <= n \/ a.front <= Since[c]
  /\ a.parent <= n /\ a.from <= n /\ a.hwm <= n
  /\ \A t \in Ts : a.out[t] <= n

\* A pass between two channels.
ReadyOK(u, n, ps, L, E, M) ==
  /\ \A c \in Channel : Covers(u.prev, c, ps, L, E, M)
  /\ \A c \in Channel \ u.left : Covers(u.next, c, ps, L, E, M)
  /\ \A c \in u.left : u.next.chan[c] = 0
  /\ Past(u.prev, n) /\ Past(u.next, n)

\* The cursors of a running pass.
RestOK(u, n, ps, L, E, M) ==
  /\ \A c \in Channel : Covers(u.prev, c, ps, L, E, M)
  /\ \A c \in Channel \ u.left : Covers(u.next, c, ps, L, E, M)
  /\ \A c \in u.left \ {u.ch} : u.next.chan[c] = 0
  /\ Past(u.prev, n) /\ Past(u.next, n)

PassOK(u, n, ps, L, E, M) ==
  /\ RestOK(u, n, ps, L, E, M)
  /\ u.pc = "fetch" =>
       u.ch \in u.left /\ u.live > 0 /\ FetchOK(u, u.at.parent, ps, L, E, M)
  /\ u.pc = "done" => u.left = {}
  /\ PastAt(u.at, u.ch, n)

\* What the lemmas need of the posts and of L, E, M.
Sets(n, ps, L, E, M) ==
  /\ n \in Nat /\ n <= MaxPosts
  /\ L \subseteq 1 .. n /\ E \subseteq 1 .. n /\ M \subseteq 1 .. n
  /\ \A t \in 1 .. n : ps[t] \in Post /\ ps[t].parent < t

LEMMA OldestTyped ==
  ASSUME NEW x \in Cursor, NEW c \in Channel
  PROVE  /\ x.chan[c] \in Time /\ Oldest(x, c) \in Time
         /\ \A t \in Ts : x.thread[t] \in Time
BY Numbers, CursorFields DEF Oldest

LEMMA KeptCovers ==
  ASSUME NEW x \in Cursor, NEW y \in Cursor, NEW cs \in SUBSET Channel, NEW c \in Channel,
         NEW L, NEW E, NEW M, Sets(Clock, posts, L, E, M),
         IF c \in cs THEN Covers(x, c, posts, L, E, M) /\ (x.chan[c] # 0 \/ y.chan[c] = 0)
                     ELSE Covers(y, c, posts, L, E, M)
  PROVE  Covers(KeptNext(x, y, cs), c, posts, L, E, M)
<1> DEFINE z == KeptNext(x, y, cs)
           w == IF c \in cs THEN x ELSE y
<1>1. z.chan[c] = IF c \in cs /\ x.chan[c] # 0 THEN x.chan[c] ELSE y.chan[c]
  BY KeptNextTyped
<1>2. Oldest(z, c) = Oldest(w, c)
  <2>1. z.chan[c] = w.chan[c]
    <3>1. CASE c \in cs
      BY <1>1, <3>1
    <3>2. CASE c \notin cs
      BY <1>1, <3>2
    <3> QED BY <3>1, <3>2
  <2> HIDE DEF z, w
  <2> QED BY <2>1 DEF Oldest
<1>3. \A m \in E : posts[m].ch = c => z.thread[m] = w.thread[m]
  <2> SUFFICES ASSUME NEW m \in E, posts[m].ch = c PROVE z.thread[m] = w.thread[m]
    OBVIOUS
  <2>1. m \in 1 .. Clock /\ m \in Ts
    BY Numbers DEF Sets, Ts
  <2>2. \A d : m \in ThreadsOf(d) <=> d = c
    BY <2>1 DEF ThreadsOf
  <2>3. (\E d \in cs : m \in ThreadsOf(d)) <=> c \in cs
    BY <2>2
  <2>4. z.thread[m] = IF \E d \in cs : m \in ThreadsOf(d) THEN x.thread[m] ELSE y.thread[m]
    BY <2>1, KeptNextTyped
  <2> QED BY <2>3, <2>4
<1>4. Covers(w, c, posts, L, E, M)
  OBVIOUS
<1> HIDE DEF z, w
<1>5. Covers(z, c, posts, L, E, M)
  BY <1>2, <1>3, <1>4 DEF Covers
<1> QED BY <1>5 DEF z

LEMMA KeptPast ==
  ASSUME NEW x \in Cursor, NEW y \in Cursor, NEW cs \in SUBSET Channel, NEW n \in Nat,
         Past(x, n), Past(y, n)
  PROVE  Past(KeptNext(x, y, cs), n)
BY KeptNextTyped DEF Past

LEMMA AnewOK ==
  ASSUME NEW u \in PassState, NEW n, NEW ps, NEW L, NEW E, NEW M, Sets(n, ps, L, E, M),
         Covers(u.prev, u.ch, ps, L, E, M),
         u.at.below = Top, u.at.front = 0, u.at.handled = {},
         u.at.parent = 0, u.at.from = 0, u.at.hwm = 0, \A t \in Ts : u.at.out[t] = 0
  PROVE  FetchOK(u, u.at.parent, ps, L, E, M) /\ PastAt(u.at, u.ch, n)
<1>1. \A m \in 1 .. n : m \in Ts /\ m < Top /\ m > 0
  BY Numbers DEF Sets, Ts
<1>2. FetchOK(u, u.at.parent, ps, L, E, M)
  <2>1. \A m \in L : m < u.at.below
    BY <1>1 DEF Sets
  <2>2. \A m \in E : ps[m].ch = u.ch =>
           \/ m \notin u.at.handled /\ u.prev.thread[m] # 0
           \/ Oldest(u.prev, u.ch) < m /\ m < u.at.below
    BY <1>1 DEF Sets, Covers
  <2>3. \A m \in E, t \in M : t > u.at.out[m] /\ t > u.at.from /\ t > u.at.hwm
    BY <1>1 DEF Sets
  <2> QED BY <2>1, <2>2, <2>3 DEF FetchOK
<1>3. PastAt(u.at, u.ch, n)
  BY DEF PastAt, Sets
<1> QED BY <1>2, <1>3

LEMMA NextChannelOK ==
  ASSUME NEW L, NEW E, NEW M, Sets(Clock, posts, L, E, M), NEW u \in PassState,
         ReadyOK(u, Clock, posts, L, E, M), NEW v \in NextChannel(u)
  PROVE  v \in PassState /\ v.pc # "idle" /\ PassOK(v, Clock, posts, L, E, M)
<1> DEFINE n == Clock
<1>0. /\ v \in PassState /\ v.prev = u.prev /\ v.at = NoFetch
      /\ \/ /\ v.pc = "done" /\ v.left = {} /\ v.next = u.next /\ u.left = {}
         \/ /\ v.pc = "done" /\ v.left = {} /\ v.next = KeptNext(u.prev, u.next, u.left)
         \/ /\ v.pc = "fetch" /\ v.ch \in u.left /\ v.left = u.left /\ v.next = u.next
            /\ v.live = u.live /\ u.live > 0
  BY NextChannelIs
<1>1. u.left \in SUBSET Channel /\ u.prev \in Cursor /\ u.next \in Cursor /\ v.ch \in Channel
  BY <1>0 DEF PassState
<1>2. FetchOK(v, v.at.parent, posts, L, E, M) /\ PastAt(v.at, v.ch, n)
  <2>1. Covers(v.prev, v.ch, posts, L, E, M)
    BY <1>0, <1>1 DEF ReadyOK
  <2> QED BY <2>1, <1>0, NoFetchIs, AnewOK
<1>3. n \in Nat /\ Past(u.prev, n) /\ Past(u.next, n)
  BY DEF ReadyOK, Sets
<1> HIDE DEF n
<1>4. CASE v.pc = "done" /\ v.left = {} /\ v.next = u.next /\ u.left = {}
  <2> QED BY <1>0, <1>2, <1>3, <1>4 DEF ReadyOK, PassOK, RestOK, n
<1>5. CASE v.pc = "done" /\ v.left = {} /\ v.next = KeptNext(u.prev, u.next, u.left)
  <2>1. Past(v.next, n)
    BY <1>1, <1>3, <1>5, KeptPast
  <2>2. \A c \in Channel : Covers(v.next, c, posts, L, E, M)
    <3> TAKE c \in Channel
    <3>1. IF c \in u.left
          THEN Covers(u.prev, c, posts, L, E, M) /\ (u.prev.chan[c] # 0 \/ u.next.chan[c] = 0)
          ELSE Covers(u.next, c, posts, L, E, M)
      BY DEF ReadyOK
    <3> QED BY <1>1, <1>5, <3>1, KeptCovers
  <2> QED BY <1>0, <1>2, <1>3, <1>5, <2>1, <2>2 DEF ReadyOK, PassOK, RestOK, n
<1>6. CASE /\ v.pc = "fetch" /\ v.ch \in u.left /\ v.left = u.left /\ v.next = u.next
           /\ v.live = u.live /\ u.live > 0
  <2> QED BY <1>0, <1>2, <1>3, <1>6 DEF ReadyOK, PassOK, RestOK, n
<1> QED BY <1>0, <1>4, <1>5, <1>6

\* A running pass with no thread left to decide.
SettledOK(u, n, ps, L, E, M) ==
  /\ u.pc = "fetch" /\ u.ch \in u.left /\ u.live > 0
  /\ RestOK(u, n, ps, L, E, M)
  /\ FetchOK(u, 0, ps, L, E, M)
  /\ PastAt(u.at, u.ch, n)

LEMMA ClearedOK ==
  ASSUME NEW n, NEW ps, NEW L, NEW E, NEW M, Sets(n, ps, L, E, M), NEW u \in PassState,
         SettledOK(u, n, ps, L, E, M)
  PROVE  LET v == [u EXCEPT !.at = [u.at EXCEPT !.parent = 0, !.from = 0, !.hwm = 0]] IN
         v \in PassState /\ v.pc # "idle" /\ PassOK(v, n, ps, L, E, M)
<1> PICK v : v = [u EXCEPT !.at = [u.at EXCEPT !.parent = 0, !.from = 0, !.hwm = 0]]
  OBVIOUS
<1>1. /\ SamePass(u, v) /\ v.next = u.next
      /\ v.at.below = u.at.below /\ v.at.front = u.at.front
      /\ v.at.handled = u.at.handled /\ v.at.out = u.at.out
      /\ v.at.parent = 0 /\ v.at.from = 0 /\ v.at.hwm = 0
  BY ClearIs
<1>2. FetchOK(v, v.at.parent, ps, L, E, M)
  <2>1. \A m \in E, t \in M : ps[m].ch = u.ch /\ ps[t].parent = m =>
          t > v.at.out[m] /\ t > v.at.from /\ t > v.at.hwm
    <3> SUFFICES ASSUME NEW m \in E, NEW t \in M, ps[m].ch = u.ch, ps[t].parent = m
                 PROVE  t > v.at.out[m] /\ t > v.at.from /\ t > v.at.hwm
      OBVIOUS
    <3>1. t > u.at.out[m]
      BY DEF SettledOK, RestOK, FetchOK
    <3>2. t > 0
      BY DEF Sets
    <3> QED BY <1>1, <3>1, <3>2
  <2>2. FetchOK(u, 0, ps, L, E, M)
    BY DEF SettledOK
  <2> QED BY ONLY <1>1, <2>1, <2>2 DEF SamePass, FetchOK
<1>3. PastAt(v.at, v.ch, n)
  BY <1>1 DEF SamePass, SettledOK, RestOK, PastAt, Sets
<1>4. PassOK(v, n, ps, L, E, M)
  BY <1>1, <1>2, <1>3 DEF SamePass, SettledOK, PassOK, RestOK
<1> QED BY <1>1, <1>4 DEF SamePass, SettledOK, RestOK

LEMMA PolledOK ==
  ASSUME NEW n, NEW ps, NEW L, NEW E, NEW M, Sets(n, ps, L, E, M), NEW u \in PassState,
         SettledOK(u, n, ps, L, E, M), NEW m \in 1 .. n, u.prev.thread[m] # 0
  PROVE  LET v == Poll(u, m, u.prev.thread[m], u.prev.thread[m]) IN
         v \in PassState /\ v.pc # "idle" /\ PassOK(v, n, ps, L, E, M)
<1> DEFINE w == u.prev.thread[m]
<1> PICK v : v = Poll(u, m, w, w)
  OBVIOUS
<1>0. m \in Ts /\ w \in Time /\ u.prev \in Cursor /\ w <= n /\ m # 0 /\ m <= n
  <2>1. m \in Ts /\ u.prev \in Cursor /\ m # 0 /\ m <= n
    BY Numbers DEF Sets, Ts, PassState
  <2>2. w \in Time
    BY <2>1, CursorFields
  <2>3. w <= n
    BY <2>1 DEF SettledOK, RestOK, Past
  <2> QED BY <2>1, <2>2, <2>3
<1>2. w = u.prev.thread[m]
  OBVIOUS
<1> HIDE DEF w
<1>1. /\ SamePass(u, v) /\ v.next = u.next
      /\ v.at.below = u.at.below /\ v.at.front = u.at.front
      /\ v.at.handled = u.at.handled \union {m} /\ v.at.out = u.at.out
      /\ v.at.parent = m /\ v.at.from = w /\ v.at.hwm = w
  BY ONLY u \in PassState, <1>0, v = Poll(u, m, w, w), PollIs
<1>3. FetchOK(v, v.at.parent, ps, L, E, M)
  <2>1. \A k \in E, t \in M : ps[k].ch = u.ch /\ ps[t].parent = k =>
          t > v.at.out[k] /\ (k = m => t > v.at.from /\ t > v.at.hwm)
    <3> SUFFICES ASSUME NEW k \in E, NEW t \in M, ps[k].ch = u.ch, ps[t].parent = k
                 PROVE  t > v.at.out[k] /\ (k = m => t > w)
      BY <1>1
    <3>1. t > u.at.out[k]
      BY DEF SettledOK, RestOK, FetchOK
    <3>2. t > u.prev.thread[k]
      <4>1. Covers(u.prev, u.ch, ps, L, E, M)
        BY DEF SettledOK, RestOK, PassState
      <4> QED BY <4>1 DEF Covers
    <3> QED BY <1>1, <1>2, <3>1, <3>2
  <2>2. \A k \in E : ps[k].ch = u.ch =>
       \/ k \in v.at.handled /\ (k = m \/ v.at.out[k] # 0)
       \/ k \notin v.at.handled /\ u.prev.thread[k] # 0
       \/ Oldest(u.prev, u.ch) < k /\ k < v.at.below
       \/ v.at.below # Top /\ k > v.at.front /\ k > v.next.chan[u.ch]
    <3> SUFFICES ASSUME NEW k \in E, ps[k].ch = u.ch
                 PROVE  \/ k \in v.at.handled /\ (k = m \/ v.at.out[k] # 0)
                        \/ k \notin v.at.handled /\ u.prev.thread[k] # 0
                        \/ Oldest(u.prev, u.ch) < k /\ k < v.at.below
                        \/ v.at.below # Top /\ k > v.at.front /\ k > v.next.chan[u.ch]
      OBVIOUS
    <3>1. k # 0
      BY DEF Sets
    <3>2. \/ k \in u.at.handled /\ u.at.out[k] # 0
          \/ k \notin u.at.handled /\ u.prev.thread[k] # 0
          \/ Oldest(u.prev, u.ch) < k /\ k < u.at.below
          \/ u.at.below # Top /\ k > u.at.front /\ k > u.next.chan[u.ch]
      BY <3>1 DEF SettledOK, RestOK, FetchOK
    <3> QED BY <1>1, <3>2
  <2>3. m \in v.at.handled /\ v.at.hwm # 0
    BY <1>1, <1>2
  <2> QED BY <1>1, <2>1, <2>2, <2>3 DEF SamePass, SettledOK, RestOK, FetchOK
<1>4. PastAt(v.at, v.ch, n)
  BY <1>0, <1>1 DEF SamePass, SettledOK, RestOK, PastAt
<1>5. PassOK(v, n, ps, L, E, M)
  BY <1>1, <1>3, <1>4 DEF SamePass, SettledOK, PassOK, RestOK
<1> QED BY <1>1, <1>2, <1>5 DEF SamePass, SettledOK, RestOK

LEMMA IngestedOK ==
  ASSUME NEW L, NEW E, NEW M, Sets(Clock, posts, L, E, M), NEW u \in PassState,
         SettledOK(u, Clock, posts, L, E, M), u.at.below = 0, Pending(u) = {},
         \A m \in E \intersect Unhandled(u) : isThreadActive(u.prev.thread[m], u.now)
  PROVE  Ingested(u) \in PassState /\ ReadyOK(Ingested(u), Clock, posts, L, E, M)
<1> DEFINE n == Clock
           old == Oldest(u.prev, u.ch)
<1> PICK v : v = Ingested(u)
  OBVIOUS
<1>0. /\ v \in PassState /\ v.prev = u.prev /\ v.left = u.left \ {u.ch}
      /\ \A c \in Channel : v.next.chan[c] =
           IF c = u.ch /\ u.next.chan[c] = 0 THEN old ELSE u.next.chan[c]
      /\ \A t \in Ts : v.next.thread[t] =
           IF t \in ThreadsOf(u.ch) THEN u.at.out[t] ELSE u.next.thread[t]
  BY IngestedIs
<1>1. /\ u.prev \in Cursor /\ u.next \in Cursor /\ u.ch \in Channel /\ u.at \in Fetch
      /\ v.next \in Cursor /\ u.left \in SUBSET Channel
  BY <1>0 DEF PassState
<1>2. old \in Time /\ u.next.chan[u.ch] \in Time /\ u.at.front \in Time
  BY <1>1, OldestTyped, FetchFields
<1>3. old <= u.at.front
  BY Numbers DEF SettledOK, RestOK, FetchOK
<1>4. old <= n \/ old <= Since[u.ch]
  <2>1. u.prev.chan[u.ch] <= n \/ u.prev.chan[u.ch] <= Since[u.ch]
    BY <1>1 DEF SettledOK, RestOK, Past
  <2>2. Since[u.ch] \in Nat
    BY <1>1, Numbers
  <2> QED BY <2>1, <2>2 DEF Oldest
<1> DEFINE top == v.next.chan[u.ch]
<1>5. top = IF u.next.chan[u.ch] = 0 THEN old ELSE u.next.chan[u.ch]
  BY <1>0, <1>1
<1>6. Oldest(v.next, u.ch) = IF top = 0 THEN Since[u.ch] ELSE top
  BY DEF Oldest
<1>7. top = 0 => Since[u.ch] = 0
  BY <1>1, <1>5, Numbers DEF Oldest
<1>8. Oldest(v.next, u.ch) = top
  BY <1>6, <1>7
<1> HIDE DEF top
<1>9. \A m \in 1 .. n : /\ m > u.at.front /\ m > u.next.chan[u.ch] => m > Oldest(v.next, u.ch)
                        /\ ~ (m < 0) /\ m # 0
  <2>1. n \in Nat /\ old \in Nat /\ u.next.chan[u.ch] \in Nat /\ u.at.front \in Nat
    BY <1>2, Numbers DEF Sets
  <2> HIDE DEF n, old
  <2> QED BY <2>1, <1>3, <1>5, <1>8
<1>15. L \subseteq 1 .. n /\ E \subseteq 1 .. n
  BY DEF Sets
<1>10. \A m \in E : posts[m].ch = u.ch =>
         /\ m \in Ts /\ v.next.thread[m] = u.at.out[m]
         /\ m \notin u.at.handled => u.prev.thread[m] = 0
  <2> SUFFICES ASSUME NEW m \in E, posts[m].ch = u.ch
               PROVE  /\ m \in Ts /\ v.next.thread[m] = u.at.out[m]
                      /\ m \notin u.at.handled => u.prev.thread[m] = 0
    OBVIOUS
  <2>1. m \in 1 .. Clock /\ m \in Ts
    BY Numbers DEF Sets, Ts
  <2>2. m \in ThreadsOf(u.ch)
    BY <2>1 DEF ThreadsOf
  <2>3. ASSUME m \notin u.at.handled, u.prev.thread[m] # 0 PROVE FALSE
    <3>1. m \in Unhandled(u)
      BY <2>2, <2>3 DEF Unhandled
    <3>2. m \in Pending(u)
      BY <3>1 DEF Pending
    <3> QED BY <3>2
  <2> QED BY <1>0, <2>1, <2>2, <2>3
<1>11. Covers(v.next, u.ch, posts, L, E, M)
  <2>1. ASSUME NEW m \in L, posts[m].ch = u.ch PROVE m > Oldest(v.next, u.ch)
    <3>1. m \in 1 .. n /\ ~ (m < u.at.below)
      BY <1>9, <1>15
    <3>2. m > u.at.front /\ m > u.next.chan[u.ch]
      BY <2>1, <3>1 DEF SettledOK, RestOK, FetchOK
    <3> QED BY <1>9, <3>1, <3>2
  <2>2. ASSUME NEW m \in E, posts[m].ch = u.ch
        PROVE  m > Oldest(v.next, u.ch) \/ v.next.thread[m] # 0
    <3>1. m \in 1 .. n /\ ~ (m < u.at.below) /\ m # 0
      BY <1>9, <1>15
    <3>2. \/ m \in u.at.handled /\ u.at.out[m] # 0
          \/ m \notin u.at.handled /\ u.prev.thread[m] # 0
          \/ m > u.at.front /\ m > u.next.chan[u.ch]
      BY <2>2, <3>1 DEF SettledOK, RestOK, FetchOK
    <3> QED BY <1>9, <1>10, <2>2, <3>1, <3>2
  <2>3. ASSUME NEW m \in E, NEW t \in M, posts[m].ch = u.ch, posts[t].parent = m
        PROVE  t > v.next.thread[m]
    <3>1. t > u.at.out[m]
      BY <2>3 DEF SettledOK, RestOK, FetchOK
    <3> QED BY <1>10, <2>3, <3>1
  <2> QED BY <2>1, <2>2, <2>3 DEF Covers
<1>12. ASSUME NEW c \in Channel \ v.left PROVE Covers(v.next, c, posts, L, E, M)
  <2>1. CASE c = u.ch
    BY <1>11, <2>1
  <2>2. CASE c # u.ch
    <3>1. Covers(u.next, c, posts, L, E, M)
      BY <1>0, <2>2 DEF SettledOK, RestOK
    <3>2. Oldest(v.next, c) = Oldest(u.next, c)
      BY <1>0, <2>2 DEF Oldest
    <3>3. \A m \in E : posts[m].ch = c => v.next.thread[m] = u.next.thread[m]
      <4> SUFFICES ASSUME NEW m \in E, posts[m].ch = c
                   PROVE  v.next.thread[m] = u.next.thread[m]
        OBVIOUS
      <4>1. m \in Ts /\ m \notin ThreadsOf(u.ch)
        BY <2>2, Numbers DEF Sets, Ts, ThreadsOf
      <4> QED BY <1>0, <4>1
    <3> QED BY <3>1, <3>2, <3>3 DEF Covers
  <2> QED BY <2>1, <2>2
<1>13. \A c \in v.left : v.next.chan[c] = 0
  BY <1>0, <1>1 DEF SettledOK, RestOK
<1>14. Past(v.next, n)
  <2>1. ASSUME NEW c \in Channel PROVE v.next.chan[c] <= n \/ v.next.chan[c] <= Since[c]
    BY <1>0, <1>4 DEF SettledOK, RestOK, Past
  <2>2. ASSUME NEW t \in Ts PROVE v.next.thread[t] <= n
    BY <1>0 DEF SettledOK, RestOK, Past, PastAt
  <2> QED BY <2>1, <2>2 DEF Past
<1> QED BY <1>0, <1>12, <1>13, <1>14 DEF SettledOK, RestOK, ReadyOK

LEMMA NextsOK ==
  ASSUME NEW L, NEW E, NEW M, Sets(Clock, posts, L, E, M), NEW u \in PassState,
         SettledOK(u, Clock, posts, L, E, M),
         u.at.below = 0 =>
           \A m \in E \intersect Unhandled(u) : isThreadActive(u.prev.thread[m], u.now),
         NEW v \in Nexts(u)
  PROVE  v \in PassState /\ v.pc # "idle" /\ PassOK(v, Clock, posts, L, E, M)
<1>1. CASE u.at.below # 0
  <2>1. v = [u EXCEPT !.at = [u.at EXCEPT !.parent = 0, !.from = 0, !.hwm = 0]]
    BY <1>1 DEF Nexts
  <2> QED BY <2>1, ClearedOK
<1>2. CASE u.at.below = 0 /\ Pending(u) # {}
  <2>1. PICK t \in Pending(u) : v = Poll(u, t, u.prev.thread[t], u.prev.thread[t])
    BY <1>2 DEF Nexts
  <2>2. t \in 1 .. Clock /\ u.prev.thread[t] # 0
    BY DEF Pending, Unhandled, ThreadsOf
  <2> QED BY <2>1, <2>2, PolledOK
<1>3. CASE u.at.below = 0 /\ Pending(u) = {}
  <2>1. v \in NextChannel(Ingested(u))
    BY <1>3 DEF Nexts
  <2>2. Ingested(u) \in PassState /\ ReadyOK(Ingested(u), Clock, posts, L, E, M)
    BY <1>3, IngestedOK
  <2> QED BY <2>1, <2>2, NextChannelOK
<1> QED BY <1>1, <1>2, <1>3

\* Fewer messages to get are got as well.
LEMMA FewerOK ==
  ASSUME NEW n, NEW ps, NEW L, NEW E, NEW M, NEW K \in SUBSET L, NEW D \in SUBSET E,
         NEW N \in SUBSET M
  PROVE  /\ \A x, c : Covers(x, c, ps, L, E, M) => Covers(x, c, ps, K, D, N)
         /\ \A u : RestOK(u, n, ps, L, E, M) => RestOK(u, n, ps, K, D, N)
         /\ \A u : PassOK(u, n, ps, L, E, M) => PassOK(u, n, ps, K, D, N)
         /\ Sets(n, ps, L, E, M) => Sets(n, ps, K, D, N)
<1>1. \A x, c : Covers(x, c, ps, L, E, M) => Covers(x, c, ps, K, D, N)
  BY DEF Covers
<1>2. \A u, cur : FetchOK(u, cur, ps, L, E, M) => FetchOK(u, cur, ps, K, D, N)
  BY DEF FetchOK
<1>3. \A u : RestOK(u, n, ps, L, E, M) => RestOK(u, n, ps, K, D, N)
  BY <1>1 DEF RestOK
<1>4. \A u : PassOK(u, n, ps, L, E, M) => PassOK(u, n, ps, K, D, N)
  BY <1>2, <1>3 DEF PassOK
<1>5. Sets(n, ps, L, E, M) => Sets(n, ps, K, D, N)
  BY DEF Sets
<1> QED BY <1>1, <1>3, <1>4, <1>5

\* What a pass has seen of its channel does not count before it is through.
LEMMA SeenOK ==
  ASSUME NEW n, NEW ps, NEW L, NEW E, NEW M, Sets(n, ps, L, E, M), NEW u \in PassState,
         RestOK(u, n, ps, L, E, M), u.ch \in u.left, NEW t \in 1 .. n,
         NEW v, v.prev = u.prev, v.left = u.left, v.ch = u.ch, v.next = Seen(u, t).next
  PROVE  /\ RestOK(v, n, ps, L, E, M)
         /\ v.next.chan[u.ch] = higherTs(u.next.chan[u.ch], t)
<1> PICK y : y = Seen(u, t).next
  OBVIOUS
<1>0. /\ t \in Time /\ t <= n /\ u.ch \in Channel /\ u.next \in Cursor
      /\ \A c \in Channel : u.next.chan[c] \in Nat /\ Since[c] \in Nat
  BY Numbers, OldestTyped DEF Sets, PassState
<1>1. /\ y.thread = u.next.thread
      /\ \A c \in Channel : y.chan[c] =
           IF c = u.ch THEN higherTs(u.next.chan[c], t) ELSE u.next.chan[c]
  BY <1>0, SeenIs
<1>2. ASSUME NEW c \in Channel \ u.left PROVE Covers(y, c, ps, L, E, M)
  <2>1. Covers(u.next, c, ps, L, E, M)
    BY DEF RestOK
  <2>2. Oldest(y, c) = Oldest(u.next, c)
    BY <1>1 DEF Oldest
  <2> QED BY <1>1, <2>1, <2>2 DEF Covers
<1>3. Past(y, n)
  <2>1. ASSUME NEW c \in Channel PROVE y.chan[c] <= n \/ y.chan[c] <= Since[c]
    <3>1. u.next.chan[c] <= n \/ u.next.chan[c] <= Since[c]
      BY DEF RestOK, Past
    <3> QED BY <1>0, <1>1, <3>1 DEF higherTs
  <2> QED BY <1>1, <2>1 DEF RestOK, Past
<1>4. \A c \in u.left \ {u.ch} : y.chan[c] = 0
  BY <1>1 DEF RestOK, PassState
<1>5. RestOK(v, n, ps, L, E, M)
  BY <1>2, <1>3, <1>4 DEF RestOK
<1> QED BY <1>0, <1>1, <1>5

LEMMA EmptyPageOK ==
  ASSUME NEW n, NEW ps, NEW L, NEW E, NEW M, Sets(n, ps, L, E, M), NEW u \in PassState,
         PassOK(u, n, ps, L, E, M), u.pc = "fetch", u.at.parent = 0,
         \A m \in L \union E : ps[m].ch = u.ch =>
            ~ (Oldest(u.prev, u.ch) < m /\ m < u.at.below)
  PROVE  LET v == Paged(u, 0, Oldest(u.prev, u.ch))
         IN  /\ SettledOK(v, n, ps, L, E, M) /\ SamePass(u, v) /\ v.at.below = 0
             /\ v.at.parent = 0 /\ v.at.hwm = u.at.hwm /\ v.at.handled = u.at.handled
<1> DEFINE old == Oldest(u.prev, u.ch)
<1> PICK v : v = Paged(u, 0, old)
  OBVIOUS
<1>0. /\ u.prev \in Cursor /\ u.ch \in Channel /\ u.at \in Fetch /\ n \in Nat
      /\ old \in Time /\ 0 \in 0 .. Top
      /\ L \subseteq Nat /\ E \subseteq Nat /\ \A m \in E : m # 0
  BY OldestTyped, Numbers DEF PassState, Sets
<1>7. old = Oldest(u.prev, u.ch)
  OBVIOUS
<1> HIDE DEF old
<1>1. /\ SamePass(u, v) /\ v.next = u.next
      /\ v.at.below = 0 /\ v.at.front = old
      /\ v.at.handled = u.at.handled /\ v.at.out = u.at.out
      /\ v.at.parent = u.at.parent /\ v.at.from = u.at.from /\ v.at.hwm = u.at.hwm
  <2>1. 0 \in 0 .. Top /\ old \in Time
    BY <1>0
  <2> QED BY ONLY <2>1, PagedIs, u \in PassState, v = Paged(u, 0, old)
<1>2. RestOK(v, n, ps, L, E, M)
  BY <1>1 DEF SamePass, PassOK, RestOK
<1>3. FetchOK(u, 0, ps, L, E, M) /\ u.ch \in u.left /\ u.live > 0
  BY DEF PassOK
<1>4. Covers(u.prev, u.ch, ps, L, E, M)
  BY <1>0 DEF PassOK, RestOK
<1>5. u.at.below # Top => old <= u.at.front
  BY <1>3, <1>7 DEF FetchOK
<1>6. u.at.front \in Nat /\ old \in Nat
  BY <1>0, FetchFields, Numbers
<1>8. ASSUME NEW m \in L, ps[m].ch = u.ch PROVE m > old /\ m > u.next.chan[u.ch]
  <2>1. m > old
    BY <1>4, <1>7, <1>8 DEF Covers
  <2>2. ~ (m < u.at.below)
    BY <1>0, <1>6, <1>7, <1>8, <2>1
  <2> QED BY <1>3, <1>8, <2>1, <2>2 DEF FetchOK
<1>9. ASSUME NEW m \in E, ps[m].ch = u.ch
      PROVE  \/ m \in u.at.handled /\ u.at.out[m] # 0
             \/ m \notin u.at.handled /\ u.prev.thread[m] # 0
             \/ m > old /\ m > u.next.chan[u.ch]
  <2>1. ~ (old < m /\ m < u.at.below)
    BY <1>7, <1>9
  <2>2. \/ m \in u.at.handled /\ u.at.out[m] # 0
        \/ m \notin u.at.handled /\ u.prev.thread[m] # 0
        \/ u.at.below # Top /\ m > u.at.front /\ m > u.next.chan[u.ch]
    BY <1>0, <1>3, <1>7, <1>9, <2>1 DEF FetchOK
  <2> QED BY <1>0, <1>5, <1>6, <2>2
<1>10. FetchOK(v, 0, ps, L, E, M)
  <2>1. v.at.below = 0 /\ v.at.below # Top /\ Oldest(v.prev, v.ch) = v.at.front
    BY <1>1, <1>7, Numbers DEF SamePass
  <2>2. \A m \in E, t \in M : ps[m].ch = u.ch /\ ps[t].parent = m => t > u.at.out[m] /\ m # 0
    BY <1>0, <1>3 DEF FetchOK
  <2> QED BY <1>1, <1>6, <1>8, <1>9, <2>1, <2>2 DEF SamePass, FetchOK
<1>11. PastAt(v.at, v.ch, n)
  <2>1. old <= n \/ old <= Since[u.ch]
    <3>1. u.prev.chan[u.ch] <= n \/ u.prev.chan[u.ch] <= Since[u.ch]
      BY <1>0 DEF PassOK, RestOK, Past
    <3>2. Since[u.ch] \in Nat
      BY <1>0, Numbers
    <3> QED BY <1>7, <3>1, <3>2 DEF Oldest
  <2> QED BY <1>1, <2>1 DEF SamePass, PassOK, PastAt
<1>12. SettledOK(v, n, ps, L, E, M)
  BY <1>1, <1>2, <1>3, <1>10, <1>11 DEF SamePass, SettledOK
<1> QED BY <1>1, <1>7, <1>12

\* The steps of a pass that a page brings: a message of history, the thread of one, a reply.
Shown(u, m, low) == Paged(Seen(u, m), low, IF u.at.below = Top THEN m ELSE u.at.front)

Met(u, m) ==
  Poll(u, m, higherTs(Oldest(u.prev, u.ch), u.prev.thread[m]), higherTs(u.prev.thread[m], m))

Answered(u, t) == Replied(Seen(u, t), t, higherTs(u.at.hwm, t))

LEMMA ShownIs ==
  ASSUME NEW u \in PassState, NEW m \in Time, NEW low \in 0 .. Top
  PROVE  LET s == Shown(u, m, low) IN
         /\ SamePass(u, s)
         /\ s.at.below = low /\ s.at.front = IF u.at.below = Top THEN m ELSE u.at.front
         /\ s.at.handled = u.at.handled /\ s.at.out = u.at.out
         /\ s.at.parent = u.at.parent /\ s.at.from = u.at.from /\ s.at.hwm = u.at.hwm
         /\ s.next = Seen(u, m).next
<1> PICK w : w = Seen(u, m)
  OBVIOUS
<1> PICK f : f = IF u.at.below = Top THEN m ELSE u.at.front
  OBVIOUS
<1>1. f \in Time
  BY FetchFields DEF PassState
<1>2. SamePass(u, w) /\ w.at = u.at /\ w \in PassState
  BY SeenIs DEF SamePass
<1> PICK s : s = Paged(w, low, f)
  OBVIOUS
<1>3. /\ SamePass(w, s) /\ s.next = w.next
      /\ s.at.below = low /\ s.at.front = f
      /\ s.at.handled = w.at.handled /\ s.at.out = w.at.out
      /\ s.at.parent = w.at.parent /\ s.at.from = w.at.from /\ s.at.hwm = w.at.hwm
  BY ONLY <1>1, <1>2, low \in 0 .. Top, s = Paged(w, low, f), PagedIs
<1>4. SamePass(u, s)
  BY <1>2, <1>3 DEF SamePass
<1> QED BY <1>2, <1>3, <1>4 DEF Shown

\* A pass asked for a page and got the message m0; `low` is where the next page starts.  Of
\* the sets, K, D and N are left.
PageFits(n, ps, L, E, M, u, m0, low, K, D, N) ==
  /\ Sets(n, ps, L, E, M)
  /\ u \in PassState /\ u.pc = "fetch" /\ u.at.parent = 0
  /\ PassOK(u, n, ps, L, E, M)
  /\ m0 \in 1 .. n /\ Oldest(u.prev, u.ch) < m0 /\ m0 < u.at.below /\ low \in {0, m0}
  /\ \A m \in L \union E :
       ps[m].ch = u.ch /\ Oldest(u.prev, u.ch) < m /\ m < u.at.below => m = m0 \/ m < low
  /\ K \subseteq L \ {m0} /\ D \subseteq E /\ N \subseteq M

\* What is missing of the channel is below, or above all.
LEMMA PageOK ==
  ASSUME NEW n, NEW ps, NEW L, NEW E, NEW M, NEW u, NEW m0, NEW low, NEW K, NEW D, NEW N,
         PageFits(n, ps, L, E, M, u, m0, low, K, D, N)
  PROVE  LET s == Shown(u, m0, low) IN
         /\ RestOK(s, n, ps, K, D, N)
         /\ PastAt(s.at, s.ch, n)
         /\ FetchOK(s, 0, ps, K, D \ {m0}, N)
<1> PICK s : s = Shown(u, m0, low)
  OBVIOUS
<1> /\ Sets(n, ps, L, E, M)
    /\ u \in PassState /\ u.pc = "fetch" /\ u.at.parent = 0
    /\ PassOK(u, n, ps, L, E, M)
    /\ m0 \in 1 .. n /\ Oldest(u.prev, u.ch) < m0 /\ m0 < u.at.below /\ low \in {0, m0}
    /\ K \in SUBSET (L \ {m0}) /\ D \in SUBSET E /\ N \in SUBSET M
    /\ \A m \in L \union E :
         ps[m].ch = u.ch /\ Oldest(u.prev, u.ch) < m /\ m < u.at.below => m = m0 \/ m < low
  BY DEF PageFits
<1> DEFINE old == Oldest(u.prev, u.ch)
<1> PICK f : f = IF u.at.below = Top THEN m0 ELSE u.at.front
  OBVIOUS
<1>0. /\ u.prev \in Cursor /\ u.next \in Cursor /\ u.ch \in Channel /\ u.at \in Fetch
      /\ n \in Nat /\ old \in Nat /\ u.next.chan[u.ch] \in Nat
      /\ m0 \in Time /\ m0 \in Nat /\ m0 <= n /\ m0 # 0 /\ m0 < Top /\ m0 \in 0 .. Top /\ 0 \in 0 .. Top
      /\ \A m \in L \union E \union M : m \in Nat /\ m <= n /\ m # 0
  <2>1. /\ u.prev \in Cursor /\ u.next \in Cursor /\ u.ch \in Channel /\ u.at \in Fetch
    BY DEF PassState
  <2>2. old \in Nat /\ u.next.chan[u.ch] \in Nat
    BY <2>1, OldestTyped, Numbers
  <2>3. /\ n \in Nat /\ n <= MaxPosts
        /\ \A m \in L \union E \union M : m \in Nat /\ m <= n /\ m # 0
    BY DEF Sets
  <2>4. /\ m0 \in Time /\ m0 \in Nat /\ m0 <= n /\ m0 # 0 /\ m0 < Top /\ m0 \in 0 .. Top
        /\ 0 \in 0 .. Top
    BY <2>3, Numbers
  <2> QED BY <2>1, <2>2, <2>3, <2>4
<1>1. u.at.front \in Time /\ u.at.below \in 0 .. Top /\ f \in Time /\ low \in 0 .. Top
      /\ u.at.below \in Nat /\ u.at.front \in Nat /\ f \in Nat /\ low \in Nat
  BY <1>0, FetchFields, Numbers
<1>3. /\ SamePass(u, s) /\ s.next = Seen(u, m0).next
      /\ s.at.below = low /\ s.at.front = f
      /\ s.at.handled = u.at.handled /\ s.at.out = u.at.out
      /\ s.at.parent = u.at.parent /\ s.at.from = u.at.from /\ s.at.hwm = u.at.hwm
  BY <1>0, <1>1, ShownIs
<1>5. FetchOK(u, 0, ps, L, E, M) /\ u.ch \in u.left /\ RestOK(u, n, ps, L, E, M)
  BY DEF PassOK
<1>6. RestOK(s, n, ps, L, E, M) /\ s.next.chan[u.ch] = higherTs(u.next.chan[u.ch], m0)
  BY <1>3, <1>5, SeenOK DEF SamePass
<1>7. RestOK(s, n, ps, K, D, N)
  <2>1. K \in SUBSET L
    OBVIOUS
  <2> QED BY <1>6, <2>1, FewerOK
<1>8. PastAt(s.at, s.ch, n)
  BY <1>0, <1>3 DEF SamePass, PassOK, PastAt
<1>9. Covers(u.prev, u.ch, ps, L, E, M)
  BY <1>0, <1>5 DEF RestOK
<1>10. old = Oldest(u.prev, u.ch)
  OBVIOUS
<1> HIDE DEF old
<1>11. /\ u.at.below \notin {0, Top} => u.at.below <= u.at.front
       /\ u.at.below # Top => old <= u.at.front
  BY <1>5, <1>10 DEF FetchOK
<1>12. /\ u.at.below # 0
       /\ low \notin {0, Top} => low <= f
       /\ low # Top /\ old <= f
  BY <1>0, <1>1, <1>10, <1>11
<1> DEFINE top == s.next.chan[u.ch]
           Above(m) == m > f /\ m > top
<1>13. \A m \in Nat : u.at.below # Top /\ m > u.at.front /\ m > u.next.chan[u.ch] => Above(m)
  <2> SUFFICES ASSUME NEW m \in Nat, u.at.below # Top, m > u.at.front, m > u.next.chan[u.ch]
               PROVE  Above(m)
    OBVIOUS
  <2>1. m > m0 /\ f = u.at.front
    BY <1>0, <1>1, <1>11, <1>12
  <2> QED BY <1>6, <2>1 DEF higherTs
<1> HIDE DEF Above, top
<1>14. ASSUME NEW m \in K, ps[m].ch = u.ch PROVE m < low \/ Above(m)
  <2>1. m \in Nat /\ m \in L /\ m # m0 /\ m <= n
    BY <1>0
  <2>2. m > old
    BY <1>9, <1>10, <1>14, <2>1 DEF Covers
  <2>3. m < u.at.below \/ (m > u.at.front /\ m > u.next.chan[u.ch])
    BY <1>5, <1>14, <2>1 DEF FetchOK
  <2>4. m < u.at.below => m < low
    BY <1>10, <1>14, <2>1, <2>2
  <2>5. u.at.below = Top => m < u.at.below
    BY <2>1, Numbers DEF Sets
  <2> QED BY <1>13, <2>1, <2>3, <2>4, <2>5
<1>15. ASSUME NEW m \in D \ {m0}, ps[m].ch = u.ch
       PROVE  \/ m \in u.at.handled /\ u.at.out[m] # 0
              \/ m \notin u.at.handled /\ u.prev.thread[m] # 0
              \/ old < m /\ m < low
              \/ Above(m)
  <2>1. m \in Nat /\ m \in E /\ m # m0 /\ m # 0
    BY <1>0
  <2>2. \/ m \in u.at.handled /\ u.at.out[m] # 0
        \/ m \notin u.at.handled /\ u.prev.thread[m] # 0
        \/ old < m /\ m < u.at.below
        \/ u.at.below # Top /\ m > u.at.front /\ m > u.next.chan[u.ch]
    BY <1>5, <1>10, <1>15, <2>1 DEF FetchOK
  <2>3. old < m /\ m < u.at.below => m < low
    BY <1>10, <1>15, <2>1
  <2> QED BY <1>13, <2>1, <2>2, <2>3
<1>16. FetchOK(s, 0, ps, K, D \ {m0}, N)
  <2>1. /\ s.at.below = low /\ s.at.front = f /\ s.ch = u.ch /\ s.prev = u.prev
        /\ s.at.handled = u.at.handled /\ s.at.out = u.at.out
    BY <1>3 DEF SamePass
  <2>2. \A m \in D, t \in N : ps[m].ch = u.ch /\ ps[t].parent = m => t > u.at.out[m] /\ m # 0
    BY <1>0, <1>5 DEF FetchOK
  <2>3. /\ s.at.below \notin {0, Top} => s.at.below <= s.at.front
        /\ s.at.below # Top /\ Oldest(s.prev, s.ch) <= s.at.front
    BY <1>10, <1>12, <2>1
  <2>4. \A m \in K : ps[m].ch = s.ch =>
          m < s.at.below \/ (m > s.at.front /\ m > s.next.chan[s.ch])
    BY <1>14, <2>1 DEF Above, top
  <2>5. \A m \in D \ {m0} : ps[m].ch = s.ch =>
          \/ m \in s.at.handled /\ s.at.out[m] # 0
          \/ m \notin s.at.handled /\ s.prev.thread[m] # 0
          \/ Oldest(s.prev, s.ch) < m /\ m < s.at.below
          \/ m > s.at.front /\ m > s.next.chan[s.ch]
    BY <1>10, <1>15, <2>1 DEF Above, top
  <2>6. \A m \in D \ {m0}, t \in N : ps[m].ch = s.ch /\ ps[t].parent = m =>
          t > s.at.out[m] /\ m # 0
    BY <2>1, <2>2
  <2> QED BY <2>3, <2>4, <2>5, <2>6 DEF FetchOK
<1> QED BY <1>7, <1>8, <1>16

\* The thread of a message on the page is fetched above what is known of it.
LEMMA MetOK ==
  ASSUME NEW n, NEW ps, NEW L, NEW E, NEW M, Sets(n, ps, L, E, M), NEW u \in PassState,
         u.pc = "fetch", u.ch \in u.left, u.live > 0,
         RestOK(u, n, ps, L, E, M), PastAt(u.at, u.ch, n),
         NEW m0 \in 1 .. n, Oldest(u.prev, u.ch) < m0, FetchOK(u, 0, ps, L, E \ {m0}, M),
         \A t \in M : m0 \in E /\ ps[m0].ch = u.ch /\ ps[t].parent = m0 => t > u.at.out[m0],
         NEW v, v = Met(u, m0)
  PROVE  v \in PassState /\ v.pc # "idle" /\ PassOK(v, n, ps, L, E, M)
<1> DEFINE old == Oldest(u.prev, u.ch)
           mark == u.prev.thread[m0]
           from == higherTs(old, mark)
           hwm == higherTs(mark, m0)
<1>0. /\ m0 \in Ts /\ u.prev \in Cursor /\ m0 # 0 /\ m0 <= n /\ m0 \in Time /\ u.ch \in Channel
      /\ n \in Nat
  BY Numbers DEF Sets, Ts, PassState
<1>1. mark \in Time /\ old \in Time /\ mark <= n
  BY <1>0, OldestTyped DEF RestOK, Past
<1>2. from \in Time /\ hwm \in Time /\ from <= n /\ hwm <= n /\ hwm # 0
  <2> HIDE DEF mark, old
  <2>1. mark \in Nat /\ old \in Nat /\ m0 \in Nat /\ old < m0
    BY <1>0, <1>1, Numbers DEF old
  <2> QED BY <1>0, <1>1, <2>1, Numbers DEF higherTs
<1>3. v = Poll(u, m0, from, hwm)
  BY DEF Met
<1>4. \A t : t \in M /\ ps[t].parent = m0 /\ ps[m0].ch = u.ch /\ m0 \in E => t > from /\ t > hwm
  <2> SUFFICES ASSUME NEW t \in M, ps[t].parent = m0, ps[m0].ch = u.ch, m0 \in E
               PROVE  t > from /\ t > hwm
    OBVIOUS
  <2>1. t \in Nat /\ m0 < t
    BY DEF Sets
  <2>2. t > mark
    <3>1. Covers(u.prev, u.ch, ps, L, E, M)
      BY <1>0 DEF RestOK
    <3> QED BY <3>1 DEF Covers
  <2>3. old < m0 /\ old \in Nat /\ mark \in Nat /\ m0 \in Nat
    BY <1>0, <1>1, Numbers
  <2> HIDE DEF old, mark
  <2> QED BY <2>1, <2>2, <2>3 DEF higherTs
<1> HIDE DEF from, hwm, mark
<1>5. /\ SamePass(u, v) /\ v.next = u.next
      /\ v.at.below = u.at.below /\ v.at.front = u.at.front
      /\ v.at.handled = u.at.handled \union {m0} /\ v.at.out = u.at.out
      /\ v.at.parent = m0 /\ v.at.from = from /\ v.at.hwm = hwm
  BY <1>0, <1>2, <1>3, PollIs
<1>6. FetchOK(v, m0, ps, L, E, M)
  <2>1. ASSUME NEW k \in E, NEW t \in M, ps[k].ch = u.ch, ps[t].parent = k
        PROVE  t > u.at.out[k] /\ (k = m0 => t > from /\ t > hwm)
    <3>1. CASE k = m0
      BY <1>4, <2>1, <3>1
    <3>2. CASE k # m0
      <4>1. k \in E \ {m0}
        BY <3>2
      <4> QED BY <2>1, <3>2, <4>1 DEF FetchOK
    <3> QED BY <3>1, <3>2
  <2>2. ASSUME NEW k \in E, ps[k].ch = u.ch
        PROVE  \/ k \in v.at.handled /\ (k = m0 \/ u.at.out[k] # 0)
               \/ k \notin v.at.handled /\ u.prev.thread[k] # 0
               \/ old < k /\ k < u.at.below
               \/ u.at.below # Top /\ k > u.at.front /\ k > u.next.chan[u.ch]
    <3>1. CASE k = m0
      BY <1>5, <3>1
    <3>2. CASE k # m0
      <4>1. k \in E \ {m0} /\ k # 0
        BY <3>2 DEF Sets
      <4> QED BY <1>5, <2>2, <3>2, <4>1 DEF FetchOK
    <3> QED BY <3>1, <3>2
  <2>3. m0 \in v.at.handled /\ v.at.hwm # 0
    BY <1>2, <1>5
  <2> QED BY <1>5, <2>1, <2>2, <2>3 DEF SamePass, FetchOK
<1>7. PastAt(v.at, v.ch, n)
  BY <1>0, <1>2, <1>5 DEF SamePass, PastAt
<1>8. PassOK(v, n, ps, L, E, M)
  BY <1>5, <1>6, <1>7 DEF SamePass, RestOK, PassOK
<1> QED BY <1>5, <1>8 DEF SamePass

\* A thread that is gone does not count any more.
LEMMA GoneOK ==
  ASSUME NEW n, NEW ps, NEW L, NEW E, NEW M, Sets(n, ps, L, E, M), NEW u \in PassState,
         PassOK(u, n, ps, L, E, M), u.pc = "fetch", NEW D \in SUBSET E, u.at.parent \notin D
  PROVE  SettledOK(u, n, ps, L, D, M)
<1>1. /\ FetchOK(u, u.at.parent, ps, L, E, M) /\ u.ch \in u.left /\ u.live > 0
      /\ RestOK(u, n, ps, L, E, M) /\ PastAt(u.at, u.ch, n)
  BY DEF PassOK
<1>2. RestOK(u, n, ps, L, D, M)
  BY <1>1, FewerOK
<1>3. \A m \in D : m \in E /\ m # u.at.parent /\ m # 0
  BY DEF Sets
<1>4. FetchOK(u, 0, ps, L, D, M)
  BY <1>1, <1>3 DEF FetchOK
<1> QED BY <1>1, <1>2, <1>4 DEF SettledOK

\* The mark of a thread that is through is kept, unless it does not count any more.
LEMMA MarkedOK ==
  ASSUME NEW n, NEW ps, NEW L, NEW E, NEW M, Sets(n, ps, L, E, M), NEW u \in PassState,
         PassOK(u, n, ps, L, E, M), u.pc = "fetch", u.at.parent # 0, NEW D \in SUBSET E,
         u.at.parent \in D => isThreadActive(u.at.hwm, u.now)
  PROVE  SettledOK(ThreadDone(u), n, ps, L, D, M) /\ SamePass(u, ThreadDone(u))
<1> PICK v : v = ThreadDone(u)
  OBVIOUS
<1>1. /\ FetchOK(u, u.at.parent, ps, L, E, M) /\ u.ch \in u.left /\ u.live > 0
      /\ RestOK(u, n, ps, L, E, M) /\ PastAt(u.at, u.ch, n)
  BY DEF PassOK
<1>2. /\ SamePass(u, v) /\ v.next = u.next
      /\ v.at.below = u.at.below /\ v.at.front = u.at.front
      /\ v.at.handled = u.at.handled
      /\ v.at.parent = u.at.parent /\ v.at.from = u.at.from /\ v.at.hwm = u.at.hwm
      /\ \A t \in Ts : v.at.out[t] =
           IF t = u.at.parent
           THEN IF isThreadActive(u.at.hwm, u.now) THEN u.at.hwm ELSE 0
           ELSE u.at.out[t]
  BY DoneIs
<1>3. RestOK(v, n, ps, L, D, M)
  <2>1. RestOK(v, n, ps, L, E, M)
    BY <1>1, <1>2 DEF SamePass, RestOK
  <2> QED BY <2>1, FewerOK
<1>4. PastAt(v.at, v.ch, n)
  <2>1. \A t \in Ts : v.at.out[t] <= n
    <3> SUFFICES ASSUME NEW t \in Ts PROVE v.at.out[t] <= n
      OBVIOUS
    <3>1. u.at.hwm <= n /\ u.at.out[t] <= n /\ 0 <= n
      BY <1>1 DEF PastAt, Sets
    <3> QED BY <1>2, <3>1
  <2> QED BY <1>1, <1>2, <2>1 DEF SamePass, PastAt
<1>5. \A m \in D : m \in E /\ m \in Ts /\ m # 0
  BY Numbers DEF Sets
<1>6. FetchOK(v, 0, ps, L, D, M)
  <2>1. ASSUME NEW m \in D, NEW t \in M, ps[m].ch = u.ch, ps[t].parent = m
        PROVE  t > v.at.out[m]
    <3>1. t > u.at.out[m] /\ (m = u.at.parent => t > u.at.hwm)
      BY <1>1, <1>5, <2>1 DEF FetchOK
    <3> QED BY <1>2, <1>5, <3>1
  <2>2. ASSUME NEW m \in D, ps[m].ch = u.ch
        PROVE  \/ m \in v.at.handled /\ v.at.out[m] # 0
               \/ m \notin v.at.handled /\ u.prev.thread[m] # 0
               \/ Oldest(u.prev, u.ch) < m /\ m < u.at.below
               \/ u.at.below # Top /\ m > u.at.front /\ m > u.next.chan[u.ch]
    <3>1. CASE m = u.at.parent
      BY <1>1, <1>2, <1>5, <3>1 DEF FetchOK
    <3>2. CASE m # u.at.parent
      BY <1>1, <1>2, <1>5, <2>2, <3>2 DEF FetchOK
    <3> QED BY <3>1, <3>2
  <2> QED BY <1>1, <1>2, <1>5, <2>1, <2>2 DEF SamePass, FetchOK
<1>7. SettledOK(v, n, ps, L, D, M)
  BY <1>1, <1>2, <1>3, <1>4, <1>6 DEF SamePass, SettledOK
<1> QED BY <1>2, <1>7

\* A pass asked for the replies of a thread and got t, the first above `from`.  The messages
\* between the front and t are overtaken.
ReplyFits(n, ps, L, E, M, u, t, K, D, N) ==
  /\ Sets(n, ps, L, E, M)
  /\ u \in PassState /\ u.pc = "fetch" /\ u.at.parent # 0
  /\ PassOK(u, n, ps, L, E, M)
  /\ t \in 1 .. n
  /\ \A m \in K \union D : ps[m].ch = u.ch => m # t /\ ~ (u.at.front < m /\ m < t)
  /\ \A k \in N : ps[k].parent = u.at.parent /\ k > u.at.from => k > t
  /\ K \subseteq L /\ D \subseteq E /\ N \subseteq M

LEMMA ReplyOK ==
  ASSUME NEW n, NEW ps, NEW L, NEW E, NEW M, NEW u, NEW t, NEW K, NEW D, NEW N,
         ReplyFits(n, ps, L, E, M, u, t, K, D, N)
  PROVE  LET s == Answered(u, t) IN
         /\ SamePass(u, s) /\ PassOK(s, n, ps, K, D, N)
         /\ s.at.below = u.at.below /\ s.at.handled = u.at.handled
         /\ s.at.parent = u.at.parent /\ s.at.hwm = higherTs(u.at.hwm, t)
<1> PICK s : s = Answered(u, t)
  OBVIOUS
<1> /\ Sets(n, ps, L, E, M)
    /\ u \in PassState /\ u.pc = "fetch" /\ u.at.parent # 0
    /\ PassOK(u, n, ps, L, E, M)
    /\ t \in 1 .. n
    /\ K \in SUBSET L /\ D \in SUBSET E /\ N \in SUBSET M
    /\ \A m \in K \union D : ps[m].ch = u.ch => m # t /\ ~ (u.at.front < m /\ m < t)
    /\ \A k \in N : ps[k].parent = u.at.parent /\ k > u.at.from => k > t
  BY DEF ReplyFits
<1> DEFINE hwm == higherTs(u.at.hwm, t)
<1> PICK w : w = Seen(u, t)
  OBVIOUS
<1>15. s = Replied(w, t, hwm)
  BY DEF Answered
<1>1. /\ FetchOK(u, u.at.parent, ps, L, E, M) /\ u.ch \in u.left /\ u.live > 0
      /\ RestOK(u, n, ps, L, E, M) /\ PastAt(u.at, u.ch, n)
  BY DEF PassOK
<1>2. /\ t \in Time /\ t \in Nat /\ t <= n /\ t # 0 /\ n \in Nat
      /\ u.at \in Fetch /\ u.next \in Cursor /\ u.ch \in Channel
  BY Numbers DEF Sets, PassState
<1>3. /\ u.at.hwm \in Nat /\ u.at.front \in Nat /\ u.next.chan[u.ch] \in Nat
      /\ u.at.hwm \in Time /\ u.at.hwm <= n
  BY <1>1, <1>2, FetchFields, OldestTyped, Numbers DEF PastAt
<1>4. hwm \in Time /\ hwm <= n /\ hwm # 0
  BY <1>2, <1>3 DEF higherTs
<1>5. SamePass(u, w) /\ w.at = u.at
  BY <1>2, SeenIs
<1>6. hwm = higherTs(u.at.hwm, t)
  OBVIOUS
<1> HIDE DEF hwm
<1>7. /\ SamePass(w, s) /\ s.next = w.next
      /\ s.at.below = w.at.below /\ s.at.front = w.at.front
      /\ s.at.handled = w.at.handled /\ s.at.out = w.at.out
      /\ s.at.parent = w.at.parent /\ s.at.from = t /\ s.at.hwm = hwm
  <2>1. w \in PassState
    BY <1>5 DEF SamePass
  <2> QED BY ONLY <1>2, <1>4, <1>15, <2>1, RepliedIs
<1>8. SamePass(u, s)
  BY <1>5, <1>7 DEF SamePass
<1>9. RestOK(s, n, ps, L, E, M) /\ s.next.chan[u.ch] = higherTs(u.next.chan[u.ch], t)
  BY <1>1, <1>7, <1>8, SeenOK DEF SamePass
<1>10. RestOK(s, n, ps, K, D, N)
  <2>1. K \in SUBSET L /\ D \in SUBSET E /\ N \in SUBSET M
    OBVIOUS
  <2>2. \A x : RestOK(x, n, ps, L, E, M) => RestOK(x, n, ps, K, D, N)
    BY ONLY <2>1, FewerOK
  <2> QED BY <1>9, <2>2
<1>11. PastAt(s.at, s.ch, n)
  BY <1>1, <1>2, <1>4, <1>5, <1>7, <1>8 DEF SamePass, PastAt
<1>12. ASSUME NEW m \in K \union D, ps[m].ch = u.ch, m > u.at.front, m > u.next.chan[u.ch]
       PROVE  m > s.next.chan[u.ch]
  <2>1. m \in Nat
    BY DEF Sets
  <2>2. m > t
    BY <1>2, <1>12, <2>1
  <2> QED BY <1>9, <1>12, <2>2 DEF higherTs
<1>13. FetchOK(s, u.at.parent, ps, K, D, N)
  <2>1. /\ s.at.below = u.at.below /\ s.at.front = u.at.front /\ s.at.handled = u.at.handled
        /\ s.at.out = u.at.out /\ s.at.from = t /\ s.at.hwm = hwm /\ s.ch = u.ch
        /\ s.prev = u.prev
    BY <1>5, <1>7, <1>8 DEF SamePass
  <2>2. ASSUME NEW m \in K, ps[m].ch = u.ch
        PROVE  m < u.at.below \/ (m > u.at.front /\ m > s.next.chan[u.ch])
    BY <1>1, <1>12, <2>2 DEF FetchOK
  <2>3. ASSUME NEW m \in D, ps[m].ch = u.ch
        PROVE  \/ m \in u.at.handled /\ (m = u.at.parent \/ u.at.out[m] # 0)
               \/ m \notin u.at.handled /\ u.prev.thread[m] # 0
               \/ Oldest(u.prev, u.ch) < m /\ m < u.at.below
               \/ u.at.below # Top /\ m > u.at.front /\ m > s.next.chan[u.ch]
    BY <1>1, <1>12, <2>3 DEF FetchOK
  <2>4. ASSUME NEW m \in D, NEW k \in N, ps[m].ch = u.ch, ps[k].parent = m
        PROVE  k > u.at.out[m] /\ (m = u.at.parent => k > t /\ k > hwm)
    <3>1. k > u.at.out[m] /\ (m = u.at.parent => k > u.at.from /\ k > u.at.hwm)
      BY <1>1, <2>4 DEF FetchOK
    <3>2. m = u.at.parent => k > t
      BY <2>4, <3>1
    <3> QED BY <1>6, <3>1, <3>2 DEF higherTs
  <2>5. u.at.parent \in u.at.handled /\ hwm # 0
    BY <1>1, <1>4 DEF FetchOK
  <2> QED BY <1>1, <2>1, <2>2, <2>3, <2>4, <2>5 DEF FetchOK
<1>14. PassOK(s, n, ps, K, D, N)
  BY <1>1, <1>5, <1>7, <1>8, <1>10, <1>11, <1>13 DEF SamePass, PassOK
<1> QED BY <1>5, <1>6, <1>7, <1>8, <1>14
-----------------------------------------------------------------------------
(***************************************************************************)
(* The steps.                                                              *)
(***************************************************************************)

Expected ==
  {m \in Missing \ (overtaken \union deleted) :
     posts[m].parent = 0 /\ posts[m].ch \notin adrift /\ m > Since[posts[m].ch]}

Eligible ==
  {m \in 1 .. Clock :
     /\ posts[m].parent = 0 /\ posts[m].ch \notin adrift /\ m > Since[posts[m].ch]
     /\ m \notin deleted \union overtaken \union letgo \union late}

Awaited == {t \in Missing : posts[t].parent \in Eligible}

\* Replies are not nested.
PostsOK == \A t \in 1 .. Clock : posts[t].parent # 0 => posts[posts[t].parent].parent = 0

CursorOK(x, n, ps, L, E, M) ==
  Past(x, n) /\ \A c \in Channel : Covers(x, c, ps, L, E, M)

\* The inductive invariant: the stored cursor and every running pass leave nothing out.
IInv ==
  /\ TypeOK
  /\ PostsOK
  /\ CursorOK(cursor, Clock, posts, Expected, Eligible, Awaited)
  /\ \A p \in Pass : run[p].pc # "idle" =>
       PassOK(run[p], Clock, posts, Expected, Eligible, Awaited)

LEMMA SetsHold ==
  ASSUME TypeOK
  PROVE  Sets(Clock, posts, Expected, Eligible, Awaited)
<1>1. Clock \in Nat /\ Clock <= MaxPosts
  BY DEF TypeOK, Clock
<1>2. \A t \in 1 .. Clock : posts[t] \in Post /\ posts[t].parent < t
  BY DEF TypeOK, Clock
<1>3. Expected \subseteq 1 .. Clock /\ Eligible \subseteq 1 .. Clock /\ Awaited \subseteq 1 .. Clock
  BY DEF Expected, Eligible, Awaited, Missing
<1> QED BY <1>1, <1>2, <1>3 DEF Sets

LEMMA PostFields ==
  ASSUME TypeOK
  PROVE  \A t \in 1 .. Clock :
           posts[t].ch \in Channel /\ posts[t].parent \in Time /\ posts[t].parent < t
<1>1. \A t \in 1 .. Clock : posts[t] \in Post /\ posts[t].parent < t
  BY SetsHold DEF Sets
<1>2. \A x \in Post : x.ch \in Channel /\ x.parent \in Time
  BY DEF Post
<1> QED BY <1>1, <1>2

\* What most steps do: nothing is posted, and what is over stays over.
Grown ==
  /\ posts' = posts
  /\ deleted \subseteq deleted' /\ deleted' \subseteq 1 .. Clock
  /\ stored \subseteq stored' /\ stored' \subseteq 1 .. Clock
  /\ overtaken \subseteq overtaken' /\ overtaken' \subseteq 1 .. Clock
  /\ late \subseteq late' /\ late' \subseteq 1 .. Clock
  /\ letgo \subseteq letgo' /\ letgo' \subseteq 1 .. Clock
  /\ adrift \subseteq adrift' /\ adrift' \subseteq Channel
  /\ ops' \in 0 .. MaxOps

LEMMA GrownSets ==
  ASSUME TypeOK, Grown
  PROVE  /\ Clock' = Clock
         /\ Expected' \in SUBSET Expected /\ Eligible' \in SUBSET Eligible
         /\ Awaited' \in SUBSET Awaited
         /\ Sets(Clock, posts, Expected', Eligible', Awaited')
<1>1. Clock' = Clock
  BY DEF Grown, Clock
<1>2. Missing' \subseteq Missing
  BY <1>1 DEF Grown, Missing
<1>3. Expected' \in SUBSET Expected
  BY <1>2 DEF Grown, Expected
<1>4. Eligible' \in SUBSET Eligible
  BY <1>1 DEF Grown, Eligible
<1>5. Awaited' \in SUBSET Awaited
  BY <1>2, <1>4 DEF Grown, Awaited
<1>6. Sets(Clock, posts, Expected', Eligible', Awaited')
  <2>1. Sets(Clock, posts, Expected, Eligible, Awaited)
    BY SetsHold
  <2> QED BY <2>1, <1>3, <1>4, <1>5 DEF Sets
<1> QED BY <1>1, <1>3, <1>4, <1>5, <1>6

\* The sets of the next state ask less of what is already right.
LEMMA StillOK ==
  ASSUME IInv, Grown
  PROVE  /\ CursorOK(cursor, Clock, posts, Expected', Eligible', Awaited')
         /\ \A p \in Pass : run[p].pc # "idle" =>
              PassOK(run[p], Clock, posts, Expected', Eligible', Awaited')
<1>1. /\ Expected' \in SUBSET Expected /\ Eligible' \in SUBSET Eligible
      /\ Awaited' \in SUBSET Awaited
  BY GrownSets DEF IInv
<1>2. \A x, c : Covers(x, c, posts, Expected, Eligible, Awaited)
                  => Covers(x, c, posts, Expected', Eligible', Awaited')
  BY ONLY <1>1, FewerOK
<1>3. \A u : PassOK(u, Clock, posts, Expected, Eligible, Awaited)
               => PassOK(u, Clock, posts, Expected', Eligible', Awaited')
  BY ONLY <1>1, FewerOK
<1> QED BY <1>2, <1>3 DEF IInv, CursorOK

LEMMA Step ==
  ASSUME IInv, Grown, run' \in [Pass -> PassState], cursor' \in Cursor,
         \A p \in Pass : run'[p].pc # "idle" =>
            PassOK(run'[p], Clock, posts, Expected', Eligible', Awaited'),
         CursorOK(cursor', Clock, posts, Expected', Eligible', Awaited')
  PROVE  IInv'
<1>1. Clock' = Clock /\ posts' = posts
  BY GrownSets DEF IInv, Grown
<1>2. TypeOK'
  <2>1. \A p \in Pass : run'[p].pc = "fetch" => run'[p].live > 0
    BY DEF PassOK
  <2>2. \A S \in {deleted', stored', overtaken', late', letgo'} : S \subseteq 1 .. Clock'
    BY <1>1 DEF Grown
  <2> QED BY <1>1, <2>1, <2>2 DEF IInv, TypeOK, Grown
<1>3. PostsOK'
  BY <1>1 DEF IInv, PostsOK
<1> QED BY <1>1, <1>2, <1>3 DEF IInv

LEMMA Moved ==
  ASSUME IInv, Grown, cursor' = cursor, NEW p \in Pass, NEW v \in PassState,
         run' = [run EXCEPT ![p] = v],
         v.pc # "idle" => PassOK(v, Clock, posts, Expected', Eligible', Awaited')
  PROVE  IInv'
<1>1. run \in [Pass -> PassState] /\ cursor \in Cursor
  BY DEF IInv, TypeOK
<1>2. run' \in [Pass -> PassState]
  BY <1>1
<1>3. \A q \in Pass : run'[q].pc # "idle" =>
        PassOK(run'[q], Clock, posts, Expected', Eligible', Awaited')
  BY <1>1, StillOK
<1>4. CursorOK(cursor', Clock, posts, Expected', Eligible', Awaited')
  BY StillOK
<1> QED BY <1>1, <1>2, <1>3, <1>4, Step

LEMMA LetgoGrows ==
  ASSUME TypeOK, NEW p, NEW r \in PassState, Continue(p, r), r.at.parent <= Clock
  PROVE  letgo \subseteq letgo' /\ letgo' \subseteq 1 .. Clock
<1>1. r.at.parent \in Nat /\ letgo \subseteq 1 .. Clock /\ Clock \in Nat
  BY FetchFields, Numbers DEF PassState, TypeOK, Clock
<1>2. {m \in {r.at.parent} \ {0} : ~isThreadActive(r.at.hwm, r.now)} \subseteq 1 .. Clock
  BY <1>1
<1>3. Unhandled(r) \subseteq 1 .. Clock
  BY DEF Unhandled, ThreadsOf
<1> QED BY <1>1, <1>2, <1>3 DEF Continue

LEMMA ContinueOK ==
  ASSUME IInv, Grown, cursor' = cursor, NEW p \in Pass, NEW r \in PassState, Continue(p, r),
         SettledOK(r, Clock, posts, Expected', Eligible', Awaited')
  PROVE  IInv'
<1>1. PICK v \in Nexts(r) : run' = [run EXCEPT ![p] = v]
  BY DEF Continue
<1>2. Sets(Clock, posts, Expected', Eligible', Awaited')
  BY GrownSets DEF IInv
<1>3. ASSUME r.at.below = 0, NEW m \in Eligible' \intersect Unhandled(r)
      PROVE  isThreadActive(r.prev.thread[m], r.now)
  <2>1. m \notin letgo'
    BY DEF Eligible
  <2> QED BY <1>3, <2>1 DEF Continue
<1>4. v \in PassState /\ PassOK(v, Clock, posts, Expected', Eligible', Awaited')
  BY <1>2, <1>3, NextsOK
<1> QED BY <1>1, <1>4, Moved

\* A non-empty set of natural numbers has a least element.
LEMMA NatMin ==
  ASSUME NEW T \in SUBSET Nat, T # {}
  PROVE  \E x \in T : \A y \in T : x <= y
<1> DEFINE R == OpToRel(<, Nat)
<1>1. IsWellFoundedOn(R, Nat)
  BY NatLessThanWellFounded
<1>2. PICK x \in T : \A y \in T : ~ (<<y, x>> \in R)
  <2> HIDE DEF R
  <2> QED BY <1>1, WFMin
<1>3. \A y \in T : <<y, x>> \in R <=> y < x
  BY DEF OpToRel
<1> HIDE DEF R
<1>4. \A y \in T : ~ (y < x)
  BY <1>2, <1>3
<1> QED BY <1>4

LEMMA MinIs ==
  ASSUME NEW S \in SUBSET Nat, S # {}
  PROVE  Min(S) \in S /\ \A x \in S : Min(S) <= x
<1>1. \E x \in S : \A y \in S : x <= y
  BY NatMin
<1> QED BY <1>1 DEF Min

LEMMA MaxIs ==
  ASSUME NEW n \in Nat, NEW S \in SUBSET (1 .. n), S # {}
  PROVE  Max(S) \in S /\ \A x \in S : x <= Max(S)
<1> DEFINE T == {n - x : x \in S}
<1>1. T \in SUBSET Nat /\ T # {}
  <2>1. \A x \in S : n - x \in Nat
    OBVIOUS
  <2> QED BY <2>1
<1>2. PICK t \in T : \A y \in T : t <= y
  <2> HIDE DEF T
  <2> QED BY <1>1, NatMin
<1>3. PICK x \in S : t = n - x
  BY <1>2
<1>4. \A y \in S : n - x <= n - y
  BY <1>2, <1>3
<1>5. \A y \in S : x >= y
  BY <1>4
<1>6. Max(S) \in S /\ \A y \in S : Max(S) >= y
  BY <1>5 DEF Max
<1> QED BY <1>6

\* What the invariant says of a pass that is fetching.
LEMMA Fetching ==
  ASSUME IInv, NEW p \in Pass, run[p].pc = "fetch"
  PROVE  /\ run[p] \in PassState
         /\ PassOK(run[p], Clock, posts, Expected, Eligible, Awaited)
         /\ run[p].ch \in run[p].left /\ run[p].live > 0
         /\ RestOK(run[p], Clock, posts, Expected, Eligible, Awaited)
         /\ FetchOK(run[p], run[p].at.parent, posts, Expected, Eligible, Awaited)
         /\ PastAt(run[p].at, run[p].ch, Clock)
<1>1. run[p] \in PassState /\ PassOK(run[p], Clock, posts, Expected, Eligible, Awaited)
  BY DEF IInv, TypeOK
<1> QED BY <1>1 DEF PassOK

LEMMA HistoryStep ==
  ASSUME IInv, NEW p \in Pass, HistoryPage(p)
  PROVE  IInv'
<1> DEFINE u    == run[p]
           old  == Oldest(u.prev, u.ch)
           page == {m \in Messages(u.ch) : old < m /\ m < u.at.below}
           n    == Clock
<1>1. TypeOK /\ u.pc = "fetch" /\ u.at.parent = 0
  BY DEF IInv, HistoryPage
<1>2. u \in PassState /\ PassOK(u, n, posts, Expected, Eligible, Awaited)
      /\ u.ch \in u.left /\ u.live > 0
      /\ FetchOK(u, 0, posts, Expected, Eligible, Awaited)
      /\ PastAt(u.at, u.ch, n)
  BY <1>1, Fetching
<1>3. Sets(n, posts, Expected, Eligible, Awaited) /\ n \in Nat
  BY <1>1, SetsHold DEF Sets
<1>4. page \subseteq 1 .. n /\ page \subseteq Messages(u.ch)
  BY DEF Messages
<1>5. \A m \in Expected \union Eligible :
        posts[m].ch = u.ch /\ old < m /\ m < u.at.below => m \in page
  BY DEF Expected, Eligible, Messages, Missing
<1>6. /\ UNCHANGED <<world, cursor, overtaken, adrift, ops>>
      /\ stored \subseteq 1 .. n /\ deleted \subseteq 1 .. n /\ overtaken \subseteq 1 .. n
      /\ late \subseteq 1 .. n /\ letgo \subseteq 1 .. n /\ adrift \subseteq Channel
      /\ ops \in 0 .. MaxOps
  BY <1>1 DEF HistoryPage, TypeOK
<1>7. CASE page = {}
  <2> PICK v : v = Paged(u, 0, old)
    OBVIOUS
  <2>1. Continue(p, v) /\ UNCHANGED <<stored, late>>
    BY <1>7 DEF HistoryPage, Paged
  <2>2. /\ SettledOK(v, n, posts, Expected, Eligible, Awaited) /\ SamePass(u, v)
        /\ v.at.parent = 0
    BY <1>1, <1>2, <1>3, <1>5, <1>7, EmptyPageOK
  <2>3. v \in PassState /\ v.at.parent <= n
    BY <1>3, <2>2 DEF SamePass
  <2>4. Grown
    BY <1>1, <1>6, <2>1, <2>3, LetgoGrows DEF Grown, world
  <2>5. SettledOK(v, n, posts, Expected', Eligible', Awaited')
    <3>1. /\ Expected' \in SUBSET Expected /\ Eligible' \in SUBSET Eligible
          /\ Awaited' \in SUBSET Awaited
      BY <1>1, <2>4, GrownSets
    <3>2. \A x : RestOK(x, n, posts, Expected, Eligible, Awaited)
                   => RestOK(x, n, posts, Expected', Eligible', Awaited')
      BY ONLY <3>1, FewerOK
    <3> QED BY <2>2, <3>1, <3>2 DEF SettledOK, FetchOK
  <2> QED BY <1>6, <2>1, <2>3, <2>4, <2>5, ContinueOK
<1>8. CASE page # {}
  <2> DEFINE m == Max(page)
             low == IF page = {m} THEN 0 ELSE m
             f == IF u.at.below = Top THEN m ELSE u.at.front
             s == Shown(u, m, low)
  <2>1. m \in page /\ \A k \in page : k <= m
    BY <1>3, <1>4, <1>8, MaxIs
  <2>2. m \in 1 .. n /\ old < m /\ m < u.at.below /\ m \in Messages(u.ch) /\ low \in {0, m}
    BY <1>4, <2>1
  <2>3. [Seen(u, m) EXCEPT !.at = [u.at EXCEPT !.below = low, !.front = f]] = s
    <3>1. m \in Time /\ Seen(u, m).at = u.at
      BY <1>2, <1>3, <2>2, SeenIs, Numbers DEF Sets
    <3> QED BY <3>1 DEF Shown, Paged
  <2>4. /\ stored' = stored \union {m}
        /\ \/ Replies(m) = {} /\ late' = late \union {m} /\ Continue(p, s)
           \/ /\ run' = [run EXCEPT ![p] = Poll(s, m, higherTs(old, u.prev.thread[m]),
                                                higherTs(u.prev.thread[m], m))]
              /\ UNCHANGED <<late, letgo>>
    BY <1>8, <2>3 DEF HistoryPage
  <2>5. \A k \in Expected \union Eligible :
          posts[k].ch = u.ch /\ old < k /\ k < u.at.below => k = m \/ k < low
    <3> SUFFICES ASSUME NEW k \in Expected \union Eligible,
                        posts[k].ch = u.ch /\ old < k /\ k < u.at.below
                 PROVE  k = m \/ k < low
      OBVIOUS
    <3>1. k \in page
      BY <1>5
    <3>2. k <= m /\ k \in 1 .. n /\ m \in 1 .. n
      <4> HIDE DEF m, page, n
      <4> QED BY <1>4, <2>1, <3>1
    <3>3. k # m => page # {m}
      BY <3>1
    <3> HIDE DEF m, page
    <3> QED BY <1>3, <3>2, <3>3
  <2>14. s = Shown(u, m, low)
    OBVIOUS
  <2> HIDE DEF m, low, f, s, page, u
  <2>6. s.at.parent = 0 /\ s.at.out = u.at.out /\ SamePass(u, s)
    <3>1. m \in Time /\ low \in 0 .. Top
      BY <1>3, <2>2, Numbers DEF Sets
    <3> QED BY <1>1, <1>2, <2>14, <3>1, ShownIs
  <2>7. s \in PassState /\ s.prev = u.prev /\ s.ch = u.ch /\ s.pc = "fetch" /\ s.left = u.left
        /\ s.live = u.live
    BY <1>1, <2>6 DEF SamePass
  <2>8. Grown
    <3>1. letgo \subseteq letgo' /\ letgo' \subseteq 1 .. n
      <4>1. s.at.parent <= n
        BY <1>3, <2>6
      <4> QED BY <1>1, <1>6, <2>4, <2>7, <4>1, LetgoGrows
    <3> QED BY <1>6, <2>2, <2>4, <3>1 DEF Grown, world
  <2>9. /\ Expected' \in SUBSET Expected /\ Eligible' \in SUBSET Eligible
        /\ Awaited' \in SUBSET Awaited /\ Sets(n, posts, Expected', Eligible', Awaited')
        /\ n' = n
    BY <1>1, <2>8, GrownSets
  <2>10. m \notin Expected'
    BY <2>4 DEF Expected, Missing
  <2>11. /\ RestOK(s, n, posts, Expected', Eligible', Awaited')
         /\ PastAt(s.at, s.ch, n)
         /\ FetchOK(s, 0, posts, Expected', Eligible' \ {m}, Awaited')
    <3>1. Expected' \in SUBSET (Expected \ {m})
      BY <2>9, <2>10
    <3>2. PageFits(n, posts, Expected, Eligible, Awaited, u, m, low, Expected', Eligible', Awaited')
      BY <1>1, <1>2, <1>3, <2>2, <2>5, <2>9, <3>1 DEF PageFits
    <3> QED BY ONLY <2>14, <3>2, PageOK
  <2>12. CASE late' = late \union {m} /\ Continue(p, s)
    <3>1. Eligible' \ {m} = Eligible'
      BY <2>12 DEF Eligible
    <3>2. SettledOK(s, n, posts, Expected', Eligible', Awaited')
      BY <1>2, <2>7, <2>11, <3>1 DEF SettledOK
    <3> QED BY <1>6, <2>7, <2>8, <2>12, <3>2, ContinueOK
  <2>13. CASE run' = [run EXCEPT ![p] = Poll(s, m, higherTs(old, u.prev.thread[m]),
                                             higherTs(u.prev.thread[m], m))]
    <3> PICK v : v = Met(s, m)
      OBVIOUS
    <3>3. run' = [run EXCEPT ![p] = v]
      BY <2>7, <2>13 DEF Met
    <3>1. \A t \in Awaited' : m \in Eligible' /\ posts[m].ch = s.ch /\ posts[t].parent = m
             => t > s.at.out[m]
      BY <1>2, <2>6, <2>7, <2>9 DEF FetchOK
    <3>2. v \in PassState /\ PassOK(v, n, posts, Expected', Eligible', Awaited')
      BY <1>2, <2>2, <2>7, <2>9, <2>11, <3>1, MetOK
    <3> QED BY <1>6, <2>8, <3>2, <3>3, Moved
  <2> QED BY <2>4, <2>12, <2>13
<1> QED BY <1>7, <1>8

LEMMA ReplyStep ==
  ASSUME IInv, NEW p \in Pass, ReplyPage(p)
  PROVE  IInv'
<1> DEFINE u    == run[p]
           page == {t \in Replies(u.at.parent) : u.at.from < t}
           n    == Clock
<1>1. TypeOK /\ u.pc = "fetch" /\ u.at.parent # 0
  BY DEF IInv, ReplyPage
<1>2. u \in PassState /\ PassOK(u, n, posts, Expected, Eligible, Awaited)
      /\ PastAt(u.at, u.ch, n)
  BY <1>1, Fetching
<1>3. Sets(n, posts, Expected, Eligible, Awaited) /\ n \in Nat
  BY <1>1, SetsHold DEF Sets
<1>4. /\ UNCHANGED <<world, cursor, late, adrift, ops>>
      /\ stored \subseteq 1 .. n /\ deleted \subseteq 1 .. n /\ overtaken \subseteq 1 .. n
      /\ late \subseteq 1 .. n /\ letgo \subseteq 1 .. n /\ adrift \subseteq Channel
      /\ ops \in 0 .. MaxOps
  BY <1>1 DEF ReplyPage, TypeOK
<1>5. u.at.parent <= n /\ u.at.parent \in Nat
  BY <1>2, FetchFields, Numbers DEF PastAt, PassState
<1>6. CASE u.at.parent \in deleted /\ Continue(p, u) /\ UNCHANGED <<stored, overtaken>>
  <2>1. Grown
    BY <1>1, <1>2, <1>4, <1>5, <1>6, LetgoGrows DEF Grown, world
  <2>2. /\ Expected' \in SUBSET Expected /\ Eligible' \in SUBSET Eligible
        /\ Awaited' \in SUBSET Awaited /\ Sets(n, posts, Expected', Eligible', Awaited')
    BY <1>1, <2>1, GrownSets
  <2>3. u.at.parent \notin Eligible'
    BY <1>6, <2>1 DEF Grown, Eligible
  <2>4. PassOK(u, n, posts, Expected', Eligible', Awaited')
    BY <1>1, <2>1, StillOK
  <2>5. SettledOK(u, n, posts, Expected', Eligible', Awaited')
    <3>1. Eligible' \in SUBSET Eligible'
      OBVIOUS
    <3> QED BY <1>1, <1>2, <2>2, <2>3, <2>4, <3>1, GoneOK
  <2> QED BY <1>2, <1>4, <1>6, <2>1, <2>5, ContinueOK
<1>7. ASSUME NEW s \in PassState, Grown, Continue(p, ThreadDone(s)), s.pc = "fetch",
             s.at.parent = u.at.parent,
             PassOK(s, n, posts, Expected', Eligible', Awaited')
      PROVE  IInv'
  <2> PICK v : v = ThreadDone(s)
    OBVIOUS
  <2>1. v \in PassState /\ v.at.parent = s.at.parent /\ v.at.hwm = s.at.hwm /\ v.now = s.now
    BY DoneIs DEF SamePass
  <2>2. Sets(n, posts, Expected', Eligible', Awaited')
    BY <1>1, <1>7, GrownSets
  <2>3. s.at.parent \in Eligible' => isThreadActive(s.at.hwm, s.now)
    <3>1. Eligible' \intersect letgo' = {}
      BY DEF Eligible
    <3> QED BY <1>1, <1>7, <2>1, <3>1 DEF Continue
  <2>4. SettledOK(v, n, posts, Expected', Eligible', Awaited')
    <3>1. Eligible' \in SUBSET Eligible'
      OBVIOUS
    <3> QED BY <1>1, <1>7, <2>2, <2>3, <3>1, MarkedOK
  <2> QED BY <1>4, <1>7, <2>1, <2>4, ContinueOK
<1>8. CASE page = {} /\ Continue(p, ThreadDone(u)) /\ UNCHANGED <<stored, overtaken>>
  <2>1. Grown
    <3> PICK v : v = ThreadDone(u)
      OBVIOUS
    <3>1. v \in PassState /\ v.at.parent <= n
      BY <1>2, <1>5, DoneIs DEF SamePass
    <3>2. letgo \subseteq letgo' /\ letgo' \subseteq 1 .. n
      BY <1>1, <1>8, <3>1, LetgoGrows
    <3> QED BY <1>4, <1>8, <3>2 DEF Grown, world
  <2>2. PassOK(u, n, posts, Expected', Eligible', Awaited')
    BY <1>1, <2>1, StillOK
  <2> QED BY <1>1, <1>2, <1>7, <1>8, <2>1, <2>2
<1> DEFINE t == Min(page)
           s == Answered(u, t)
           over == {m \in Messages(u.ch) : u.at.front < m /\ m < t}
<1>9. CASE /\ page # {} /\ stored' = stored \union {t} /\ overtaken' = overtaken \union over
           /\ IF page = {t} THEN Continue(p, ThreadDone(s))
              ELSE run' = [run EXCEPT ![p] = s] /\ UNCHANGED letgo
  <2>1. page \subseteq 1 .. n /\ page \subseteq Nat
    BY <1>3 DEF Replies
  <2>2. t \in page /\ \A k \in page : t <= k
    <3> HIDE DEF page
    <3> QED BY <1>9, <2>1, MinIs
  <2>3. t \in 1 .. n /\ posts[t].parent = u.at.parent
    BY <2>1, <2>2 DEF Replies
  <2>4. over \subseteq 1 .. n
    BY DEF Messages
  <2>5. SamePass(u, s) /\ s \in PassState /\ s.pc = "fetch" /\ s.at.parent = u.at.parent
    <3> PICK w : w = Seen(u, t)
      OBVIOUS
    <3> PICK h : h = higherTs(u.at.hwm, t)
      OBVIOUS
    <3>1. t \in Time /\ h \in Time
      <4>1. t \in Time
        BY <1>3, <2>3, Numbers DEF Sets
      <4> QED BY <1>2, <4>1, FetchFields DEF higherTs, PassState
    <3>2. SamePass(u, w) /\ w.at = u.at /\ w \in PassState
      BY <1>2, <3>1, SeenIs DEF SamePass
    <3> PICK x : x = Replied(w, t, h)
      OBVIOUS
    <3>3. SamePass(w, x) /\ x.at.parent = w.at.parent
      BY ONLY <3>1, <3>2, x = Replied(w, t, h), RepliedIs
    <3>4. s = x
      BY DEF Answered
    <3> HIDE DEF s
    <3> QED BY <1>1, <3>2, <3>3, <3>4 DEF SamePass
  <2>6. Grown
    <3>1. letgo \subseteq letgo' /\ letgo' \subseteq 1 .. n
      <4>1. CASE page = {t}
        <5> PICK v : v = ThreadDone(s)
          OBVIOUS
        <5>1. v \in PassState /\ v.at.parent <= n
          BY <1>5, <2>5, DoneIs DEF SamePass
        <5> QED BY <1>1, <1>9, <4>1, <5>1, LetgoGrows
      <4>2. CASE page # {t}
        BY <1>4, <1>9, <4>2
      <4> QED BY <4>1, <4>2
    <3> QED BY <1>4, <1>9, <2>3, <2>4, <3>1 DEF Grown, world
  <2>7. /\ Expected' \in SUBSET Expected /\ Eligible' \in SUBSET Eligible
        /\ Awaited' \in SUBSET Awaited /\ n' = n
    BY <1>1, <2>6, GrownSets
  <2>8. ASSUME NEW m \in Expected' \union Eligible', posts[m].ch = u.ch
        PROVE  m # t /\ ~ (u.at.front < m /\ m < t)
    <3>1. m \in 1 .. n /\ m \notin deleted' /\ m \notin overtaken' /\ posts[m].parent = 0
      BY <2>6, <2>7 DEF Expected, Eligible, Missing, Grown
    <3>2. m \in Messages(u.ch)
      BY <2>6, <2>8, <3>1 DEF Messages, Grown
    <3> QED BY <1>1, <1>9, <2>3, <3>1, <3>2
  <2>9. ASSUME NEW k \in Awaited', posts[k].parent = u.at.parent, k > u.at.from
        PROVE  k > t
    <3>1. k \in 1 .. n /\ k # t
      BY <1>9, <2>6, <2>7 DEF Awaited, Missing
    <3>2. k \in page
      BY <2>9, <3>1 DEF Replies
    <3>3. t <= k /\ t \in Nat /\ k \in Nat
      BY <2>1, <2>2, <3>2
    <3> HIDE DEF t
    <3> QED BY <3>1, <3>3
  <2>10. PassOK(s, n, posts, Expected', Eligible', Awaited')
    <3> HIDE DEF t, u
    <3>1. ReplyFits(n, posts, Expected, Eligible, Awaited, u, t, Expected', Eligible', Awaited')
      BY <1>1, <1>2, <1>3, <2>3, <2>7, <2>8, <2>9 DEF ReplyFits
    <3> QED BY ONLY <3>1, ReplyOK DEF s
  <2>11. CASE page = {t}
    <3> HIDE DEF s, u
    <3> QED BY <1>7, <1>9, <2>5, <2>6, <2>10, <2>11
  <2>12. CASE page # {t}
    <3> HIDE DEF s, u
    <3> QED BY <1>4, <1>9, <2>5, <2>6, <2>10, <2>12, Moved
  <2> QED BY <2>11, <2>12
<1>10. \/ u.at.parent \in deleted /\ Continue(p, u) /\ UNCHANGED <<stored, overtaken>>
       \/ page = {} /\ Continue(p, ThreadDone(u)) /\ UNCHANGED <<stored, overtaken>>
       \/ /\ page # {} /\ stored' = stored \union {t} /\ overtaken' = overtaken \union over
          /\ IF page = {t} THEN Continue(p, ThreadDone(s))
             ELSE run' = [run EXCEPT ![p] = s] /\ UNCHANGED letgo
  <2>1. page # {} =>
          [Seen(u, t) EXCEPT !.at = [u.at EXCEPT !.from = t, !.hwm = higherTs(@, t)]] = s
    <3> SUFFICES ASSUME page # {}
                 PROVE  [Seen(u, t) EXCEPT
                           !.at = [u.at EXCEPT !.from = t, !.hwm = higherTs(@, t)]] = s
      OBVIOUS
    <3>1. page \subseteq Nat /\ page \subseteq Time
      BY <1>3, Numbers DEF Replies, Sets
    <3>2. t \in Time
      <4> HIDE DEF page
      <4> QED BY <3>1, MinIs
    <3>3. Seen(u, t).at = u.at
      BY <1>2, <3>2, SeenIs
    <3> QED BY <3>3 DEF Answered, Replied
  <2> QED BY <2>1 DEF ReplyPage
<1> HIDE DEF t, s, over, page, u
<1> QED BY <1>6, <1>8, <1>9, <1>10

\* A channel that failed keeps what the pass read of it, or is adrift.
LEMMA FailedReady ==
  ASSUME NEW L, NEW E, NEW M, Sets(Clock, posts, L, E, M), NEW u \in PassState,
         RestOK(u, Clock, posts, L, E, M), u.ch \in u.left,
         u.prev.chan[u.ch] = 0 /\ u.next.chan[u.ch] # 0
           => \A m \in L \union E : posts[m].ch # u.ch,
         NEW x \in PassState, x.prev = u.prev, x.left = u.left \ {u.ch},
         x.next = KeptNext(u.prev, u.next, {u.ch})
  PROVE  ReadyOK(x, Clock, posts, L, E, M)
<1>1. u.prev \in Cursor /\ u.next \in Cursor /\ u.left \in SUBSET Channel /\ u.ch \in Channel
      /\ {u.ch} \in SUBSET Channel /\ Clock \in Nat
  BY DEF PassState, Sets
<1>2. ASSUME NEW c \in Channel \ x.left PROVE Covers(x.next, c, posts, L, E, M)
  <2>1. CASE c = u.ch /\ u.prev.chan[c] = 0 /\ u.next.chan[c] # 0
    <3>1. \A m \in L \union E : posts[m].ch # c
      BY <2>1
    <3> QED BY <3>1 DEF Covers
  <2>2. CASE ~ (c = u.ch /\ u.prev.chan[c] = 0 /\ u.next.chan[c] # 0)
    <3>1. IF c \in {u.ch}
          THEN Covers(u.prev, c, posts, L, E, M) /\ (u.prev.chan[c] # 0 \/ u.next.chan[c] = 0)
          ELSE Covers(u.next, c, posts, L, E, M)
      BY <2>2 DEF RestOK
    <3> QED BY <1>1, <3>1, KeptCovers
  <2> QED BY <2>1, <2>2
<1>3. \A c \in x.left : x.next.chan[c] = 0
  BY <1>1, KeptNextTyped DEF RestOK
<1>4. Past(x.next, Clock)
  BY <1>1, KeptPast DEF RestOK
<1> QED BY <1>2, <1>3, <1>4 DEF RestOK, ReadyOK

LEMMA RequestStep ==
  ASSUME IInv, NEW p \in Pass, NEW scoped \in BOOLEAN, RequestFails(p, scoped)
  PROVE  IInv'
<1> PICK u : u = run[p]
  OBVIOUS
<1> PICK r : r = Failed(u, scoped)
  OBVIOUS
<1>1. TypeOK /\ u.pc = "fetch"
  BY DEF IInv, RequestFails
<1>2. u \in PassState /\ u.ch \in u.left /\ u.live > 0
  BY <1>1, Fetching
<1>3. /\ r \in PassState
      /\ r.pc = u.pc /\ r.prev = u.prev /\ r.left = u.left
      /\ r.ch = u.ch /\ r.next = u.next
      /\ u.live > 1 => r.live > 0
  BY <1>2, FailedIs
<1>4. r.at.code \in BOOLEAN
  BY <1>3 DEF PassState, Fetch
<1> DEFINE astray == {c \in {r.ch} : r.prev.chan[c] = 0 /\ r.next.chan[c] # 0}
<1>12. ops' \in 0 .. MaxOps
  BY <1>1, Numbers DEF RequestFails, Spend, TypeOK
<1>5. /\ UNCHANGED <<world, stored, cursor, overtaken, late, letgo>>
      /\ \/ /\ Second(u)
            /\ run' = [run EXCEPT ![p] = Anew(r, r.at.code)]
            /\ adrift' = adrift
         \/ /\ \E s \in NextChannel(Kept(r, r.at.code)) : run' = [run EXCEPT ![p] = s]
            /\ adrift' = adrift \union astray
  BY DEF RequestFails, Failed, Anew, Kept
<1>6. astray \subseteq Channel
  BY <1>3 DEF PassState
<1>7. Grown
  BY <1>1, <1>5, <1>6, <1>12 DEF Grown, world, TypeOK
<1>8. Sets(Clock, posts, Expected', Eligible', Awaited')
  BY <1>1, <1>7, GrownSets
<1>9. RestOK(u, Clock, posts, Expected', Eligible', Awaited')
  <2>1. PassOK(u, Clock, posts, Expected', Eligible', Awaited')
    BY <1>1, <1>7, StillOK
  <2> QED BY <2>1 DEF PassOK
<1>10. CASE /\ Second(u)
            /\ run' = [run EXCEPT ![p] = Anew(r, r.at.code)]
  <2> PICK code : code = r.at.code
    OBVIOUS
  <2> PICK v : v = Anew(r, code)
    OBVIOUS
  <2>1. /\ SamePass(r, v) /\ v.next = r.next
        /\ v.at.below = Top /\ v.at.front = 0 /\ v.at.handled = {}
        /\ v.at.parent = 0 /\ v.at.from = 0 /\ v.at.hwm = 0
        /\ \A t \in Ts : v.at.out[t] = 0
    <3>1. r \in PassState /\ code \in BOOLEAN /\ v = Anew(r, code)
      BY <1>3, <1>4
    <3> QED BY ONLY <3>1, AnewIs
  <2>2. /\ v \in PassState /\ v.pc = "fetch" /\ v.prev = u.prev /\ v.left = u.left
        /\ v.ch = u.ch /\ v.next = u.next /\ v.live > 0
    BY <1>1, <1>3, <1>10, <2>1 DEF SamePass, Second
  <2>3. RestOK(v, Clock, posts, Expected', Eligible', Awaited')
    BY <1>9, <2>2 DEF RestOK
  <2>4. Covers(v.prev, v.ch, posts, Expected', Eligible', Awaited')
    BY <2>2, <2>3 DEF RestOK, PassState
  <2>5. FetchOK(v, v.at.parent, posts, Expected', Eligible', Awaited')
        /\ PastAt(v.at, v.ch, Clock)
    BY <1>8, <2>1, <2>2, <2>4, AnewOK
  <2>6. PassOK(v, Clock, posts, Expected', Eligible', Awaited')
    BY <1>2, <2>2, <2>3, <2>5 DEF PassOK
  <2>7. run' = [run EXCEPT ![p] = v] /\ cursor' = cursor
    BY <1>5, <1>10
  <2> QED BY <1>7, <2>2, <2>6, <2>7, Moved
<1>11. ASSUME adrift' = adrift \union astray,
              NEW s \in NextChannel(Kept(r, r.at.code)),
              run' = [run EXCEPT ![p] = s]
       PROVE  IInv'
  <2> PICK code : code = r.at.code
    OBVIOUS
  <2> PICK x : x = Kept(r, code)
    OBVIOUS
  <2>1. /\ x \in PassState /\ x.prev = u.prev /\ x.left = u.left \ {u.ch}
        /\ x.next = KeptNext(u.prev, u.next, {u.ch})
    <3>1. r \in PassState /\ code \in BOOLEAN /\ x = Kept(r, code)
      BY <1>3, <1>4
    <3> QED BY <1>3, <3>1, KeptIs
  <2>2. u.prev.chan[u.ch] = 0 /\ u.next.chan[u.ch] # 0
          => \A m \in Expected' \union Eligible' : posts[m].ch # u.ch
    <3> SUFFICES ASSUME u.prev.chan[u.ch] = 0 /\ u.next.chan[u.ch] # 0,
                        NEW m \in Expected' \union Eligible'
                 PROVE  posts[m].ch # u.ch
      OBVIOUS
    <3>1. u.ch \in adrift'
      BY <1>3, <1>11
    <3>2. posts[m].ch \notin adrift'
      BY <1>7 DEF Expected, Eligible, Grown
    <3> QED BY <3>1, <3>2
  <2>3. ReadyOK(x, Clock, posts, Expected', Eligible', Awaited')
    BY <1>2, <1>8, <1>9, <2>1, <2>2, FailedReady
  <2>4. s \in PassState /\ PassOK(s, Clock, posts, Expected', Eligible', Awaited')
    <3>1. s \in NextChannel(x)
      BY <1>11
    <3> QED BY <1>8, <2>1, <2>3, <3>1, NextChannelOK
  <2> QED BY <1>5, <1>7, <1>11, <2>4, Moved
<1> QED BY <1>5, <1>10, <1>11

LEMMA FinishStep ==
  ASSUME IInv, NEW p \in Pass, Finish(p)
  PROVE  IInv'
<1> PICK u : u = run[p]
  OBVIOUS
<1>1. /\ TypeOK /\ u.pc = "done" /\ UNCHANGED <<world, stored, history, ops>>
      /\ cursor' = (IF u.ingested \/ u.unreachable THEN u.next ELSE cursor)
      /\ run' = [run EXCEPT ![p] = Idle]
  BY DEF IInv, Finish
<1>2. Grown
  BY <1>1 DEF Grown, world, history, TypeOK
<1>3. u \in PassState /\ run \in [Pass -> PassState] /\ cursor \in Cursor
  BY <1>1 DEF TypeOK
<1>4. PassOK(u, Clock, posts, Expected', Eligible', Awaited')
  BY <1>1, <1>2, StillOK
<1>5. CursorOK(u.next, Clock, posts, Expected', Eligible', Awaited')
  BY <1>1, <1>4 DEF PassOK, RestOK, CursorOK
<1>6. CursorOK(cursor, Clock, posts, Expected', Eligible', Awaited')
  BY <1>2, StillOK
<1>7. CursorOK(cursor', Clock, posts, Expected', Eligible', Awaited') /\ cursor' \in Cursor
  <2>1. u.next \in Cursor
    BY <1>3 DEF PassState
  <2>2. cursor' = u.next \/ cursor' = cursor
    BY <1>1
  <2> QED BY <1>3, <1>5, <1>6, <2>1, <2>2
<1>8. run' \in [Pass -> PassState]
      /\ \A q \in Pass : run'[q].pc # "idle" =>
           PassOK(run'[q], Clock, posts, Expected', Eligible', Awaited')
  BY <1>1, <1>2, <1>3, IdleIs, StillOK
<1> QED BY <1>2, <1>7, <1>8, Step

LEMMA DieStep ==
  ASSUME IInv, NEW p \in Pass, Die(p)
  PROVE  IInv'
<1>1. Grown /\ cursor' = cursor /\ run' = [run EXCEPT ![p] = Idle]
  BY Numbers DEF IInv, TypeOK, Die, Spend, Grown, world, history
<1> QED BY <1>1, IdleIs, Moved

LEMMA NothingRead ==
  ASSUME TypeOK
  PROVE  CursorOK(NoCursor, Clock, posts, Expected, Eligible, Awaited)
<1>1. Clock \in Nat
  BY DEF Clock, TypeOK
<1>2. \A c \in Channel : NoCursor.chan[c] = 0 /\ Oldest(NoCursor, c) = Since[c]
  BY NoCursorIs DEF Oldest
<1>3. Past(NoCursor, Clock)
  BY <1>1, NoCursorIs DEF Past
<1>4. ASSUME NEW c \in Channel PROVE Covers(NoCursor, c, posts, Expected, Eligible, Awaited)
  <2>1. \A m \in Expected \union Eligible : posts[m].ch = c => m > Oldest(NoCursor, c)
    BY <1>2 DEF Expected, Eligible
  <2>2. \A m \in Eligible, t \in Awaited : t > NoCursor.thread[m]
    <3>1. \A m \in Eligible : m \in Ts
      BY SetsHold, Numbers DEF Sets, Ts
    <3>2. \A t \in Awaited : t > 0
      BY SetsHold DEF Sets
    <3> QED BY <3>1, <3>2, NoCursorIs
  <2> QED BY <2>1, <2>2 DEF Covers
<1> QED BY <1>3, <1>4 DEF CursorOK

LEMMA BeginStep ==
  ASSUME IInv, NEW p \in Pass, NEW full \in BOOLEAN, NEW live \in 1 .. Tokens,
         Begin(p, full, live)
  PROVE  IInv'
<1> PICK x : x = IF full THEN NoCursor ELSE cursor
  OBVIOUS
<1> PICK u : u = Begun(x, Clock, live)
  OBVIOUS
<1>1. PICK v \in NextChannel(u) : run' = [run EXCEPT ![p] = v]
  BY DEF Begin, Begun
<1>2. TypeOK /\ Grown /\ cursor' = cursor
  <2>1. TypeOK /\ UNCHANGED <<world, stored, cursor, history>>
    BY DEF IInv, Begin
  <2>2. ops' \in 0 .. MaxOps
    BY <2>1, Numbers DEF Begin, Spend, TypeOK
  <2> QED BY <2>1, <2>2 DEF Grown, TypeOK, world, history
<1>3. Clock \in Time /\ x \in Cursor
  BY <1>2, NoCursorIs, Numbers DEF TypeOK, Clock
<1>4. u \in PassState /\ u.prev = x /\ u.next = NoCursor /\ u.left = Channel
  BY <1>3, BegunIs
<1>5. CursorOK(x, Clock, posts, Expected', Eligible', Awaited')
      /\ CursorOK(NoCursor, Clock, posts, Expected', Eligible', Awaited')
  <2>1. CursorOK(cursor, Clock, posts, Expected', Eligible', Awaited')
    BY <1>2, StillOK
  <2>2. CursorOK(NoCursor, Clock, posts, Expected', Eligible', Awaited')
    <3>1. CursorOK(NoCursor, Clock, posts, Expected, Eligible, Awaited)
      BY <1>2, NothingRead
    <3>2. /\ Expected' \in SUBSET Expected /\ Eligible' \in SUBSET Eligible
          /\ Awaited' \in SUBSET Awaited
      BY <1>2, GrownSets
    <3>3. \A y, c : Covers(y, c, posts, Expected, Eligible, Awaited)
                      => Covers(y, c, posts, Expected', Eligible', Awaited')
      BY ONLY <3>2, FewerOK
    <3> QED BY <3>1, <3>3 DEF CursorOK
  <2> QED BY <2>1, <2>2
<1>6. ReadyOK(u, Clock, posts, Expected', Eligible', Awaited')
  BY <1>4, <1>5, NoCursorIs DEF CursorOK, ReadyOK
<1>7. v \in PassState /\ PassOK(v, Clock, posts, Expected', Eligible', Awaited')
  <2>1. Sets(Clock, posts, Expected', Eligible', Awaited')
    BY <1>2, GrownSets
  <2> QED BY <1>4, <1>6, <2>1, NextChannelOK
<1> QED BY <1>1, <1>2, <1>7, Moved

LEMMA DeleteStep ==
  ASSUME IInv, NEW m \in 1 .. Clock, Delete(m)
  PROVE  IInv'
<1>1. Grown /\ cursor' = cursor /\ run' = run
  BY Numbers DEF IInv, TypeOK, Delete, Spend, Grown, history
<1>2. run \in [Pass -> PassState] /\ cursor \in Cursor
  BY DEF IInv, TypeOK
<1> QED BY <1>1, <1>2, StillOK, Step

\* A post, the n + 1st: it may join the sets.
Said(n, ps, qs, L, E, M, K, D, N) ==
  /\ Sets(n, ps, L, E, M) /\ n + 1 <= MaxPosts
  /\ \A m \in 1 .. n : qs[m] = ps[m]
  /\ qs[n + 1].parent \in 0 .. n
  /\ K \subseteq L \union {n + 1} /\ D \subseteq E \union {n + 1} /\ N \subseteq M \union {n + 1}
  /\ n + 1 \in K \union D => n + 1 > Since[qs[n + 1].ch]

LEMMA SaidMembers ==
  ASSUME NEW n, NEW ps, NEW qs, NEW L, NEW E, NEW M, NEW K, NEW D, NEW N,
         Said(n, ps, qs, L, E, M, K, D, N)
  PROVE  /\ n \in Nat /\ n + 1 \in Ts /\ n + 1 < Top
         /\ \A m \in K : m = n + 1 \/ (m \in L /\ qs[m] = ps[m])
         /\ \A m \in D : m \in Ts /\ (m = n + 1 \/ (m \in E /\ qs[m] = ps[m]))
         /\ \A m \in D, t \in N : qs[t].parent = m =>
              /\ m \in E /\ qs[m] = ps[m]
              /\ t = n + 1 \/ (t \in M /\ ps[t].parent = m)
<1>1. n \in Nat /\ n + 1 \in Ts /\ n + 1 < Top /\ \A m \in 1 .. n : m \in Ts
  BY Numbers DEF Said, Sets
<1>2. L \subseteq 1 .. n /\ E \subseteq 1 .. n /\ M \subseteq 1 .. n
  BY DEF Said, Sets
<1>3. \A m \in K : m = n + 1 \/ (m \in L /\ qs[m] = ps[m])
  BY <1>2 DEF Said
<1>4. \A m \in D : m \in Ts /\ (m = n + 1 \/ (m \in E /\ qs[m] = ps[m]))
  BY <1>1, <1>2 DEF Said
<1>5. ASSUME NEW m \in D, NEW t \in N, qs[t].parent = m
      PROVE  /\ m \in E /\ qs[m] = ps[m]
             /\ t = n + 1 \/ (t \in M /\ ps[t].parent = m)
  <2>1. CASE t = n + 1
    <3>1. m # n + 1
      BY <1>1, <1>5, <2>1 DEF Said
    <3> QED BY <1>4, <2>1, <3>1
  <2>2. CASE t # n + 1
    <3>1. t \in M /\ t \in 1 .. n
      BY <1>2, <2>2 DEF Said
    <3>2. qs[t] = ps[t] /\ ps[t].parent < t /\ ps[t].parent \in Time
      BY <3>1 DEF Said, Sets, Post
    <3>3. m # n + 1
      BY <1>1, <1>5, <3>1, <3>2, Numbers
    <3> QED BY <1>4, <1>5, <3>1, <3>2, <3>3
  <2> QED BY <2>1, <2>2
<1> QED BY <1>1, <1>3, <1>4, <1>5

\* A cursor that is not ahead of the posts does not pass by one that is new.
LEMMA SaidCovers ==
  ASSUME NEW n, NEW ps, NEW qs, NEW L, NEW E, NEW M, NEW K, NEW D, NEW N,
         Said(n, ps, qs, L, E, M, K, D, N), NEW x \in Cursor, NEW c \in Channel, Past(x, n)
  PROVE  Covers(x, c, ps, L, E, M) => Covers(x, c, qs, K, D, N)
<1> HAVE Covers(x, c, ps, L, E, M)
<1>1. x.chan[c] \in Nat /\ Since[c] \in Nat /\ (x.chan[c] <= n \/ x.chan[c] <= Since[c])
  BY OldestTyped, Numbers DEF Past
<1>2. n \in Nat
  BY SaidMembers
<1>3. qs[n + 1].ch = c /\ n + 1 \in K \union D => n + 1 > Oldest(x, c)
  <2>1. qs[n + 1].ch = c /\ n + 1 \in K \union D => n + 1 > Since[c]
    BY DEF Said
  <2> QED BY <1>1, <1>2, <2>1 DEF Oldest
<1>4. \A m \in K : qs[m].ch = c => m > Oldest(x, c)
  BY <1>3, SaidMembers DEF Covers
<1>5. \A m \in D : qs[m].ch = c => m > Oldest(x, c) \/ x.thread[m] # 0
  BY <1>3, SaidMembers DEF Covers
<1>6. ASSUME NEW m \in D, NEW t \in N, qs[m].ch = c, qs[t].parent = m
      PROVE  t > x.thread[m]
  <2>1. /\ m \in Ts /\ m \in E /\ qs[m] = ps[m]
        /\ t = n + 1 \/ (t \in M /\ ps[t].parent = m)
    BY <1>6, SaidMembers
  <2>2. CASE t = n + 1
    <3>1. x.thread[m] \in Nat /\ x.thread[m] <= n
      BY <2>1, OldestTyped, Numbers DEF Past
    <3> QED BY <1>2, <2>2, <3>1
  <2>3. CASE t \in M /\ ps[t].parent = m
    BY <1>6, <2>1, <2>3 DEF Covers
  <2> QED BY <2>1, <2>2, <2>3
<1> QED BY <1>4, <1>5, <1>6 DEF Covers

LEMMA SaidPast ==
  ASSUME NEW n \in Nat, NEW x \in Cursor, Past(x, n)
  PROVE  Past(x, n + 1)
<1>1. ASSUME NEW c \in Channel PROVE x.chan[c] <= n + 1 \/ x.chan[c] <= Since[c]
  <2>1. x.chan[c] \in Nat /\ Since[c] \in Nat
    BY OldestTyped, Numbers
  <2> QED BY <2>1 DEF Past
<1>2. ASSUME NEW t \in Ts PROVE x.thread[t] <= n + 1
  <2>1. x.thread[t] \in Nat
    BY CursorFields, Numbers
  <2> QED BY <2>1 DEF Past
<1> QED BY <1>1, <1>2 DEF Past

LEMMA SaidOK ==
  ASSUME NEW n, NEW ps, NEW qs, NEW L, NEW E, NEW M, NEW K, NEW D, NEW N,
         Said(n, ps, qs, L, E, M, K, D, N), NEW u \in PassState
  PROVE  PassOK(u, n, ps, L, E, M) => PassOK(u, n + 1, qs, K, D, N)
<1> HAVE PassOK(u, n, ps, L, E, M)
<1>0. /\ u.prev \in Cursor /\ u.next \in Cursor /\ u.ch \in Channel /\ u.at \in Fetch
      /\ n \in Nat /\ Past(u.prev, n) /\ Past(u.next, n) /\ PastAt(u.at, u.ch, n)
  BY SaidMembers DEF PassOK, RestOK, PassState
<1>1. RestOK(u, n + 1, qs, K, D, N)
  <2>1. Past(u.prev, n + 1) /\ Past(u.next, n + 1)
    BY <1>0, SaidPast
  <2>2. \A c \in Channel : /\ Covers(u.prev, c, ps, L, E, M) => Covers(u.prev, c, qs, K, D, N)
                           /\ Covers(u.next, c, ps, L, E, M) => Covers(u.next, c, qs, K, D, N)
    BY <1>0, SaidCovers
  <2> QED BY <2>1, <2>2 DEF PassOK, RestOK
<1>2. /\ u.at.front \in Nat /\ u.at.hwm \in Nat /\ u.at.from \in Nat /\ u.at.parent \in Nat
      /\ \A t \in Ts : u.at.out[t] \in Nat
      /\ u.next.chan[u.ch] \in Nat /\ Oldest(u.prev, u.ch) \in Nat /\ Since[u.ch] \in Nat
      /\ u.prev.chan[u.ch] \in Nat
  BY <1>0, FetchFields, OldestTyped, Numbers
<1>3. PastAt(u.at, u.ch, n + 1)
  <2>1. \A t \in Ts : u.at.out[t] <= n + 1
    BY <1>0, <1>2 DEF PastAt
  <2>2. /\ u.at.front <= n + 1 \/ u.at.front <= Since[u.ch]
        /\ u.at.parent <= n + 1 /\ u.at.from <= n + 1 /\ u.at.hwm <= n + 1
    BY <1>0, <1>2 DEF PastAt
  <2> QED BY <2>1, <2>2 DEF PastAt
<1>4. qs[n + 1].ch = u.ch /\ n + 1 \in K \union D =>
        n + 1 > u.at.front /\ n + 1 > u.next.chan[u.ch] /\ n + 1 > Oldest(u.prev, u.ch)
  <2> SUFFICES ASSUME qs[n + 1].ch = u.ch, n + 1 \in K \union D
               PROVE  /\ n + 1 > u.at.front /\ n + 1 > u.next.chan[u.ch]
                      /\ n + 1 > Oldest(u.prev, u.ch)
    OBVIOUS
  <2>1. n + 1 > Since[u.ch]
    BY DEF Said
  <2>2. /\ u.at.front <= n \/ u.at.front <= Since[u.ch]
        /\ u.next.chan[u.ch] <= n \/ u.next.chan[u.ch] <= Since[u.ch]
        /\ u.prev.chan[u.ch] <= n \/ u.prev.chan[u.ch] <= Since[u.ch]
    BY <1>0 DEF PastAt, Past
  <2> QED BY <1>0, <1>2, <2>1, <2>2 DEF Oldest
<1>5. ASSUME FetchOK(u, u.at.parent, ps, L, E, M)
      PROVE  FetchOK(u, u.at.parent, qs, K, D, N)
  <2>1. ASSUME NEW m \in K, qs[m].ch = u.ch
        PROVE  m < u.at.below \/ (m > u.at.front /\ m > u.next.chan[u.ch])
    <3>1. m = n + 1 \/ (m \in L /\ qs[m] = ps[m])
      BY SaidMembers
    <3> QED BY <1>4, <1>5, <2>1, <3>1 DEF FetchOK
  <2>2. ASSUME NEW m \in D, qs[m].ch = u.ch
        PROVE  \/ m \in u.at.handled /\ (m = u.at.parent \/ u.at.out[m] # 0)
               \/ m \notin u.at.handled /\ u.prev.thread[m] # 0
               \/ Oldest(u.prev, u.ch) < m /\ m < u.at.below
               \/ u.at.below # Top /\ m > u.at.front /\ m > u.next.chan[u.ch]
    <3>1. m = n + 1 \/ (m \in E /\ qs[m] = ps[m])
      BY SaidMembers
    <3>2. CASE m = n + 1
      <4>1. m < Top /\ Oldest(u.prev, u.ch) < m
        BY <1>0, <1>2, <1>4, <2>2, <3>2, SaidMembers
      <4> QED BY <1>4, <2>2, <3>2, <4>1
    <3>3. CASE m \in E /\ qs[m] = ps[m]
      BY <1>5, <2>2, <3>3 DEF FetchOK
    <3> QED BY <3>1, <3>2, <3>3
  <2>3. ASSUME NEW m \in D, NEW t \in N, qs[m].ch = u.ch, qs[t].parent = m
        PROVE  t > u.at.out[m] /\ (m = u.at.parent => t > u.at.from /\ t > u.at.hwm)
    <3>1. /\ m \in Ts /\ m \in E /\ qs[m] = ps[m]
          /\ t = n + 1 \/ (t \in M /\ ps[t].parent = m)
      BY <2>3, SaidMembers
    <3>2. CASE t = n + 1
      <4>1. u.at.out[m] <= n /\ u.at.from <= n /\ u.at.hwm <= n
        BY <1>0, <3>1 DEF PastAt
      <4> QED BY <1>0, <1>2, <3>1, <3>2, <4>1
    <3>3. CASE t \in M /\ ps[t].parent = m
      BY <1>5, <2>3, <3>1, <3>3 DEF FetchOK
    <3> QED BY <3>1, <3>2, <3>3
  <2> QED BY <1>5, <2>1, <2>2, <2>3 DEF FetchOK
<1> QED BY <1>1, <1>3, <1>5 DEF PassOK

LEMMA SayStep ==
  ASSUME IInv, NEW c \in Channel, NEW parent \in Time, Say(c, parent)
  PROVE  IInv'
<1> DEFINE n == Clock
           post == [ch |-> c, parent |-> parent]
<1>1. /\ TypeOK /\ n < MaxPosts /\ parent \in Messages(c) \union {0}
      /\ posts' = Append(posts, post)
      /\ UNCHANGED <<deleted, stored, cursor, run, history, ops>>
  BY DEF IInv, Say
<1>2. posts \in Seq(Post) /\ post \in Post /\ n = Len(posts) /\ n \in Nat /\ n <= MaxPosts
  BY <1>1 DEF TypeOK, Post, Clock
<1>3. /\ Clock' = n + 1 /\ posts' \in Seq(Post) /\ Len(posts') = n + 1
      /\ posts'[n + 1] = post /\ \A m \in 1 .. n : posts'[m] = posts[m]
  BY <1>1, <1>2 DEF Clock
<1>4. parent \in 0 .. n /\ post.parent = parent /\ post.ch = c
      /\ (parent # 0 => parent \in 1 .. n /\ posts[parent].parent = 0)
  BY <1>1, <1>2 DEF Messages
<1>5. \A m : m \in 1 .. n + 1 <=> m \in 1 .. n \/ m = n + 1
  BY <1>2
<1>6. /\ deleted' = deleted /\ stored' = stored /\ overtaken' = overtaken /\ letgo' = letgo
      /\ late' = late /\ adrift' = adrift
  BY <1>1 DEF history
<1> HIDE DEF n, post
<1>7. Missing' \subseteq Missing \union {n + 1}
  BY <1>3, <1>5, <1>6 DEF Missing, n
<1>8. Expected' \subseteq Expected \union {n + 1}
  <2>1. \A m \in Missing : m \in 1 .. n
    BY DEF Missing, n
  <2> QED BY <1>3, <1>6, <1>7, <2>1 DEF Expected
<1>9. Eligible' \subseteq Eligible \union {n + 1}
  BY <1>3, <1>5, <1>6 DEF Eligible, n
<1>10. Awaited' \subseteq Awaited \union {n + 1}
  <2> SUFFICES ASSUME NEW t \in Awaited', t # n + 1 PROVE t \in Awaited
    OBVIOUS
  <2>1. t \in Missing /\ posts'[t].parent \in Eligible'
    BY <1>7 DEF Awaited
  <2>2. t \in 1 .. n /\ posts'[t] = posts[t] /\ posts[t].parent < t
    BY <1>1, <1>3, <2>1 DEF Missing, n, TypeOK
  <2>3. posts[t].parent # n + 1
    <3>1. posts[t].parent \in Time
      BY <1>1, <2>2, PostFields DEF n
    <3> QED BY <1>2, <2>2, <3>1, Numbers
  <2> QED BY <1>9, <2>1, <2>2, <2>3 DEF Awaited
<1>11. n + 1 \in Expected' \union Eligible' => n + 1 > Since[posts'[n + 1].ch]
  BY DEF Expected, Eligible
<1>12. Said(n, posts, posts', Expected, Eligible, Awaited, Expected', Eligible', Awaited')
  <2>1. Sets(n, posts, Expected, Eligible, Awaited)
    BY <1>1, SetsHold DEF n
  <2>2. n + 1 <= MaxPosts
    BY <1>1, <1>2, Numbers
  <2> QED BY <1>3, <1>4, <1>8, <1>9, <1>10, <1>11, <2>1, <2>2 DEF Said
<1>13. CursorOK(cursor, n + 1, posts', Expected', Eligible', Awaited')
  <2>1. cursor \in Cursor /\ Past(cursor, n)
    BY <1>1 DEF IInv, CursorOK, TypeOK, n
  <2>2. Past(cursor, n + 1)
    BY <1>2, <2>1, SaidPast
  <2>3. \A d \in Channel : Covers(cursor, d, posts', Expected', Eligible', Awaited')
    <3> TAKE d \in Channel
    <3>1. Covers(cursor, d, posts, Expected, Eligible, Awaited)
      BY DEF IInv, CursorOK
    <3> QED BY ONLY <1>12, <2>1, <3>1, d \in Channel, SaidCovers
  <2> QED BY <2>2, <2>3 DEF CursorOK
<1>14. \A p \in Pass : run[p].pc # "idle" =>
         PassOK(run[p], n + 1, posts', Expected', Eligible', Awaited')
  <2> SUFFICES ASSUME NEW p \in Pass, run[p].pc # "idle"
               PROVE  PassOK(run[p], n + 1, posts', Expected', Eligible', Awaited')
    OBVIOUS
  <2> PICK u : u = run[p]
    OBVIOUS
  <2>1. u \in PassState /\ PassOK(u, n, posts, Expected, Eligible, Awaited)
    BY DEF IInv, TypeOK, n
  <2>2. PassOK(u, n + 1, posts', Expected', Eligible', Awaited')
    BY ONLY <1>12, <2>1, SaidOK
  <2> QED BY <2>2
<1>15. TypeOK'
  <2>1. \A t \in 1 .. n + 1 : posts'[t].parent < t
    <3> SUFFICES ASSUME NEW t \in 1 .. n + 1 PROVE posts'[t].parent < t
      OBVIOUS
    <3>1. CASE t \in 1 .. n
      BY <1>1, <1>3, <3>1 DEF TypeOK, n
    <3>2. CASE t = n + 1
      BY <1>2, <1>3, <1>4, <3>2
    <3> QED BY <1>5, <3>1, <3>2
  <2>2. \A S \in {deleted, stored, overtaken, late, letgo} : S \subseteq 1 .. n + 1
    BY <1>1, <1>5 DEF TypeOK, n
  <2>3. n + 1 <= MaxPosts
    BY <1>1, <1>2, Numbers
  <2>4. /\ cursor' = cursor /\ run' = run /\ ops' = ops
    BY <1>1
  <2> QED BY <1>1, <1>3, <1>6, <2>1, <2>2, <2>3, <2>4 DEF TypeOK
<1>16. PostsOK'
  <2> SUFFICES ASSUME NEW t \in 1 .. n + 1, posts'[t].parent # 0
               PROVE  posts'[posts'[t].parent].parent = 0
    BY <1>3 DEF PostsOK
  <2>1. CASE t \in 1 .. n
    <3> PICK m : m = posts[t].parent
      OBVIOUS
    <3>1. m \in Time /\ m < t /\ m # 0 /\ posts'[t] = posts[t]
      BY <1>1, <1>3, <2>1, PostFields DEF n
    <3>2. m \in 1 .. n
      BY <1>2, <2>1, <3>1, Numbers
    <3>3. posts[m].parent = 0
      BY <2>1, <3>1 DEF IInv, PostsOK, n
    <3> QED BY <1>3, <3>1, <3>2, <3>3
  <2>2. CASE t = n + 1
    BY <1>3, <1>4, <2>2
  <2> QED BY <1>5, <2>1, <2>2
<1> QED BY <1>1, <1>3, <1>13, <1>14, <1>15, <1>16 DEF IInv

LEMMA RewindStep ==
  ASSUME IInv, NEW c \in Channel, NEW floor \in 0 .. Clock, Rewind(c, floor)
  PROVE  IInv'
<1> DEFINE f == [cursor.chan EXCEPT ![c] = floor]
           g == [t \in Ts |-> IF t \in ThreadsOf(c) THEN 0 ELSE cursor.thread[t]]
           x == [chan |-> f, thread |-> g]
<1>1. TypeOK /\ cursor \in Cursor /\ run \in [Pass -> PassState] /\ Clock \in Nat
      /\ Clock <= MaxPosts
  BY DEF IInv, TypeOK, Clock
<1>2. /\ cursor' = x
      /\ letgo' = letgo \union {t \in ThreadsOf(c) : cursor.thread[t] # 0 /\ t <= Oldest(cursor', c)}
      /\ adrift' = adrift \union {d \in {c} : Oldest(cursor, c) < floor}
      /\ UNCHANGED <<world, stored, run, overtaken, late>> /\ ops' \in 0 .. MaxOps
  BY <1>1, Numbers DEF Rewind, Spend, TypeOK
<1>3. /\ f \in [Channel -> Time]
      /\ \A d \in Channel : f[d] = IF d = c THEN floor ELSE cursor.chan[d]
  <2>1. floor \in Time
    BY <1>1, Numbers
  <2> QED BY <1>1, <2>1, CursorFields
<1>4. /\ g \in [Ts -> Time]
      /\ \A t \in Ts : g[t] = IF t \in ThreadsOf(c) THEN 0 ELSE cursor.thread[t]
  BY <1>1, CursorFields, Numbers
<1> HIDE DEF f, g
<1>5. x \in Cursor /\ x.chan = f /\ x.thread = g
  BY <1>3, <1>4, CursorMade
<1> HIDE DEF x
<1>6. Grown
  <2>1. ThreadsOf(c) \subseteq 1 .. Clock
    BY DEF ThreadsOf
  <2> QED BY <1>1, <1>2, <2>1 DEF Grown, world, TypeOK
<1>7. CursorOK(cursor, Clock, posts, Expected', Eligible', Awaited')
  BY <1>6, StillOK
<1>8. /\ Expected' \in SUBSET Expected /\ Eligible' \in SUBSET Eligible
      /\ Sets(Clock, posts, Expected', Eligible', Awaited')
  BY <1>1, <1>6, GrownSets
<1>9. Past(x, Clock)
  <2>1. \A d \in Channel : x.chan[d] <= Clock \/ x.chan[d] <= Since[d]
    BY <1>3, <1>5, <1>7 DEF CursorOK, Past
  <2>2. \A t \in Ts : x.thread[t] <= Clock
    BY <1>1, <1>4, <1>5, <1>7 DEF CursorOK, Past
  <2> QED BY <2>1, <2>2 DEF Past
<1>10. ASSUME NEW d \in Channel PROVE Covers(x, d, posts, Expected', Eligible', Awaited')
  <2>1. Covers(cursor, d, posts, Expected', Eligible', Awaited')
    BY <1>7 DEF CursorOK
  <2>2. CASE d # c
    <3>1. Oldest(x, d) = Oldest(cursor, d)
      BY <1>3, <1>5, <2>2 DEF Oldest
    <3>2. \A m \in Eligible' : posts[m].ch = d => x.thread[m] = cursor.thread[m]
      <4> SUFFICES ASSUME NEW m \in Eligible', posts[m].ch = d
                   PROVE  x.thread[m] = cursor.thread[m]
        OBVIOUS
      <4>1. m \in Ts /\ m \notin ThreadsOf(c)
        BY <1>8, <2>2, Numbers DEF Sets, Ts, ThreadsOf
      <4> QED BY <1>4, <1>5, <4>1
    <3> QED BY <2>1, <3>1, <3>2 DEF Covers
  <2>3. CASE d = c /\ Oldest(cursor, c) < floor
    <3>1. c \in adrift'
      BY <1>2, <2>3
    <3>2. \A m \in Expected' \union Eligible' : posts[m].ch # c
      BY <1>6, <3>1 DEF Expected, Eligible, Grown
    <3> QED BY <2>3, <3>2 DEF Covers
  <2>4. CASE d = c /\ ~ (Oldest(cursor, c) < floor)
    <3>1. /\ floor \in Nat /\ Oldest(cursor, c) \in Nat /\ floor <= Oldest(cursor, c)
          /\ Oldest(x, c) = (IF floor = 0 THEN Since[c] ELSE floor)
      BY <1>1, <1>3, <1>5, <2>4, OldestTyped, Numbers DEF Oldest
    <3>2. \A m \in Expected' \union Eligible' : posts[m].ch = c => m > Since[c]
      BY <1>6 DEF Expected, Eligible, Grown
    <3>3. \A m \in Expected' \union Eligible' :
            m \in Nat /\ (posts[m].ch = c /\ m > Oldest(cursor, c) => m > Oldest(x, c))
      <4> SUFFICES ASSUME NEW m \in Expected' \union Eligible'
                   PROVE  m \in Nat /\ (posts[m].ch = c /\ m > Oldest(cursor, c) => m > Oldest(x, c))
        OBVIOUS
      <4>1. m \in Nat
        <5>1. Expected' \union Eligible' \subseteq 1 .. Clock
          BY <1>8 DEF Sets
        <5>2. m \in 1 .. Clock
          BY <5>1
        <5> QED BY ONLY <5>2
      <4>2. posts[m].ch = c => m > Since[c]
        BY <3>2
      <4>3. Since[c] \in Nat
        BY Numbers
      <4> PICK o, w \in Nat, s \in Nat : o = Oldest(x, c) /\ w = Oldest(cursor, c) /\ s = Since[c]
        BY <3>1, <4>3
      <4>4. o <= w \/ o = s
        BY <3>1
      <4>5. m > w => m > o \/ o = s
        BY <4>1, <4>4, <3>1
      <4> QED BY <4>1, <4>2, <4>5
    <3>4. ASSUME NEW m \in Eligible', posts[m].ch = c
          PROVE  m \in Ts /\ m \in ThreadsOf(c) /\ x.thread[m] = 0
      <4>1. m \in Ts /\ m \in ThreadsOf(c)
        BY <1>8, <3>4, Numbers DEF Sets, Ts, ThreadsOf
      <4> QED BY <1>4, <1>5, <4>1
    <3>5. ASSUME NEW m \in Eligible', posts[m].ch = c PROVE m > Oldest(x, c)
      <4>1. m > Oldest(cursor, c) \/ cursor.thread[m] # 0
        BY <2>1, <2>4, <3>5 DEF Covers
      <4>2. CASE cursor.thread[m] # 0
        <5>1. m \notin letgo'
          BY DEF Eligible
        <5>2. ~ (m <= Oldest(x, c))
          BY <1>2, <3>4, <3>5, <4>2, <5>1
        <5>3. Oldest(x, c) \in Nat /\ m \in Nat
          BY <1>5, <3>3, OldestTyped, Numbers
        <5> QED BY <5>2, <5>3
      <4> QED BY <3>3, <3>5, <4>1, <4>2
    <3>6. \A m \in Expected' : posts[m].ch = c => m > Oldest(x, c)
      BY <2>1, <2>4, <3>3 DEF Covers
    <3>7. \A t \in Awaited' : t > 0
      BY <1>8 DEF Sets
    <3> QED BY <2>4, <3>4, <3>5, <3>6, <3>7 DEF Covers
  <2> QED BY <2>2, <2>3, <2>4
<1>11. CursorOK(x, Clock, posts, Expected', Eligible', Awaited')
  BY <1>9, <1>10 DEF CursorOK
<1>12. \A p \in Pass : run[p].pc # "idle" =>
         PassOK(run[p], Clock, posts, Expected', Eligible', Awaited')
  BY <1>6, StillOK
<1>13. run' = run /\ cursor' \in Cursor
  BY <1>2, <1>5
<1> QED BY <1>1, <1>2, <1>6, <1>11, <1>12, <1>13, Step
-----------------------------------------------------------------------------
LEMMA Initially ==
  ASSUME Init
  PROVE  IInv
<1>1. TypeOK
  <2>1. posts \in Seq(Post) /\ Len(posts) = 0 /\ Clock = 0
    BY DEF Init, Clock
  <2>2. run \in [Pass -> PassState] /\ \A p \in Pass : run[p].pc = "idle"
    BY IdleIs DEF Init
  <2> QED BY <2>1, <2>2, NoCursorIs, Numbers DEF Init, TypeOK
<1>2. PostsOK
  BY DEF Init, PostsOK, Clock
<1>3. CursorOK(cursor, Clock, posts, Expected, Eligible, Awaited)
  BY <1>1, NothingRead DEF Init
<1>4. \A p \in Pass : run[p].pc = "idle"
  BY IdleIs DEF Init
<1> QED BY <1>1, <1>2, <1>3, <1>4 DEF IInv

LEMMA Preserved ==
  ASSUME IInv, [Next]_vars
  PROVE  IInv'
<1>1. CASE UNCHANGED vars
  BY <1>1 DEF vars, world, history, IInv, TypeOK, PostsOK, CursorOK, Clock, Missing, Expected,
     Eligible, Awaited
<1>2. ASSUME NEW c \in Channel, NEW parent \in Time, Say(c, parent) PROVE IInv'
  BY <1>2, SayStep
<1>3. ASSUME NEW m \in 1 .. Clock, Delete(m) PROVE IInv'
  BY <1>3, DeleteStep
<1>4. ASSUME NEW p \in Pass, NEW full \in BOOLEAN, NEW live \in 1 .. Tokens,
             Begin(p, full, live)
      PROVE  IInv'
  BY <1>4, BeginStep
<1>5. ASSUME NEW p \in Pass, HistoryPage(p) PROVE IInv'
  BY <1>5, HistoryStep
<1>6. ASSUME NEW p \in Pass, ReplyPage(p) PROVE IInv'
  BY <1>6, ReplyStep
<1>7. ASSUME NEW p \in Pass, NEW scoped \in BOOLEAN, RequestFails(p, scoped) PROVE IInv'
  BY <1>7, RequestStep
<1>8. ASSUME NEW p \in Pass, Finish(p) PROVE IInv'
  BY <1>8, FinishStep
<1>9. ASSUME NEW p \in Pass, Die(p) PROVE IInv'
  BY <1>9, DieStep
<1>10. ASSUME NEW c \in Channel, cursorReset(c) PROVE IInv'
  <2>1. 0 \in 0 .. Clock /\ Rewind(c, 0)
    BY <1>10 DEF cursorReset, IInv, TypeOK, Clock
  <2> QED BY <2>1, RewindStep
<1>11. ASSUME NEW c \in Channel, NEW floor \in 1 .. Clock, cursorBackfill(c, floor)
       PROVE  IInv'
  <2>1. floor \in 0 .. Clock /\ Rewind(c, floor)
    BY <1>11 DEF cursorBackfill, IInv, TypeOK, Clock
  <2> QED BY <2>1, RewindStep
<1> QED BY <1>1, <1>2, <1>3, <1>4, <1>5, <1>6, <1>7, <1>8, <1>9, <1>10, <1>11 DEF Next

\* Every state satisfies the inductive invariant: neither the stored cursor nor a pass ever
\* leaves out a message that has no row.
THEOREM Invariant == Spec => []IInv
<1>1. Init => IInv
  BY Initially
<1>2. IInv /\ [Next]_vars => IInv'
  BY Preserved
<1> QED BY <1>1, <1>2, PTL DEF Spec

\* The cursor, the passes and what is noted of the posts keep their types, and no reply is
\* older than its parent.
THEOREM TypeCorrect == Spec => []TypeOK
<1>1. IInv => TypeOK
  BY DEF IInv
<1> QED BY <1>1, Invariant, PTL

\* Whatever failed, crashed, overlapped or was rewound, a message that the store does not
\* have is above the cursor of its channel: the next pass lists it.
THEOREM MessagesCorrect == Spec => []NothingSkipped
<1>1. IInv => NothingSkipped
  <2> SUFFICES ASSUME IInv, NEW m \in Missing \ (overtaken \union deleted),
                      posts[m].parent = 0, posts[m].ch \notin adrift, m > Since[posts[m].ch]
               PROVE  WillBeListed(m)
    BY DEF NothingSkipped
  <2>1. m \in Expected
    BY DEF Expected
  <2>2. posts[m].ch \in Channel
    BY PostFields DEF IInv, Missing
  <2> QED BY <2>1, <2>2 DEF IInv, CursorOK, Covers, WillBeListed
<1> QED BY <1>1, Invariant, PTL

\* A reply that the store does not have is fetched with its parent, or by a poll of its
\* thread: the mark of the thread is below it, and is not lost while the thread is active.
THEOREM RepliesCorrect == Spec => []RepliesFollowed
<1>1. IInv => RepliesFollowed
  <2> SUFFICES ASSUME IInv, NEW t \in Missing, posts[t].parent # 0, Polled(posts[t].parent),
                      posts[t].parent \notin late
               PROVE  WillBePolled(t)
    BY DEF RepliesFollowed
  <2> PICK m : m = posts[t].parent
    OBVIOUS
  <2>1. t \in 1 .. Clock /\ posts[t] \in Post /\ m < t /\ Clock \in Nat /\ Clock <= MaxPosts
    BY DEF IInv, TypeOK, Missing, Clock
  <2>2. m \in 1 .. Clock
    <3>1. m \in Time /\ m # 0
      BY <2>1 DEF Post
    <3> QED BY <2>1, <3>1, Numbers
  <2>3. posts[m].parent = 0 /\ posts[m].ch \in Channel
    <3>1. TypeOK /\ PostsOK
      BY DEF IInv
    <3>2. posts[m].ch \in Channel
      BY ONLY <2>2, <3>1, PostFields
    <3>3. m = posts[t].parent /\ posts[t].parent # 0
      OBVIOUS
    <3> QED BY ONLY <2>1, <3>1, <3>2, <3>3 DEF PostsOK
  <2>4. m \in Eligible /\ t \in Awaited
    BY <2>2, <2>3 DEF Eligible, Awaited, Polled
  <2>5. Covers(cursor, posts[m].ch, posts, Expected, Eligible, Awaited)
    BY <2>3 DEF IInv, CursorOK
  <2> QED BY <2>4, <2>5 DEF Covers, WillBePolled, WillBeListed
<1> QED BY <1>1, Invariant, PTL
=============================================================================
