------------------------- MODULE SourceStore_proofs -------------------------
(***************************************************************************)
(* The source store for any number of sources, versions, passes and        *)
(* extractors: type correctness, the projections against the log, the      *)
(* index against the rows, and erased bodies against the log, all of it    *)
(* under every interleaving; then, where commands never overlap            *)
(* (OneWriter), forgetting and the refinement of SourceMemory.             *)
(***************************************************************************)
EXTENDS SourceStore, Integers, WellFoundedInduction, TLAPS

(***************************************************************************)
(* Induction over the natural numbers, and what follows from it for a      *)
(* function that is defined by recursion over 0 .. N, as a replay of       *)
(* the log is.  A set stands where an induction theorem would have a       *)
(* predicate: the numbers or the values that have the property.            *)
(***************************************************************************)

\* A non-empty set of natural numbers has a least element.
LEMMA NatMin ==
  ASSUME NEW T \in SUBSET Nat, T # {}
  PROVE  \E x \in T : \A y \in T : x <= y
<1> DEFINE R == OpToRel(<, Nat)
<1>1. IsWellFoundedOn(R, Nat)
  BY NatLessThanWellFounded
<1>2. PICK x \in T : \A y \in T : ~ (<<y, x>> \in R)
  <2> HIDE DEF R
  <2> QED BY <1>1, WFMin
<1>3. \A y \in T : <<y, x>> \in R <=> y < x
  BY DEF OpToRel
<1> HIDE DEF R
<1>4. \A y \in T : ~ (y < x)
  BY <1>2, <1>3
<1> QED BY <1>4

\* Induction over the natural numbers, stated with the set of good ones.
LEMMA Induct ==
  ASSUME NEW S, 0 \in S, \A n \in Nat : n \in S => n + 1 \in S
  PROVE  \A n \in Nat : n \in S
<1> SUFFICES ASSUME {n \in Nat : n \notin S} # {} PROVE FALSE
  OBVIOUS
<1>1. PICK x \in {n \in Nat : n \notin S} :
             \A y \in {n \in Nat : n \notin S} : x <= y
  BY NatMin
<1>2. x # 0 /\ x - 1 \in Nat /\ (x - 1) + 1 = x
  OBVIOUS
<1>3. x - 1 \in S
  BY <1>1, <1>2
<1> QED BY <1>2, <1>3

\* What holds at 0 and is passed on from each place to the next holds all along.
LEMMA Along ==
  ASSUME NEW N \in Nat, NEW S, NEW u, u[0] \in S,
         \A i \in 1 .. N : u[i - 1] \in S => u[i] \in S
  PROVE  \A i \in 0 .. N : u[i] \in S
<1> DEFINE T == {n \in Nat : n <= N => u[n] \in S}
<1>1. 0 \in T
  OBVIOUS
<1>2. ASSUME NEW n \in Nat, n \in T PROVE n + 1 \in T
  <2> SUFFICES ASSUME n + 1 <= N PROVE u[n + 1] \in S
    OBVIOUS
  <2>1. n + 1 \in 1 .. N /\ (n + 1) - 1 = n /\ u[n] \in S
    BY <1>2
  <2> QED BY <2>1
<1>3. \A n \in Nat : n \in T
  <2> HIDE DEF T
  <2> QED BY <1>1, <1>2, Induct
<1> QED BY <1>3

\* One step of a recursion on S for each place, and a solution of it from z.
StepsOn(G, N, S) == G \in [1 .. N -> [S -> S]]

Solves(w, z, G, N, S) ==
  /\ w \in [0 .. N -> S]
  /\ w[0] = z
  /\ \A i \in 1 .. N : w[i] = G[i][w[i - 1]]

\* A recursion whose steps stay in S has a solution.
LEMMA RecursionExists ==
  ASSUME NEW N \in Nat, NEW S, NEW z \in S, NEW G, StepsOn(G, N, S)
  PROVE  \E w : Solves(w, z, G, N, S)
<1> USE DEF StepsOn
<1> DEFINE Trace(w, n) == w[0] = z /\ \A i \in 1 .. n : w[i] = G[i][w[i - 1]]
           T == {n \in Nat : n <= N => \E w \in [0 .. n -> S] : Trace(w, n)}
<1>1. 0 \in T
  <2> DEFINE w == [i \in 0 .. 0 |-> z]
  <2>1. w \in [0 .. 0 -> S] /\ Trace(w, 0)
    OBVIOUS
  <2> QED BY <2>1
<1>2. ASSUME NEW n \in Nat, n \in T PROVE n + 1 \in T
  <2> SUFFICES ASSUME n + 1 <= N PROVE \E w \in [0 .. n + 1 -> S] : Trace(w, n + 1)
    OBVIOUS
  <2>1. PICK w \in [0 .. n -> S] : Trace(w, n)
    BY <1>2
  <2> DEFINE x == G[n + 1][w[n]]
             u == [i \in 0 .. n + 1 |-> IF i = n + 1 THEN x ELSE w[i]]
  <2>2. x \in S
    <3>1. n + 1 \in 1 .. N /\ n \in 0 .. n
      OBVIOUS
    <3>2. G[n + 1] \in [S -> S] /\ w[n] \in S
      BY <2>1, <3>1
    <3> QED BY <3>2
  <2>3. u \in [0 .. n + 1 -> S] /\ u[0] = z /\ u[n + 1] = x
    <3> HIDE DEF x
    <3> QED BY <2>1, <2>2
  <2>4. \A i \in 1 .. n + 1 : u[i] = G[i][u[i - 1]]
    <3> TAKE i \in 1 .. n + 1
    <3>1. i - 1 \in 0 .. n /\ i - 1 \in 0 .. n + 1 /\ i - 1 # n + 1 /\ i \in 0 .. n + 1
      OBVIOUS
    <3>2. u[i - 1] = w[i - 1]
      BY <3>1
    <3>3. CASE i = n + 1
      BY <3>2, <3>3, <2>3
    <3>4. CASE i # n + 1
      <4>1. i \in 1 .. n /\ u[i] = w[i]
        BY <3>1, <3>4
      <4> HIDE DEF u
      <4> QED BY <2>1, <3>2, <4>1
    <3> QED BY <3>3, <3>4
  <2> HIDE DEF u
  <2> QED BY <2>3, <2>4
<1>3. \A n \in Nat : n \in T
  <2> HIDE DEF T
  <2> QED BY <1>1, <1>2, Induct
<1> QED BY <1>3 DEF Solves

(***************************************************************************)
(* What replaying a log yields: its type, what one more event changes, and *)
(* what redaction leaves of it.  Views is a recursive function, so each    *)
(* fact about it is an induction over the prefix lengths.                  *)
(***************************************************************************)

\* Folding keeps the type of a view.
LEMMA FoldType ==
  ASSUME NEW v \in View, NEW e \in Event
  PROVE  Fold(v, e) \in View
<1>1. CASE e.type \in BodyTypes
  <2>1. e \in BodyEvent
    BY <1>1 DEF Event, Marker, BodyTypes, MarkerTypes
  <2>2. e.fp \in Content /\ e.body \in Body
    BY <2>1 DEF BodyEvent
  <2>3. (v.row # Absent /\ v.row.dropped) \in BOOLEAN
    OBVIOUS
  <2>4. Store(v, e) \in View
    BY <2>2, <2>3 DEF Store, View, Row
  <2> QED BY <1>1, <2>4 DEF Fold, BodyTypes
<1>2. CASE e.type \in MarkerTypes
  <2>1. v.row # Absent => Drop(v) \in View
    BY DEF Drop, View, Row, Body
  <2> QED BY <1>2, <2>1 DEF Fold, MarkerTypes, View
<1> QED BY <1>1, <1>2 DEF Event, BodyEvent, Marker

-----------------------------------------------------------------------------
(***************************************************************************)
(* Replay.                                                                 *)
(***************************************************************************)

\* Views is well defined: it starts without a row or a tombstone and folds the
\* events in order.
LEMMA ViewsDef ==
  ASSUME NEW l \in Seq(Event)
  PROVE  /\ DOMAIN Views(l) = 0 .. Len(l)
         /\ Views(l)[0] = NoView
         /\ \A i \in 1 .. Len(l) : Views(l)[i] = Fold(Views(l)[i - 1], l[i])
<1> DEFINE N == Len(l)
           G == [i \in 1 .. N |-> [v \in View |-> Fold(v, l[i])]]
<1>1. N \in Nat /\ NoView \in View /\ \A i \in 1 .. N : l[i] \in Event
  BY DEF View, NoView
<1>2. StepsOn(G, N, View)
  BY <1>1, FoldType DEF StepsOn
<1>3. PICK w : Solves(w, NoView, G, N, View)
  <2> HIDE DEF G, N
  <2> QED BY <1>1, <1>2, RecursionExists
<1>4. \A i \in 1 .. N : w[i] = Fold(w[i - 1], l[i])
  <2> TAKE i \in 1 .. N
  <2>1. i - 1 \in 0 .. N
    BY <1>1
  <2>2. w[i - 1] \in View
    BY <1>3, <2>1 DEF Solves
  <2> QED BY <1>3, <2>2 DEF Solves
<1> HIDE DEF G
<1> DEFINE Body_(v) == [i \in 0 .. Len(l) |->
                          IF i = 0 THEN NoView ELSE Fold(v[i - 1], l[i])]
<1>6. w = Body_(w)
  <2>1. w = [i \in 0 .. N |-> w[i]]
    BY <1>3 DEF Solves
  <2>2. \A i \in 0 .. N : w[i] = IF i = 0 THEN NoView ELSE Fold(w[i - 1], l[i])
    BY <1>1, <1>3, <1>4 DEF Solves
  <2> QED BY <2>1, <2>2
<1>7. Views(l) = CHOOSE v : v = Body_(v)
  BY DEF Views
<1>8. Views(l) = Body_(Views(l))
  <2> HIDE DEF Body_
  <2> QED BY <1>6, <1>7
<1> HIDE DEF Views
<1>9. /\ DOMAIN Views(l) = 0 .. Len(l)
      /\ \A i \in 0 .. Len(l) :
           Views(l)[i] = IF i = 0 THEN NoView ELSE Fold(Views(l)[i - 1], l[i])
  <2> DEFINE V == Views(l)
  <2>1. V = Body_(V)
    BY <1>8
  <2> HIDE DEF V
  <2>2. DOMAIN Body_(V) = 0 .. Len(l)
    OBVIOUS
  <2>3. \A i \in 0 .. Len(l) : Body_(V)[i] = IF i = 0 THEN NoView ELSE Fold(V[i - 1], l[i])
    OBVIOUS
  <2> HIDE DEF Body_
  <2>4. DOMAIN V = 0 .. Len(l)
    BY <2>1, <2>2
  <2>5. \A i \in 0 .. Len(l) : V[i] = IF i = 0 THEN NoView ELSE Fold(V[i - 1], l[i])
    BY <2>1, <2>3
  <2> QED BY <2>4, <2>5 DEF V
<1> QED BY <1>1, <1>9

\* Every prefix of a log replays to a view.
LEMMA ViewsType ==
  ASSUME NEW l \in Seq(Event)
  PROVE  \A n \in 0 .. Len(l) : Views(l)[n] \in View
<1>1. Views(l)[0] \in View
  BY ViewsDef DEF View, NoView
<1>2. ASSUME NEW n \in 1 .. Len(l), Views(l)[n - 1] \in View PROVE Views(l)[n] \in View
  <2>1. l[n] \in Event /\ Views(l)[n] = Fold(Views(l)[n - 1], l[n])
    BY ViewsDef
  <2> QED BY <1>2, <2>1, FoldType
<1>3. Len(l) \in Nat
  OBVIOUS
<1> HIDE DEF Views
<1> QED BY <1>1, <1>2, <1>3, Along

LEMMA ReplayType ==
  ASSUME NEW l \in Seq(Event)
  PROVE  Replay(l) \in View
BY ViewsType DEF Replay

LEMMA ReplayEmpty == Replay(<< >>) = NoView
<1>1. << >> \in Seq(Event) /\ Len(<< >>) = 0
  OBVIOUS
<1> QED BY <1>1, ViewsDef DEF Replay

\* One more event is one more fold: what record does live, a rebuild does again.
LEMMA ReplayAppend ==
  ASSUME NEW l \in Seq(Event), NEW e \in Event
  PROVE  Replay(Append(l, e)) = Fold(Replay(l), e)
<1> DEFINE k == Append(l, e)
           N == Len(l)
           S == {n \in Nat : n <= N => Views(k)[n] = Views(l)[n]}
<1>1. /\ k \in Seq(Event) /\ Len(k) = N + 1 /\ N \in Nat /\ k[N + 1] = e
      /\ \A i \in 1 .. N : k[i] = l[i]
  OBVIOUS
<1> HIDE DEF k
<1>2. /\ Views(k)[0] = NoView /\ Views(l)[0] = NoView
      /\ \A i \in 1 .. N + 1 : Views(k)[i] = Fold(Views(k)[i - 1], k[i])
      /\ \A i \in 1 .. N : Views(l)[i] = Fold(Views(l)[i - 1], l[i])
  BY <1>1, ViewsDef
<1> HIDE DEF N
<1>3. 0 \in S
  BY <1>2
<1>4. ASSUME NEW n \in Nat, n \in S PROVE n + 1 \in S
  <2> SUFFICES ASSUME n + 1 <= N PROVE Views(k)[n + 1] = Views(l)[n + 1]
    OBVIOUS
  <2>1. n + 1 \in 1 .. N /\ n + 1 \in 1 .. N + 1 /\ (n + 1) - 1 = n /\ n <= N
    BY <1>1
  <2>2. Views(k)[n] = Views(l)[n]
    BY <1>4, <2>1
  <2> QED BY <1>1, <1>2, <2>1, <2>2
<1>5. \A n \in Nat : n \in S
  <2> HIDE DEF S
  <2> QED BY <1>3, <1>4, Induct
<1>6. Views(k)[N] = Views(l)[N]
  BY <1>1, <1>5
<1>7. Views(k)[N + 1] = Fold(Views(k)[N], e)
  BY <1>1, <1>2
<1> QED BY <1>1, <1>6, <1>7 DEF Replay, k, N
-----------------------------------------------------------------------------
(***************************************************************************)
(* Redaction.                                                              *)
(***************************************************************************)

\* A view whose row, if there is one, has lost its body.
Blanked(v) ==
  IF v.row = Absent THEN v
  ELSE [row |-> [fp |-> v.row.fp, body |-> Blank, dropped |-> v.row.dropped],
        tomb |-> v.tomb]

LEMMA RedactType ==
  ASSUME NEW l \in Seq(Event)
  PROVE  /\ Redact(l) \in Seq(Event)
         /\ Len(Redact(l)) = Len(l)
         /\ \A i \in 1 .. Len(l) : Redact(l)[i] = RedactEvent(l[i])
         /\ ~HasBody(Redact(l))
<1>1. \A e \in Event : RedactEvent(e) \in Event /\ ~CarriesBody(RedactEvent(e))
  <2> TAKE e \in Event
  <2>1. CASE e \in BodyEvent
    BY <2>1 DEF Event, BodyEvent, RedactEvent, CarriesBody, Body
  <2>2. CASE e \in Marker
    BY <2>2 DEF Event, Marker, RedactEvent, CarriesBody, BodyTypes, MarkerTypes
  <2> QED BY <2>1, <2>2 DEF Event
<1>2. \A i \in 1 .. Len(l) : l[i] \in Event
  OBVIOUS
<1>3. Redact(l) = [i \in 1 .. Len(l) |-> RedactEvent(l[i])]
  BY DEF Redact
<1>4. Redact(l) \in [1 .. Len(l) -> Event]
  BY <1>1, <1>2, <1>3
<1>5. Redact(l) \in Seq(Event) /\ Len(Redact(l)) = Len(l)
  BY <1>4
<1> QED BY <1>1, <1>2, <1>3, <1>5 DEF HasBody


\* The views that Store and the markers make, field by field.
LEMMA ViewExcept ==
  ASSUME NEW v \in View, NEW x
  PROVE  /\ [v EXCEPT !.row = x]  = [row |-> x, tomb |-> v.tomb]
         /\ [v EXCEPT !.tomb = x] = [row |-> v.row, tomb |-> x]
BY DEF View

LEMMA StoreIs ==
  ASSUME NEW v \in View, NEW e
  PROVE  Store(v, e) = [row  |-> [fp |-> e.fp, body |-> e.body,
                                  dropped |-> v.row # Absent /\ v.row.dropped],
                        tomb |-> v.tomb]
BY ViewExcept, Zenon DEF Store

LEMMA DropIs ==
  ASSUME NEW v \in View
  PROVE  Drop(v) = [row  |-> [fp |-> v.row.fp, body |-> Blank, dropped |-> TRUE],
                    tomb |-> v.tomb]
BY ViewExcept, Zenon DEF Drop

LEMMA BlankedIs ==
  ASSUME NEW v \in View
  PROVE  /\ Blanked(v) \in View
         /\ Blanked(v).tomb = v.tomb
         /\ Blanked(v).row = Absent <=> v.row = Absent
         /\ v.row = Absent => Blanked(v) = v
         /\ v.row # Absent => /\ Blanked(v).row.fp = v.row.fp
                              /\ Blanked(v).row.dropped = v.row.dropped
BY SourceEventsAssumption DEF Blanked, View, Row, Body

\* Folding a redacted event over a blanked view blanks the fold.
LEMMA FoldRedacted ==
  ASSUME NEW v \in View, NEW e \in Event
  PROVE  Fold(Blanked(v), RedactEvent(e)) = Blanked(Fold(v, e))
<1> DEFINE b == Blanked(v)
           r == RedactEvent(e)
           f == Fold(v, e)
<1>1. /\ b \in View
      /\ b.tomb = v.tomb
      /\ b.row = Absent <=> v.row = Absent
      /\ v.row = Absent => b = v
      /\ v.row # Absent => b.row.fp = v.row.fp /\ b.row.dropped = v.row.dropped
  BY BlankedIs
<1>2. /\ f.row = Absent => Blanked(f) = f
      /\ f.row # Absent =>
           Blanked(f) = [row |-> [fp |-> f.row.fp, body |-> Blank, dropped |-> f.row.dropped],
                         tomb |-> f.tomb]
  BY Zenon DEF Blanked
<1>3. f \in View
  BY FoldType
<1> HIDE DEF b, r, f
<1> SUFFICES Fold(b, r) = Blanked(f)
  BY DEF b, r, f
<1>4. ASSUME e \in BodyEvent, Fold(b, r) = Store(b, r), f = Store(v, e)
      PROVE  Fold(b, r) = Blanked(f)
  <2> DEFINE d  == v.row # Absent /\ v.row.dropped
             d2 == b.row # Absent /\ b.row.dropped
  <2>1. r.fp = e.fp /\ r.body = Blank
    BY <1>4 DEF RedactEvent, BodyEvent, r
  <2>2. d = d2 /\ d \in BOOLEAN
    BY <1>1
  <2>3. Store(b, r) = [row |-> [fp |-> r.fp, body |-> r.body, dropped |-> d2],
                       tomb |-> b.tomb]
    BY <1>1, StoreIs, Zenon
  <2>4. f = [row |-> [fp |-> e.fp, body |-> e.body, dropped |-> d], tomb |-> v.tomb]
    BY <1>4, StoreIs, Zenon
  <2> HIDE DEF d, d2
  <2>5. [fp |-> e.fp, body |-> e.body, dropped |-> d] \in Row
    BY <1>4, <2>2 DEF Row, BodyEvent
  <2>6. f.row # Absent /\ f.row.fp = e.fp /\ f.row.dropped = d /\ f.tomb = v.tomb
    BY <2>4, <2>5, SourceEventsAssumption
  <2> QED BY <1>1, <1>2, <1>4, <2>1, <2>2, <2>3, <2>6
<1>5. ASSUME v.row # Absent, Fold(b, r) = Drop(b), f = Drop(v)
      PROVE  Fold(b, r) = Blanked(f)
  <2>1. Drop(b) = [row |-> [fp |-> v.row.fp, body |-> Blank, dropped |-> TRUE],
                   tomb |-> v.tomb]
    BY <1>1, <1>5, DropIs, Zenon
  <2>2. f = [row |-> [fp |-> v.row.fp, body |-> Blank, dropped |-> TRUE], tomb |-> v.tomb]
    BY <1>5, DropIs, Zenon
  <2>3. f.row # Absent
    <3>1. v.row \in Row
      BY <1>5 DEF View
    <3>2. [fp |-> v.row.fp, body |-> Blank, dropped |-> TRUE] \in Row
      BY <3>1 DEF Row, Body
    <3> QED BY <2>2, <3>2, SourceEventsAssumption
  <2>4. f.row.fp = v.row.fp /\ f.row.dropped = TRUE /\ f.tomb = v.tomb
    BY <2>2
  <2> QED BY <1>2, <1>5, <2>1, <2>3, <2>4
<1>6. CASE e \in BodyEvent
  <2>1. r.type = e.type /\ e.type \in BodyTypes
    BY <1>6 DEF RedactEvent, BodyEvent, r
  <2>2. CASE e.type = "SourceObserved"
    BY <1>4, <1>6, <2>1, <2>2 DEF Fold, f
  <2>3. CASE e.type = "SourceBodyUpdated" /\ v.row # Absent
    BY <1>1, <1>4, <1>6, <2>1, <2>3 DEF Fold, f
  <2>4. CASE e.type = "SourceBodyUpdated" /\ v.row = Absent
    <3>1. Fold(b, r) = v /\ f = v
      BY <1>1, <2>1, <2>4 DEF Fold, f
    <3> QED BY <1>2, <2>4, <3>1
  <2> QED BY <2>1, <2>2, <2>3, <2>4 DEF BodyTypes
<1>7. CASE e \in Marker
  <2>1. r = e /\ e.type \in MarkerTypes
    BY <1>7 DEF Marker, RedactEvent, BodyTypes, MarkerTypes, r
  <2>2. CASE e.type = "SourceBodyDropped" /\ v.row # Absent
    BY <1>1, <1>5, <2>1, <2>2 DEF Fold, f
  <2>3. CASE e.type = "SourceBodyDropped" /\ v.row = Absent
    <3>1. Fold(b, r) = v /\ f = v
      BY <1>1, <2>1, <2>3 DEF Fold, f
    <3> QED BY <1>2, <2>3, <3>1
  <2>4. CASE e.type = "SourceForgotten"
    <3>1. Fold(b, r) = f /\ f.row = Absent
      BY <2>1, <2>4 DEF Fold, f
    <3> QED BY <1>2, <3>1
  <2>5. CASE e.type = "SourceUnforgotten"
    <3>1. Fold(b, r) = [b EXCEPT !.tomb = FALSE] /\ f = [v EXCEPT !.tomb = FALSE]
      BY <2>1, <2>5 DEF Fold, f
    <3>2. Fold(b, r) = [row |-> b.row, tomb |-> FALSE] /\ f = [row |-> v.row, tomb |-> FALSE]
      BY <1>1, <3>1, ViewExcept, Zenon
    <3>3. f.row = v.row /\ f.tomb = FALSE
      BY <3>2
    <3>4. CASE v.row = Absent
      BY <1>1, <1>2, <3>2, <3>3, <3>4
    <3>5. CASE v.row # Absent
      <4>1. b.row = [fp |-> v.row.fp, body |-> Blank, dropped |-> v.row.dropped]
        BY <3>5 DEF Blanked, b
      <4> QED BY <1>2, <3>2, <3>3, <3>5, <4>1
    <3> QED BY <3>4, <3>5
  <2> QED BY <2>1, <2>2, <2>3, <2>4, <2>5 DEF MarkerTypes
<1> QED BY <1>6, <1>7 DEF Event

\* A redacted log replays to the same rows and tombstones, without their bodies.
LEMMA ReplayRedact ==
  ASSUME NEW l \in Seq(Event)
  PROVE  Replay(Redact(l)) = Blanked(Replay(l))
<1> DEFINE k == Redact(l)
           N == Len(l)
           S == {n \in Nat : n <= N => Views(k)[n] = Blanked(Views(l)[n])}
<1>1. /\ k \in Seq(Event) /\ Len(k) = N /\ N \in Nat
      /\ \A i \in 1 .. N : k[i] = RedactEvent(l[i]) /\ l[i] \in Event
  BY RedactType
<1>2. /\ Views(k)[0] = NoView /\ Views(l)[0] = NoView
      /\ \A i \in 1 .. N : Views(k)[i] = Fold(Views(k)[i - 1], k[i])
      /\ \A i \in 1 .. N : Views(l)[i] = Fold(Views(l)[i - 1], l[i])
      /\ \A i \in 0 .. N : Views(l)[i] \in View
  <2> HIDE DEF k
  <2> QED BY <1>1, ViewsDef, ViewsType
<1> HIDE DEF k, N
<1>3. 0 \in S
  BY <1>2 DEF Blanked, NoView
<1>4. ASSUME NEW n \in Nat, n \in S PROVE n + 1 \in S
  <2> SUFFICES ASSUME n + 1 <= N PROVE Views(k)[n + 1] = Blanked(Views(l)[n + 1])
    OBVIOUS
  <2>1. n + 1 \in 1 .. N /\ n \in 0 .. N /\ (n + 1) - 1 = n /\ n <= N
    BY <1>1
  <2>2. Views(k)[n] = Blanked(Views(l)[n])
    BY <1>4, <2>1
  <2>3. Views(k)[n + 1] = Fold(Blanked(Views(l)[n]), RedactEvent(l[n + 1]))
    BY <1>1, <1>2, <2>1, <2>2
  <2>4. Views(l)[n + 1] = Fold(Views(l)[n], l[n + 1])
    BY <1>2, <2>1
  <2> QED BY <1>1, <1>2, <2>1, <2>3, <2>4, FoldRedacted
<1>5. \A n \in Nat : n \in S
  <2> HIDE DEF S
  <2> QED BY <1>3, <1>4, Induct
<1>6. Views(k)[N] = Blanked(Views(l)[N])
  BY <1>1, <1>5
<1> QED BY <1>1, <1>6 DEF Replay, k, N

\* Redacting a log and closing it with an erasing event replays to the very view
\* the erasing event leaves live, although other bodies are replayed: why a
\* rebuild after a forget or a retention run reproduces the projections.
THEOREM ErasureReplays ==
  ASSUME NEW l \in Seq(Event), NEW t \in {"SourceForgotten", "SourceBodyDropped"}
  PROVE  Replay(Append(Redact(l), Mark(t))) = Fold(Replay(l), Mark(t))
<1> DEFINE v == Replay(l)
           e == Mark(t)
<1>1. v \in View /\ e \in Event /\ e.type = t
  BY ReplayType DEF Mark, Event, Marker, MarkerTypes
<1>2. Replay(Append(Redact(l), e)) = Fold(Blanked(v), e)
  BY <1>1, RedactType, ReplayAppend, ReplayRedact
<1> HIDE DEF v, e
<1>3. v.row # Absent => Drop(Blanked(v)) = Drop(v)
  <2>1. ASSUME NEW w \in View, w.row.fp = v.row.fp, w.tomb = v.tomb PROVE Drop(w) = Drop(v)
    BY <1>1, <2>1, DropIs, Zenon
  <2> QED BY <1>1, <2>1, BlankedIs
<1>4. CASE t = "SourceForgotten"
  BY <1>1, <1>2, <1>4 DEF Fold, v, e
<1>5. CASE t = "SourceBodyDropped"
  BY <1>1, <1>2, <1>3, <1>5, BlankedIs DEF Fold, v, e
<1> QED BY <1>4, <1>5
-----------------------------------------------------------------------------
(***************************************************************************)
(* The index, and the events of the store.                                 *)
(***************************************************************************)

Entry == Body \union {Absent}

LEMMA FoldIndexType ==
  ASSUME NEW f \in Entry, NEW v, NEW e \in Event
  PROVE  FoldIndex(f, v, e) \in Entry
<1>1. CASE e \in BodyEvent
  BY <1>1 DEF FoldIndex, BodyEvent, BodyTypes, Entry
<1>2. CASE e \in Marker
  BY <1>2 DEF FoldIndex, Marker, MarkerTypes, Entry
<1> QED BY <1>1, <1>2 DEF Event

LEMMA MarkType ==
  ASSUME NEW t \in MarkerTypes
  PROVE  Mark(t) \in Event /\ Mark(t).type = t /\ ~CarriesBody(Mark(t))
BY DEF Mark, Event, Marker, CarriesBody, MarkerTypes, BodyTypes

LEMMA IngestedType ==
  ASSUME NEW t \in BodyTypes, NEW c \in Content, NEW b \in Body
  PROVE  Ingested(t, c, b) \in Event
BY DEF Ingested, Event, BodyEvent

LEMMA ViewOfType ==
  ASSUME TypeOK, NEW s \in Source
  PROVE  ViewOf(s) \in View
<1>1. sources[s] \in Row \union {Absent} /\ (s \in forgotten) \in BOOLEAN
  BY DEF TypeOK
<1> QED BY <1>1 DEF ViewOf, View

\* One recorded event, field by field.
LEMMA RecordOverStep ==
  ASSUME TypeOK, NEW s \in Source, NEW l \in Seq(Event), NEW e \in Event,
         RecordOver(l, s, e)
  PROVE  /\ log' \in [Source -> Seq(Event)]
         /\ sources' \in [Source -> Row \union {Absent}]
         /\ forgotten' \subseteq Source
         /\ index' \in [Source -> Entry]
         /\ log'[s] = Append(l, e)
         /\ ViewOf(s)' = Fold(ViewOf(s), e)
         /\ index'[s] = FoldIndex(index[s], ViewOf(s), e)
         /\ \A t \in Source \ {s} : /\ log'[t] = log[t]
                                    /\ sources'[t] = sources[t]
                                    /\ t \in forgotten' <=> t \in forgotten
                                    /\ ViewOf(t)' = ViewOf(t)
                                    /\ index'[t] = index[t]
<1> DEFINE v == Fold(ViewOf(s), e)
<1>1. v \in View
  BY ViewOfType, FoldType
<1>2. /\ log' = [log EXCEPT ![s] = Append(l, e)]
      /\ sources' = [sources EXCEPT ![s] = v.row]
      /\ forgotten' = IF v.tomb THEN forgotten \union {s} ELSE forgotten \ {s}
      /\ index' = [index EXCEPT ![s] = FoldIndex(@, ViewOf(s), e)]
  BY DEF RecordOver
<1>3. FoldIndex(index[s], ViewOf(s), e) \in Entry
  BY FoldIndexType DEF TypeOK, Entry
<1>4. v.row \in Row \union {Absent} /\ v.tomb \in BOOLEAN
  BY <1>1 DEF View
<1>5. Append(l, e) \in Seq(Event)
  OBVIOUS
<1> HIDE DEF v
<1>6. /\ log' \in [Source -> Seq(Event)] /\ log'[s] = Append(l, e)
      /\ \A t \in Source \ {s} : log'[t] = log[t]
  BY <1>2, <1>5 DEF TypeOK
<1>7. /\ sources' \in [Source -> Row \union {Absent}] /\ sources'[s] = v.row
      /\ \A t \in Source \ {s} : sources'[t] = sources[t]
  BY <1>2, <1>4 DEF TypeOK
<1>8. /\ forgotten' \subseteq Source /\ (s \in forgotten') = v.tomb
      /\ \A t \in Source \ {s} : t \in forgotten' <=> t \in forgotten
  BY <1>2, <1>4 DEF TypeOK
<1>9. /\ index' \in [Source -> Entry] /\ index'[s] = FoldIndex(index[s], ViewOf(s), e)
      /\ \A t \in Source \ {s} : index'[t] = index[t]
  BY <1>2, <1>3 DEF TypeOK, Entry
<1>10. ViewOf(s)' = v
  <2>1. v = [row |-> v.row, tomb |-> v.tomb]
    BY <1>1 DEF View
  <2> QED BY <1>7, <1>8, <2>1, Zenon DEF ViewOf
<1>11. \A t \in Source \ {s} : ViewOf(t)' = ViewOf(t)
  <2> TAKE t \in Source \ {s}
  <2>1. sources'[t] = sources[t] /\ (t \in forgotten') = (t \in forgotten)
    BY <1>7, <1>8
  <2> QED BY <2>1, Zenon DEF ViewOf
<1> QED BY <1>6, <1>7, <1>8, <1>9, <1>10, <1>11 DEF v
-----------------------------------------------------------------------------
(***************************************************************************)
(* Type correctness.                                                       *)
(***************************************************************************)

\* RecordSource records at most one event, whichever way the delta decision goes.
LEMMA RecordSourceCases ==
  ASSUME TypeOK, NEW p \in Sync, RecordSource(p)
  PROVE  /\ run[p].rec \in Record
         /\ \/ UNCHANGED store
            \/ \E s \in Source, t \in BodyTypes, c \in Content, b \in Body :
                 /\ s = run[p].rec.src /\ c = run[p].rec.fp /\ b = run[p].rec.body
                 /\ RecordOver(log[s], s, Ingested(t, c, b))
<1>1. run[p].rec \in Record
  BY DEF RecordSource, TypeOK
<1>2. \/ UNCHANGED store
      \/ RecordOver(log[run[p].rec.src], run[p].rec.src,
                    Ingested("SourceObserved", run[p].rec.fp, run[p].rec.body))
      \/ RecordOver(log[run[p].rec.src], run[p].rec.src,
                    Ingested("SourceBodyUpdated", run[p].rec.fp, run[p].rec.body))
  BY Zenon DEF RecordSource
<1>3. /\ run[p].rec.src \in Source
      /\ run[p].rec.fp \in Content
      /\ run[p].rec.body \in Body
  BY <1>1 DEF Record
<1>4. PICK s \in Source, c \in Content, b \in Body :
         s = run[p].rec.src /\ c = run[p].rec.fp /\ b = run[p].rec.body
  BY <1>3
<1>5. \/ UNCHANGED store
      \/ \E t \in BodyTypes : RecordOver(log[s], s, Ingested(t, c, b))
  BY <1>2, <1>4, Zenon DEF BodyTypes
<1> QED BY <1>1, <1>4, <1>5, Zenon

\* What a step that only moves pass p needs to show about it.
LEMMA PassStep ==
  ASSUME TypeOK, NEW p \in Sync, NEW q \in Pass, run' = [run EXCEPT ![p] = q],
         q.pc \in {"extract", "record"} => q.rec \in Record
  PROVE  /\ run' \in [Sync -> Pass]
         /\ \A r \in Sync : run'[r].pc \in {"extract", "record"} => run'[r].rec \in Record
BY DEF TypeOK

LEMMA InitType == Init => TypeOK
<1> SUFFICES ASSUME Init PROVE TypeOK
  OBVIOUS
<1>1. Idle \in Pass /\ Idle.pc = "idle"
  BY DEF Idle, Pass
<1>2. << >> \in Seq(Event)
  OBVIOUS
<1> QED BY <1>1, <1>2, SourceStoreAssumption DEF Init, TypeOK

LEMMA NextType == TypeOK /\ [Next]_vars => TypeOK'
<1> SUFFICES ASSUME TypeOK, [Next]_vars PROVE TypeOK'
  OBVIOUS
<1> USE SourceStoreAssumption
<1>1. ASSUME NEW s \in Source, NEW c \in Content, Edit(s, c) PROVE TypeOK'
  BY <1>1 DEF TypeOK, Edit, store
<1>2. ASSUME NEW p \in Sync, NEW x \in Extractor \union {NoExtractor}, Begin(p, x)
      PROVE  TypeOK'
  <2> DEFINE q == [pc |-> "scan", skip |-> forgotten, todo |-> Source, ext |-> x, rec |-> Absent]
  <2>1. q \in Pass /\ q.pc = "scan"
    BY DEF Pass, TypeOK
  <2>2. run' = [run EXCEPT ![p] = q]
    BY <1>2 DEF Begin
  <2> HIDE DEF q
  <2> QED BY <1>2, <2>1, <2>2, PassStep DEF TypeOK, Begin, store
<1>3. ASSUME NEW p \in Sync, NEW s \in Source, Skip(p, s) PROVE TypeOK'
  <2> DEFINE q == [run[p] EXCEPT !.todo = @ \ {s}]
  <2>1. q \in Pass /\ q.pc = "scan"
    BY <1>3 DEF Pass, TypeOK, Skip
  <2>2. run' = [run EXCEPT ![p] = q]
    BY <1>3 DEF Skip, TypeOK
  <2> HIDE DEF q
  <2> QED BY <1>3, <2>1, <2>2, PassStep DEF TypeOK, Skip, store
<1>4. ASSUME NEW p \in Sync, NEW s \in Source, Fetch(p, s) PROVE TypeOK'
  <2> DEFINE r == [src |-> s, fp |-> upstream[s], prior |-> Fingerprint(s), body |-> Blank]
             q == [run[p] EXCEPT !.pc = "extract", !.todo = @ \ {s}, !.rec = r]
  <2>1. r \in Record
    BY DEF Record, TypeOK, Fingerprint, Row, Body
  <2> HIDE DEF r
  <2>2. q \in Pass /\ q.rec = r
    BY <2>1 DEF Pass, TypeOK
  <2>3. run' = [run EXCEPT ![p] = q]
    BY <1>4 DEF Fetch, TypeOK, r
  <2> HIDE DEF q
  <2> QED BY <1>4, <2>1, <2>2, <2>3, PassStep DEF TypeOK, Fetch, store
<1>5. ASSUME NEW p \in Sync, Extract(p) PROVE TypeOK'
  <2>1. run[p] \in Pass /\ run[p].rec \in Record
    BY <1>5 DEF Extract, TypeOK
  <2>2. PICK o \in Outcome(run[p].rec.fp, run[p].rec.src, run[p].ext) :
          /\ run' = [run EXCEPT ![p].pc = "record", ![p].rec.body = o.body]
          /\ xmeta' = IF o.state = Absent THEN xmeta
                      ELSE [xmeta EXCEPT ![run[p].rec.src] =
                              [version |-> run[p].ext, state |-> o.state]]
    BY <1>5 DEF Extract
  <2>3. /\ o.body \in Body
        /\ o.state # Absent => /\ o.state \in {"extracted", "unsupported"}
                               /\ run[p].ext \in Extractor
    BY <2>1 DEF Outcome, Name, Extracted, Text, Body, Pass, Record
  <2> DEFINE r == [run[p].rec EXCEPT !.body = o.body]
             q == [run[p] EXCEPT !.pc = "record", !.rec = r]
  <2>4. r \in Record
    BY <2>1, <2>3 DEF Record
  <2>5. run' = [run EXCEPT ![p] = q]
    BY <2>1, <2>2 DEF TypeOK, Pass
  <2> HIDE DEF r
  <2>6. q \in Pass /\ q.rec = r
    BY <2>1, <2>4 DEF Pass
  <2>7. xmeta' \in [Source -> XMeta \union {Absent}]
    BY <2>1, <2>2, <2>3 DEF TypeOK, XMeta, Record
  <2> HIDE DEF q
  <2> QED BY <1>5, <2>4, <2>5, <2>6, <2>7, PassStep DEF TypeOK, Extract, store
<1>6. ASSUME NEW p \in Sync, RecordSource(p) PROVE TypeOK'
  <2> DEFINE r == run[p].rec
             q == [run[p] EXCEPT !.pc = "scan", !.rec = Absent]
  <2>1. r \in Record /\ run[p] \in Pass
    BY <1>6 DEF RecordSource, TypeOK
  <2>2. q \in Pass /\ q.pc = "scan"
    BY <2>1 DEF Pass
  <2>3. run' = [run EXCEPT ![p] = q]
    BY <1>6, <2>1 DEF RecordSource, TypeOK, Pass
  <2> DEFINE Typed == /\ log' \in [Source -> Seq(Event)]
                      /\ sources' \in [Source -> Row \union {Absent}]
                      /\ forgotten' \subseteq Source
                      /\ index' \in [Source -> Entry]
  <2>4. Typed
    <3>1. CASE UNCHANGED store
      BY <3>1 DEF store, TypeOK, Entry
    <3>2. ASSUME NEW s \in Source, NEW t \in BodyTypes, NEW c \in Content, NEW b \in Body,
                 RecordOver(log[s], s, Ingested(t, c, b))
          PROVE  Typed
      <4>1. log[s] \in Seq(Event) /\ Ingested(t, c, b) \in Event
        BY IngestedType DEF TypeOK
      <4> QED BY <3>2, <4>1, RecordOverStep
    <3> HIDE DEF Typed
    <3> QED BY <1>6, <3>1, <3>2, RecordSourceCases
  <2> HIDE DEF q
  <2> QED BY <1>6, <2>2, <2>3, <2>4, PassStep DEF TypeOK, RecordSource, Entry
<1>7. ASSUME NEW p \in Sync, Finish(p) \/ Die(p) PROVE TypeOK'
  <2>1. Idle \in Pass /\ Idle.pc = "idle"
    BY DEF Idle, Pass
  <2>2. run' = [run EXCEPT ![p] = Idle]
    BY <1>7 DEF Finish, Die
  <2> QED BY <1>7, <2>1, <2>2, PassStep DEF TypeOK, Finish, Die, Spend, store
<1>8. ASSUME NEW s \in Source, Forget(s) PROVE TypeOK'
  <2>1. Mark("SourceForgotten") \in Event
    BY MarkType DEF MarkerTypes
  <2>2. Redact(log[s]) \in Seq(Event)
    BY RedactType DEF TypeOK
  <2>3. RecordOver(Redact(log[s]), s, Mark("SourceForgotten"))
    BY <1>8 DEF Forget
  <2>4. /\ log' \in [Source -> Seq(Event)]
        /\ sources' \in [Source -> Row \union {Absent}]
        /\ forgotten' \subseteq Source
        /\ index' \in [Source -> Entry]
    BY <2>1, <2>2, <2>3, RecordOverStep
  <2>5. xmeta' \in [Source -> XMeta \union {Absent}]
    BY <1>8 DEF TypeOK, Forget
  <2>6. UNCHANGED <<upstream, run, sweep, edits>> /\ ops' \in 0 .. MaxOps
    BY <1>8 DEF TypeOK, Forget, Spend
  <2> QED BY <2>4, <2>5, <2>6 DEF TypeOK, Entry
<1>9. ASSUME NEW s \in Source, ForgetAgain(s) PROVE TypeOK'
  BY <1>9 DEF TypeOK, ForgetAgain, Spend, store
<1>10. ASSUME NEW s \in Source, Unforget(s) PROVE TypeOK'
  <2>1. Mark("SourceUnforgotten") \in Event
    BY MarkType DEF MarkerTypes
  <2>2. RecordOver(log[s], s, Mark("SourceUnforgotten")) /\ log[s] \in Seq(Event)
    BY <1>10 DEF Unforget, TypeOK
  <2>3. /\ log' \in [Source -> Seq(Event)]
        /\ sources' \in [Source -> Row \union {Absent}]
        /\ forgotten' \subseteq Source
        /\ index' \in [Source -> Entry]
    BY <2>1, <2>2, RecordOverStep
  <2> QED BY <1>10, <2>3 DEF TypeOK, Unforget, Spend, Entry
<1>11. ASSUME RetainSelect PROVE TypeOK'
  BY <1>11 DEF TypeOK, RetainSelect, Spend, store, Expired
<1>12. ASSUME RetainDrop PROVE TypeOK'
  <2> DEFINE e == Mark("SourceBodyDropped")
  <2>1. e \in Event
    BY MarkType DEF MarkerTypes
  <2>2. \A s \in Source : /\ Append(Redact(log[s]), e) \in Seq(Event)
                          /\ Fold(ViewOf(s), e).row \in Row \union {Absent}
                          /\ FoldIndex(index[s], ViewOf(s), e) \in Entry
    <3> TAKE s \in Source
    <3>1. Redact(log[s]) \in Seq(Event)
      BY RedactType DEF TypeOK
    <3>2. Fold(ViewOf(s), e) \in View
      BY <2>1, ViewOfType, FoldType
    <3>3. index[s] \in Entry
      BY DEF TypeOK, Entry
    <3> HIDE DEF e
    <3> QED BY <2>1, <3>1, <3>2, <3>3, FoldIndexType DEF View
  <2>3. /\ log' = [s \in Source |-> IF s \in sweep THEN Append(Redact(log[s]), e) ELSE log[s]]
        /\ sources' = [s \in Source |-> IF s \in sweep THEN Fold(ViewOf(s), e).row ELSE sources[s]]
        /\ index' = [s \in Source |-> IF s \in sweep
                                      THEN FoldIndex(index[s], ViewOf(s), e) ELSE index[s]]
    BY <1>12 DEF RetainDrop
  <2> HIDE DEF e
  <2>4. /\ log' \in [Source -> Seq(Event)]
        /\ sources' \in [Source -> Row \union {Absent}]
        /\ index' \in [Source -> Entry]
    BY <2>2, <2>3 DEF TypeOK, Entry
  <2> QED BY <1>12, <2>4 DEF TypeOK, RetainDrop, Entry
<1>13. ASSUME Rebuild PROVE TypeOK'
  <2>1. \A s \in Source : /\ Replay(log[s]).row \in Row \union {Absent}
                          /\ IndexOf(Replay(log[s])) \in Entry
    <3> TAKE s \in Source
    <3>1. Replay(log[s]) \in View
      BY ReplayType DEF TypeOK
    <3> QED BY <3>1 DEF View, IndexOf, Entry, Row
  <2>2. /\ sources' \in [Source -> Row \union {Absent}]
        /\ forgotten' \subseteq Source
        /\ index' \in [Source -> Entry]
    BY <1>13, <2>1 DEF Rebuild
  <2> QED BY <1>13, <2>2 DEF TypeOK, Rebuild, Entry
<1>14. CASE UNCHANGED vars
  BY <1>14 DEF TypeOK, vars
<1> QED
  BY <1>1, <1>2, <1>3, <1>4, <1>5, <1>6, <1>7, <1>8, <1>9, <1>10, <1>11, <1>12, <1>13, <1>14
  DEF Next, SyncStep

\* The store never leaves its types, whatever interleaves with what.
THEOREM TypeCorrect == Spec => []TypeOK
<1>1. Init => TypeOK
  BY InitType
<1>2. TypeOK /\ [Next]_vars => TypeOK'
  BY NextType
<1> QED BY <1>1, <1>2, PTL DEF Spec
-----------------------------------------------------------------------------
(***************************************************************************)
(* What any step of the system does to one source: nothing, one recorded   *)
(* event, one erasure, or a rebuild.  Every invariant of the store below   *)
(* is a case analysis over these four.                                     *)
(***************************************************************************)

\* A pass that is about to record has a body to record, never the blank one.
BodyReady == \A p \in Sync : run[p].pc = "record" => run[p].rec.body \in Text

Keeps(s) ==
  /\ log'[s] = log[s]
  /\ ViewOf(s)' = ViewOf(s)
  /\ index'[s] = index[s]

Records(s, e) ==
  /\ log'[s] = Append(log[s], e)
  /\ ViewOf(s)' = Fold(ViewOf(s), e)
  /\ index'[s] = FoldIndex(index[s], ViewOf(s), e)

Erases(s, t) ==
  /\ log'[s] = Append(Redact(log[s]), Mark(t))
  /\ ViewOf(s)' = Fold(ViewOf(s), Mark(t))
  /\ index'[s] = FoldIndex(index[s], ViewOf(s), Mark(t))

Rebuilds(s) ==
  /\ log'[s] = log[s]
  /\ ViewOf(s)' = Replay(log[s])
  /\ index'[s] = IndexOf(Replay(log[s]))

\* The events a step can record without redacting: a pass's own, with a real body,
\* and the lifting of a tombstone.
Recordable ==
  {e \in Event : e.type \in BodyTypes /\ e.body \in Text}
    \union {Mark("SourceUnforgotten")}

Erasing == {"SourceForgotten", "SourceBodyDropped"}

StepOn(s) ==
  \/ Keeps(s)
  \/ \E e \in Recordable : Records(s, e)
  \/ \E t \in Erasing : Erases(s, t)
  \/ Rebuilds(s)

LEMMA KeptStore ==
  ASSUME UNCHANGED store
  PROVE  \A s \in Source : Keeps(s)
BY DEF store, Keeps, ViewOf

LEMMA Steps ==
  ASSUME TypeOK, BodyReady, [Next]_vars
  PROVE  \A s \in Source : StepOn(s)
<1>1. CASE UNCHANGED store
  BY <1>1, KeptStore DEF StepOn
<1>2. ASSUME NEW p \in Sync, RecordSource(p)
      PROVE  \A s \in Source : StepOn(s)
  <2>1. ASSUME NEW s \in Source, NEW t \in BodyTypes, NEW c \in Content, NEW b \in Body,
               b = run[p].rec.body, RecordOver(log[s], s, Ingested(t, c, b))
        PROVE  \A u \in Source : StepOn(u)
    <3> DEFINE e == Ingested(t, c, b)
    <3>1. log[s] \in Seq(Event) /\ e \in Event
      BY IngestedType DEF TypeOK
    <3>2. e \in Recordable
      BY <1>2, <2>1, <3>1 DEF Recordable, Ingested, RecordSource, BodyReady
    <3>3. RecordOver(log[s], s, e)
      BY <2>1
    <3> HIDE DEF e
    <3>4. Records(s, e)
      BY <3>1, <3>3, RecordOverStep DEF Records
    <3>5. \A u \in Source \ {s} : Keeps(u)
      BY <3>1, <3>3, RecordOverStep DEF Keeps
    <3> QED BY <3>2, <3>4, <3>5 DEF StepOn
  <2> QED BY <1>1, <1>2, <2>1, RecordSourceCases
<1>3. ASSUME NEW s \in Source, Forget(s)
      PROVE  \A t \in Source : StepOn(t)
  <2> DEFINE e == Mark("SourceForgotten")
  <2>1. e \in Event /\ Redact(log[s]) \in Seq(Event)
    BY MarkType, RedactType DEF MarkerTypes, TypeOK
  <2>2. RecordOver(Redact(log[s]), s, e)
    BY <1>3 DEF Forget
  <2> HIDE DEF e
  <2>3. Erases(s, "SourceForgotten")
    BY <2>1, <2>2, RecordOverStep DEF Erases, e
  <2>4. \A t \in Source \ {s} : Keeps(t)
    BY <2>1, <2>2, RecordOverStep DEF Keeps
  <2> QED BY <2>3, <2>4 DEF StepOn, Erasing
<1>4. ASSUME NEW s \in Source, Unforget(s)
      PROVE  \A t \in Source : StepOn(t)
  <2> DEFINE e == Mark("SourceUnforgotten")
  <2>1. e \in Event /\ log[s] \in Seq(Event) /\ e \in Recordable
    BY MarkType DEF MarkerTypes, TypeOK, Recordable
  <2>2. RecordOver(log[s], s, e)
    BY <1>4 DEF Unforget
  <2> HIDE DEF e
  <2>3. Records(s, e)
    BY <2>1, <2>2, RecordOverStep DEF Records
  <2>4. \A t \in Source \ {s} : Keeps(t)
    BY <2>1, <2>2, RecordOverStep DEF Keeps
  <2> QED BY <2>1, <2>3, <2>4 DEF StepOn
<1>5. ASSUME RetainDrop
      PROVE  \A s \in Source : StepOn(s)
  <2> DEFINE e == Mark("SourceBodyDropped")
  <2>1. e \in Event /\ e.type = "SourceBodyDropped"
    BY MarkType DEF MarkerTypes
  <2>2. /\ log' = [s \in Source |-> IF s \in sweep THEN Append(Redact(log[s]), e) ELSE log[s]]
        /\ sources' = [s \in Source |-> IF s \in sweep THEN Fold(ViewOf(s), e).row ELSE sources[s]]
        /\ index' = [s \in Source |-> IF s \in sweep
                                      THEN FoldIndex(index[s], ViewOf(s), e) ELSE index[s]]
        /\ forgotten' = forgotten
    BY <1>5 DEF RetainDrop
  <2> TAKE s \in Source
  <2>3. Fold(ViewOf(s), e) = [row |-> Fold(ViewOf(s), e).row, tomb |-> s \in forgotten]
    <3>1. ViewOf(s) \in View /\ ViewOf(s).tomb = (s \in forgotten)
      BY ViewOfType DEF ViewOf
    <3>2. Fold(ViewOf(s), e) = IF ViewOf(s).row = Absent THEN ViewOf(s) ELSE Drop(ViewOf(s))
      BY <2>1 DEF Fold
    <3>3. Fold(ViewOf(s), e) \in View /\ Fold(ViewOf(s), e).tomb = ViewOf(s).tomb
      <4>1. ViewOf(s).row # Absent => Drop(ViewOf(s)).tomb = ViewOf(s).tomb
        BY <3>1, DropIs
      <4> QED BY <2>1, <3>1, <3>2, <4>1, FoldType
    <3> HIDE DEF e
    <3> QED BY <3>1, <3>3 DEF View
  <2> HIDE DEF e
  <2>4. CASE s \in sweep
    <3>1. ViewOf(s)' = Fold(ViewOf(s), e)
      BY <2>2, <2>3, <2>4 DEF ViewOf
    <3>2. Erases(s, "SourceBodyDropped")
      BY <2>2, <2>4, <3>1 DEF Erases, e
    <3> QED BY <3>2 DEF StepOn, Erasing
  <2>5. CASE s \notin sweep
    BY <2>2, <2>5 DEF StepOn, Keeps, ViewOf
  <2> QED BY <2>4, <2>5
<1>6. ASSUME Rebuild
      PROVE  \A s \in Source : StepOn(s)
  <2> TAKE s \in Source
  <2>1. Replay(log[s]) \in View
    BY ReplayType DEF TypeOK
  <2>2. /\ sources'[s] = Replay(log[s]).row
        /\ (s \in forgotten') = Replay(log[s]).tomb
        /\ index'[s] = IndexOf(Replay(log[s]))
        /\ log'[s] = log[s]
    BY <1>6, <2>1 DEF Rebuild, View
  <2>3. ViewOf(s)' = Replay(log[s])
    BY <2>1, <2>2 DEF ViewOf, View
  <2> QED BY <2>2, <2>3 DEF StepOn, Rebuilds
<1>7. UNCHANGED vars => UNCHANGED store
  BY DEF vars, store
<1>8. ASSUME NEW s \in Source, NEW c \in Content, Edit(s, c) PROVE UNCHANGED store
  BY <1>8 DEF Edit, store
<1>9. ASSUME NEW p \in Sync, NEW x, Begin(p, x) PROVE UNCHANGED store
  BY <1>9 DEF Begin, store
<1>10. ASSUME NEW p \in Sync, NEW s \in Source, Skip(p, s) \/ Fetch(p, s)
       PROVE  UNCHANGED store
  BY <1>10 DEF Skip, Fetch, store
<1>11. ASSUME NEW p \in Sync, Extract(p) \/ Finish(p) \/ Die(p) PROVE UNCHANGED store
  BY <1>11 DEF Extract, Finish, Die, store
<1>12. ASSUME NEW s \in Source, ForgetAgain(s) PROVE UNCHANGED store
  BY <1>12 DEF ForgetAgain, store
<1>13. RetainSelect => UNCHANGED store
  BY DEF RetainSelect, store
<1> QED
  BY <1>1, <1>2, <1>3, <1>4, <1>5, <1>6, <1>7, <1>8, <1>9, <1>10, <1>11, <1>12, <1>13
  DEF Next, SyncStep
-----------------------------------------------------------------------------
(***************************************************************************)
(* The invariants of the store, one source at a time.                      *)
(***************************************************************************)

ReplayOf(s) == ViewOf(s) = Replay(log[s])

IndexOK(s) ==
  /\ index[s] # Absent => sources[s] # Absent /\ index[s] = sources[s].body
  /\ sources[s] # Absent => sources[s].body \in {Blank, index[s]}

ErasedOK(s) == sources[s] # Absent /\ sources[s].body = Blank => ~HasBody(log[s])

IInv == /\ TypeOK
        /\ BodyReady
        /\ \A s \in Source : ReplayOf(s) /\ IndexOK(s) /\ ErasedOK(s)

\* What each recordable event does to a view and to its index entry.
LEMMA FoldRecordable ==
  ASSUME NEW v \in View, NEW f, NEW e \in Recordable
  PROVE  \/ /\ Fold(v, e).row = v.row
            /\ FoldIndex(f, v, e) = f
            /\ ~CarriesBody(e) \/ v.row = Absent
         \/ /\ Fold(v, e).row # Absent
            /\ Fold(v, e).row.body \in Text
            /\ FoldIndex(f, v, e) = Fold(v, e).row.body
<1>1. CASE e = Mark("SourceUnforgotten")
  <2>1. e.type = "SourceUnforgotten" /\ ~CarriesBody(e)
    BY <1>1, MarkType DEF MarkerTypes
  <2>2. Fold(v, e) = [v EXCEPT !.tomb = FALSE] /\ FoldIndex(f, v, e) = f
    BY <2>1 DEF Fold, FoldIndex
  <2>3. Fold(v, e).row = v.row
    BY <2>2, ViewExcept
  <2> QED BY <2>1, <2>2, <2>3
<1>2. CASE e \in Event /\ e.type \in BodyTypes /\ e.body \in Text
  <2> DEFINE d == v.row # Absent /\ v.row.dropped
  <2>1. e.fp \in Content
    BY <1>2 DEF Event, BodyEvent, Marker, BodyTypes, MarkerTypes
  <2>2. Store(v, e) = [row |-> [fp |-> e.fp, body |-> e.body, dropped |-> d], tomb |-> v.tomb]
    BY StoreIs, Zenon
  <2>3. d \in BOOLEAN
    OBVIOUS
  <2> HIDE DEF d
  <2>4. [fp |-> e.fp, body |-> e.body, dropped |-> d] \in Row
    BY <1>2, <2>1, <2>3 DEF Row, Body
  <2>5. Store(v, e).row # Absent /\ Store(v, e).row.body = e.body
    BY <2>2, <2>4, SourceEventsAssumption
  <2>6. CASE e.type = "SourceObserved"
    <3>1. Fold(v, e) = Store(v, e) /\ FoldIndex(f, v, e) = e.body
      BY <2>6 DEF Fold, FoldIndex, BodyTypes
    <3> QED BY <1>2, <2>5, <3>1
  <2>7. CASE e.type = "SourceBodyUpdated" /\ v.row = Absent
    <3>1. Fold(v, e) = v /\ FoldIndex(f, v, e) = f
      BY <2>7 DEF Fold, FoldIndex, BodyTypes
    <3> QED BY <2>7, <3>1
  <2>8. CASE e.type = "SourceBodyUpdated" /\ v.row # Absent
    <3>1. Fold(v, e) = Store(v, e) /\ FoldIndex(f, v, e) = e.body
      BY <2>8 DEF Fold, FoldIndex, BodyTypes
    <3> QED BY <1>2, <2>5, <3>1
  <2> QED BY <1>2, <2>6, <2>7, <2>8 DEF BodyTypes
<1> QED BY <1>1, <1>2 DEF Recordable

\* What erasing does: no row is left, or one with the blank body, and no entry.
LEMMA FoldErasing ==
  ASSUME NEW v \in View, NEW f, NEW t \in Erasing
  PROVE  /\ Fold(v, Mark(t)).row # Absent => Fold(v, Mark(t)).row.body = Blank
         /\ FoldIndex(f, v, Mark(t)) = Absent
<1> DEFINE e == Mark(t)
<1>1. e.type = t
  BY DEF Mark
<1>2. v.row # Absent => Drop(v).row.body = Blank
  BY DropIs
<1> HIDE DEF e
<1>3. FoldIndex(f, v, e) = Absent
  BY <1>1 DEF FoldIndex, Erasing, BodyTypes
<1>4. Fold(v, e).row # Absent => Fold(v, e).row.body = Blank
  BY <1>1, <1>2 DEF Fold, Erasing
<1> QED BY <1>3, <1>4 DEF e

LEMMA HasBodyAppend ==
  ASSUME NEW l \in Seq(Event), NEW e \in Event, ~HasBody(l), ~CarriesBody(e)
  PROVE  ~HasBody(Append(l, e))
BY DEF HasBody

LEMMA ReplayStep ==
  ASSUME TypeOK, NEW s \in Source, ReplayOf(s), StepOn(s)
  PROVE  ReplayOf(s)'
<1>1. log[s] \in Seq(Event)
  BY DEF TypeOK
<1>2. CASE Keeps(s)
  BY <1>2 DEF Keeps, ReplayOf
<1>3. ASSUME NEW e \in Recordable, Records(s, e) PROVE ReplayOf(s)'
  <2>1. e \in Event
    BY MarkType DEF Recordable, MarkerTypes
  <2> QED BY <1>1, <1>3, <2>1, ReplayAppend DEF Records, ReplayOf
<1>4. ASSUME NEW t \in Erasing, Erases(s, t) PROVE ReplayOf(s)'
  BY <1>1, <1>4, ErasureReplays DEF Erases, ReplayOf, Erasing
<1>5. CASE Rebuilds(s)
  BY <1>5 DEF Rebuilds, ReplayOf
<1> QED BY <1>2, <1>3, <1>4, <1>5 DEF StepOn

LEMMA IndexStep ==
  ASSUME TypeOK, TypeOK', NEW s \in Source, ReplayOf(s), IndexOK(s), StepOn(s)
  PROVE  IndexOK(s)'
<1> USE SourceEventsAssumption
<1>1. ViewOf(s) \in View /\ ViewOf(s).row = sources[s] /\ ViewOf(s)'.row = sources'[s]
  BY ViewOfType DEF ViewOf
<1>2. CASE Keeps(s)
  BY <1>1, <1>2 DEF Keeps, IndexOK
<1>3. ASSUME NEW e \in Recordable, Records(s, e) PROVE IndexOK(s)'
  <2>1. \/ sources'[s] = sources[s] /\ index'[s] = index[s]
        \/ sources'[s] # Absent /\ index'[s] = sources'[s].body
    BY <1>1, <1>3, FoldRecordable DEF Records
  <2> QED BY <2>1 DEF IndexOK
<1>4. ASSUME NEW t \in Erasing, Erases(s, t) PROVE IndexOK(s)'
  <2>1. index'[s] = Absent /\ (sources'[s] # Absent => sources'[s].body = Blank)
    BY <1>1, <1>4, FoldErasing DEF Erases
  <2> QED BY <2>1 DEF IndexOK
<1>5. CASE Rebuilds(s)
  <2>1. index'[s] = IF sources'[s] = Absent THEN Absent ELSE sources'[s].body
    BY <1>1, <1>5 DEF Rebuilds, IndexOf
  <2> QED BY <2>1 DEF IndexOK
<1> QED BY <1>2, <1>3, <1>4, <1>5 DEF StepOn

LEMMA ErasedStep ==
  ASSUME TypeOK, NEW s \in Source, ReplayOf(s), ErasedOK(s), StepOn(s)
  PROVE  ErasedOK(s)'
<1>1. /\ ViewOf(s) \in View /\ ViewOf(s).row = sources[s] /\ ViewOf(s)'.row = sources'[s]
      /\ log[s] \in Seq(Event)
  BY ViewOfType DEF ViewOf, TypeOK
<1>2. CASE Keeps(s)
  BY <1>1, <1>2 DEF Keeps, ErasedOK
<1>3. ASSUME NEW e \in Recordable, Records(s, e) PROVE ErasedOK(s)'
  <2>1. e \in Event
    BY MarkType DEF Recordable, MarkerTypes
  <2>2. \/ sources'[s] = sources[s] /\ (~CarriesBody(e) \/ sources[s] = Absent)
        \/ sources'[s] # Absent /\ sources'[s].body \in Text
    BY <1>1, <1>3, FoldRecordable DEF Records
  <2>3. log'[s] = Append(log[s], e)
    BY <1>3 DEF Records
  <2> QED BY <1>1, <2>1, <2>2, <2>3, HasBodyAppend, SourceEventsAssumption DEF ErasedOK
<1>4. ASSUME NEW t \in Erasing, Erases(s, t) PROVE ErasedOK(s)'
  <2>1. Mark(t) \in Event /\ ~CarriesBody(Mark(t))
    BY MarkType DEF Erasing, MarkerTypes
  <2>2. ~HasBody(log'[s])
    BY <1>1, <1>4, <2>1, RedactType, HasBodyAppend DEF Erases
  <2> QED BY <2>2 DEF ErasedOK
<1>5. CASE Rebuilds(s)
  <2>1. sources'[s] = sources[s] /\ log'[s] = log[s]
    BY <1>1, <1>5 DEF Rebuilds, ReplayOf
  <2> QED BY <2>1 DEF ErasedOK
<1> QED BY <1>2, <1>3, <1>4, <1>5 DEF StepOn

LEMMA BodyReadyStep == TypeOK /\ BodyReady /\ [Next]_vars => BodyReady'
<1> SUFFICES ASSUME TypeOK, BodyReady, [Next]_vars PROVE BodyReady'
  OBVIOUS
<1>1. CASE UNCHANGED run
  BY <1>1 DEF BodyReady
<1>2. ASSUME NEW p \in Sync, NEW x, Begin(p, x) PROVE BodyReady'
  BY <1>2 DEF Begin, BodyReady, TypeOK
<1>3. ASSUME NEW p \in Sync, NEW s \in Source, Skip(p, s) PROVE BodyReady'
  BY <1>3 DEF Skip, BodyReady, TypeOK, Pass
<1>4. ASSUME NEW p \in Sync, NEW s \in Source, Fetch(p, s) PROVE BodyReady'
  BY <1>4 DEF Fetch, BodyReady, TypeOK, Pass
<1>5. ASSUME NEW p \in Sync, Extract(p) PROVE BodyReady'
  <2>1. run[p] \in Pass /\ run[p].rec \in Record
    BY <1>5 DEF Extract, TypeOK
  <2>2. PICK o \in Outcome(run[p].rec.fp, run[p].rec.src, run[p].ext) :
          run' = [run EXCEPT ![p].pc = "record", ![p].rec.body = o.body]
    BY <1>5 DEF Extract
  <2>3. o.body \in Text
    BY <2>1 DEF Outcome, Name, Extracted, Text, Record
  <2>4. run'[p].rec.body = o.body /\ \A q \in Sync \ {p} : run'[q] = run[q]
    BY <2>1, <2>2 DEF TypeOK, Pass, Record
  <2> QED BY <2>3, <2>4 DEF BodyReady
<1>6. ASSUME NEW p \in Sync, RecordSource(p) PROVE BodyReady'
  <2>1. run' = [run EXCEPT ![p].pc = "scan", ![p].rec = Absent]
    BY <1>6 DEF RecordSource
  <2> QED BY <2>1 DEF BodyReady, TypeOK, Pass
<1>7. ASSUME NEW p \in Sync, Finish(p) \/ Die(p) PROVE BodyReady'
  <2>1. run' = [run EXCEPT ![p] = Idle] /\ Idle.pc = "idle"
    BY <1>7 DEF Finish, Die, Idle
  <2> QED BY <2>1 DEF BodyReady, TypeOK
<1>8. ASSUME NEW s \in Source, NEW c, Edit(s, c) \/ Forget(s) \/ ForgetAgain(s) \/ Unforget(s)
      PROVE  UNCHANGED run
  BY <1>8 DEF Edit, Forget, ForgetAgain, Unforget
<1>9. RetainSelect \/ RetainDrop \/ Rebuild \/ UNCHANGED vars => UNCHANGED run
  BY DEF RetainSelect, RetainDrop, Rebuild, vars
<1> QED
  BY <1>1, <1>2, <1>3, <1>4, <1>5, <1>6, <1>7, <1>8, <1>9 DEF Next, SyncStep

LEMMA InitIInv == Init => IInv
<1> SUFFICES ASSUME Init PROVE IInv
  OBVIOUS
<1>1. BodyReady
  BY DEF Init, BodyReady, Idle
<1>2. ASSUME NEW s \in Source PROVE ReplayOf(s) /\ IndexOK(s) /\ ErasedOK(s)
  <2>1. ViewOf(s) = NoView
    <3>1. sources[s] = Absent /\ (s \in forgotten) = FALSE
      BY DEF Init
    <3> QED BY <3>1, Zenon DEF ViewOf, NoView
  <2>2. ReplayOf(s)
    BY <2>1, ReplayEmpty DEF Init, ReplayOf
  <2> QED BY <2>2 DEF Init, IndexOK, ErasedOK
<1> QED BY <1>1, <1>2, InitType DEF IInv

LEMMA NextIInv == IInv /\ [Next]_vars => IInv'
<1> SUFFICES ASSUME IInv, [Next]_vars PROVE IInv'
  OBVIOUS
<1>1. TypeOK /\ TypeOK' /\ BodyReady /\ BodyReady'
  BY NextType, BodyReadyStep DEF IInv
<1>2. ASSUME NEW s \in Source PROVE ReplayOf(s)' /\ IndexOK(s)' /\ ErasedOK(s)'
  <2>1. StepOn(s) /\ ReplayOf(s) /\ IndexOK(s) /\ ErasedOK(s)
    BY <1>1, Steps DEF IInv
  <2> QED BY <1>1, <2>1, ReplayStep, IndexStep, ErasedStep
<1> QED BY <1>1, <1>2 DEF IInv

LEMMA Invariant == Spec => []IInv
BY InitIInv, NextIInv, PTL DEF Spec

\* Replaying the log, redacted or not, gives the rows and tombstones that live
\* folding left: the rebuild of rebuild.ts changes nothing, under any interleaving.
THEOREM ReplayCorrect == Spec => []ReplayMatches
<1>1. IInv => ReplayMatches
  BY DEF IInv, ReplayMatches, ReplayOf
<1> QED BY <1>1, Invariant, PTL

\* The full-text index and the rows agree, under any interleaving.
THEOREM IndexCorrect == Spec => []IndexMatches
<1>1. IInv => IndexMatches
  BY DEF IInv, IndexMatches, IndexOK
<1> QED BY <1>1, Invariant, PTL

\* A body that retention blanked has no copy left in the log, under any interleaving.
THEOREM ErasureCorrect == Spec => []BlankMeansErased
<1>1. IInv => BlankMeansErased
  BY DEF IInv, BlankMeansErased, ErasedOK
<1> QED BY <1>1, Invariant, PTL
-----------------------------------------------------------------------------
(***************************************************************************)
(* Forgetting, where commands never overlap.                               *)
(***************************************************************************)

\* One thing is in flight at a time, a pass knows the tombstones there are, and
\* what it works on is not forgotten.
Alone ==
  /\ \A p, q \in Sync : run[p].pc # "idle" /\ run[q].pc # "idle" => p = q
  /\ \A p \in Sync : run[p].pc # "idle" => run[p].skip = forgotten /\ sweep = {}
  /\ \A p \in Sync : run[p].pc \in {"extract", "record"} => run[p].rec.src \notin forgotten

FInv == Alone /\ ForgottenStaysAbsent

\* Recording a body leaves every tombstone as it is.
LEMMA RecordBodyKeepsTombs ==
  ASSUME TypeOK, NEW s \in Source, NEW t \in BodyTypes, NEW c \in Content, NEW b \in Body,
         RecordOver(log[s], s, Ingested(t, c, b))
  PROVE  forgotten' = forgotten /\ \A u \in Source \ {s} : /\ log'[u] = log[u]
                                                           /\ sources'[u] = sources[u]
                                                           /\ index'[u] = index[u]
<1> DEFINE e == Ingested(t, c, b)
           v == ViewOf(s)
<1>1. log[s] \in Seq(Event) /\ e \in Event /\ v \in View /\ v.tomb = (s \in forgotten)
  BY IngestedType, ViewOfType DEF TypeOK, ViewOf
<1>2. e.type = t
  BY DEF Ingested
<1> HIDE DEF e
<1> HIDE DEF v
<1>3. Store(v, e).tomb = v.tomb
  <2>1. \E x : Store(v, e) = [row |-> x, tomb |-> v.tomb]
    BY <1>1, StoreIs, Zenon
  <2> QED BY <2>1
<1>4. Fold(v, e).tomb = v.tomb
  BY <1>2, <1>3 DEF Fold, BodyTypes
<1>5. forgotten' = IF Fold(v, e).tomb THEN forgotten \union {s} ELSE forgotten \ {s}
  BY DEF RecordOver, e, v
<1>6. forgotten' = forgotten
  BY <1>1, <1>4, <1>5
<1>7. RecordOver(log[s], s, e)
  BY DEF e
<1> QED BY <1>1, <1>6, <1>7, RecordOverStep

LEMMA InitFInv == Init => FInv
BY DEF Init, FInv, Alone, ForgottenStaysAbsent, Idle

\* A step that starts something finds nothing in flight.
LEMMA QuietStart ==
  ASSUME OneWriter, MayStart
  PROVE  (\A p \in Sync : run[p].pc = "idle") /\ sweep = {}
BY DEF MayStart, Quiet, Idle

LEMMA ForgetStep ==
  ASSUME TypeOK, NEW s \in Source, Forget(s)
  PROVE  /\ forgotten' = forgotten \union {s}
         /\ sources'[s] = Absent /\ index'[s] = Absent /\ xmeta'[s] = Absent
         /\ ~HasBody(log'[s])
         /\ \A u \in Source \ {s} : /\ log'[u] = log[u] /\ sources'[u] = sources[u]
                                    /\ index'[u] = index[u] /\ xmeta'[u] = xmeta[u]
<1> DEFINE e == Mark("SourceForgotten")
<1>1. e \in Event /\ e.type = "SourceForgotten" /\ ~CarriesBody(e)
  BY MarkType DEF MarkerTypes
<1>2. Redact(log[s]) \in Seq(Event) /\ ~HasBody(Redact(log[s]))
  BY RedactType DEF TypeOK
<1>3. RecordOver(Redact(log[s]), s, e)
  BY DEF Forget
<1> HIDE DEF e
<1>4. Fold(ViewOf(s), e) = [row |-> Absent, tomb |-> TRUE] /\ FoldIndex(index[s], ViewOf(s), e) = Absent
  BY <1>1 DEF Fold, FoldIndex, BodyTypes
<1>5. forgotten' = forgotten \union {s}
  BY <1>3, <1>4 DEF RecordOver
<1>6. ViewOf(s)'.row = Absent /\ sources'[s] = ViewOf(s)'.row
  <2>1. ViewOf(s)' = [row |-> Absent, tomb |-> TRUE]
    BY <1>1, <1>2, <1>3, <1>4, RecordOverStep
  <2>2. ViewOf(s)'.row = sources'[s]
    BY DEF ViewOf
  <2> QED BY <2>1, <2>2
<1>7. xmeta'[s] = Absent /\ \A u \in Source \ {s} : xmeta'[u] = xmeta[u]
  BY DEF Forget, TypeOK
<1>8. ~HasBody(log'[s])
  BY <1>1, <1>2, <1>3, RecordOverStep, HasBodyAppend
<1> QED BY <1>1, <1>2, <1>3, <1>4, <1>5, <1>6, <1>7, <1>8, RecordOverStep

LEMMA NextAlone ==
  ASSUME OneWriter, TypeOK, Alone, [Next]_vars
  PROVE  Alone'
<1>1. CASE UNCHANGED <<run, forgotten, sweep>>
  BY <1>1 DEF Alone
<1>2. ASSUME NEW p \in Sync, NEW x, Begin(p, x) PROVE Alone'
  BY <1>2, QuietStart DEF Begin, Alone, TypeOK, store
<1>3. ASSUME NEW p \in Sync, NEW s \in Source, Skip(p, s) PROVE Alone'
  BY <1>3 DEF Skip, Alone, TypeOK, Pass, store
<1>4. ASSUME NEW p \in Sync, NEW s \in Source, Fetch(p, s) PROVE Alone'
  <2>1. run[p].pc = "scan" /\ s \notin run[p].skip /\ UNCHANGED <<forgotten, sweep>>
    BY <1>4 DEF Fetch, Skips, store
  <2>2. /\ run'[p].pc = "extract" /\ run'[p].skip = run[p].skip /\ run'[p].rec.src = s
        /\ \A q \in Sync \ {p} : run'[q] = run[q]
    BY <1>4 DEF Fetch, TypeOK, Pass
  <2> QED BY <2>1, <2>2 DEF Alone
<1>5. ASSUME NEW p \in Sync, Extract(p) PROVE Alone'
  <2>1. run[p] \in Pass /\ run[p].rec \in Record /\ run[p].pc = "extract"
    BY <1>5 DEF Extract, TypeOK
  <2>2. PICK b : run' = [run EXCEPT ![p].pc = "record", ![p].rec.body = b]
    BY <1>5 DEF Extract
  <2>3. /\ run'[p].pc = "record" /\ run'[p].skip = run[p].skip
        /\ run'[p].rec.src = run[p].rec.src
        /\ \A q \in Sync \ {p} : run'[q] = run[q]
    BY <2>1, <2>2 DEF TypeOK, Pass, Record
  <2>4. UNCHANGED <<forgotten, sweep>>
    BY <1>5 DEF Extract, store
  <2> QED BY <2>1, <2>3, <2>4 DEF Alone
<1>6. ASSUME NEW p \in Sync, RecordSource(p) PROVE Alone'
  <2>1. /\ run[p].pc = "record" /\ run'[p].pc = "scan" /\ run'[p].skip = run[p].skip
        /\ \A q \in Sync \ {p} : run'[q] = run[q]
        /\ UNCHANGED sweep
    BY <1>6 DEF RecordSource, TypeOK, Pass
  <2>2. forgotten' = forgotten
    BY <1>6, RecordSourceCases, RecordBodyKeepsTombs DEF store
  <2> QED BY <2>1, <2>2 DEF Alone
<1>7. ASSUME NEW p \in Sync, Finish(p) \/ Die(p) PROVE Alone'
  <2>1. run' = [run EXCEPT ![p] = Idle] /\ Idle.pc = "idle" /\ UNCHANGED <<forgotten, sweep>>
    BY <1>7 DEF Finish, Die, Idle, store
  <2> QED BY <2>1 DEF Alone, TypeOK
<1>8. ASSUME NEW s \in Source, Forget(s) \/ Unforget(s) PROVE Alone'
  <2>1. MayStart /\ UNCHANGED <<run, sweep>>
    BY <1>8 DEF Forget, Unforget
  <2> QED BY <2>1, QuietStart DEF Alone
<1>9. CASE RetainSelect \/ Rebuild
  <2>1. MayStart /\ UNCHANGED run
    BY <1>9 DEF RetainSelect, Rebuild
  <2> QED BY <2>1, QuietStart DEF Alone
<1>10. CASE RetainDrop
  <2>1. sweep # {} /\ UNCHANGED <<run, forgotten>>
    BY <1>10 DEF RetainDrop
  <2> QED BY <2>1 DEF Alone
<1>11. ASSUME NEW s \in Source, NEW c, Edit(s, c) \/ ForgetAgain(s)
       PROVE  UNCHANGED <<run, forgotten, sweep>>
  BY <1>11 DEF Edit, ForgetAgain, store
<1>12. UNCHANGED vars => UNCHANGED <<run, forgotten, sweep>>
  BY DEF vars
<1> QED
  BY <1>1, <1>2, <1>3, <1>4, <1>5, <1>6, <1>7, <1>8, <1>9, <1>10, <1>11, <1>12
  DEF Next, SyncStep

LEMMA NextForgotten ==
  ASSUME OneWriter, TypeOK, IInv, Alone, ForgottenStaysAbsent, [Next]_vars
  PROVE  ForgottenStaysAbsent'
<1>1. ASSUME UNCHANGED store, \A s \in forgotten : xmeta'[s] = xmeta[s]
      PROVE  ForgottenStaysAbsent'
  BY <1>1 DEF ForgottenStaysAbsent, store
<1>2. ASSUME NEW p \in Sync, Extract(p)
      PROVE  UNCHANGED store /\ \A s \in forgotten : xmeta'[s] = xmeta[s]
  <2>1. UNCHANGED store /\ run[p].rec.src \notin forgotten
    BY <1>2 DEF Extract, Alone
  <2>2. PICK x : xmeta' = xmeta \/ xmeta' = [xmeta EXCEPT ![run[p].rec.src] = x]
    BY <1>2 DEF Extract
  <2> QED BY <2>1, <2>2 DEF TypeOK
<1>3. ASSUME NEW p \in Sync, RecordSource(p) PROVE ForgottenStaysAbsent'
  <2>1. run[p].rec.src \notin forgotten /\ UNCHANGED xmeta
    BY <1>3 DEF RecordSource, Alone
  <2>2. ASSUME NEW s \in Source, NEW t \in BodyTypes, NEW c \in Content, NEW b \in Body,
               s \notin forgotten, RecordOver(log[s], s, Ingested(t, c, b))
        PROVE  ForgottenStaysAbsent'
    <3>1. forgotten' = forgotten /\ forgotten \subseteq Source \ {s}
      BY <2>2, RecordBodyKeepsTombs DEF TypeOK
    <3>2. \A u \in Source \ {s} : /\ log'[u] = log[u] /\ sources'[u] = sources[u]
                                  /\ index'[u] = index[u]
      BY <2>2, RecordBodyKeepsTombs
    <3> QED BY <2>1, <3>1, <3>2 DEF ForgottenStaysAbsent
  <2> QED BY <1>1, <1>3, <2>1, <2>2, RecordSourceCases
<1>4. ASSUME NEW s \in Source, Forget(s) PROVE ForgottenStaysAbsent'
  <2>1. /\ forgotten' = forgotten \union {s}
        /\ sources'[s] = Absent /\ index'[s] = Absent /\ xmeta'[s] = Absent
        /\ ~HasBody(log'[s])
        /\ \A u \in Source \ {s} : /\ log'[u] = log[u] /\ sources'[u] = sources[u]
                                   /\ index'[u] = index[u] /\ xmeta'[u] = xmeta[u]
    BY <1>4, ForgetStep
  <2>2. forgotten \subseteq Source
    BY DEF TypeOK
  <2> QED BY <2>1, <2>2, Zenon DEF ForgottenStaysAbsent
<1>5. ASSUME NEW s \in Source, Unforget(s) PROVE ForgottenStaysAbsent'
  <2> DEFINE e == Mark("SourceUnforgotten")
  <2>1. e \in Event /\ e.type = "SourceUnforgotten" /\ log[s] \in Seq(Event)
    BY MarkType DEF MarkerTypes, TypeOK
  <2>2. RecordOver(log[s], s, e) /\ UNCHANGED xmeta
    BY <1>5 DEF Unforget
  <2> HIDE DEF e
  <2>3. Fold(ViewOf(s), e).tomb = FALSE
    <3>1. Fold(ViewOf(s), e) = [ViewOf(s) EXCEPT !.tomb = FALSE]
      BY <2>1 DEF Fold
    <3> QED BY <3>1, ViewOfType, ViewExcept
  <2>4. forgotten' = forgotten \ {s}
    BY <2>2, <2>3 DEF RecordOver
  <2>5. \A u \in Source \ {s} : /\ log'[u] = log[u] /\ sources'[u] = sources[u]
                                /\ index'[u] = index[u]
    BY <2>1, <2>2, RecordOverStep
  <2> QED BY <2>2, <2>4, <2>5 DEF ForgottenStaysAbsent, TypeOK
<1>6. ASSUME RetainDrop PROVE ForgottenStaysAbsent'
  <2> SUFFICES ASSUME NEW s \in forgotten
               PROVE  sources'[s] = Absent /\ index'[s] = Absent /\ xmeta'[s] = Absent /\ ~HasBody(log'[s])
    BY <1>6 DEF RetainDrop, ForgottenStaysAbsent
  <2> DEFINE e == Mark("SourceBodyDropped")
  <2>1. s \in Source /\ sources[s] = Absent /\ index[s] = Absent /\ xmeta'[s] = Absent
        /\ ~HasBody(log[s]) /\ log[s] \in Seq(Event)
    BY <1>6 DEF RetainDrop, ForgottenStaysAbsent, TypeOK
  <2>2. e \in Event /\ e.type = "SourceBodyDropped" /\ ~CarriesBody(e)
    BY MarkType DEF MarkerTypes
  <2>3. Redact(log[s]) \in Seq(Event) /\ ~HasBody(Redact(log[s]))
    BY <2>1, RedactType
  <2>4. /\ log'[s] = IF s \in sweep THEN Append(Redact(log[s]), e) ELSE log[s]
        /\ sources'[s] = IF s \in sweep THEN Fold(ViewOf(s), e).row ELSE sources[s]
        /\ index'[s] = IF s \in sweep THEN FoldIndex(index[s], ViewOf(s), e) ELSE index[s]
    BY <1>6, <2>1 DEF RetainDrop
  <2> HIDE DEF e
  <2>5. Fold(ViewOf(s), e).row = Absent /\ FoldIndex(index[s], ViewOf(s), e) = Absent
    <3>1. ViewOf(s).row = Absent
      BY <2>1 DEF ViewOf
    <3> QED BY <2>2, <3>1 DEF Fold, FoldIndex, BodyTypes
  <2> QED BY <2>1, <2>2, <2>3, <2>4, <2>5, HasBodyAppend
<1>7. ASSUME Rebuild PROVE ForgottenStaysAbsent'
  <2> SUFFICES ASSUME NEW s \in forgotten'
               PROVE  sources'[s] = Absent /\ index'[s] = Absent /\ xmeta'[s] = Absent /\ ~HasBody(log'[s])
    BY DEF ForgottenStaysAbsent
  <2>1. s \in Source /\ Replay(log[s]).tomb /\ Replay(log[s]) = ViewOf(s)
    BY <1>7 DEF Rebuild, IInv, ReplayOf
  <2>2. s \in forgotten
    <3>1. ViewOf(s).tomb = (s \in forgotten)
      BY Zenon DEF ViewOf
    <3> QED BY <2>1, <3>1
  <2>3. Replay(log[s]).row = Absent
    BY <2>1, <2>2 DEF ViewOf, ForgottenStaysAbsent
  <2> QED BY <1>7, <2>1, <2>2, <2>3 DEF Rebuild, IndexOf, ForgottenStaysAbsent
<1>8. ASSUME NEW p \in Sync, NEW x, NEW s \in Source,
             Begin(p, x) \/ Skip(p, s) \/ Fetch(p, s)
      PROVE  UNCHANGED <<store, xmeta>>
  BY <1>8 DEF Begin, Skip, Fetch
<1>9. ASSUME NEW p \in Sync, Finish(p) \/ Die(p) PROVE UNCHANGED <<store, xmeta>>
  BY <1>9 DEF Finish, Die
<1>10. ASSUME NEW s \in Source, NEW c, Edit(s, c) \/ ForgetAgain(s)
       PROVE  UNCHANGED <<store, xmeta>>
  BY <1>10 DEF Edit, ForgetAgain
<1>11. RetainSelect \/ UNCHANGED vars => UNCHANGED <<store, xmeta>>
  BY DEF RetainSelect, vars, store
<1>12. UNCHANGED <<store, xmeta>> => ForgottenStaysAbsent'
  BY <1>1
<1>13. ASSUME NEW p \in Sync, NEW x, Begin(p, x) PROVE UNCHANGED <<store, xmeta>>
  BY <1>13 DEF Begin
<1> QED
  BY <1>1, <1>2, <1>3, <1>4, <1>5, <1>6, <1>7, <1>8, <1>9, <1>10, <1>11, <1>12, <1>13
  DEF Next, SyncStep

\* Where commands never overlap, a forgotten source has no row, no index entry, no
\* extraction provenance and no body in the log until it is unforgotten, however many
\* sources, passes, crashes, retention runs and rebuilds there are.
THEOREM ForgetCorrect == OneWriter => (Spec => []ForgottenStaysAbsent)
<1> SUFFICES ASSUME OneWriter PROVE Spec => []ForgottenStaysAbsent
  OBVIOUS
<1> DEFINE Inv == IInv /\ FInv
<1>1. Init => Inv
  BY InitIInv, InitFInv
<1>2. Inv /\ [Next]_vars => Inv'
  <2> SUFFICES ASSUME Inv, [Next]_vars PROVE Inv'
    OBVIOUS
  <2>1. TypeOK
    BY DEF IInv
  <2>2. IInv'
    BY NextIInv
  <2>3. FInv'
    BY <2>1, NextAlone, NextForgotten DEF FInv
  <2> QED BY <2>2, <2>3
<1>3. Inv => ForgottenStaysAbsent
  BY DEF FInv
<1> HIDE DEF Inv
<1> QED BY <1>1, <1>2, <1>3, PTL DEF Spec
-----------------------------------------------------------------------------
(***************************************************************************)
(* The store implements SourceMemory, where commands never overlap.  Three *)
(* facts are needed beside the invariants above: the delta decision of a   *)
(* pass is still true when it records, the candidates of a retention run   *)
(* are still expired when it drops them, and the log remembers what became *)
(* of a source that has no row.                                            *)
(***************************************************************************)

Working ==
  \A p \in Sync : run[p].pc \in {"extract", "record"} =>
                    run[p].rec.prior = Fingerprint(run[p].rec.src)

SweepOK == sweep \subseteq Expired

LogOK(s) ==
  s \in forgotten \/ (sources[s] = Absent /\ EverLogged(log[s], BodyTypes)) => EverForgotten(s)

MInv == Working /\ SweepOK /\ \A s \in Source : LogOK(s)

LEMMA EverLoggedAppend ==
  ASSUME NEW l \in Seq(Event), NEW e \in Event, NEW T
  PROVE  EverLogged(Append(l, e), T) <=> EverLogged(l, T) \/ e.type \in T
<1> DEFINE k == Append(l, e)
<1>1. /\ DOMAIN k = DOMAIN l \union {Len(l) + 1}
      /\ k[Len(l) + 1] = e
      /\ \A i \in DOMAIN l : k[i] = l[i]
  OBVIOUS
<1> HIDE DEF k
<1>2. EverLogged(k, T) <=> EverLogged(l, T) \/ e.type \in T
  BY <1>1 DEF EverLogged
<1> QED BY <1>2 DEF k

LEMMA EverLoggedRedact ==
  ASSUME NEW l \in Seq(Event), NEW T
  PROVE  EverLogged(Redact(l), T) <=> EverLogged(l, T)
<1>1. \A e \in Event : RedactEvent(e).type = e.type
  <2> TAKE e \in Event
  <2>1. CASE e \in BodyEvent
    BY <2>1 DEF BodyEvent, RedactEvent
  <2>2. CASE e \in Marker
    BY <2>2 DEF Marker, RedactEvent, BodyTypes, MarkerTypes
  <2> QED BY <2>1, <2>2 DEF Event
<1>2. /\ DOMAIN Redact(l) = DOMAIN l
      /\ \A i \in DOMAIN l : l[i] \in Event /\ Redact(l)[i] = RedactEvent(l[i])
  BY DEF Redact
<1> QED BY <1>1, <1>2 DEF EverLogged
-----------------------------------------------------------------------------
\* A pass records a new source, or a new version of a source that still has its row.
IngestsOf(s) ==
  \E e \in Recordable :
    /\ e.type \in BodyTypes
    /\ s \notin forgotten
    /\ e.type = "SourceObserved" \/ sources[s] # Absent
    /\ Records(s, e)

ForgetsOf(s) ==
  /\ EverLogged(log[s], BodyTypes)
  /\ ~EverForgotten(s) \/ sources[s] # Absent
  /\ Erases(s, "SourceForgotten")

UnforgetsOf(s) ==
  /\ s \in forgotten
  /\ Records(s, Mark("SourceUnforgotten"))

DropsOf(C) ==
  /\ C # {} /\ C \subseteq Expired
  /\ \A s \in C : Erases(s, "SourceBodyDropped")
  /\ \A s \in Source \ C : Keeps(s)

\* The steps again, with what is true of them when nothing overlaps.
StoreStep ==
  \/ \A s \in Source : Keeps(s)
  \/ \A s \in Source : Rebuilds(s)
  \/ \E s \in Source : /\ IngestsOf(s) \/ ForgetsOf(s) \/ UnforgetsOf(s)
                       /\ \A u \in Source \ {s} : Keeps(u)
  \/ \E C \in SUBSET Source : DropsOf(C)

LEMMA StoreSteps ==
  ASSUME OneWriter, IInv, FInv, MInv, [Next]_vars
  PROVE  StoreStep
<1> USE DEF IInv, FInv, MInv
<1>1. ASSUME NEW p \in Sync, RecordSource(p) PROVE StoreStep
  <2>1. /\ run[p].rec \in Record /\ run[p].rec.body \in Text
        /\ run[p].rec.src \notin forgotten
        /\ run[p].rec.prior = Fingerprint(run[p].rec.src)
    BY <1>1 DEF RecordSource, TypeOK, BodyReady, Alone, Working
  <2>2. PICK s \in Source, c \in Content, b \in Text :
           s = run[p].rec.src /\ c = run[p].rec.fp /\ b = run[p].rec.body
    BY <2>1 DEF Record
  <2>3. \/ UNCHANGED store
        \/ RecordOver(log[s], s, Ingested("SourceObserved", c, b))
        \/ /\ run[p].rec.prior # Absent
           /\ RecordOver(log[s], s, Ingested("SourceBodyUpdated", c, b))
    BY <1>1, <2>2, Zenon DEF RecordSource
  <2>4. ASSUME NEW t \in BodyTypes, t = "SourceObserved" \/ sources[s] # Absent,
               RecordOver(log[s], s, Ingested(t, c, b))
        PROVE  StoreStep
    <3> DEFINE e == Ingested(t, c, b)
    <3>1. log[s] \in Seq(Event) /\ e \in Event /\ e.type = t /\ e.body \in Text
      BY IngestedType DEF TypeOK, Ingested, Body
    <3>2. RecordOver(log[s], s, e)
      BY <2>4
    <3> HIDE DEF e
    <3>3. Records(s, e) /\ \A u \in Source \ {s} : Keeps(u)
      BY <3>1, <3>2, RecordOverStep DEF Records, Keeps
    <3>4. e \in Recordable
      BY <3>1 DEF Recordable
    <3>5. IngestsOf(s)
      BY <2>1, <2>2, <2>4, <3>1, <3>3, <3>4 DEF IngestsOf
    <3> QED BY <3>3, <3>5 DEF StoreStep
  <2>5. run[p].rec.prior # Absent => sources[s] # Absent
    BY <2>1, <2>2 DEF Fingerprint
  <2>6. UNCHANGED store => StoreStep
    BY KeptStore DEF StoreStep
  <2> QED BY <2>3, <2>4, <2>5, <2>6 DEF BodyTypes
<1>2. ASSUME NEW s \in Source, Forget(s) PROVE StoreStep
  <2> DEFINE e == Mark("SourceForgotten")
  <2>1. e \in Event /\ Redact(log[s]) \in Seq(Event)
    BY MarkType, RedactType DEF MarkerTypes, TypeOK
  <2>2. /\ RecordOver(Redact(log[s]), s, e)
        /\ EverLogged(log[s], BodyTypes)
        /\ ~EverForgotten(s) \/ sources[s] # Absent
    BY <1>2 DEF Forget
  <2> HIDE DEF e
  <2>3. Erases(s, "SourceForgotten")
    BY <2>1, <2>2, RecordOverStep DEF Erases, e
  <2>4. \A t \in Source \ {s} : Keeps(t)
    BY <2>1, <2>2, RecordOverStep DEF Keeps
  <2> QED BY <2>2, <2>3, <2>4 DEF StoreStep, ForgetsOf
<1>3. ASSUME NEW s \in Source, Unforget(s) PROVE StoreStep
  <2> DEFINE e == Mark("SourceUnforgotten")
  <2>1. e \in Event /\ log[s] \in Seq(Event)
    BY MarkType DEF MarkerTypes, TypeOK
  <2>2. RecordOver(log[s], s, e) /\ s \in forgotten
    BY <1>3 DEF Unforget
  <2> HIDE DEF e
  <2>3. Records(s, Mark("SourceUnforgotten"))
    BY <2>1, <2>2, RecordOverStep DEF Records, e
  <2>4. \A t \in Source \ {s} : Keeps(t)
    BY <2>1, <2>2, RecordOverStep DEF Keeps
  <2> QED BY <2>2, <2>3, <2>4 DEF StoreStep, UnforgetsOf
<1>4. ASSUME RetainDrop PROVE StoreStep
  <2>1. sweep # {} /\ sweep \subseteq Expired /\ sweep \in SUBSET Source
    BY <1>4 DEF RetainDrop, SweepOK, TypeOK
  <2>2. ASSUME NEW s \in sweep PROVE Erases(s, "SourceBodyDropped")
    <3> DEFINE e == Mark("SourceBodyDropped")
    <3>1. e \in Event /\ e.type = "SourceBodyDropped" /\ s \in Source
      BY <2>1, MarkType DEF MarkerTypes
    <3>2. /\ log'[s] = Append(Redact(log[s]), e)
          /\ sources'[s] = Fold(ViewOf(s), e).row
          /\ index'[s] = FoldIndex(index[s], ViewOf(s), e)
          /\ forgotten' = forgotten
      BY <1>4, <2>2, <3>1 DEF RetainDrop
    <3>3. ViewOf(s) \in View /\ ViewOf(s).tomb = (s \in forgotten)
      BY <3>1, ViewOfType DEF ViewOf
    <3>4. Fold(ViewOf(s), e) = IF ViewOf(s).row = Absent THEN ViewOf(s) ELSE Drop(ViewOf(s))
      BY <3>1 DEF Fold
    <3> HIDE DEF e
    <3>5. Fold(ViewOf(s), e) \in View /\ Fold(ViewOf(s), e).tomb = ViewOf(s).tomb
      <4>1. ViewOf(s).row # Absent => Drop(ViewOf(s)).tomb = ViewOf(s).tomb
        BY <3>3, DropIs
      <4> QED BY <3>1, <3>3, <3>4, <4>1, FoldType
    <3>6. Fold(ViewOf(s), e) = [row |-> Fold(ViewOf(s), e).row, tomb |-> s \in forgotten]
      BY <3>3, <3>5 DEF View
    <3>7. ViewOf(s)' = Fold(ViewOf(s), e)
      BY <3>2, <3>6 DEF ViewOf
    <3> QED BY <3>2, <3>7 DEF Erases, e
  <2>3. \A s \in Source \ sweep : Keeps(s)
    BY <1>4 DEF RetainDrop, Keeps, ViewOf
  <2>4. DropsOf(sweep)
    BY <2>1, <2>2, <2>3 DEF DropsOf
  <2> QED BY <2>1, <2>4 DEF StoreStep
<1>5. ASSUME Rebuild PROVE StoreStep
  <2>1. ASSUME NEW s \in Source PROVE Rebuilds(s)
    <3>1. Replay(log[s]) \in View
      BY ReplayType DEF TypeOK
    <3>2. /\ sources'[s] = Replay(log[s]).row
          /\ (s \in forgotten') = Replay(log[s]).tomb
          /\ index'[s] = IndexOf(Replay(log[s]))
          /\ log'[s] = log[s]
      BY <1>5, <3>1 DEF Rebuild, View
    <3>3. ViewOf(s)' = Replay(log[s])
      BY <3>1, <3>2 DEF ViewOf, View
    <3> QED BY <3>2, <3>3 DEF Rebuilds
  <2> QED BY <2>1 DEF StoreStep
<1>6. UNCHANGED store => StoreStep
  BY KeptStore DEF StoreStep
<1>7. ASSUME NEW p \in Sync, NEW x, Begin(p, x) PROVE UNCHANGED store
  BY <1>7 DEF Begin
<1>8. ASSUME NEW p \in Sync, NEW s \in Source, NEW c,
             Skip(p, s) \/ Fetch(p, s) \/ ForgetAgain(s) \/ Edit(s, c)
      PROVE  UNCHANGED store
  BY <1>8 DEF Skip, Fetch, ForgetAgain, Edit
<1>9. ASSUME NEW s \in Source, NEW c, ForgetAgain(s) \/ Edit(s, c) PROVE UNCHANGED store
  BY <1>9 DEF ForgetAgain, Edit
<1>10. ASSUME NEW p \in Sync, Extract(p) \/ Finish(p) \/ Die(p) PROVE UNCHANGED store
  BY <1>10 DEF Extract, Finish, Die
<1>11. RetainSelect \/ UNCHANGED vars => UNCHANGED store
  BY DEF RetainSelect, vars, store
<1> QED
  BY <1>1, <1>2, <1>3, <1>4, <1>5, <1>6, <1>7, <1>8, <1>9, <1>10, <1>11 DEF Next, SyncStep

LEMMA NextWorking ==
  ASSUME OneWriter, IInv, FInv, MInv, [Next]_vars
  PROVE  Working' /\ SweepOK'
<1> USE DEF IInv, FInv, MInv
<1>1. CASE UNCHANGED <<sources, run, sweep>>
  BY <1>1 DEF Working, SweepOK, Fingerprint, Expired
<1>2. ASSUME NEW p \in Sync, NEW x, Begin(p, x) PROVE Working' /\ SweepOK'
  BY <1>2 DEF Begin, store, Working, SweepOK, Fingerprint, Expired, TypeOK
<1>3. ASSUME NEW p \in Sync, NEW s \in Source, Skip(p, s) PROVE Working' /\ SweepOK'
  BY <1>3 DEF Skip, store, Working, SweepOK, Fingerprint, Expired, TypeOK, Pass
<1>4. ASSUME NEW p \in Sync, NEW s \in Source, Fetch(p, s) PROVE Working' /\ SweepOK'
  <2>1. UNCHANGED <<sources, sweep>>
    BY <1>4 DEF Fetch, store
  <2>2. /\ run'[p].rec.src = s /\ run'[p].rec.prior = Fingerprint(s)
        /\ \A q \in Sync \ {p} : run'[q] = run[q]
    BY <1>4 DEF Fetch, TypeOK, Pass
  <2> QED BY <2>1, <2>2 DEF Working, SweepOK, Fingerprint, Expired
<1>5. ASSUME NEW p \in Sync, Extract(p) PROVE Working' /\ SweepOK'
  <2>1. run[p] \in Pass /\ run[p].rec \in Record /\ run[p].pc = "extract"
    BY <1>5 DEF Extract, TypeOK
  <2>2. PICK b : run' = [run EXCEPT ![p].pc = "record", ![p].rec.body = b]
    BY <1>5 DEF Extract
  <2>3. /\ run'[p].rec.src = run[p].rec.src /\ run'[p].rec.prior = run[p].rec.prior
        /\ \A q \in Sync \ {p} : run'[q] = run[q]
    BY <2>1, <2>2 DEF TypeOK, Pass, Record
  <2>4. UNCHANGED <<sources, sweep>>
    BY <1>5 DEF Extract, store
  <2> QED BY <2>1, <2>3, <2>4 DEF Working, SweepOK, Fingerprint, Expired
<1>6. ASSUME NEW p \in Sync, RecordSource(p) PROVE Working' /\ SweepOK'
  <2>1. /\ run[p].pc = "record" /\ run'[p].pc = "scan" /\ UNCHANGED sweep
        /\ \A q \in Sync \ {p} : run'[q] = run[q]
    BY <1>6 DEF RecordSource, TypeOK, Pass
  <2>2. sweep = {} /\ \A q \in Sync \ {p} : run[q].pc = "idle"
    BY <2>1 DEF Alone
  <2> QED BY <2>1, <2>2 DEF Working, SweepOK
<1>7. ASSUME NEW p \in Sync, Finish(p) \/ Die(p) PROVE Working' /\ SweepOK'
  <2>1. run' = [run EXCEPT ![p] = Idle] /\ Idle.pc = "idle" /\ UNCHANGED <<sources, sweep>>
    BY <1>7 DEF Finish, Die, Idle, store
  <2> QED BY <2>1 DEF Working, SweepOK, Fingerprint, Expired, TypeOK
<1>8. ASSUME NEW s \in Source, Forget(s) \/ Unforget(s) \/ Rebuild PROVE Working' /\ SweepOK'
  <2>1. MayStart /\ UNCHANGED <<run, sweep>>
    BY <1>8 DEF Forget, Unforget, Rebuild
  <2> QED BY <2>1, QuietStart DEF Working, SweepOK
<1>9. CASE RetainSelect
  <2>1. sweep' = Expired /\ UNCHANGED <<sources, run>>
    BY <1>9 DEF RetainSelect, store
  <2> QED BY <2>1 DEF Working, SweepOK, Fingerprint, Expired
<1>10. CASE RetainDrop
  <2>1. sweep # {} /\ sweep' = {} /\ UNCHANGED run
    BY <1>10 DEF RetainDrop
  <2> QED BY <2>1 DEF Working, SweepOK, Alone
<1>11. ASSUME NEW s \in Source, NEW c, Edit(s, c) \/ ForgetAgain(s)
       PROVE  UNCHANGED <<sources, run, sweep>>
  BY <1>11 DEF Edit, ForgetAgain, store
<1>12. UNCHANGED vars => UNCHANGED <<sources, run, sweep>>
  BY DEF vars
<1>13. CASE Rebuild
  <2>1. MayStart /\ UNCHANGED <<run, sweep>>
    BY <1>13 DEF Rebuild
  <2> QED BY <2>1, QuietStart DEF Working, SweepOK
<1> QED
  BY <1>1, <1>2, <1>3, <1>4, <1>5, <1>6, <1>7, <1>8, <1>9, <1>10, <1>11, <1>12, <1>13
  DEF Next, SyncStep
-----------------------------------------------------------------------------
(***************************************************************************)
(* What a step does to the status, the text and the age of one source.     *)
(***************************************************************************)

Recent(s) == sources[s] # Absent /\ sources[s].fp \notin OldContent

Same(s) ==
  /\ StatusOf(s)' = StatusOf(s)
  /\ HoldsText(s)' <=> HoldsText(s)
  /\ Recent(s)' <=> Recent(s)

\* The text in terms of the row and the log, where the index agrees with the row.
LEMMA TextIs ==
  ASSUME NEW s \in Source
  PROVE  /\ IndexOK(s) => (HoldsText(s) <=> \/ sources[s] # Absent /\ sources[s].body # Blank
                                            \/ HasBody(log[s]))
         /\ IndexOK(s)' => (HoldsText(s)' <=> \/ sources'[s] # Absent /\ sources'[s].body # Blank
                                              \/ HasBody(log'[s]))
BY DEF HoldsText, IndexOK

LEMMA ViewParts ==
  ASSUME NEW s
  PROVE  /\ ViewOf(s).row = sources[s] /\ ViewOf(s).tomb = (s \in forgotten)
         /\ ViewOf(s)'.row = sources'[s] /\ ViewOf(s)'.tomb = (s \in forgotten')
BY Zenon DEF ViewOf

LEMMA ViewNext ==
  ASSUME NEW s, NEW r, NEW t \in BOOLEAN, ViewOf(s)' = [row |-> r, tomb |-> t]
  PROVE  sources'[s] = r /\ (s \in forgotten' <=> t)
<1>1. ViewOf(s)'.row = r /\ ViewOf(s)'.tomb = t
  OBVIOUS
<1>2. sources'[s] = r
  BY <1>1, ViewParts
<1>3. (s \in forgotten') = t
  BY <1>1, ViewParts, Zenon
<1> QED BY <1>2, <1>3

LEMMA KeepsSame ==
  ASSUME TypeOK, TypeOK', NEW s \in Source, IndexOK(s), IndexOK(s)', ReplayOf(s),
         Keeps(s) \/ Rebuilds(s)
  PROVE  Same(s) /\ (LogOK(s) => LogOK(s)')
<1>1. ViewOf(s)' = ViewOf(s) /\ log'[s] = log[s]
  BY DEF Keeps, Rebuilds, ReplayOf
<1>2. sources'[s] = sources[s] /\ (s \in forgotten') = (s \in forgotten)
  BY <1>1, ViewParts
<1>3. StatusOf(s)' = StatusOf(s)
  BY <1>2, Zenon DEF StatusOf
<1>4. HoldsText(s)' <=> HoldsText(s)
  BY <1>1, <1>2, TextIs
<1>5. Recent(s)' <=> Recent(s)
  BY <1>2 DEF Recent
<1>6. LogOK(s) => LogOK(s)'
  BY <1>1, <1>2, Zenon DEF LogOK, EverForgotten
<1> QED BY <1>3, <1>4, <1>5, <1>6 DEF Same

LEMMA IngestEffect ==
  ASSUME TypeOK, TypeOK', NEW s \in Source, IndexOK(s)', IngestsOf(s)
  PROVE  /\ StatusOf(s) # "purged" /\ StatusOf(s)' = "held" /\ HoldsText(s)'
         /\ LogOK(s)'
<1>1. PICK e \in Recordable : /\ e.type \in BodyTypes
                              /\ s \notin forgotten
                              /\ e.type = "SourceObserved" \/ sources[s] # Absent
                              /\ Records(s, e)
  BY DEF IngestsOf
<1>2. e \in Event /\ e.body \in Text /\ e.fp \in Content
  BY <1>1, MarkType DEF Recordable, MarkerTypes, BodyTypes, Event, BodyEvent, Marker
<1>3. ViewOf(s) \in View /\ ViewOf(s)' = Store(ViewOf(s), e)
  BY <1>1, ViewOfType, ViewParts DEF Records, Fold, BodyTypes
<1> DEFINE d == ViewOf(s).row # Absent /\ ViewOf(s).row.dropped
<1>4. ViewOf(s)' = [row |-> [fp |-> e.fp, body |-> e.body, dropped |-> d], tomb |-> ViewOf(s).tomb]
  BY <1>3, StoreIs, Zenon
<1> HIDE DEF d
<1>5. sources'[s] = [fp |-> e.fp, body |-> e.body, dropped |-> d] /\ (s \in forgotten') = (s \in forgotten)
  BY <1>4, ViewParts
<1>6. sources'[s] # Absent /\ sources'[s].body \in Text
  <2>1. d \in BOOLEAN
    BY DEF d
  <2>2. sources'[s] \in Row /\ sources'[s].body = e.body
    BY <1>2, <1>5, <2>1 DEF Row, Body
  <2> QED BY <1>2, <2>2, SourceEventsAssumption
<1>7. StatusOf(s) # "purged" /\ StatusOf(s)' = "held"
  BY <1>1, <1>5, <1>6, SourceEventsAssumption DEF StatusOf
<1>8. HoldsText(s)'
  BY <1>6, TextIs, SourceEventsAssumption
<1>9. LogOK(s)'
  BY <1>1, <1>5, <1>6 DEF LogOK
<1> QED BY <1>7, <1>8, <1>9

LEMMA ForgetEffect ==
  ASSUME TypeOK, NEW s \in Source, IndexOK(s)', LogOK(s), ForgetsOf(s),
         s \in forgotten => sources[s] = Absent
  PROVE  /\ StatusOf(s) \in {"held", "blanked"} /\ StatusOf(s)' = "purged"
         /\ ~HoldsText(s)' /\ ~Recent(s)' /\ LogOK(s)'
<1> DEFINE e == Mark("SourceForgotten")
<1>1. e \in Event /\ e.type = "SourceForgotten" /\ ~CarriesBody(e)
  BY MarkType DEF MarkerTypes
<1>2. log[s] \in Seq(Event) /\ Redact(log[s]) \in Seq(Event) /\ ~HasBody(Redact(log[s]))
  BY RedactType DEF TypeOK
<1>3. log'[s] = Append(Redact(log[s]), e) /\ ViewOf(s)' = Fold(ViewOf(s), e)
  BY DEF ForgetsOf, Erases
<1> HIDE DEF e
<1>4. ViewOf(s)' = [row |-> Absent, tomb |-> TRUE]
  BY <1>1, <1>3 DEF Fold
<1>5. sources'[s] = Absent /\ s \in forgotten'
  BY <1>4, ViewNext
<1>6. StatusOf(s)' = "purged" /\ ~Recent(s)'
  BY <1>5 DEF StatusOf, Recent
<1>7. ~HoldsText(s)'
  BY <1>1, <1>2, <1>3, <1>5, HasBodyAppend, TextIs
<1>8. LogOK(s)'
  <2>1. EverLogged(log'[s], {"SourceForgotten"})
    BY <1>1, <1>2, <1>3, EverLoggedAppend
  <2> QED BY <2>1 DEF LogOK, EverForgotten
<1>9. StatusOf(s) \in {"held", "blanked"}
  <2>1. sources[s] # Absent
    BY DEF ForgetsOf, LogOK
  <2> QED BY <2>1 DEF StatusOf
<1> QED BY <1>6, <1>7, <1>8, <1>9

LEMMA UnforgetEffect ==
  ASSUME TypeOK, NEW s \in Source, IndexOK(s)', LogOK(s), UnforgetsOf(s),
         sources[s] = Absent, ~HasBody(log[s]), index[s] = Absent
  PROVE  /\ StatusOf(s) = "purged" /\ StatusOf(s)' = "unknown"
         /\ ~HoldsText(s) /\ ~HoldsText(s)'
         /\ ~Recent(s) /\ ~Recent(s)' /\ LogOK(s)'
<1> DEFINE e == Mark("SourceUnforgotten")
<1>1. e \in Event /\ e.type = "SourceUnforgotten" /\ ~CarriesBody(e) /\ log[s] \in Seq(Event)
  BY MarkType DEF MarkerTypes, TypeOK
<1>2. s \in forgotten /\ log'[s] = Append(log[s], e) /\ ViewOf(s)' = Fold(ViewOf(s), e)
  BY DEF UnforgetsOf, Records
<1> HIDE DEF e
<1>3. ViewOf(s)' = [row |-> ViewOf(s).row, tomb |-> FALSE]
  BY <1>1, <1>2, ViewOfType, ViewExcept DEF Fold
<1>4. sources'[s] = Absent /\ s \notin forgotten'
  <2>1. ViewOf(s).row = Absent
    BY ViewParts
  <2> QED BY <1>3, <2>1, ViewNext
<1>5. StatusOf(s) = "purged" /\ StatusOf(s)' = "unknown" /\ ~Recent(s) /\ ~Recent(s)'
  BY <1>2, <1>4 DEF StatusOf, Recent
<1>6. ~HoldsText(s) /\ ~HoldsText(s)'
  BY <1>1, <1>2, <1>4, HasBodyAppend, TextIs DEF HoldsText
<1>7. LogOK(s)'
  <2>1. EverLogged(log'[s], {"SourceForgotten"})
    BY <1>1, <1>2, EverLoggedAppend DEF LogOK, EverForgotten
  <2> QED BY <2>1 DEF LogOK, EverForgotten
<1> QED BY <1>5, <1>6, <1>7

LEMMA DropEffect ==
  ASSUME TypeOK, NEW s \in Source, IndexOK(s)', s \notin forgotten, s \in Expired,
         Erases(s, "SourceBodyDropped")
  PROVE  /\ StatusOf(s) = "held" /\ StatusOf(s)' = "blanked"
         /\ ~HoldsText(s)' /\ ~Recent(s) /\ ~Recent(s)' /\ LogOK(s)'
<1> DEFINE e == Mark("SourceBodyDropped")
<1>1. e \in Event /\ e.type = "SourceBodyDropped" /\ ~CarriesBody(e)
  BY MarkType DEF MarkerTypes
<1>2. log[s] \in Seq(Event) /\ Redact(log[s]) \in Seq(Event) /\ ~HasBody(Redact(log[s]))
  BY RedactType DEF TypeOK
<1>3. log'[s] = Append(Redact(log[s]), e) /\ ViewOf(s)' = Fold(ViewOf(s), e)
  BY DEF Erases
<1>4. sources[s] # Absent /\ sources[s].body # Blank /\ sources[s].fp \in OldContent
  BY DEF Expired
<1> HIDE DEF e
<1>5. ViewOf(s)' = [row |-> [fp |-> sources[s].fp, body |-> Blank, dropped |-> TRUE],
                    tomb |-> FALSE]
  <2>1. ViewOf(s)' = Drop(ViewOf(s))
    BY <1>1, <1>3, <1>4, ViewParts DEF Fold
  <2>2. ViewOf(s).tomb = FALSE
    <3>1. (s \in forgotten) = FALSE /\ ViewOf(s).tomb = (s \in forgotten)
      BY ViewParts
    <3> QED BY <3>1, Zenon
  <2>3. ViewOf(s).row = sources[s]
    BY ViewParts
  <2> QED BY <2>1, <2>2, <2>3, ViewOfType, DropIs
<1>6. /\ sources'[s] = [fp |-> sources[s].fp, body |-> Blank, dropped |-> TRUE]
      /\ s \notin forgotten'
  BY <1>5, ViewNext
<1>7. sources'[s] # Absent
  <2>1. sources'[s] \in Row
    BY <1>4, <1>6 DEF TypeOK, Row, Body
  <2> QED BY <2>1, SourceEventsAssumption
<1>8. StatusOf(s) = "held" /\ StatusOf(s)' = "blanked" /\ ~Recent(s) /\ ~Recent(s)'
  BY <1>4, <1>6, <1>7 DEF StatusOf, Recent
<1>9. ~HoldsText(s)'
  <2>1. ~HasBody(log'[s])
    BY <1>1, <1>2, <1>3, HasBodyAppend
  <2> QED BY <1>6, <2>1, TextIs
<1>10. LogOK(s)'
  BY <1>6, <1>7 DEF LogOK
<1> QED BY <1>8, <1>9, <1>10
-----------------------------------------------------------------------------
(***************************************************************************)
(* The refinement: each effect is a step of SourceMemory.                  *)
(***************************************************************************)

LEMMA SameMaps ==
  ASSUME \A s \in Source : Same(s)
  PROVE  UNCHANGED Memory!vars
BY DEF Same, Memory!vars, Recent

LEMMA IngestMaps ==
  ASSUME NEW s \in Source, \A u \in Source \ {s} : Same(u),
         StatusOf(s) # "purged", StatusOf(s)' = "held", HoldsText(s)'
  PROVE  Memory!Ingest(s)
BY DEF Same, Memory!Ingest, Recent

LEMMA PurgeMaps ==
  ASSUME NEW s \in Source, \A u \in Source \ {s} : Same(u),
         StatusOf(s) \in {"held", "blanked"}, StatusOf(s)' = "purged",
         ~HoldsText(s)', ~Recent(s)'
  PROVE  Memory!Purge(s)
BY DEF Same, Memory!Purge, Recent

LEMMA LiftMaps ==
  ASSUME NEW s \in Source, \A u \in Source \ {s} : Same(u),
         StatusOf(s) = "purged", StatusOf(s)' = "unknown",
         ~HoldsText(s), ~HoldsText(s)', ~Recent(s), ~Recent(s)'
  PROVE  Memory!Lift(s)
BY DEF Same, Memory!Lift, Recent

LEMMA BlankingMaps ==
  ASSUME NEW C \in SUBSET Source, C # {}, \A u \in Source \ C : Same(u),
         \A s \in C : /\ StatusOf(s) = "held" /\ StatusOf(s)' = "blanked"
                      /\ ~HoldsText(s)' /\ ~Recent(s) /\ ~Recent(s)'
  PROVE  Memory!Blanking(C)
BY DEF Same, Memory!Blanking, Recent

LEMMA InitMInv == Init => MInv
<1> SUFFICES ASSUME Init PROVE MInv
  OBVIOUS
<1>1. Working /\ SweepOK
  BY DEF Init, Working, SweepOK, Idle
<1>2. ASSUME NEW s \in Source PROVE LogOK(s)
  BY DEF Init, LogOK, EverLogged
<1> QED BY <1>1, <1>2 DEF MInv

LEMMA InitMaps == Init => Memory!Init
<1> SUFFICES ASSUME Init PROVE Memory!Init
  OBVIOUS
<1>1. ASSUME NEW s \in Source
      PROVE  StatusOf(s) = "unknown" /\ ~HoldsText(s) /\ ~Recent(s)
  BY DEF Init, StatusOf, HoldsText, HasBody, Recent
<1> QED BY <1>1 DEF Memory!Init, Recent

LEMMA MapsStep ==
  ASSUME OneWriter, IInv, IInv', FInv, MInv, [Next]_vars
  PROVE  MInv' /\ [Memory!Next]_(Memory!vars)
<1>1. /\ TypeOK /\ TypeOK'
      /\ \A s \in Source : ReplayOf(s) /\ IndexOK(s) /\ IndexOK(s)' /\ LogOK(s)
      /\ SweepOK
  BY DEF IInv, MInv
<1>2. \A s \in forgotten : sources[s] = Absent /\ index[s] = Absent /\ ~HasBody(log[s])
  BY DEF FInv, ForgottenStaysAbsent
<1> DEFINE Goal == (\A s \in Source : LogOK(s)') /\ [Memory!Next]_(Memory!vars)
<1>3. ASSUME NEW s \in Source, Keeps(s) \/ Rebuilds(s) PROVE Same(s) /\ LogOK(s)'
  BY <1>1, <1>3, KeepsSame
<1>4. ASSUME (\A s \in Source : Keeps(s)) \/ (\A s \in Source : Rebuilds(s)) PROVE Goal
  <2>1. \A s \in Source : Same(s) /\ LogOK(s)'
    BY <1>3, <1>4
  <2>2. UNCHANGED Memory!vars
    BY <2>1, SameMaps
  <2> QED BY <2>1, <2>2
<1>5. ASSUME NEW s \in Source, \A u \in Source \ {s} : Keeps(u),
             IngestsOf(s) \/ ForgetsOf(s) \/ UnforgetsOf(s)
      PROVE  Goal
  <2>1. \A u \in Source \ {s} : Same(u) /\ LogOK(u)'
    BY <1>3, <1>5
  <2>2. CASE IngestsOf(s)
    <3>1. /\ StatusOf(s) # "purged" /\ StatusOf(s)' = "held" /\ HoldsText(s)'
          /\ LogOK(s)'
      BY <1>1, <2>2, IngestEffect
    <3>2. Memory!Ingest(s)
      BY <2>1, <3>1, IngestMaps
    <3> QED BY <2>1, <3>1, <3>2 DEF Memory!Next
  <2>3. CASE ForgetsOf(s)
    <3>1. /\ StatusOf(s) \in {"held", "blanked"} /\ StatusOf(s)' = "purged"
          /\ ~HoldsText(s)' /\ ~Recent(s)' /\ LogOK(s)'
      BY <1>1, <1>2, <2>3, ForgetEffect
    <3>2. Memory!Purge(s)
      BY <2>1, <3>1, PurgeMaps
    <3> QED BY <2>1, <3>1, <3>2 DEF Memory!Next
  <2>4. CASE UnforgetsOf(s)
    <3>1. /\ StatusOf(s) = "purged" /\ StatusOf(s)' = "unknown"
          /\ ~HoldsText(s) /\ ~HoldsText(s)'
          /\ ~Recent(s) /\ ~Recent(s)' /\ LogOK(s)'
      <4>1. s \in forgotten
        BY <2>4 DEF UnforgetsOf
      <4> QED BY <1>1, <1>2, <2>4, <4>1, UnforgetEffect
    <3>2. Memory!Lift(s)
      BY <2>1, <3>1, LiftMaps
    <3> QED BY <2>1, <3>1, <3>2 DEF Memory!Next
  <2> QED BY <1>5, <2>2, <2>3, <2>4
<1>6. ASSUME NEW C \in SUBSET Source, DropsOf(C) PROVE Goal
  <2>1. C # {} /\ \A u \in Source \ C : Same(u) /\ LogOK(u)'
    BY <1>3, <1>6 DEF DropsOf
  <2>2. ASSUME NEW s \in C
        PROVE  /\ StatusOf(s) = "held" /\ StatusOf(s)' = "blanked"
               /\ ~HoldsText(s)' /\ ~Recent(s) /\ ~Recent(s)' /\ LogOK(s)'
    <3>1. s \in Source /\ s \in Expired /\ Erases(s, "SourceBodyDropped")
      BY <1>6 DEF DropsOf
    <3>2. s \notin forgotten
      BY <1>2, <3>1 DEF Expired
    <3> QED BY <1>1, <3>1, <3>2, DropEffect
  <2>3. Memory!Blanking(C)
    BY <2>1, <2>2, BlankingMaps
  <2> QED BY <2>1, <2>2, <2>3 DEF Memory!Next
<1>7. Goal
  <2>1. StoreStep
    BY StoreSteps
  <2> HIDE DEF Goal
  <2> QED BY <1>4, <1>5, <1>6, <2>1 DEF StoreStep
<1> QED BY <1>7, NextWorking DEF MInv

\* Where commands never overlap, the store of any number of sources, with any number
\* of passes, crashes, retention runs and rebuilds, is a SourceMemory: every step it
\* takes is an ingest, a blanking, a purge, a lift, or nothing that can be told apart.
THEOREM MemoryImplemented == OneWriter => (Spec => ImplementsMemory)
<1> SUFFICES ASSUME OneWriter PROVE Spec => ImplementsMemory
  OBVIOUS
<1> DEFINE Inv == IInv /\ FInv /\ MInv
<1>1. Init => Inv /\ Memory!Init
  BY InitIInv, InitFInv, InitMInv, InitMaps
<1>2. Inv /\ [Next]_vars => Inv' /\ [Memory!Next]_(Memory!vars)
  <2> SUFFICES ASSUME Inv, [Next]_vars PROVE Inv' /\ [Memory!Next]_(Memory!vars)
    OBVIOUS
  <2>1. TypeOK
    BY DEF IInv
  <2>2. IInv'
    BY NextIInv
  <2>3. FInv'
    BY <2>1, NextAlone, NextForgotten DEF FInv
  <2>4. MInv' /\ [Memory!Next]_(Memory!vars)
    BY <2>2, MapsStep
  <2> QED BY <2>2, <2>3, <2>4
<1> HIDE DEF Inv
<1> QED BY <1>1, <1>2, PTL DEF Spec, ImplementsMemory, Memory!Spec
=============================================================================
