------------------------ MODULE IssueCursors_proofs ------------------------
(***************************************************************************)
(* The floors of the issue trackers pass nothing by, for any repositories  *)
(* or projects, any issues and comments, any page size and any number of   *)
(* processes: what the store does not have is listed again.                *)
(***************************************************************************)
EXTENDS IssueCursors, WellFoundedInduction, FiniteSetTheorems, TLAPS

(***************************************************************************)
(* Extremes, and the paging of an ordered set.                             *)
(***************************************************************************)

\* A non-empty set of natural numbers has a least element.
LEMMA NatMin ==
  ASSUME NEW T \in SUBSET Nat, T # {}
  PROVE  \E x \in T : \A y \in T : x <= y
<1> DEFINE R == OpToRel(<, Nat)
<1>1. IsWellFoundedOn(R, Nat)
  BY NatLessThanWellFounded
<1>2. PICK x \in T : \A y \in T : ~ (<<y, x>> \in R)
  <2> HIDE DEF R
  <2> QED BY <1>1, WFMin
<1>3. \A y \in T : <<y, x>> \in R <=> y < x
  BY DEF OpToRel
<1> HIDE DEF R
<1>4. \A y \in T : ~ (y < x)
  BY <1>2, <1>3
<1> QED BY <1>4

LEMMA MinIn ==
  ASSUME NEW S \in SUBSET Nat, S # {}
  PROVE  Min(S) \in S
<1>1. \E x \in S : \A y \in S : x <= y
  BY NatMin
<1> QED BY <1>1 DEF Min

LEMMA MaxIn ==
  ASSUME NEW S \in SUBSET Time, S # {}
  PROVE  Max(S) \in S /\ Max(S) \in Time /\ \A y \in S : y <= Max(S)
<1> DEFINE T == {MaxTime - x : x \in S}
<1>1. \A x \in S : x \in Nat /\ MaxTime - x \in Nat /\ x <= MaxTime
  BY IssueCursorsAssumption DEF Time
<1>2. T \in SUBSET Nat /\ T # {}
  BY <1>1
<1>3. PICK t \in T : \A y \in T : t <= y
  <2> HIDE DEF T
  <2> QED BY <1>2, NatMin
<1>4. PICK x \in S : t = MaxTime - x
  BY <1>3
<1>5. \A y \in S : MaxTime - x <= MaxTime - y
  BY <1>3, <1>4
<1>6. \A y \in S : x >= y
  BY <1>1, <1>5, IssueCursorsAssumption
<1>7. Max(S) \in S /\ \A y \in S : Max(S) >= y
  BY <1>6 DEF Max
<1> QED BY <1>1, <1>7

\* How many are ahead of an element says where it stands in the order.
LEMMA Ranks ==
  ASSUME NEW S, IsFiniteSet(S), NEW R,
         \A i \in S : <<i, i>> \notin R,
         \A i, j \in S : i # j => <<i, j>> \in R \/ <<j, i>> \in R,
         \A i, j, k \in S : <<i, j>> \in R /\ <<j, k>> \in R => <<i, k>> \in R,
         NEW Ahead \in [S -> SUBSET S], \A i, j \in S : i \in Ahead[j] <=> <<i, j>> \in R
  PROVE  /\ \A j \in S : Cardinality(Ahead[j]) \in Nat
         /\ \A i, j \in S : <<i, j>> \in R <=> Cardinality(Ahead[i]) < Cardinality(Ahead[j])
<1>1. ASSUME NEW j \in S
      PROVE  IsFiniteSet(Ahead[j]) /\ Cardinality(Ahead[j]) \in Nat
  BY FS_Subset, FS_CardinalityType
<1>2. ASSUME NEW i \in S, NEW j \in S, <<i, j>> \in R
      PROVE  Cardinality(Ahead[i]) < Cardinality(Ahead[j])
  <2>1. Ahead[i] \union {i} \in SUBSET Ahead[j] /\ i \notin Ahead[i]
    BY <1>2
  <2>2. Cardinality(Ahead[i] \union {i}) = Cardinality(Ahead[i]) + 1
    BY <1>1, <2>1, FS_AddElement
  <2>3. Cardinality(Ahead[i] \union {i}) <= Cardinality(Ahead[j])
    BY <1>1, <2>1, FS_Subset
  <2> QED BY <1>1, <2>2, <2>3
<1>3. ASSUME NEW i \in S, NEW j \in S, Cardinality(Ahead[i]) < Cardinality(Ahead[j])
      PROVE  <<i, j>> \in R
  <2>1. i # j /\ ~(Cardinality(Ahead[j]) < Cardinality(Ahead[i]))
    BY <1>1, <1>3
  <2> QED BY <1>2, <2>1
<1> QED BY <1>1, <1>2, <1>3

\* Ahead has the elements before each, and rk their number.
Ranked(rk, Ahead, S) ==
  /\ rk \in [S -> Nat] /\ Ahead \in [S -> SUBSET S]
  /\ \A i, j \in S : i # j => rk[i] # rk[j]
  /\ \A i, j \in S : i \in Ahead[j] <=> rk[i] < rk[j]
  /\ \A j \in S : rk[j] = Cardinality(Ahead[j])

IsPage(page, rk, S, skip, size) ==
  page \in SUBSET S /\ \A i \in S : i \in page <=> rk[i] \in skip .. skip + size - 1

\* A page is no longer than its size.  What is behind the first `skip` elements and not
\* on the page is behind the page, too, which is not empty then nor the last one.
LEMMA Paging ==
  ASSUME NEW S, IsFiniteSet(S), NEW rk, NEW Ahead, Ranked(rk, Ahead, S),
         NEW skip \in Nat, NEW size \in Nat \ {0}, NEW page, IsPage(page, rk, S, skip, size)
  PROVE  /\ Cardinality(page) \in Nat
         /\ \A j \in S : rk[j] >= skip =>
              \/ j \in page
              \/ /\ rk[j] >= skip + Cardinality(page)
                 /\ page # {} /\ skip + Cardinality(page) < Cardinality(S)
<1> USE DEF Ranked, IsPage
<1>1. IsFiniteSet(page) /\ Cardinality(page) \in Nat /\ Cardinality(S) \in Nat
  BY FS_Subset, FS_CardinalityType
<1>2. Cardinality(page) <= size
  <2> DEFINE f == [i \in page |-> rk[i]]
             T == skip .. skip + size - 1
  <2>1. f \in Injection(page, T)
    BY DEF Injection, IsInjective
  <2>2. IsFiniteSet(T) /\ Cardinality(T) = size
    BY FS_Interval
  <2> HIDE DEF f, T
  <2> QED BY <2>1, <2>2, FS_Injection
<1>3. ASSUME NEW j \in S, rk[j] >= skip, j \notin page
      PROVE  /\ rk[j] >= skip + Cardinality(page)
             /\ page # {} /\ skip + Cardinality(page) < Cardinality(S)
  <2>1. rk[j] >= skip + size
    BY <1>3
  <2>2. Cardinality(S) >= rk[j] + 1
    <3>1. j \notin Ahead[j] /\ Ahead[j] \union {j} \in SUBSET S
      OBVIOUS
    <3>2. IsFiniteSet(Ahead[j]) /\ Cardinality(Ahead[j]) \in Nat
      BY FS_Subset, FS_CardinalityType
    <3>3. Cardinality(Ahead[j] \union {j}) = Cardinality(Ahead[j]) + 1
      BY <3>1, <3>2, FS_AddElement
    <3>4. Cardinality(Ahead[j] \union {j}) <= Cardinality(S)
      BY <3>1, FS_Subset
    <3> QED BY <1>1, <3>2, <3>3, <3>4
  <2>3. page # {}
    <3> DEFINE T == {rk[k] : k \in {i \in S : rk[i] >= skip}}
    <3>1. T \in SUBSET Nat /\ T # {}
      BY <1>3
    <3>2. PICK t \in T : \A y \in T : t <= y
      <4> HIDE DEF T
      <4> QED BY <3>1, NatMin
    <3>3. PICK m \in S : rk[m] >= skip /\ rk[m] = t
      BY <3>2
    <3> DEFINE Q == Ahead[m]
               f == [k \in Q |-> rk[k]]
               U == 0 .. skip - 1
    <3>4. \A k \in Q : k \in S /\ rk[k] \in Nat /\ rk[k] < skip
      <4>1. \A k \in S : rk[k] >= skip => rk[m] <= rk[k]
        BY <3>2, <3>3
      <4> QED BY <3>3, <4>1
    <3>5. f \in Injection(Q, U)
      BY <3>4 DEF Injection, IsInjective
    <3>6. IsFiniteSet(U) /\ Cardinality(U) = skip
      <4>1. 0 \in Int /\ skip - 1 \in Int
        OBVIOUS
      <4>2. Cardinality(0 .. skip - 1) = IF 0 > skip - 1 THEN 0 ELSE (skip - 1) - 0 + 1
        BY <4>1, FS_Interval
      <4>3. IsFiniteSet(0 .. skip - 1)
        BY <4>1, FS_Interval
      <4>4. (IF 0 > skip - 1 THEN 0 ELSE (skip - 1) - 0 + 1) = skip
        OBVIOUS
      <4> QED BY <4>2, <4>3, <4>4
    <3>7. Cardinality(Q) <= Cardinality(U)
      <4> HIDE DEF f, U, Q
      <4> QED BY <3>5, <3>6, FS_Injection
    <3>8. rk[m] = Cardinality(Q)
      OBVIOUS
    <3> HIDE DEF Q, U, T, f
    <3>9. rk[m] \in skip .. skip + size - 1
      BY <3>3, <3>6, <3>7, <3>8
    <3> QED BY <3>9
  <2> QED BY <1>1, <1>2, <2>1, <2>2, <2>3
<1> QED BY <1>1, <1>3
-----------------------------------------------------------------------------
(***************************************************************************)
(* The inductive invariant.                                                *)
(***************************************************************************)

\* How many of S a list has before j, oldest first or newest first.
Rank(j, S) == Cardinality({k \in S : Before(k, j)})
RankDesc(j, S) == Cardinality({k \in S : Before(j, k)})

Home(i) == ResOf[IssueItself(i)]

Floor(u, r) == u.prev.issues[AxisOf(r)]

\* r is as it was when the pass began.
Steady(u, r) == r \notin raced \/ r \notin u.dirty

(***************************************************************************)
(* What a pass u has done, when st is what the store has not.              *)
(***************************************************************************)

\* The store has the issue and its comments.
Caught(j, st) == j \notin st /\ \A c \in Comment : IssueOf[c] = j => c \notin st

ShapeOK(u) ==
  /\ u.todo \subseteq u.config /\ u.failed \subseteq u.config /\ u.failed \intersect u.todo = {}
  /\ u.full => u.prev = NoFloor

\* An entry that is not fresh has changed since it was listed.
BatchOK(u) ==
  \A e \in u.batch : /\ updated[e.id] > 0 /\ ResOf[e.id] = Current(u)
                     /\ ~e.fresh => Current(u) \in raced \intersect u.dirty

\* The floors it has read are low enough.
CoversOK(u, st) ==
  \A r \in Resource :
     (r \notin raced \union behind) \/ (u.full /\ r \notin u.dirty) =>
       \A i \in st \ Thread : Home(i) = r => IssueItself(i) \in Listed(r, Floor(u, r))

\* What it has listed is recorded, or still on the page.
Recorded(u, st, r, j) ==
  /\ r \notin u.todo => Caught(j, st)
  /\ r \in u.todo /\ r = Current(u) =>
        \/ Caught(j, st)
        \/ \E e \in u.batch : e.id = j
        \/ Rank(j, Listed(r, Floor(u, r))) >= u.skip /\ (u.more \/ u.batch = {})

ProgressOK(u, st) ==
  \A r \in u.config \ u.failed : Steady(u, r) =>
    \A j \in Listed(r, Floor(u, r)) : Recorded(u, st, r, j)

\* A notification it has not met is among the older ones to come, or is at least as new
\* as the floor it will leave.
InboxOK(u, st) ==
  ~crossed =>
    \A n \in st \intersect Thread :
      mode = "all" \/ ResOf[n] \in always \intersect u.config =>
        /\ updated[n] >= u.prev.inbox
        /\ \/ updated[n] >= u.inbox
           \/ u.pc = "inbox" /\ RankDesc(n, ListedThreads(u.prev.inbox)) >= u.skip

PassOK(u, st) ==
  ShapeOK(u) /\ BatchOK(u) /\ CoversOK(u, st) /\ ProgressOK(u, st) /\ InboxOK(u, st)

Exists ==
  /\ \A i \in stale : updated[i] > 0
  /\ \A c \in Comment : updated[c] > 0 => updated[IssueOf[c]] > 0 /\ connector = "jira"

\* No floor and no mark is ahead of the last change.
Past(u) ==
  /\ u.inbox <= Now /\ u.prev.inbox <= Now
  /\ \A a \in Axis : u.prev.issues[a] <= Now
  /\ \A r \in Resource : u.mark[r] <= Now

CursorPast == cursor.inbox <= Now /\ \A a \in Axis : cursor.issues[a] <= Now

\* Passes that overlap know it.
Apart ==
  \A p, q \in Process : p # q /\ Running(p) /\ Running(q) => crossed /\ run[p].dirty = Resource

World == Exists /\ CursorPast /\ NothingSkipped /\ NotificationsKept

IInv == /\ TypeOK /\ config # {} /\ World /\ Apart
        /\ \A p \in Process : Past(run[p]) /\ (Running(p) => PassOK(run[p], stale))
-----------------------------------------------------------------------------
(***************************************************************************)
(* Times, and the pages of a list.                                         *)
(***************************************************************************)

LEMMA IdSets ==
  /\ Issue \subseteq Item /\ Thread \subseteq Item /\ Comment \subseteq Item
  /\ \A i \in Issue : i \in Nat /\ i \notin Thread /\ i \notin Comment
                      /\ IssueItself(i) = i /\ ResOf[i] \in Resource
  /\ \A n \in Thread : n \in Nat /\ n \notin Issue /\ n \notin Comment /\ ResOf[n] \in Resource
  /\ \A c \in Comment : c \notin Issue /\ c \notin Thread /\ IssueOf[c] \in Issue
                        /\ IssueItself(c) = IssueOf[c]
  /\ \A i \in Item : i \in Issue \/ i \in Comment \/ i \in Thread
BY IssueCursorsAssumption DEF Item, IssueItself

LEMMA NowLast ==
  ASSUME updated \in [Item -> Time]
  PROVE  /\ Now \in Time /\ 1 <= Now /\ \A i \in Item : updated[i] <= Now
         /\ Now = 1 \/ \E i \in Item : updated[i] = Now
<1> DEFINE S == {1} \union {updated[i] : i \in Item}
<1>1. S \in SUBSET Time /\ 1 \in S
  BY IssueCursorsAssumption DEF Time
<1>2. Max(S) \in S /\ Max(S) \in Time /\ \A y \in S : y <= Max(S)
  <2> HIDE DEF S
  <2> QED BY <1>1, MaxIn
<1> QED BY <1>2 DEF Now

LEMMA LatestLast ==
  ASSUME updated \in [Item -> Time], NEW t \in Time, t <= Now, NEW ids \in SUBSET Item
  PROVE  /\ Latest(t, ids) \in Time /\ t <= Latest(t, ids) /\ Latest(t, ids) <= Now
         /\ \A i \in ids : updated[i] <= Latest(t, ids)
         /\ Latest(t, ids) = t \/ \E i \in ids : Latest(t, ids) = updated[i]
<1> DEFINE S == {t} \union {updated[i] : i \in ids}
<1>1. S \in SUBSET Time /\ t \in S
  OBVIOUS
<1>2. Max(S) \in S /\ Max(S) \in Time /\ \A y \in S : y <= Max(S)
  <2> HIDE DEF S
  <2> QED BY <1>1, MaxIn
<1>3. \A y \in S : y <= Now
  BY NowLast
<1> QED BY <1>2, <1>3 DEF Latest

\* The two orders of a list.
LEMMA Orders ==
  ASSUME updated \in [Item -> Time], NEW S \in SUBSET (Issue \union Thread)
  PROVE  /\ IsFiniteSet(S) /\ S \subseteq Item
         /\ \A i, j \in S : i # j => Before(i, j) \/ Before(j, i)
         /\ \A i \in S : ~Before(i, i)
         /\ \A i, j, k \in S : Before(i, j) /\ Before(j, k) => Before(i, k)
<1>1. IsFiniteSet(S)
  BY IssueCursorsAssumption, FS_Union, FS_Subset
<1>2. \A i \in S : i \in Nat /\ i \in Item /\ updated[i] \in Nat
  BY IdSets, IssueCursorsAssumption DEF Time
<1> QED BY <1>1, <1>2 DEF Before

LEMMA PageAsc ==
  ASSUME updated \in [Item -> Time], NEW S \in SUBSET (Issue \union Thread), NEW skip \in Nat
  PROVE  /\ Page(S, skip) \subseteq S /\ Cardinality(Page(S, skip)) \in Nat
         /\ \A j \in S : Rank(j, S) \in Nat
         /\ \A i, j \in S : Before(i, j) <=> Rank(i, S) < Rank(j, S)
         /\ \A j \in Page(S, skip) : Rank(j, S) >= skip
         /\ \A j \in S : Rank(j, S) >= skip =>
              \/ j \in Page(S, skip)
              \/ /\ Rank(j, S) >= skip + Cardinality(Page(S, skip))
                 /\ Page(S, skip) # {} /\ skip + Cardinality(Page(S, skip)) < Cardinality(S)
<1> DEFINE R == {e \in S \X S : Before(e[1], e[2])}
           A == [j \in S |-> {k \in S : Before(k, j)}]
<1>1. /\ \A i, j \in S : <<i, j>> \in R <=> Before(i, j)
      /\ \A i, j \in S : i \in A[j] <=> Before(i, j)
      /\ A \in [S -> SUBSET S] /\ \A j \in S : Rank(j, S) = Cardinality(A[j])
  BY DEF Rank
<1> HIDE DEF A, R
<1>2. /\ IsFiniteSet(S) /\ \A i \in S : <<i, i>> \notin R
      /\ \A i, j \in S : i # j => <<i, j>> \in R \/ <<j, i>> \in R
      /\ \A i, j, k \in S : <<i, j>> \in R /\ <<j, k>> \in R => <<i, k>> \in R
      /\ \A i, j \in S : i \in A[j] <=> <<i, j>> \in R
  BY <1>1, Orders
<1>3. /\ \A j \in S : Cardinality(A[j]) \in Nat
      /\ \A i, j \in S : <<i, j>> \in R <=> Cardinality(A[i]) < Cardinality(A[j])
  BY <1>1, <1>2, Ranks
<1> DEFINE rk == [j \in S |-> Rank(j, S)]
           page == Page(S, skip)
<1>4. /\ rk \in [S -> Nat] /\ \A j \in S : rk[j] = Rank(j, S) /\ rk[j] = Cardinality(A[j])
      /\ \A i, j \in S : <<i, j>> \in R <=> rk[i] < rk[j]
  BY <1>1, <1>3
<1>5. /\ page \in SUBSET S
      /\ \A i \in S : i \in page <=> Rank(i, S) \in skip .. skip + PageSize - 1
  BY DEF Page, Rank
<1> HIDE DEF page, rk
<1>6. /\ \A i \in S : i \in page <=> rk[i] \in skip .. skip + PageSize - 1
      /\ PageSize \in Nat \ {0}
  BY <1>4, <1>5, IssueCursorsAssumption
<1>7. \A i, j \in S : i # j => rk[i] # rk[j]
  BY <1>2, <1>4
<1>8. \A i, j \in S : i \in A[j] <=> rk[i] < rk[j]
  BY <1>2, <1>4
<1>9. Ranked(rk, A, S) /\ IsPage(page, rk, S, skip, PageSize) /\ PageSize \in Nat \ {0}
  BY <1>1, <1>4, <1>5, <1>6, <1>7, <1>8 DEF Ranked, IsPage
<1>10. /\ Cardinality(page) \in Nat
      /\ \A j \in S : rk[j] >= skip =>
           \/ j \in page
           \/ /\ rk[j] >= skip + Cardinality(page)
              /\ page # {} /\ skip + Cardinality(page) < Cardinality(S)
  BY <1>2, <1>9, Paging
<1>11. \A j \in page : rk[j] >= skip
  <2> TAKE j \in page
  <2>1. j \in S /\ rk[j] \in skip .. skip + PageSize - 1
    BY <1>5, <1>6
  <2> QED BY <2>1
<1>12. /\ \A j \in S : Rank(j, S) \in Nat
       /\ \A i, j \in S : Before(i, j) <=> Rank(i, S) < Rank(j, S)
  BY <1>1, <1>4
<1>13. \A j \in page : Rank(j, S) >= skip
  BY <1>4, <1>5, <1>11
<1>14. \A j \in S : Rank(j, S) >= skip =>
         \/ j \in page
         \/ /\ Rank(j, S) >= skip + Cardinality(page)
            /\ page # {} /\ skip + Cardinality(page) < Cardinality(S)
  BY <1>4, <1>10
<1> QED BY <1>5, <1>10, <1>12, <1>13, <1>14, Zenon DEF page

LEMMA PageNewest ==
  ASSUME updated \in [Item -> Time], NEW S \in SUBSET (Issue \union Thread), NEW skip \in Nat
  PROVE  /\ PageDesc(S, skip) \subseteq S /\ Cardinality(PageDesc(S, skip)) \in Nat
         /\ \A j \in S : RankDesc(j, S) \in Nat
         /\ \A i, j \in S : Before(j, i) <=> RankDesc(i, S) < RankDesc(j, S)
         /\ \A j \in PageDesc(S, skip) : RankDesc(j, S) >= skip
         /\ \A j \in S : RankDesc(j, S) >= skip =>
              \/ j \in PageDesc(S, skip)
              \/ /\ RankDesc(j, S) >= skip + Cardinality(PageDesc(S, skip))
                 /\ PageDesc(S, skip) # {} /\ skip + Cardinality(PageDesc(S, skip)) < Cardinality(S)
<1> DEFINE R == {e \in S \X S : Before(e[2], e[1])}
           A == [j \in S |-> {k \in S : Before(j, k)}]
<1>1. /\ \A i, j \in S : <<i, j>> \in R <=> Before(j, i)
      /\ \A i, j \in S : i \in A[j] <=> Before(j, i)
      /\ A \in [S -> SUBSET S] /\ \A j \in S : RankDesc(j, S) = Cardinality(A[j])
  BY DEF RankDesc
<1> HIDE DEF A, R
<1>2. /\ IsFiniteSet(S) /\ \A i \in S : <<i, i>> \notin R
      /\ \A i, j \in S : i # j => <<i, j>> \in R \/ <<j, i>> \in R
      /\ \A i, j, k \in S : <<i, j>> \in R /\ <<j, k>> \in R => <<i, k>> \in R
      /\ \A i, j \in S : i \in A[j] <=> <<i, j>> \in R
  BY <1>1, Orders
<1>3. /\ \A j \in S : Cardinality(A[j]) \in Nat
      /\ \A i, j \in S : <<i, j>> \in R <=> Cardinality(A[i]) < Cardinality(A[j])
  BY <1>1, <1>2, Ranks
<1> DEFINE rk == [j \in S |-> RankDesc(j, S)]
           page == PageDesc(S, skip)
<1>4. /\ rk \in [S -> Nat] /\ \A j \in S : rk[j] = RankDesc(j, S) /\ rk[j] = Cardinality(A[j])
      /\ \A i, j \in S : <<i, j>> \in R <=> rk[i] < rk[j]
  BY <1>1, <1>3
<1>5. /\ page \in SUBSET S
      /\ \A i \in S : i \in page <=> RankDesc(i, S) \in skip .. skip + PageSize - 1
  BY DEF PageDesc, RankDesc
<1> HIDE DEF page, rk
<1>6. /\ \A i \in S : i \in page <=> rk[i] \in skip .. skip + PageSize - 1
      /\ PageSize \in Nat \ {0}
  BY <1>4, <1>5, IssueCursorsAssumption
<1>7. \A i, j \in S : i # j => rk[i] # rk[j]
  BY <1>2, <1>4
<1>8. \A i, j \in S : i \in A[j] <=> rk[i] < rk[j]
  BY <1>2, <1>4
<1>9. Ranked(rk, A, S) /\ IsPage(page, rk, S, skip, PageSize) /\ PageSize \in Nat \ {0}
  BY <1>1, <1>4, <1>5, <1>6, <1>7, <1>8 DEF Ranked, IsPage
<1>10. /\ Cardinality(page) \in Nat
      /\ \A j \in S : rk[j] >= skip =>
           \/ j \in page
           \/ /\ rk[j] >= skip + Cardinality(page)
              /\ page # {} /\ skip + Cardinality(page) < Cardinality(S)
  BY <1>2, <1>9, Paging
<1>11. \A j \in page : rk[j] >= skip
  <2> TAKE j \in page
  <2>1. j \in S /\ rk[j] \in skip .. skip + PageSize - 1
    BY <1>5, <1>6
  <2> QED BY <2>1
<1>12. /\ \A j \in S : RankDesc(j, S) \in Nat
       /\ \A i, j \in S : Before(j, i) <=> RankDesc(i, S) < RankDesc(j, S)
  BY <1>1, <1>4
<1>13. \A j \in page : RankDesc(j, S) >= skip
  BY <1>4, <1>5, <1>11
<1>14. \A j \in S : RankDesc(j, S) >= skip =>
         \/ j \in page
         \/ /\ RankDesc(j, S) >= skip + Cardinality(page)
            /\ page # {} /\ skip + Cardinality(page) < Cardinality(S)
  BY <1>4, <1>10
<1> QED BY <1>5, <1>10, <1>12, <1>13, <1>14, Zenon DEF page
-----------------------------------------------------------------------------
(***************************************************************************)
(* A step of a pass.                                                       *)
(***************************************************************************)

LEMMA PassFields ==
  ASSUME NEW u \in Pass
  PROVE  /\ u.pc \in {"idle", "list", "inbox", "done"} /\ u.full \in BOOLEAN
         /\ u.config \subseteq Resource /\ u.prev \in Floors /\ u.todo \subseteq Resource
         /\ u.skip \in Nat /\ u.more \in BOOLEAN /\ u.batch \subseteq Entry
         /\ u.mark \in [Resource -> Time] /\ u.inbox \in Time
         /\ u.failed \subseteq Resource /\ u.dirty \subseteq Resource
         /\ u.prev.issues \in [Axis -> Time] /\ u.prev.inbox \in Time
BY DEF Pass, Floors

\* The state of a process, and of the world it is in.
LEMMA PassTyped ==
  ASSUME IInv, NEW p \in Process
  PROVE  /\ run \in [Process -> Pass] /\ run[p] \in Pass /\ Past(run[p])
         /\ run[p].pc = "list" <=> run[p].todo # {}
         /\ run[p].batch # {} => run[p].pc = "list"
         /\ Running(p) => PassOK(run[p], stale)
BY DEF IInv, TypeOK

LEMMA SameTimes ==
  ASSUME updated' = updated, connector' = connector
  PROVE  /\ Now' = Now
         /\ \A S : There(S)' = There(S)
         /\ \A r, f : Listed(r, f)' = Listed(r, f)
         /\ \A f : ListedThreads(f)' = ListedThreads(f)
         /\ \A j, S : Rank(j, S)' = Rank(j, S) /\ RankDesc(j, S)' = RankDesc(j, S)
         /\ \A u, r : Floor(u, r)' = Floor(u, r)
<1>1. \A S : There(S)' = There(S)
  BY DEF There
<1>2. \A i, j : Before(i, j)' = Before(i, j)
  BY DEF Before
<1>3. \A j, S : Rank(j, S)' = Rank(j, S) /\ RankDesc(j, S)' = RankDesc(j, S)
  BY <1>2 DEF Rank, RankDesc
<1>4. \A r, f : Listed(r, f)' = Listed(r, f)
  BY <1>1 DEF Listed
<1>5. \A f : ListedThreads(f)' = ListedThreads(f)
  BY <1>1 DEF ListedThreads
<1>6. Now' = Now
  BY DEF Now
<1> QED BY <1>1, <1>3, <1>4, <1>5, <1>6 DEF Floor, AxisOf

\* What no step of a pass changes before its end.
Rest == <<settings, updated, cursor, history>>

LEMMA KeptPass ==
  ASSUME UNCHANGED <<settings, updated, raced>>, behind \subseteq behind', always' \subseteq always,
         crossed => crossed', NEW u, NEW st, PassOK(u, st)
  PROVE  PassOK(u, st)'
<1>1. updated' = updated /\ connector' = connector /\ mode' = mode /\ raced' = raced
  BY DEF settings
<1>2. \A r, f : Listed(r, f)' = Listed(r, f)
  BY <1>1, SameTimes
<1>3. \A f : ListedThreads(f)' = ListedThreads(f)
  BY <1>1, SameTimes
<1>4. \A j, S : Rank(j, S)' = Rank(j, S) /\ RankDesc(j, S)' = RankDesc(j, S)
  BY <1>1, SameTimes
<1>5. \A x, r : Floor(x, r)' = Floor(x, r)
  BY <1>1, SameTimes
<1>6. ShapeOK(u)' /\ BatchOK(u)'
  BY <1>1 DEF PassOK, ShapeOK, BatchOK
<1>7. CoversOK(u, st)'
  BY <1>1, <1>2, <1>5 DEF PassOK, CoversOK
<1>8. ProgressOK(u, st)'
  BY <1>1, <1>2, <1>4, <1>5 DEF PassOK, ProgressOK, Recorded, Steady
<1>9. InboxOK(u, st)'
  BY <1>1, <1>3, <1>4 DEF PassOK, InboxOK
<1> QED BY <1>6, <1>7, <1>8, <1>9 DEF PassOK

LEMMA SamePass ==
  ASSUME UNCHANGED Rest, NEW u, NEW st, PassOK(u, st)
  PROVE  PassOK(u, st)'
<1>1. UNCHANGED <<settings, updated, raced>> /\ behind \subseteq behind'
      /\ always' \subseteq always /\ (crossed => crossed')
  BY DEF Rest, history
<1> QED BY <1>1, KeptPass

\* What another pass w makes of a store that has more, or has old versions of issues that
\* have changed in the middle of two overlapping passes.
LEMMA OtherPass ==
  ASSUME NEW w, NEW st, PassOK(w, stale),
         \/ st \subseteq stale
         \/ /\ w.dirty = Resource
            /\ \A i \in st : i \in stale \/ (i \in Issue /\ ResOf[i] \in raced)
  PROVE  PassOK(w, st)
<1>1. CASE st \subseteq stale
  BY <1>1 DEF PassOK, CoversOK, ProgressOK, Recorded, Caught, InboxOK
<1>2. CASE /\ w.dirty = Resource
           /\ \A i \in st : i \in stale \/ (i \in Issue /\ ResOf[i] \in raced)
  <2>1. \A i \in st \ stale : i \in Issue /\ Home(i) = ResOf[i] /\ ResOf[i] \in raced
                              /\ ResOf[i] \in Resource /\ i \notin Thread /\ i \notin Comment
    BY <1>2, IdSets DEF Home
  <2>2. CoversOK(w, st)
    BY <1>2, <2>1 DEF PassOK, CoversOK
  <2>3. ProgressOK(w, st)
    <3> SUFFICES ASSUME NEW r \in w.config \ w.failed, Steady(w, r),
                        NEW j \in Listed(r, Floor(w, r))
                 PROVE  Recorded(w, st, r, j)
      BY DEF ProgressOK
    <3>1. Recorded(w, stale, r, j)
      BY DEF PassOK, ProgressOK
    <3>2. j \in Issue /\ ResOf[j] = r
      BY DEF Listed, There
    <3>3. r \notin raced
      BY <1>2, <3>2, IdSets DEF Steady
    <3>4. Caught(j, stale) => Caught(j, st)
      BY <2>1, <3>2, <3>3 DEF Caught
    <3> QED BY <3>1, <3>4 DEF Recorded
  <2>4. InboxOK(w, st)
    BY <2>1 DEF PassOK, InboxOK
  <2> QED BY <2>2, <2>3, <2>4 DEF PassOK
<1> QED BY <1>1, <1>2

\* A step of pass p that leaves st unrecorded: all it owes the others.
LEMMA RunSteps ==
  ASSUME IInv, NEW p \in Process, Running(p), NEW v \in Pass, run' = [run EXCEPT ![p] = v],
         UNCHANGED <<Rest, config, edits>>, ops' \in 0 .. MaxOps, NEW st \in SUBSET Item, stale' = st,
         \A i \in st : i \in stale \/ (/\ i \in Issue /\ updated[i] > 0
                                       /\ ResOf[i] \in raced \intersect run[p].dirty),
         v.pc = "list" <=> v.todo # {}, v.batch # {} => v.pc = "list",
         Past(v), v.pc # "idle" => v.dirty = run[p].dirty /\ PassOK(v, st)
  PROVE  IInv'
<1>1. /\ updated' = updated /\ connector' = connector /\ mode' = mode /\ raced' = raced
      /\ behind' = behind /\ always' = always /\ crossed' = crossed /\ config' = config
      /\ cursor' = cursor /\ edits' = edits /\ ops' \in 0 .. MaxOps
  BY DEF Rest, settings, history
<1>2. run \in [Process -> Pass] /\ run' \in [Process -> Pass] /\ run'[p] = v
      /\ \A q \in Process : q # p => run'[q] = run[q]
  BY PassTyped
<1>3. TypeOK'
  BY <1>1, <1>2 DEF IInv, TypeOK
<1>4. \A i \in st \ stale : i \in Issue /\ IssueItself(i) = i /\ i \notin Thread
                            /\ i \notin Comment /\ ResOf[i] \in raced
  BY IdSets
<1>5. Exists'
  BY <1>1, <1>4 DEF IInv, World, Exists
<1>6. CursorPast'
  BY <1>1, SameTimes DEF IInv, World, CursorPast
<1>7. NothingSkipped'
  <2>1. \A i : WillBeListed(i)' = WillBeListed(i)
    <3>1. \A r, f : Listed(r, f)' = Listed(r, f)
      BY <1>1, SameTimes
    <3> QED BY <1>1, <3>1 DEF WillBeListed, AxisOf
  <2>2. \A i \in st \ Thread : i \in stale \/ ResOf[IssueItself(i)] \in raced
    BY <1>4
  <2> QED BY <1>1, <2>1, <2>2 DEF IInv, World, NothingSkipped
<1>8. NotificationsKept'
  <2>1. \A f : ListedThreads(f)' = ListedThreads(f)
    BY <1>1, SameTimes
  <2>2. st \intersect Thread \subseteq stale \intersect Thread
    BY <1>4
  <2> QED BY <1>1, <2>1, <2>2 DEF IInv, World, NotificationsKept
<1>9. Apart'
  <2> SUFFICES ASSUME NEW q \in Process, NEW t \in Process, q # t, Running(q)', Running(t)'
               PROVE  crossed /\ run'[q].dirty = Resource
    BY <1>1 DEF Apart
  <2>1. Running(q) /\ Running(t)
    BY <1>2 DEF Running
  <2>2. run'[q].dirty = run[q].dirty
    BY <1>2 DEF Running
  <2> QED BY <2>1, <2>2 DEF IInv, Apart
<1>10. ASSUME NEW q \in Process
       PROVE  Past(run[q])' /\ (Running(q)' => PassOK(run[q], stale)')
  <2> PICK w \in Pass : w = run'[q]
    BY <1>2
  <2>1. Past(w)' <=> Past(w)
    BY <1>1, SameTimes DEF Past
  <2>2. CASE q = p
    <3>1. w = v
      BY <1>2, <2>2
    <3>2. w.pc # "idle" => PassOK(w, st)'
      BY <3>1, SamePass
    <3> QED BY <2>1, <3>1, <3>2 DEF Running
  <2>3. CASE q # p
    <3>1. w = run[q]
      BY <1>2, <2>3
    <3>2. Past(w)
      BY <3>1, PassTyped
    <3>3. ASSUME w.pc # "idle"
          PROVE  PassOK(w, st)'
      <4>1. Running(q) /\ PassOK(w, stale)
        BY <3>1, <3>3, PassTyped DEF Running
      <4>2. w.dirty = Resource
        BY <2>3, <3>1, <4>1 DEF IInv, Apart
      <4>3. \A i \in st : i \in stale \/ (i \in Issue /\ ResOf[i] \in raced)
        BY <1>4
      <4>4. PassOK(w, st)
        BY <4>1, <4>2, <4>3, OtherPass
      <4> QED BY <4>4, SamePass
    <3> QED BY <2>1, <3>2, <3>3 DEF Running
  <2> QED BY <2>2, <2>3
<1>11. config' # {}
  BY <1>1 DEF IInv
<1> QED BY <1>3, <1>5, <1>6, <1>7, <1>8, <1>9, <1>10, <1>11 DEF IInv, World

LEMMA PassSteps ==
  ASSUME IInv, NEW p \in Process, Running(p), NEW v \in Pass, run' = [run EXCEPT ![p] = v],
         UNCHANGED Local, NEW st \in SUBSET Item, stale' = st,
         \A i \in st : i \in stale \/ (/\ i \in Issue /\ updated[i] > 0
                                       /\ ResOf[i] \in raced \intersect run[p].dirty),
         v.pc = "list" <=> v.todo # {}, v.batch # {} => v.pc = "list",
         Past(v), v.pc # "idle" => v.dirty = run[p].dirty /\ PassOK(v, st)
  PROVE  IInv'
<1>1. UNCHANGED <<Rest, config, edits>>
  BY DEF Local, Rest
<1>2. ops' \in 0 .. MaxOps
  BY DEF Local, IInv, TypeOK
<1> QED BY <1>1, <1>2, RunSteps
-----------------------------------------------------------------------------
(***************************************************************************)
(* From a resource to the next one.                                        *)
(***************************************************************************)

LEMMA NextTyped ==
  ASSUME NEW w \in Pass, NEW left \in SUBSET Resource, NEW more \in BOOLEAN,
         NEW pc \in {"idle", "list", "inbox", "done"}, NEW v,
         v = [w EXCEPT !.todo = left, !.skip = 0, !.batch = {}, !.more = more, !.pc = pc]
  PROVE  v \in Pass
BY DEF Pass

LEMMA NextFields ==
  ASSUME NEW w \in Pass, NEW v, v = NextResource(w)
  PROVE  /\ v \in Pass /\ v.todo = w.todo \ {Current(w)} /\ v.skip = 0 /\ v.batch = {}
         /\ v.full = w.full /\ v.config = w.config /\ v.prev = w.prev /\ v.mark = w.mark
         /\ v.inbox = w.inbox /\ v.failed = w.failed /\ v.dirty = w.dirty
         /\ v.pc = (IF v.todo # {} THEN "list" ELSE IF mode # "off" THEN "inbox" ELSE "done")
<1> PICK left : left = w.todo \ {Current(w)}
  OBVIOUS
<1> PICK more : more = (left = {} /\ mode # "off")
  OBVIOUS
<1>1. more \in BOOLEAN
  OBVIOUS
<1> PICK pc : pc = (IF left # {} THEN "list" ELSE IF mode # "off" THEN "inbox" ELSE "done")
  OBVIOUS
<1>2. pc \in {"list", "inbox", "done"}
  OBVIOUS
<1>3. v = [w EXCEPT !.todo = left, !.skip = 0, !.batch = {}, !.more = more, !.pc = pc]
  BY DEF NextResource
<1>4. left \in SUBSET Resource
  BY PassFields
<1>5. v \in Pass
  BY <1>1, <1>2, <1>3, <1>4, NextTyped
<1>6. /\ v.todo = left /\ v.skip = 0 /\ v.batch = {}
      /\ v.full = w.full /\ v.config = w.config /\ v.prev = w.prev /\ v.mark = w.mark
      /\ v.inbox = w.inbox /\ v.failed = w.failed /\ v.dirty = w.dirty /\ v.pc = pc
  BY <1>3 DEF Pass
<1> QED BY <1>5, <1>6

\* What a pass that goes on owes itself and the others.
GoesOn(v, w, st) ==
  /\ v \in Pass /\ (v.pc = "list" <=> v.todo # {}) /\ (v.batch # {} => v.pc = "list")
  /\ Past(v) /\ v.dirty = w.dirty /\ v.pc # "idle" /\ PassOK(v, st)

LEMMA ListedIssues ==
  ASSUME updated \in [Item -> Time], NEW r, NEW f
  PROVE  /\ Listed(r, f) \in SUBSET Issue /\ Listed(r, f) \in SUBSET (Issue \union Thread)
         /\ \A j \in Listed(r, f) : ResOf[j] = r /\ updated[j] > 0
         /\ \A j \in Listed(r, f) : Rank(j, Listed(r, f)) \in Nat
<1>1. /\ Listed(r, f) \in SUBSET Issue
      /\ \A j \in Listed(r, f) : ResOf[j] = r /\ updated[j] > 0
  BY DEF Listed, There
<1> QED BY <1>1, PageAsc

LEMMA Onward ==
  ASSUME updated \in [Item -> Time], NEW w \in Pass, w.pc = "list", w.todo # {}, NEW st,
         w.todo \subseteq w.config, w.failed \subseteq w.config,
         w.failed \intersect (w.todo \ {Current(w)}) = {}, w.full => w.prev = NoFloor,
         CoversOK(w, st), InboxOK(w, st), Past(w),
         \A r \in w.config \ w.failed : Steady(w, r) =>
           \A j \in Listed(r, Floor(w, r)) :
             r \notin w.todo \/ r = Current(w) => Caught(j, st)
  PROVE  GoesOn(NextResource(w), w, st)
<1> PICK v : v = NextResource(w)
  OBVIOUS
<1>1. /\ v \in Pass /\ v.todo = w.todo \ {Current(w)} /\ v.skip = 0 /\ v.batch = {}
      /\ v.full = w.full /\ v.config = w.config /\ v.prev = w.prev /\ v.mark = w.mark
      /\ v.inbox = w.inbox /\ v.failed = w.failed /\ v.dirty = w.dirty
      /\ v.pc = (IF v.todo # {} THEN "list" ELSE IF mode # "off" THEN "inbox" ELSE "done")
  BY NextFields
<1>2. \A r : Floor(v, r) = Floor(w, r) /\ (Steady(v, r) <=> Steady(w, r))
  BY <1>1 DEF Floor, Steady
<1>3. ShapeOK(v) /\ BatchOK(v) /\ Past(v)
  BY <1>1 DEF ShapeOK, BatchOK, Past
<1>4. CoversOK(v, st)
  BY <1>1, <1>2 DEF CoversOK
<1>5. InboxOK(v, st)
  BY <1>1 DEF InboxOK
<1>6. ProgressOK(v, st)
  <2> SUFFICES ASSUME NEW r \in v.config \ v.failed, Steady(v, r),
                      NEW j \in Listed(r, Floor(v, r))
               PROVE  Recorded(v, st, r, j)
    BY DEF ProgressOK
  <2>1. r \notin v.todo => Caught(j, st)
    BY <1>1, <1>2
  <2>2. Rank(j, Listed(r, Floor(v, r))) >= 0
    BY ListedIssues
  <2> QED BY <1>1, <2>1, <2>2 DEF Recorded
<1> QED BY <1>1, <1>3, <1>4, <1>5, <1>6 DEF GoesOn, PassOK

\* ... once nothing of this one is left.
LEMMA ThroughOK ==
  ASSUME updated \in [Item -> Time], NEW w \in Pass, w.pc = "list", w.todo # {}, NEW st,
         ShapeOK(w), BatchOK(w), CoversOK(w, st), InboxOK(w, st), Past(w),
         \A r \in w.config \ w.failed : Steady(w, r) =>
           \A j \in Listed(r, Floor(w, r)) :
             /\ r \notin w.todo => Caught(j, st)
             /\ r = Current(w) => \/ Caught(j, st)
                                  \/ \E e \in w.batch : e.id = j
                                  \/ Rank(j, Listed(r, Floor(w, r))) >= w.skip /\ w.more
  PROVE  GoesOn(Through(w), w, st)
<1>1. CASE w.batch = {} /\ ~w.more
  <2>1. w.failed \intersect (w.todo \ {Current(w)}) = {}
        /\ w.todo \subseteq w.config /\ w.failed \subseteq w.config
        /\ (w.full => w.prev = NoFloor)
    BY DEF ShapeOK
  <2>2. \A r \in w.config \ w.failed : Steady(w, r) =>
           \A j \in Listed(r, Floor(w, r)) :
             r \notin w.todo \/ r = Current(w) => Caught(j, st)
    BY <1>1
  <2>3. GoesOn(NextResource(w), w, st)
    BY <2>1, <2>2, Onward
  <2> QED BY <1>1, <2>3 DEF Through
<1>2. CASE ~(w.batch = {} /\ ~w.more)
  <2>1. ProgressOK(w, st)
    BY DEF ProgressOK, Recorded
  <2>2. GoesOn(w, w, st)
    BY <2>1 DEF GoesOn, PassOK
  <2> QED BY <1>2, <2>2 DEF Through
<1> QED BY <1>1, <1>2

\* How a pass goes on, for all.
LEMMA GoOn ==
  ASSUME IInv, NEW p \in Process, Running(p), NEW w, NEW v, NEW st \in SUBSET Item,
         GoesOn(v, w, st), w.dirty = run[p].dirty,
         run' = [run EXCEPT ![p] = v], UNCHANGED Local, stale' = st,
         \A i \in st : i \in stale \/ (/\ i \in Issue /\ updated[i] > 0
                                       /\ ResOf[i] \in raced \intersect run[p].dirty)
  PROVE  IInv'
BY PassSteps DEF GoesOn
-----------------------------------------------------------------------------
(***************************************************************************)
(* The requests of a pass.                                                 *)
(***************************************************************************)

Paged(u, skip, more, r, t, batch) ==
  [u EXCEPT !.skip = skip, !.more = more, !.mark[r] = t, !.batch = batch]

LEMMA PageTyped ==
  ASSUME NEW u \in Pass, NEW skip \in Nat, NEW more \in BOOLEAN, NEW r \in Resource,
         NEW t \in Time, NEW batch \in SUBSET Entry,
         NEW w, w = Paged(u, skip, more, r, t, batch)
  PROVE  /\ w \in Pass /\ w.skip = skip /\ w.more = more /\ w.batch = batch
         /\ w.pc = u.pc /\ w.full = u.full /\ w.config = u.config /\ w.prev = u.prev
         /\ w.todo = u.todo /\ w.inbox = u.inbox /\ w.failed = u.failed /\ w.dirty = u.dirty
         /\ w.mark[r] = t /\ \A s \in Resource : s # r => w.mark[s] = u.mark[s]
<1>1. w \in Pass
  BY DEF Pass, Paged
<1> QED BY <1>1 DEF Pass, Paged

LEMMA CurrentIn ==
  ASSUME NEW u \in Pass, u.todo # {}
  PROVE  Current(u) \in u.todo /\ Current(u) \in Resource
BY PassFields, MinIn, IssueCursorsAssumption DEF Current

\* What stays as it is when a pass goes on with its resources.
LEMMA SameRest ==
  ASSUME NEW u, NEW w, w.full = u.full, w.config = u.config, w.prev = u.prev,
         w.inbox = u.inbox, w.dirty = u.dirty, u.pc = "list",
         CoversOK(u, stale), InboxOK(u, stale), NEW st,
         \A i \in st : i \in stale \/ (i \in Issue /\ ResOf[i] \in raced \intersect u.dirty)
  PROVE  /\ CoversOK(w, st) /\ InboxOK(w, st)
         /\ \A r : Floor(w, r) = Floor(u, r) /\ (Steady(w, r) <=> Steady(u, r))
<1>1. \A r : Floor(w, r) = Floor(u, r) /\ (Steady(w, r) <=> Steady(u, r))
  BY DEF Floor, Steady
<1>2. \A i \in st \ stale : i \in Issue /\ Home(i) \in raced \intersect u.dirty /\ i \notin Thread
  BY IdSets DEF Home
<1>3. CoversOK(w, st)
  BY <1>1, <1>2 DEF CoversOK
<1>4. InboxOK(w, st)
  BY <1>2 DEF InboxOK
<1> QED BY <1>1, <1>3, <1>4

LEMMA ListPageOK ==
  ASSUME IInv, NEW p \in Process, ListPage(p)
  PROVE  IInv'
<1> PICK u \in Pass : u = run[p]
  BY PassTyped
<1>1. u.pc = "list" /\ u.batch = {} /\ Running(p) /\ UNCHANGED Local /\ u.todo # {}
  BY PassTyped DEF ListPage, Running
<1>2. Past(u) /\ ShapeOK(u) /\ CoversOK(u, stale) /\ ProgressOK(u, stale) /\ InboxOK(u, stale)
  BY <1>1, PassTyped DEF PassOK
<1>3. updated \in [Item -> Time] /\ connector \in {"github", "jira"} /\ stale \subseteq Item
  BY DEF IInv, TypeOK
<1> PICK r \in Resource : r = Current(u) /\ r \in u.todo
  BY <1>1, CurrentIn
<1> PICK all \in SUBSET Issue : all = Listed(r, Floor(u, r))
  BY <1>3, ListedIssues
<1> PICK page \in SUBSET all : page = Page(all, u.skip)
  BY DEF Page
<1>4. /\ Cardinality(page) \in Nat
      /\ \A j \in all : Rank(j, all) \in Nat
      /\ \A j \in all : Rank(j, all) >= u.skip =>
           \/ j \in page
           \/ /\ Rank(j, all) >= u.skip + Cardinality(page)
              /\ page # {} /\ u.skip + Cardinality(page) < Cardinality(all)
  <2>1. all \in SUBSET (Issue \union Thread)
    OBVIOUS
  <2>2. u.skip \in Nat
    BY PassFields, Zenon
  <2> QED BY <1>3, <2>1, <2>2, PageAsc, ZenonT(30)
<1> PICK next \in Nat : next = u.skip + Cardinality(page)
  BY <1>4, PassFields
<1>m. PICK more \in BOOLEAN : more = (page # {} /\ next < Cardinality(all))
  OBVIOUS
<1>t. PICK t \in Time : t = Latest(u.mark[r], page) /\ t <= Now
  <2>1. u.mark[r] \in Time /\ u.mark[r] <= Now /\ page \in SUBSET Item
    BY <1>2, PassFields, IdSets DEF Past
  <2> QED BY <1>3, <2>1, LatestLast
<1>b. PICK batch \in SUBSET Entry :
      batch = IF connector = "github" THEN {} ELSE {[id |-> i, fresh |-> TRUE] : i \in page}
  <2>1. \A i \in page : [id |-> i, fresh |-> TRUE] \in Entry
    BY Zenon DEF Entry
  <2> QED BY <2>1, ZenonT(30)
<1>w. PICK w : w = Paged(u, next, more, r, t, batch)
  OBVIOUS
<1>s. PICK st \in SUBSET Item :
      st = IF connector = "github" THEN stale \ page ELSE stale
  BY <1>3
<1>5. run' = [run EXCEPT ![p] = Through(w)] /\ stale' = st
  BY <1>w, <1>s, <1>m, <1>t, <1>b DEF ListPage, Floor, Paged
<1>6. /\ w \in Pass /\ w.skip = next /\ w.more = more /\ w.batch = batch
      /\ w.pc = u.pc /\ w.full = u.full /\ w.config = u.config /\ w.prev = u.prev
      /\ w.todo = u.todo /\ w.inbox = u.inbox /\ w.failed = u.failed /\ w.dirty = u.dirty
      /\ w.mark[r] = t /\ \A s \in Resource : s # r => w.mark[s] = u.mark[s]
  BY <1>w, PageTyped
<1>7. st \subseteq stale /\ Current(w) = r
  BY <1>6, <1>s DEF Current
<1>8. /\ CoversOK(w, st) /\ InboxOK(w, st)
      /\ \A s : Floor(w, s) = Floor(u, s) /\ (Steady(w, s) <=> Steady(u, s))
  <2>1. \A i \in st : i \in stale \/ (i \in Issue /\ ResOf[i] \in raced \intersect u.dirty)
    BY <1>7
  <2> QED BY <1>1, <1>2, <1>6, <2>1, SameRest
<1>9. ShapeOK(w) /\ Past(w)
  BY <1>2, <1>t, <1>6 DEF ShapeOK, Past
<1>10. BatchOK(w)
  <2>1. \A e \in batch : e.fresh /\ e.id \in page
    BY <1>b
  <2>2. \A i \in page : updated[i] > 0 /\ ResOf[i] = r
    BY <1>3, ListedIssues
  <2> QED BY <1>6, <1>7, <2>1, <2>2 DEF BatchOK
<1>11. ASSUME NEW j \in page
       PROVE  Caught(j, st) \/ \E e \in batch : e.id = j
  <2>1. CASE connector = "github"
    <3>1. \A c \in Comment : c \notin stale
      BY <2>1 DEF IInv, World, Exists
    <3> QED BY <1>s, <2>1, <3>1 DEF Caught
  <2>2. CASE connector # "github"
    <3>1. [id |-> j, fresh |-> TRUE] \in batch
      BY <1>b, <2>2
    <3> QED BY <3>1
  <2> QED BY <2>1, <2>2
<1>12. ASSUME NEW s \in w.config \ w.failed, Steady(w, s), NEW j \in Listed(s, Floor(w, s))
       PROVE  /\ s \notin w.todo => Caught(j, st)
              /\ s = Current(w) => \/ Caught(j, st)
                                   \/ \E e \in w.batch : e.id = j
                                   \/ Rank(j, Listed(s, Floor(w, s))) >= w.skip /\ w.more
  <2>1. s \in u.config \ u.failed /\ Steady(u, s) /\ j \in Listed(s, Floor(u, s))
        /\ Floor(w, s) = Floor(u, s)
    BY <1>6, <1>8, <1>12
  <2>2. Recorded(u, stale, s, j)
    BY <1>2, <2>1 DEF ProgressOK
  <2>3. Caught(j, stale) => Caught(j, st)
    BY <1>7 DEF Caught
  <2>4. CASE s # Current(w)
    BY <1>6, <2>2, <2>3, <2>4 DEF Recorded
  <2>5. CASE s = Current(w)
    <3>1. s = r /\ j \in all
      BY <1>7, <2>1, <2>5
    <3>2. Caught(j, stale) \/ Rank(j, all) >= u.skip
      BY <1>1, <2>1, <2>2, <3>1 DEF Recorded
    <3>3. CASE Caught(j, stale)
      BY <2>3, <3>1, <3>3, <1>6
    <3>4. CASE j \in page
      BY <1>6, <1>11, <3>1, <3>4
    <3>5. CASE Rank(j, all) >= u.skip /\ j \notin page
      <4>1. Rank(j, all) >= next /\ more
        BY <1>4, <1>m, <3>1, <3>5
      <4> QED BY <1>6, <1>8, <2>5, <3>1, <4>1
    <3> QED BY <3>2, <3>3, <3>4, <3>5
  <2> QED BY <2>4, <2>5
<1>13. GoesOn(Through(w), w, st)
  BY <1>1, <1>3, <1>6, <1>8, <1>9, <1>10, <1>12, ThroughOK
<1> PICK v : v = Through(w)
  OBVIOUS
<1> QED BY <1>1, <1>5, <1>6, <1>7, <1>13, GoOn

Entered(u, r, t, batch) == [u EXCEPT !.batch = batch, !.mark[r] = t]

LEMMA EnterTyped ==
  ASSUME NEW u \in Pass, NEW r \in Resource, NEW t \in Time, NEW batch \in SUBSET Entry,
         NEW w, w = Entered(u, r, t, batch)
  PROVE  /\ w \in Pass /\ w.skip = u.skip /\ w.more = u.more /\ w.batch = batch
         /\ w.pc = u.pc /\ w.full = u.full /\ w.config = u.config /\ w.prev = u.prev
         /\ w.todo = u.todo /\ w.inbox = u.inbox /\ w.failed = u.failed /\ w.dirty = u.dirty
         /\ w.mark[r] = t /\ \A s \in Resource : s # r => w.mark[s] = u.mark[s]
<1>1. w \in Pass
  BY DEF Pass, Entered
<1> QED BY <1>1 DEF Pass, Entered

\* What is stored of an entry.
LEMMA StoredOK ==
  ASSUME IInv, NEW p \in Process, NEW e \in run[p].batch
  PROVE  /\ e \in Entry /\ e.id \in Issue /\ updated[e.id] > 0
         /\ ResOf[e.id] = Current(run[p]) /\ Current(run[p]) \in run[p].todo
         /\ ~e.fresh => Current(run[p]) \in raced \intersect run[p].dirty
         /\ Stored(e) \subseteq Item
         /\ \A i \in Stored(e) :
              i \in stale \/ (/\ ~e.fresh /\ i = e.id /\ i \in Issue /\ updated[i] > 0
                              /\ ResOf[i] \in raced \intersect run[p].dirty)
<1>1. run[p] \in Pass /\ run[p].pc = "list" /\ run[p].todo # {} /\ BatchOK(run[p])
  BY PassTyped DEF Running, PassOK
<1>2. e \in Entry /\ e.id \in Issue
  BY <1>1, PassFields DEF Entry
<1>3. /\ updated[e.id] > 0 /\ ResOf[e.id] = Current(run[p])
      /\ ~e.fresh => Current(run[p]) \in raced \intersect run[p].dirty
  BY <1>1 DEF BatchOK
<1>4. Current(run[p]) \in run[p].todo
  BY <1>1, CurrentIn
<1>5. stale \subseteq Item /\ e.id \in Item
  BY <1>2, IdSets DEF IInv, TypeOK
<1> QED BY <1>2, <1>3, <1>4, <1>5 DEF Stored

LEMMA RecordIssueOK ==
  ASSUME IInv, NEW p \in Process, NEW e \in run[p].batch, RecordIssue(p, e)
  PROVE  IInv'
<1> PICK u \in Pass : u = run[p]
  BY PassTyped
<1>1. u.pc = "list" /\ u.batch # {} /\ Running(p) /\ UNCHANGED Local /\ u.todo # {}
  BY PassTyped DEF RecordIssue, Running
<1>2. /\ Past(u) /\ ShapeOK(u) /\ BatchOK(u) /\ CoversOK(u, stale) /\ ProgressOK(u, stale)
      /\ InboxOK(u, stale)
  BY <1>1, PassTyped DEF PassOK
<1>3. updated \in [Item -> Time] /\ stale \subseteq Item
  BY DEF IInv, TypeOK
<1> PICK r \in Resource : r = Current(u) /\ r \in u.todo
  BY <1>1, CurrentIn
<1>4. /\ e \in Entry /\ e.id \in Issue /\ updated[e.id] > 0 /\ ResOf[e.id] = r
      /\ ~e.fresh => r \in raced \intersect u.dirty
      /\ Stored(e) \subseteq Item
      /\ \A i \in Stored(e) :
           i \in stale \/ (/\ ~e.fresh /\ i = e.id /\ i \in Issue /\ updated[i] > 0
                           /\ ResOf[i] \in raced \intersect u.dirty)
  BY StoredOK
<1>c. PICK cs \in SUBSET Comment : cs = {c \in There(Comment) : IssueOf[c] = e.id}
  BY DEF There
<1>t. PICK t \in Time : t = Latest(u.mark[r], cs) /\ t <= Now
  <2>1. u.mark[r] \in Time /\ u.mark[r] <= Now /\ cs \in SUBSET Item
    BY <1>2, PassFields, IdSets DEF Past
  <2> QED BY <1>3, <2>1, LatestLast
<1>b. PICK batch \in SUBSET Entry : batch = u.batch \ {e}
  BY PassFields
<1>w. PICK w : w = Entered(u, r, t, batch)
  OBVIOUS
<1>s. PICK st \in SUBSET Item : st = Stored(e) \ cs
  BY <1>4
<1>5. run' = [run EXCEPT ![p] = Through(w)] /\ stale' = st
  BY <1>w, <1>s, <1>c, <1>t, <1>b DEF RecordIssue, Entered
<1>6. /\ w \in Pass /\ w.skip = u.skip /\ w.more = u.more /\ w.batch = batch
      /\ w.pc = u.pc /\ w.full = u.full /\ w.config = u.config /\ w.prev = u.prev
      /\ w.todo = u.todo /\ w.inbox = u.inbox /\ w.failed = u.failed /\ w.dirty = u.dirty
      /\ w.mark[r] = t /\ \A s \in Resource : s # r => w.mark[s] = u.mark[s]
  BY <1>w, EnterTyped
<1>7. /\ Current(w) = r
      /\ \A i \in st : i \in stale \/ (/\ ~e.fresh /\ i = e.id /\ i \in Issue /\ updated[i] > 0
                                       /\ ResOf[i] \in raced \intersect u.dirty)
  BY <1>4, <1>6, <1>s DEF Current
<1>8. /\ CoversOK(w, st) /\ InboxOK(w, st)
      /\ \A s : Floor(w, s) = Floor(u, s) /\ (Steady(w, s) <=> Steady(u, s))
  BY <1>1, <1>2, <1>6, <1>7, SameRest
<1>9. ShapeOK(w) /\ Past(w) /\ BatchOK(w)
  BY <1>2, <1>t, <1>b, <1>6, <1>7 DEF ShapeOK, Past, BatchOK
<1>10. ASSUME e.fresh
       PROVE  Caught(e.id, st)
  <2>1. e.id \notin st
    BY <1>s, <1>10 DEF Stored
  <2>2. ASSUME NEW c \in Comment, IssueOf[c] = e.id
        PROVE  c \notin st
    <3>1. CASE updated[c] > 0
      BY <1>c, <1>s, <2>2, <3>1 DEF There
    <3>2. CASE ~(updated[c] > 0)
      <4>1. c \notin stale
        BY <3>2 DEF IInv, World, Exists
      <4> QED BY <1>7, <4>1, IdSets
    <3> QED BY <3>1, <3>2
  <2> QED BY <2>1, <2>2 DEF Caught
<1>11. ASSUME NEW j \in Issue, j # e.id \/ e.fresh, Caught(j, stale)
       PROVE  Caught(j, st)
  BY <1>7, <1>11, IdSets DEF Caught
<1>12. ASSUME NEW s \in w.config \ w.failed, Steady(w, s), NEW j \in Listed(s, Floor(w, s))
       PROVE  /\ s \notin w.todo => Caught(j, st)
              /\ s = Current(w) => \/ Caught(j, st)
                                   \/ \E d \in w.batch : d.id = j
                                   \/ Rank(j, Listed(s, Floor(w, s))) >= w.skip /\ w.more
  <2>1. /\ s \in u.config \ u.failed /\ Steady(u, s) /\ j \in Listed(s, Floor(u, s))
        /\ Floor(w, s) = Floor(u, s) /\ j \in Issue /\ ResOf[j] = s
    BY <1>3, <1>6, <1>8, <1>12, ListedIssues
  <2>2. Recorded(u, stale, s, j)
    BY <1>2, <2>1 DEF ProgressOK
  <2>3. CASE s # Current(w)
    <3>1. j # e.id
      BY <1>4, <1>7, <2>1, <2>3
    <3> QED BY <1>6, <1>11, <2>1, <2>2, <2>3, <3>1 DEF Recorded
  <2>4. CASE s = Current(w)
    <3>1. s = r /\ e.fresh
      BY <1>4, <1>7, <2>1, <2>4 DEF Steady, Entry
    <3>2. \/ Caught(j, stale)
          \/ \E d \in u.batch : d.id = j
          \/ Rank(j, Listed(s, Floor(u, s))) >= u.skip /\ u.more
      BY <1>1, <2>1, <2>2, <3>1 DEF Recorded
    <3>3. CASE Caught(j, stale)
      BY <1>6, <1>11, <2>1, <3>1, <3>3
    <3>4. CASE \E d \in u.batch : d.id = j
      <4>1. CASE j = e.id
        BY <1>6, <1>10, <3>1, <4>1
      <4>2. CASE j # e.id
        <5>1. \E d \in w.batch : d.id = j
          BY <1>6, <1>b, <3>4, <4>2
        <5> QED BY <1>6, <3>1, <5>1
      <4> QED BY <4>1, <4>2
    <3>5. CASE Rank(j, Listed(s, Floor(u, s))) >= u.skip /\ u.more
      BY <1>6, <2>1, <3>1, <3>5
    <3> QED BY <3>2, <3>3, <3>4, <3>5
  <2> QED BY <2>3, <2>4
<1>13. GoesOn(Through(w), w, st)
  BY <1>1, <1>3, <1>6, <1>8, <1>9, <1>12, ThroughOK
<1>14. \A i \in st : i \in stale \/ (/\ i \in Issue /\ updated[i] > 0
                                     /\ ResOf[i] \in raced \intersect run[p].dirty)
  BY <1>7
<1> PICK v : v = Through(w)
  OBVIOUS
<1> QED BY <1>1, <1>5, <1>6, <1>13, <1>14, GoOn

LEMMA IdleFields ==
  /\ Idle \in Pass /\ Idle.pc = "idle" /\ Idle.todo = {} /\ Idle.batch = {}
  /\ Idle.mark = [r \in Resource |-> 0] /\ Idle.inbox = 0 /\ Idle.failed = {}
  /\ Idle.prev = NoFloor /\ Idle.skip = 0 /\ Idle.more = FALSE
  /\ NoFloor \in Floors /\ NoFloor.inbox = 0 /\ \A a \in Axis : NoFloor.issues[a] = 0
<1>1. 0 \in Time
  BY IssueCursorsAssumption DEF Time
<1>2. NoFloor \in Floors /\ NoFloor.inbox = 0 /\ \A a \in Axis : NoFloor.issues[a] = 0
  BY <1>1 DEF NoFloor, Floors
<1>3. [r \in Resource |-> 0] \in [Resource -> Time]
  BY <1>1
<1> HIDE DEF NoFloor
<1>4. Idle \in Pass
  BY <1>1, <1>2, <1>3 DEF Idle, Pass
<1> QED BY <1>2, <1>4 DEF Idle

LEMMA IdlePast ==
  ASSUME IInv
  PROVE  Past(Idle)
<1>1. \A r \in Resource : Idle.mark[r] = 0
  BY IdleFields
<1>2. Idle.inbox = 0 /\ Idle.prev.inbox = 0 /\ \A a \in Axis : Idle.prev.issues[a] = 0
  BY IdleFields
<1>3. Now \in Nat
  BY NowLast, IssueCursorsAssumption DEF IInv, TypeOK, Time
<1> QED BY <1>1, <1>2, <1>3 DEF Past

\* A pass that ends, whatever it was at, leaves the store and the others as they are.
LEMMA EndOK ==
  ASSUME IInv, NEW p \in Process, Running(p), run' = [run EXCEPT ![p] = Idle],
         UNCHANGED Local, NEW st \in SUBSET Item, stale' = st,
         \A i \in st : i \in stale \/ (/\ i \in Issue /\ updated[i] > 0
                                       /\ ResOf[i] \in raced \intersect run[p].dirty)
  PROVE  IInv'
<1> PICK v : v = Idle
  OBVIOUS
<1>1. v \in Pass /\ v.pc = "idle" /\ v.todo = {} /\ v.batch = {}
  BY IdleFields
<1>2. Past(v)
  BY IdlePast
<1> QED BY <1>1, <1>2, PassSteps

Failing(u, r) == [u EXCEPT !.failed = @ \union {r}]

LEMMA FailTyped ==
  ASSUME NEW u \in Pass, NEW r \in Resource, NEW w, w = Failing(u, r)
  PROVE  /\ w \in Pass /\ w.failed = u.failed \union {r}
         /\ w.skip = u.skip /\ w.more = u.more /\ w.batch = u.batch
         /\ w.pc = u.pc /\ w.full = u.full /\ w.config = u.config /\ w.prev = u.prev
         /\ w.todo = u.todo /\ w.inbox = u.inbox /\ w.dirty = u.dirty /\ w.mark = u.mark
<1> PICK failed \in SUBSET Resource : failed = u.failed \union {r}
  BY PassFields
<1>1. w = [u EXCEPT !.failed = failed]
  BY DEF Failing
<1>2. w \in Pass
  BY <1>1 DEF Pass
<1> QED BY <1>1, <1>2 DEF Pass

LEMMA ResourceFailsOK ==
  ASSUME IInv, NEW p \in Process, ResourceFails(p)
  PROVE  IInv'
<1> PICK u \in Pass : u = run[p]
  BY PassTyped
<1>1. u.pc = "list" /\ Running(p) /\ UNCHANGED Local /\ u.todo # {}
  BY PassTyped DEF ResourceFails, Running
<1>2. /\ Past(u) /\ ShapeOK(u) /\ BatchOK(u) /\ CoversOK(u, stale) /\ ProgressOK(u, stale)
      /\ InboxOK(u, stale)
  BY <1>1, PassTyped DEF PassOK
<1>3. updated \in [Item -> Time] /\ stale \subseteq Item
  BY DEF IInv, TypeOK
<1> PICK r \in Resource : r = Current(u) /\ r \in u.todo
  BY <1>1, CurrentIn
<1>w. PICK w : w = Failing(u, r)
  OBVIOUS
<1>4. run' = [run EXCEPT ![p] = IF AllFailed(w) THEN Idle ELSE NextResource(w)]
  BY <1>w DEF ResourceFails, Failing
<1>s. PICK st \in SUBSET Item :
        /\ stale' = st
        /\ \A i \in st : i \in stale \/ (/\ i \in Issue /\ updated[i] > 0 /\ ResOf[i] = r
                                         /\ ResOf[i] \in raced \intersect u.dirty)
  <2>1. CASE stale' = stale
    BY <1>3, <2>1
  <2>2. ASSUME NEW e \in u.batch, stale' = Stored(e)
        PROVE  \E st \in SUBSET Item :
                 /\ stale' = st
                 /\ \A i \in st : i \in stale \/ (/\ i \in Issue /\ updated[i] > 0 /\ ResOf[i] = r
                                                  /\ ResOf[i] \in raced \intersect u.dirty)
    BY <2>2, StoredOK
  <2>3. stale' = stale \/ \E e \in u.batch : stale' = Stored(e)
    BY DEF ResourceFails
  <2> QED BY <2>1, <2>2, <2>3
<1>5. /\ w \in Pass /\ w.failed = u.failed \union {r}
      /\ w.skip = u.skip /\ w.more = u.more /\ w.batch = u.batch
      /\ w.pc = u.pc /\ w.full = u.full /\ w.config = u.config /\ w.prev = u.prev
      /\ w.todo = u.todo /\ w.inbox = u.inbox /\ w.dirty = u.dirty /\ w.mark = u.mark
  BY <1>w, FailTyped
<1>6. Current(w) = r
  BY <1>5 DEF Current
<1>7. \A i \in st : i \in stale \/ (i \in Issue /\ ResOf[i] \in raced \intersect u.dirty)
  BY <1>s
<1>8. /\ CoversOK(w, st) /\ InboxOK(w, st)
      /\ \A s : Floor(w, s) = Floor(u, s) /\ (Steady(w, s) <=> Steady(u, s))
  BY <1>1, <1>2, <1>5, <1>7, SameRest
<1>9. /\ Past(w) /\ w.todo \subseteq w.config /\ w.failed \subseteq w.config
      /\ w.failed \intersect (w.todo \ {Current(w)}) = {} /\ (w.full => w.prev = NoFloor)
  BY <1>2, <1>5, <1>6 DEF ShapeOK, Past
<1>10. ASSUME NEW s \in w.config \ w.failed, Steady(w, s), NEW j \in Listed(s, Floor(w, s)),
              s \notin w.todo \/ s = Current(w)
       PROVE  Caught(j, st)
  <2>1. /\ s \in u.config \ u.failed /\ Steady(u, s) /\ j \in Listed(s, Floor(u, s))
        /\ Floor(w, s) = Floor(u, s) /\ j \in Issue /\ ResOf[j] = s /\ s \notin u.todo
    BY <1>3, <1>5, <1>6, <1>8, <1>10, ListedIssues
  <2>2. Caught(j, stale)
    BY <1>2, <2>1 DEF ProgressOK, Recorded
  <2>3. \A i \in st : i \in stale \/ (i \in Issue /\ i # j)
    BY <1>s, <2>1
  <2> QED BY <2>1, <2>2, <2>3, IdSets DEF Caught
<1>11. \A i \in st : i \in stale \/ (/\ i \in Issue /\ updated[i] > 0
                                     /\ ResOf[i] \in raced \intersect run[p].dirty)
  BY <1>s
<1>12. CASE AllFailed(w)
  <2>1. run' = [run EXCEPT ![p] = Idle]
    BY <1>4, <1>12
  <2> QED BY <1>1, <1>s, <1>11, <2>1, EndOK
<1>13. CASE ~AllFailed(w)
  <2>1. GoesOn(NextResource(w), w, st)
    <3>1. \A s \in w.config \ w.failed : Steady(w, s) =>
            \A j \in Listed(s, Floor(w, s)) :
              s \notin w.todo \/ s = Current(w) => Caught(j, st)
      BY <1>10
    <3> QED BY <1>1, <1>3, <1>5, <1>8, <1>9, <3>1, Onward
  <2> PICK v : v = NextResource(w)
    OBVIOUS
  <2>2. run' = [run EXCEPT ![p] = v]
    BY <1>4, <1>13
  <2> QED BY <1>1, <1>5, <1>s, <1>11, <2>1, <2>2, GoOn
<1> QED BY <1>12, <1>13

Notified(u, skip, more, t, pc) == [u EXCEPT !.skip = skip, !.more = more, !.inbox = t, !.pc = pc]

LEMMA NotifyTyped ==
  ASSUME NEW u \in Pass, NEW skip \in Nat, NEW more \in BOOLEAN, NEW t \in Time,
         NEW pc \in {"idle", "list", "inbox", "done"},
         NEW v, v = Notified(u, skip, more, t, pc)
  PROVE  /\ v \in Pass /\ v.skip = skip /\ v.more = more /\ v.inbox = t /\ v.pc = pc
         /\ v.full = u.full /\ v.config = u.config /\ v.prev = u.prev /\ v.batch = u.batch
         /\ v.todo = u.todo /\ v.failed = u.failed /\ v.dirty = u.dirty /\ v.mark = u.mark
<1>1. v \in Pass
  BY DEF Pass, Notified
<1> QED BY <1>1 DEF Pass, Notified

LEMMA InboxPageOK ==
  ASSUME IInv, NEW p \in Process, InboxPage(p)
  PROVE  IInv'
<1> PICK u \in Pass : u = run[p]
  BY PassTyped
<1>1. u.pc = "inbox" /\ Running(p) /\ UNCHANGED Local /\ u.todo = {} /\ u.batch = {}
  BY PassTyped DEF InboxPage, Running
<1>2. Past(u) /\ ShapeOK(u) /\ CoversOK(u, stale) /\ ProgressOK(u, stale) /\ InboxOK(u, stale)
  BY <1>1, PassTyped DEF PassOK
<1>3. updated \in [Item -> Time] /\ stale \subseteq Item
  BY DEF IInv, TypeOK
<1>a. PICK all \in SUBSET Thread : all = ListedThreads(u.prev.inbox)
  BY DEF ListedThreads, There
<1>p. PICK page \in SUBSET all : page = PageDesc(all, u.skip)
  BY DEF PageDesc
<1>4. /\ Cardinality(page) \in Nat
      /\ \A j \in all : RankDesc(j, all) \in Nat
      /\ \A i, j \in all : Before(j, i) <=> RankDesc(i, all) < RankDesc(j, all)
      /\ \A j \in page : RankDesc(j, all) >= u.skip
      /\ \A j \in all : RankDesc(j, all) >= u.skip =>
           \/ j \in page
           \/ /\ RankDesc(j, all) >= u.skip + Cardinality(page)
              /\ page # {} /\ u.skip + Cardinality(page) < Cardinality(all)
  <2>1. all \in SUBSET (Issue \union Thread) /\ u.skip \in Nat
    BY PassFields
  <2> QED BY <1>3, <1>p, <2>1, PageNewest
<1>n. PICK next \in Nat : next = u.skip + Cardinality(page)
  BY <1>4, PassFields
<1>m. PICK more \in BOOLEAN : more = (page # {} /\ next < Cardinality(all))
  OBVIOUS
<1>5. u.inbox \in Time /\ u.inbox <= Now /\ page \in SUBSET Item
  BY <1>2, PassFields, IdSets DEF Past
<1>t. PICK t \in Time : t = Latest(u.inbox, page) /\ t <= Now
                        /\ (t = u.inbox \/ \E i \in page : t = updated[i])
  BY <1>3, <1>5, LatestLast
<1>pc. PICK pc \in {"inbox", "done"} : pc = IF more THEN "inbox" ELSE "done"
  OBVIOUS
<1>v. PICK v : v = Notified(u, next, more, t, pc)
  OBVIOUS
<1>s. PICK st \in SUBSET Item : st = stale \ {n \in page : Allowed(u, n)}
  BY <1>3
<1>6. run' = [run EXCEPT ![p] = v] /\ stale' = st
  BY <1>a, <1>p, <1>n, <1>m, <1>t, <1>pc, <1>v, <1>s DEF InboxPage, Notified
<1>7. /\ v \in Pass /\ v.skip = next /\ v.more = more /\ v.inbox = t /\ v.pc = pc
      /\ v.full = u.full /\ v.config = u.config /\ v.prev = u.prev /\ v.batch = u.batch
      /\ v.todo = u.todo /\ v.failed = u.failed /\ v.dirty = u.dirty /\ v.mark = u.mark
  BY <1>v, NotifyTyped
<1>8. st \subseteq stale
  BY <1>s
<1>9. ShapeOK(v) /\ BatchOK(v) /\ Past(v)
  BY <1>1, <1>2, <1>t, <1>7 DEF ShapeOK, BatchOK, Past
<1>10. \A s : Floor(v, s) = Floor(u, s) /\ (Steady(v, s) <=> Steady(u, s))
  BY <1>7 DEF Floor, Steady
<1>11. CoversOK(v, st)
  BY <1>2, <1>7, <1>8, <1>10 DEF CoversOK
<1>12. ProgressOK(v, st)
  BY <1>1, <1>2, <1>7, <1>8, <1>10 DEF ProgressOK, Recorded, Caught
<1>13. InboxOK(v, st)
  <2> SUFFICES ASSUME ~crossed, NEW n \in st \intersect Thread,
                      mode = "all" \/ ResOf[n] \in always \intersect u.config
               PROVE  /\ updated[n] >= u.prev.inbox
                      /\ updated[n] >= t \/ (pc = "inbox" /\ RankDesc(n, all) >= next)
    BY <1>a, <1>7 DEF InboxOK
  <2>1. n \in stale /\ n \notin page
    BY <1>s DEF Allowed
  <2>2. /\ updated[n] >= u.prev.inbox
        /\ updated[n] >= u.inbox \/ RankDesc(n, all) >= u.skip
    BY <1>2, <1>a, <2>1 DEF InboxOK
  <2>3. n \in all
    BY <1>a, <2>1, <2>2 DEF ListedThreads, There, IInv, World, Exists
  <2>4. CASE RankDesc(n, all) >= u.skip
    BY <1>4, <1>n, <1>m, <1>pc, <2>1, <2>2, <2>3, <2>4
  <2>5. CASE ~(RankDesc(n, all) >= u.skip)
    <3>1. \A i \in page : Before(i, n)
      BY <1>4, <2>3, <2>5, PassFields
    <3>2. \A i \in page : updated[i] <= updated[n]
      <4>1. \A i \in page : updated[i] \in Nat /\ updated[n] \in Nat
        BY <1>3, <1>5, IssueCursorsAssumption DEF Time
      <4> QED BY <3>1, <4>1 DEF Before
    <3> QED BY <1>t, <2>2, <2>5, <3>2
  <2> QED BY <2>4, <2>5
<1>14. /\ v.pc = "list" <=> v.todo # {}
       /\ v.batch # {} => v.pc = "list"
       /\ v.dirty = run[p].dirty /\ PassOK(v, st)
  BY <1>1, <1>7, <1>9, <1>11, <1>12, <1>13 DEF PassOK
<1> QED BY <1>1, <1>6, <1>7, <1>8, <1>9, <1>14, PassSteps

LEMMA InboxFailsOK ==
  ASSUME IInv, NEW p \in Process, InboxFails(p)
  PROVE  IInv'
<1>1. Running(p) /\ run' = [run EXCEPT ![p] = Idle] /\ UNCHANGED Local /\ stale' = stale
  BY DEF InboxFails, Running
<1>2. stale \in SUBSET Item
  BY DEF IInv, TypeOK
<1> PICK st \in SUBSET Item : st = stale
  BY <1>2
<1> QED BY <1>1, EndOK

LEMMA DieOK ==
  ASSUME IInv, NEW p \in Process, Die(p)
  PROVE  IInv'
<1>1. Running(p) /\ run' = [run EXCEPT ![p] = Idle] /\ UNCHANGED <<Rest, config, edits>>
      /\ stale' = stale
  BY DEF Die, Rest
<1>2. ops' \in 0 .. MaxOps
  BY IssueCursorsAssumption DEF Die, Spend, IInv, TypeOK
<1> PICK st \in SUBSET Item : st = stale
  BY DEF IInv, TypeOK
<1> PICK v : v = Idle
  OBVIOUS
<1>3. v \in Pass /\ v.pc = "idle" /\ v.todo = {} /\ v.batch = {} /\ Past(v)
  BY IdleFields, IdlePast
<1> QED BY <1>1, <1>2, <1>3, RunSteps

\* The configuration is of no account to a running pass.
LEMMA Unmoved ==
  ASSUME IInv, UNCHANGED <<Rest, stale, run, edits>>, config' \in (SUBSET Resource) \ {{}},
         ops' \in 0 .. MaxOps
  PROVE  IInv'
<1>1. /\ updated' = updated /\ connector' = connector /\ mode' = mode /\ raced' = raced
      /\ behind' = behind /\ always' = always /\ crossed' = crossed /\ stale' = stale
      /\ cursor' = cursor /\ run' = run /\ edits' = edits
  BY DEF Rest, settings, history
<1>c. config' \subseteq Resource /\ config' # {}
  OBVIOUS
<1>2. TypeOK' /\ config' # {}
  BY <1>1, <1>c DEF IInv, TypeOK
<1>3. Exists' /\ Apart'
  BY <1>1 DEF IInv, World, Exists, Apart, Running
<1>4. \A u : Past(u)' <=> Past(u)
  BY <1>1, SameTimes DEF Past
<1>5. CursorPast'
  BY <1>1, SameTimes DEF IInv, World, CursorPast
<1>6. NothingSkipped'
  <2>1. \A r, f : Listed(r, f)' = Listed(r, f)
    BY <1>1, SameTimes
  <2> QED BY <1>1, <2>1 DEF IInv, World, NothingSkipped, WillBeListed, AxisOf
<1>7. NotificationsKept'
  <2>1. \A f : ListedThreads(f)' = ListedThreads(f)
    BY <1>1, SameTimes
  <2> QED BY <1>1, <2>1 DEF IInv, World, NotificationsKept
<1>8. ASSUME NEW p \in Process
      PROVE  Past(run[p])' /\ (Running(p)' => PassOK(run[p], stale)')
  <2> PICK u : u = run[p]
    OBVIOUS
  <2> PICK st : st = stale
    OBVIOUS
  <2>1. Past(u)' /\ (Running(p) => PassOK(u, st))
    BY <1>4, PassTyped
  <2>2. Running(p) => PassOK(u, st)'
    BY <2>1, SamePass
  <2> QED BY <1>1, <2>1, <2>2 DEF Running
<1> QED BY <1>2, <1>3, <1>5, <1>6, <1>7, <1>8 DEF IInv, World

LEMMA ReconfigureOK ==
  ASSUME IInv, NEW C \in (SUBSET Resource) \ {{}}, Reconfigure(C)
  PROVE  IInv'
<1>1. UNCHANGED <<Rest, stale, run, edits>> /\ config' \in (SUBSET Resource) \ {{}}
  BY DEF Reconfigure, Rest
<1>2. ops' \in 0 .. MaxOps
  BY IssueCursorsAssumption DEF Reconfigure, Spend, IInv, TypeOK
<1> QED BY <1>1, <1>2, Unmoved
-----------------------------------------------------------------------------
(***************************************************************************)
(* A pass begins.                                                          *)
(***************************************************************************)

Begun(u, full, conf, prev, dirty) ==
  [u EXCEPT !.pc = "list", !.full = full, !.config = conf, !.prev = prev, !.todo = conf,
            !.inbox = prev.inbox, !.dirty = dirty]

LEMMA BegunTyped ==
  ASSUME NEW u \in Pass, NEW full \in BOOLEAN, NEW conf \in SUBSET Resource,
         NEW prev \in Floors, NEW dirty \in SUBSET Resource,
         NEW v, v = Begun(u, full, conf, prev, dirty)
  PROVE  /\ v \in Pass /\ v.pc = "list" /\ v.full = full /\ v.config = conf /\ v.prev = prev
         /\ v.todo = conf /\ v.inbox = prev.inbox /\ v.dirty = dirty /\ v.mark = u.mark
         /\ v.skip = u.skip /\ v.more = u.more /\ v.batch = u.batch /\ v.failed = u.failed
<1> PICK t \in Time : t = prev.inbox
  BY DEF Floors
<1>1. v = [u EXCEPT !.pc = "list", !.full = full, !.config = conf, !.prev = prev, !.todo = conf,
                    !.inbox = t, !.dirty = dirty]
  BY DEF Begun
<1>2. v \in Pass
  BY <1>1, ZenonT(30) DEF Pass
<1> QED BY <1>1, <1>2 DEF Pass

Crossed(u) == [u EXCEPT !.dirty = Resource]

LEMMA CrossedTyped ==
  ASSUME NEW u \in Pass, NEW v, v = Crossed(u)
  PROVE  /\ v \in Pass /\ v.pc = u.pc /\ v.full = u.full /\ v.config = u.config
         /\ v.prev = u.prev /\ v.todo = u.todo /\ v.inbox = u.inbox /\ v.dirty = Resource
         /\ v.mark = u.mark /\ v.skip = u.skip /\ v.more = u.more /\ v.batch = u.batch
         /\ v.failed = u.failed
<1> PICK d \in SUBSET Resource : d = Resource
  OBVIOUS
<1>1. v = [u EXCEPT !.dirty = d]
  BY DEF Crossed
<1>2. v \in Pass
  BY <1>1 DEF Pass
<1> QED BY <1>1, <1>2 DEF Pass

\* A pass that another one joins can rely on less.
LEMMA CrossedOK ==
  ASSUME NEW u \in Pass, NEW v, v = Crossed(u), Past(u)
  PROVE  /\ Past(v)
         /\ u.todo \subseteq Resource /\ (u.todo # {} => Current(u) \in Resource)
         /\ \A st : (u.batch # {} => u.todo # {}) /\ PassOK(u, st) => PassOK(v, st)
<1>1. /\ v \in Pass /\ v.pc = u.pc /\ v.full = u.full /\ v.config = u.config
      /\ v.prev = u.prev /\ v.todo = u.todo /\ v.inbox = u.inbox /\ v.dirty = Resource
      /\ v.mark = u.mark /\ v.skip = u.skip /\ v.more = u.more /\ v.batch = u.batch
      /\ v.failed = u.failed
  BY CrossedTyped
<1>2. \A r : Floor(v, r) = Floor(u, r)
  BY <1>1 DEF Floor
<1>3. Current(v) = Current(u)
  BY <1>1 DEF Current
<1>4. Past(v)
  BY <1>1 DEF Past
<1>5. u.todo \subseteq Resource /\ (u.todo # {} => Current(u) \in Resource)
  BY PassFields, CurrentIn
<1>6. ASSUME NEW st, u.batch # {} => u.todo # {}, PassOK(u, st)
      PROVE  PassOK(v, st)
  <2>1. ShapeOK(v)
    BY <1>1, <1>6 DEF PassOK, ShapeOK
  <2>2. BatchOK(v)
    BY <1>1, <1>3, <1>5, <1>6 DEF PassOK, BatchOK
  <2>3. CoversOK(v, st)
    BY <1>1, <1>2, <1>6 DEF PassOK, CoversOK
  <2>4. ProgressOK(v, st)
    <3>1. \A r \in v.config \ v.failed : Steady(v, r) => Steady(u, r)
      BY <1>1, PassFields DEF Steady
    <3> QED BY <1>1, <1>2, <1>3, <1>6, <3>1 DEF PassOK, ProgressOK, Recorded
  <2>5. InboxOK(v, st)
    BY <1>1, <1>6 DEF PassOK, InboxOK
  <2> QED BY <2>1, <2>2, <2>3, <2>4, <2>5 DEF PassOK
<1> QED BY <1>4, <1>5, <1>6

LEMMA BeginOK ==
  ASSUME IInv, NEW p \in Process, NEW full \in BOOLEAN, Begin(p, full)
  PROVE  IInv'
<1>1. /\ updated' = updated /\ connector' = connector /\ mode' = mode /\ raced' = raced
      /\ behind' = behind /\ always' = always /\ config' = config /\ stale' = stale
      /\ cursor' = cursor /\ edits' = edits /\ ~Running(p)
  BY DEF Begin, settings
<1>2. ops' \in 0 .. MaxOps
  <2>1. Spend /\ ops \in 0 .. MaxOps
    BY DEF Begin, IInv, TypeOK
  <2> QED BY <2>1, IssueCursorsAssumption DEF Spend
<1>3. /\ updated \in [Item -> Time] /\ stale \subseteq Item /\ config \in SUBSET Resource
      /\ config # {} /\ cursor \in Floors /\ run \in [Process -> Pass]
      /\ connector \in {"github", "jira"} /\ crossed \in BOOLEAN
  BY DEF IInv, TypeOK
<1>v. PICK prev \in Floors : prev = IF full THEN NoFloor ELSE cursor
  BY <1>3, IdleFields
<1>o. PICK others \in SUBSET Process : others = {q \in Process : Running(q)}
  OBVIOUS
<1>d. PICK dirty \in SUBSET Resource : dirty = IF others = {} THEN {} ELSE Resource
  OBVIOUS
<1>i. PICK idle \in Pass : idle = Idle
  BY IdleFields
<1>b. PICK v : v = Begun(idle, full, config, prev, dirty)
  OBVIOUS
<1>4. /\ v \in Pass /\ v.pc = "list" /\ v.full = full /\ v.config = config /\ v.prev = prev
      /\ v.todo = config /\ v.inbox = prev.inbox /\ v.dirty = dirty /\ v.mark = idle.mark
      /\ v.skip = idle.skip /\ v.more = idle.more /\ v.batch = idle.batch
      /\ v.failed = idle.failed
  BY <1>3, <1>b, BegunTyped
<1>5. v.skip = 0 /\ v.batch = {} /\ v.failed = {} /\ \A r \in Resource : v.mark[r] = 0
  BY <1>4, <1>i, IdleFields
<1>6. /\ run'[p] = v
      /\ \A q \in Process : q # p =>
           run'[q] = IF q \in others THEN Crossed(run[q]) ELSE run[q]
      /\ crossed' = (crossed \/ others # {})
      /\ run' \in [Process -> Pass]
  <2>1. run' = [q \in Process |-> IF q = p THEN v
                  ELSE IF q \in others THEN Crossed(run[q]) ELSE run[q]]
    BY <1>v, <1>o, <1>d, <1>i, <1>b DEF Begin, Begun, Crossed
  <2>2. \A q \in Process : Crossed(run[q]) \in Pass
    BY <1>3, CrossedTyped
  <2>3. run' \in [Process -> Pass]
    <3>1. \A q \in Process : (IF q = p THEN v ELSE IF q \in others THEN Crossed(run[q])
                                ELSE run[q]) \in Pass
      BY <1>3, <1>4, <2>2
    <3> QED BY <2>1, <3>1
  <2>4. crossed' = (crossed \/ others # {})
    BY <1>o DEF Begin
  <2> QED BY <2>1, <2>3, <2>4
<1>7. p \notin others /\ \A q \in Process : q \in others <=> Running(q)
  BY <1>1, <1>o
<1>8. UNCHANGED <<settings, updated, raced>> /\ behind \subseteq behind'
      /\ always' \subseteq always /\ (crossed => crossed')
  BY <1>1, <1>6 DEF settings
<1>9. ASSUME NEW q \in Process
      PROVE  /\ run'[q].pc = "list" <=> run'[q].todo # {}
             /\ run'[q].batch # {} => run'[q].pc = "list"
             /\ Past(run[q])' /\ (Running(q)' => PassOK(run[q], stale)')
  <2> PICK st : st = stale
    OBVIOUS
  <2> PICK w \in Pass : w = run'[q]
    BY <1>6
  <2>1. Past(w)' <=> Past(w)
    BY <1>1, SameTimes DEF Past
  <2>2. CASE q = p
    <3>1. w = v
      BY <1>6, <2>2
    <3>2. Past(v)
      <4>1. cursor.inbox <= Now /\ \A a \in Axis : cursor.issues[a] <= Now
        BY DEF IInv, World, CursorPast
      <4>2. Now \in Nat
        BY <1>3, NowLast, IssueCursorsAssumption DEF Time
      <4>3. prev.inbox <= Now /\ \A a \in Axis : prev.issues[a] <= Now
        BY <1>v, <4>1, <4>2, IdleFields
      <4> QED BY <1>4, <1>5, <4>2, <4>3 DEF Past
    <3>3. ShapeOK(v) /\ BatchOK(v)
      BY <1>3, <1>4, <1>5, <1>v DEF ShapeOK, BatchOK
    <3>4. CoversOK(v, st)
      <4> SUFFICES ASSUME NEW r \in Resource, r \notin raced \union behind \/ full,
                          NEW i \in stale \ Thread, Home(i) = r
                   PROVE  IssueItself(i) \in Listed(r, Floor(v, r))
        BY <1>4 DEF CoversOK
      <4>1. CASE full
        <5>1. Floor(v, r) = 0
          <6>1. AxisOf(r) \in Axis
            BY DEF AxisOf, Axis
          <6> QED BY <1>4, <1>v, <4>1, <6>1, IdleFields DEF Floor
        <5>2. IssueItself(i) \in Issue /\ updated[IssueItself(i)] > 0
          BY <1>3, IdSets DEF IInv, World, Exists
        <5>3. updated[IssueItself(i)] >= 0
          <6> PICK j \in Item : j = IssueItself(i)
            BY <5>2, IdSets
          <6>1. updated[j] \in Time
            BY <1>3
          <6> QED BY <6>1, IssueCursorsAssumption DEF Time
        <5> QED BY <5>1, <5>2, <5>3 DEF Listed, There, Home
      <4>2. CASE ~full
        <5>1. Floor(v, r) = cursor.issues[AxisOf(r)]
          BY <1>4, <1>v, <4>2 DEF Floor
        <5> QED BY <4>2, <5>1 DEF IInv, World, NothingSkipped, WillBeListed, Home
      <4> QED BY <4>1, <4>2
    <3>5. ProgressOK(v, st)
      <4> SUFFICES ASSUME NEW r \in v.config, NEW j \in Listed(r, Floor(v, r))
                   PROVE  Recorded(v, st, r, j)
        BY DEF ProgressOK
      <4>1. Rank(j, Listed(r, Floor(v, r))) >= 0
        BY <1>3, ListedIssues
      <4> QED BY <1>4, <1>5, <4>1 DEF Recorded
    <3>6. InboxOK(v, st)
      <4> SUFFICES ASSUME ~crossed, NEW n \in stale \intersect Thread,
                          mode = "all" \/ ResOf[n] \in always
                   PROVE  updated[n] >= prev.inbox
        BY <1>4 DEF InboxOK
      <4>1. updated[n] >= cursor.inbox
        BY DEF IInv, World, NotificationsKept, ListedThreads
      <4>2. updated[n] >= 0
        BY <1>3, IssueCursorsAssumption DEF Time
      <4> QED BY <1>v, <4>1, <4>2, IdleFields
    <3>7. PassOK(v, st)'
      BY <1>8, <3>3, <3>4, <3>5, <3>6, KeptPass DEF PassOK
    <3> QED BY <1>1, <1>3, <1>4, <1>5, <2>1, <3>1, <3>2, <3>7
  <2>3. CASE q \in others
    <3> PICK u \in Pass : u = run[q]
      BY <1>3
    <3>1. /\ w = Crossed(u) /\ Running(q) /\ Past(u) /\ PassOK(u, st)
          /\ u.pc = "list" <=> u.todo # {}
          /\ u.batch # {} => u.pc = "list"
      BY <1>6, <1>7, <2>3, PassTyped
    <3>2. Past(w) /\ PassOK(w, st)
      BY <3>1, CrossedOK
    <3>3. PassOK(w, st)'
      BY <1>8, <3>2, KeptPass
    <3>4. w.pc = u.pc /\ w.todo = u.todo /\ w.batch = u.batch
      BY <3>1, CrossedTyped
    <3> QED BY <1>1, <2>1, <3>1, <3>2, <3>3, <3>4
  <2>4. CASE q # p /\ q \notin others
    <3>1. w = run[q] /\ ~Running(q)
      BY <1>6, <1>7, <2>4
    <3>2. Past(w) /\ (w.pc = "list" <=> w.todo # {}) /\ (w.batch # {} => w.pc = "list")
      BY <3>1, PassTyped
    <3> QED BY <2>1, <3>1, <3>2 DEF Running
  <2> QED BY <2>2, <2>3, <2>4
<1>10. TypeOK'
  <2>1. crossed' \in BOOLEAN
    BY <1>6
  <2> QED BY <1>1, <1>2, <1>6, <1>9, <2>1 DEF IInv, TypeOK
<1>11. Exists' /\ config' # {}
  BY <1>1 DEF IInv, World, Exists
<1>12. CursorPast'
  BY <1>1, SameTimes DEF IInv, World, CursorPast
<1>13. NothingSkipped'
  <2>1. \A r, f : Listed(r, f)' = Listed(r, f)
    BY <1>1, SameTimes
  <2> QED BY <1>1, <2>1 DEF IInv, World, NothingSkipped, WillBeListed, AxisOf
<1>14. NotificationsKept'
  <2>1. \A f : ListedThreads(f)' = ListedThreads(f)
    BY <1>1, SameTimes
  <2> QED BY <1>1, <1>8, <2>1 DEF IInv, World, NotificationsKept
<1>15. Apart'
  <2> SUFFICES ASSUME NEW q \in Process, NEW t \in Process, q # t, Running(q)', Running(t)'
               PROVE  crossed' /\ run'[q].dirty = Resource
    BY DEF Apart
  <2>1. \A s \in Process : s # p /\ Running(s)' => s \in others
    BY <1>6, <1>7 DEF Running
  <2>2. others # {}
    BY <2>1
  <2>3. CASE q = p
    BY <1>4, <1>6, <1>d, <2>2, <2>3
  <2>4. CASE q # p
    <3>1. run'[q] = Crossed(run[q]) /\ run[q] \in Pass
      BY <1>3, <1>6, <2>1, <2>4
    <3> QED BY <1>6, <2>2, <3>1, CrossedTyped
  <2> QED BY <2>3, <2>4
<1> QED BY <1>9, <1>10, <1>11, <1>12, <1>13, <1>14, <1>15 DEF IInv, World
-----------------------------------------------------------------------------
(***************************************************************************)
(* A pass is over.                                                         *)
(***************************************************************************)

LEMMA FloorsOK ==
  ASSUME updated \in [Item -> Time], connector \in {"github", "jira"}, NEW u \in Pass, Past(u),
         NEW g, g = NextFloors(u)
  PROVE  /\ g \in Floors /\ g.inbox <= Now /\ \A a \in Axis : g.issues[a] <= Now
         /\ connector = "github" => g.inbox = u.inbox /\ g.issues[Shared] >= u.prev.issues[Shared]
         /\ connector = "jira" => g.inbox = 0 /\ \A r \in Resource : g.issues[r] = JiraFloor(u, r)
<1>1. /\ u.prev.issues \in [Axis -> Time] /\ u.mark \in [Resource -> Time] /\ u.inbox \in Time
      /\ Shared \in Axis /\ Shared \notin Resource /\ Resource \subseteq Axis
  BY PassFields, IssueCursorsAssumption DEF Axis
<1>2. /\ u.inbox <= Now /\ \A a \in Axis : u.prev.issues[a] <= Now
      /\ \A r \in Resource : u.mark[r] <= Now
  BY DEF Past
<1>3. 0 \in Time /\ 0 <= Now /\ Now \in Time /\ \A x \in Time : x \in Nat
  BY NowLast, IssueCursorsAssumption DEF Time
<1>4. CASE connector = "github"
  <2> DEFINE S == {u.prev.issues[Shared]} \union {u.mark[r] : r \in Ok(u)}
  <2>1. Ok(u) \subseteq Resource
    BY PassFields DEF Ok
  <2>2. S \in SUBSET Time /\ S # {} /\ u.prev.issues[Shared] \in S /\ \A x \in S : x <= Now
    BY <1>1, <1>2, <2>1
  <2>p. PICK top \in Time : top = Max(S)
    <3> HIDE DEF S
    <3> QED BY <2>2, MaxIn
  <2>3. top <= Now /\ top >= u.prev.issues[Shared]
    <3> HIDE DEF S
    <3>1. Max(S) \in S /\ \A y \in S : y <= Max(S)
      BY <2>2, MaxIn
    <3>2. top <= Now /\ u.prev.issues[Shared] <= top
      BY <2>2, <2>p, <3>1
    <3> QED BY <1>1, <1>3, <3>2
  <2> PICK iss : iss = [u.prev.issues EXCEPT ![Shared] = top]
    OBVIOUS
  <2>i. /\ iss \in [Axis -> Time] /\ iss[Shared] = top
        /\ \A a \in Axis : a # Shared => iss[a] = u.prev.issues[a]
    BY <1>1
  <2>4. g = [issues |-> iss, inbox |-> u.inbox]
    BY <1>4, <2>p DEF NextFloors, GithubFloors
  <2>5. g \in Floors /\ g.issues = iss /\ g.inbox = u.inbox
    BY <1>1, <2>i, <2>4 DEF Floors
  <2> QED BY <1>2, <1>4, <2>i, <2>3, <2>5
<1>5. CASE connector # "github"
  <2>1. ASSUME NEW r \in Resource
        PROVE  JiraFloor(u, r) \in Time /\ JiraFloor(u, r) <= Now
    <3> DEFINE S == {u.prev.issues[r], u.mark[r]}
    <3>1. S \in SUBSET Time /\ S # {} /\ \A x \in S : x <= Now
      BY <1>1, <1>2
    <3>2. Max(S) \in Time /\ Max(S) <= Now
      <4> HIDE DEF S
      <4> QED BY <3>1, MaxIn
    <3> QED BY <1>1, <1>2, <1>3, <3>2 DEF JiraFloor
  <2> DEFINE f == [a \in Axis |-> IF a = Shared THEN 0 ELSE JiraFloor(u, a)]
  <2>2. f \in [Axis -> Time]
    BY <1>3, <2>1 DEF Axis
  <2>3. /\ \A a \in Axis : f[a] <= Now
        /\ \A r \in Resource : f[r] = JiraFloor(u, r)
    BY <1>1, <1>3, <2>1 DEF Axis
  <2> PICK iss \in [Axis -> Time] : iss = f
    BY <2>2
  <2>4. g = [issues |-> iss, inbox |-> 0]
    BY <1>5 DEF NextFloors
  <2>5. g \in Floors /\ g.issues = iss /\ g.inbox = 0
    BY <1>3, <2>4 DEF Floors
  <2> QED BY <1>3, <1>5, <2>3, <2>5
<1> QED BY <1>4, <1>5

LEMMA FinishOK ==
  ASSUME IInv, NEW p \in Process, Finish(p)
  PROVE  IInv'
<1> PICK u \in Pass : u = run[p]
  BY PassTyped
<1>1. u.pc = "done" /\ Running(p) /\ u.todo = {} /\ u.batch = {}
  BY PassTyped DEF Finish, Running
<1>2. Past(u) /\ ShapeOK(u) /\ CoversOK(u, stale) /\ ProgressOK(u, stale) /\ InboxOK(u, stale)
  BY <1>1, PassTyped DEF PassOK
<1>3. /\ updated \in [Item -> Time] /\ stale \subseteq Item /\ run \in [Process -> Pass]
      /\ connector \in {"github", "jira"} /\ raced \subseteq Resource /\ behind \subseteq Resource
      /\ always \subseteq Resource
  BY DEF IInv, TypeOK
<1>g. PICK g : g = NextFloors(u)
  OBVIOUS
<1>4. /\ g \in Floors /\ g.inbox <= Now /\ \A a \in Axis : g.issues[a] <= Now
      /\ connector = "github" => g.inbox = u.inbox /\ g.issues[Shared] >= u.prev.issues[Shared]
      /\ connector = "jira" => g.inbox = 0 /\ \A r \in Resource : g.issues[r] = JiraFloor(u, r)
  BY <1>2, <1>3, <1>g, FloorsOK
<1>h. PICK healed \in SUBSET Resource :
        /\ healed = Healed(p)
        /\ \A r \in Resource : r \in healed <=> u.full /\ r \in Ok(u) /\ r \notin u.dirty
  <2>1. Ok(u) \subseteq Resource
    BY PassFields DEF Ok
  <2>2. CASE u.full
    <3>1. Healed(p) = Ok(u) \ u.dirty
      BY <2>2 DEF Healed
    <3> QED BY <2>1, <2>2, <3>1
  <2>3. CASE ~u.full
    <3>1. Healed(p) = {}
      BY <2>3 DEF Healed
    <3> QED BY <2>3, <3>1
  <2> QED BY <2>2, <2>3
<1>5. /\ cursor' = g /\ run' = [run EXCEPT ![p] = Idle] /\ raced' = raced \ healed
      /\ always' = always \intersect u.config
      /\ updated' = updated /\ connector' = connector /\ mode' = mode /\ config' = config
      /\ stale' = stale /\ crossed' = crossed /\ edits' = edits /\ ops' = ops
  BY <1>g, <1>h DEF Finish, settings
<1>6. behind' = (behind \union IF g.issues[Shared] > u.prev.issues[Shared] THEN Resource \ Ok(u)
                               ELSE {}) \ healed
  BY <1>g, <1>h DEF Finish
<1>7. /\ run' \in [Process -> Pass] /\ run'[p] = Idle
      /\ \A q \in Process : q # p => run'[q] = run[q]
  BY <1>3, <1>5, IdleFields
<1>8. TypeOK'
  <2>1. behind' \subseteq Resource
    BY <1>3, <1>6
  <2>2. \A q \in Process : /\ run'[q].pc = "list" <=> run'[q].todo # {}
                           /\ run'[q].batch # {} => run'[q].pc = "list"
    BY <1>7, IdleFields, PassTyped
  <2> QED BY <1>3, <1>4, <1>5, <1>7, <2>1, <2>2 DEF IInv, TypeOK
<1>9. Exists' /\ config' # {}
  BY <1>5 DEF IInv, World, Exists
<1>10. CursorPast'
  BY <1>4, <1>5, SameTimes DEF CursorPast
<1>11. NothingSkipped'
  <2>1. \A r, f : Listed(r, f)' = Listed(r, f)
    BY <1>5, SameTimes
  <2> SUFFICES ASSUME NEW i \in stale \ Thread, Home(i) \notin raced' \union behind'
               PROVE  IssueItself(i) \in Listed(Home(i), g.issues[AxisOf(Home(i))])
    BY <1>5, <2>1 DEF NothingSkipped, WillBeListed, AxisOf, Home
  <2> PICK j \in Issue : j = IssueItself(i) /\ Home(i) = ResOf[j]
                         /\ (i = j \/ (i \in Comment /\ IssueOf[i] = j))
    BY <1>3, IdSets DEF Home
  <2> PICK r \in Resource : r = Home(i) /\ r = ResOf[j]
    BY IdSets
  <2>2. (r \notin raced \union behind) \/ r \in healed
    BY <1>5, <1>6
  <2>3. j \in Listed(r, Floor(u, r))
    BY <1>2, <1>h, <2>2 DEF CoversOK
  <2>4. r \notin Ok(u)
    <3> SUFFICES ASSUME r \in Ok(u)
                 PROVE  FALSE
      OBVIOUS
    <3>1. r \in u.config \ u.failed /\ Steady(u, r)
      BY <1>h, <2>2 DEF Ok, Steady
    <3>2. Caught(j, stale)
      BY <1>1, <1>2, <2>3, <3>1 DEF ProgressOK, Recorded
    <3> QED BY <3>2 DEF Caught
  <2>5. /\ AxisOf(r) \in Axis /\ u.prev.issues[AxisOf(r)] \in Nat /\ g.issues[AxisOf(r)] \in Nat
        /\ updated[j] \in Nat
    <3>1. AxisOf(r) \in Axis /\ \A x \in Time : x \in Nat
      BY IssueCursorsAssumption DEF AxisOf, Axis, Time
    <3> QED BY <1>3, <1>4, <3>1, PassFields, IdSets DEF Floors
  <2>6. g.issues[AxisOf(r)] <= Floor(u, r)
    <3>1. CASE connector = "github"
      <4>1. ~(g.issues[Shared] > u.prev.issues[Shared])
        BY <1>6, <1>h, <2>4
      <4> QED BY <2>5, <3>1, <4>1 DEF AxisOf, Floor
    <3>2. CASE connector = "jira"
      <4>1. g.issues[r] = JiraFloor(u, r) /\ AxisOf(r) = r
        BY <1>4, <3>2 DEF AxisOf
      <4>2. JiraFloor(u, r) = 0 \/ JiraFloor(u, r) = u.prev.issues[r]
        BY <2>4 DEF JiraFloor, Ok
      <4> QED BY <2>5, <4>1, <4>2 DEF Floor
    <3> QED BY <1>3, <3>1, <3>2
  <2>7. updated[j] >= Floor(u, r) /\ j \in There(Issue) /\ ResOf[j] = r
    BY <2>3 DEF Listed
  <2>8. updated[j] >= g.issues[AxisOf(r)]
    BY <2>5, <2>6, <2>7 DEF Floor
  <2> QED BY <2>7, <2>8 DEF Listed
<1>12. NotificationsKept'
  <2>1. \A f : ListedThreads(f)' = ListedThreads(f)
    BY <1>5, SameTimes
  <2> SUFFICES ASSUME NEW n \in stale \intersect Thread, ~crossed,
                      mode = "all" \/ ResOf[n] \in always \intersect u.config
               PROVE  n \in ListedThreads(g.inbox)
    BY <1>5, <2>1 DEF NotificationsKept
  <2>2. updated[n] >= u.inbox
    BY <1>1, <1>2 DEF InboxOK
  <2>3. updated[n] >= 0 /\ updated[n] > 0
    <3>1. n \in Item /\ updated[n] \in Time
      BY <1>3
    <3> QED BY <3>1, IssueCursorsAssumption DEF IInv, World, Exists, Time
  <2>4. updated[n] >= g.inbox
    BY <1>3, <1>4, <2>2, <2>3
  <2> QED BY <2>3, <2>4 DEF ListedThreads, There
<1>13. Apart'
  BY <1>5, <1>7, IdleFields DEF IInv, Apart, Running
<1>14. ASSUME NEW q \in Process
       PROVE  Past(run[q])' /\ (Running(q)' => PassOK(run[q], stale)')
  <2> PICK w \in Pass : w = run'[q]
    BY <1>7
  <2> PICK st : st = stale
    OBVIOUS
  <2>1. Past(w)' <=> Past(w)
    BY <1>5, SameTimes DEF Past
  <2>2. CASE q = p
    BY <1>7, <2>1, <2>2, IdleFields, IdlePast DEF Running
  <2>3. CASE q # p
    <3>1. w = run[q] /\ Past(w)
      BY <1>7, <2>3, PassTyped
    <3>2. ASSUME w.pc # "idle"
          PROVE  PassOK(w, st)'
      <4>1. Running(q) /\ PassOK(w, st)
        BY <3>1, <3>2, PassTyped DEF Running
      <4>2. u.dirty = Resource
        BY <1>1, <2>3, <4>1 DEF IInv, Apart
      <4>3. healed = {}
        BY <1>h, <4>2
      <4>4. UNCHANGED <<settings, updated, raced>> /\ behind \subseteq behind'
            /\ always' \subseteq always /\ (crossed => crossed')
        BY <1>5, <1>6, <4>3 DEF settings
      <4> QED BY <4>1, <4>4, KeptPass
    <3> QED BY <1>5, <2>1, <3>1, <3>2 DEF Running
  <2> QED BY <2>2, <2>3
<1> QED BY <1>8, <1>9, <1>10, <1>11, <1>12, <1>13, <1>14 DEF IInv, World
-----------------------------------------------------------------------------
(***************************************************************************)
(* The services change.                                                    *)
(***************************************************************************)

\* Issues, comments with their issue, or threads of one resource.
Touched(items, r) ==
  /\ items \subseteq Item
  /\ \A i \in items : /\ Home(i) = r /\ IssueItself(i) \in items
                      /\ i \in Comment => connector = "jira"

LEMMA Later ==
  ASSUME updated \in [Item -> Time], NEW items \in SUBSET Item, NEW now \in {Now, Now + 1} \intersect Time,
         updated' = [i \in Item |-> IF i \in items THEN now ELSE updated[i]]
  PROVE  /\ updated' \in [Item -> Time] /\ Now' \in Time /\ Now <= Now' /\ Now <= now /\ 0 < now
         /\ \A i \in items : updated'[i] = now
         /\ \A i \in Item : i \notin items => updated'[i] = updated[i]
         /\ \A i \in Item : updated[i] <= updated'[i]
<1>1. /\ Now \in Time /\ 1 <= Now /\ \A i \in Item : updated[i] <= Now
      /\ Now = 1 \/ \E i \in Item : updated[i] = Now
      /\ \A x \in Time : x \in Nat
  BY NowLast, IssueCursorsAssumption DEF Time
<1>2. /\ \A i \in items : updated'[i] = now
      /\ \A i \in Item : i \notin items => updated'[i] = updated[i]
      /\ updated' \in [Item -> Time]
  OBVIOUS
<1>3. Now <= now /\ 0 < now
  BY <1>1
<1>4. \A i \in Item : updated[i] <= updated'[i]
  BY <1>1, <1>2, <1>3
<1>5. Now' \in Time /\ Now <= Now'
  <2> DEFINE S == {1} \union {updated'[i] : i \in Item}
  <2>1. S \in SUBSET Time /\ 1 \in S /\ \A i \in Item : updated'[i] \in S
    BY <1>2, IssueCursorsAssumption DEF Time
  <2>2. Now' = Max(S)
    BY DEF Now
  <2>3. Max(S) \in Time /\ \A y \in S : y <= Max(S)
    <3> HIDE DEF S
    <3> QED BY <2>1, MaxIn
  <2> PICK m \in Time : m = Max(S)
    BY <2>3
  <2>4. 1 <= m /\ \A i \in Item : updated[i] <= m
    <3>1. \A i \in Item : updated'[i] <= m
      BY <2>1, <2>3
    <3> HIDE DEF S
    <3> QED BY <1>1, <1>2, <1>4, <2>1, <2>3, <3>1
  <2> QED BY <1>1, <2>2, <2>4
<1> QED BY <1>2, <1>3, <1>4, <1>5

Aged(e, items) == [e EXCEPT !.fresh = e.fresh /\ e.id \notin items]

Shaken(u, items, r) ==
  [u EXCEPT !.dirty = u.dirty \union {r}, !.batch = {Aged(e, items) : e \in u.batch}]

LEMMA ShakenTyped ==
  ASSUME NEW u \in Pass, NEW items, NEW r \in Resource, NEW v, v = Shaken(u, items, r)
  PROVE  /\ v \in Pass /\ v.pc = u.pc /\ v.full = u.full /\ v.config = u.config
         /\ v.prev = u.prev /\ v.todo = u.todo /\ v.inbox = u.inbox /\ v.mark = u.mark
         /\ v.skip = u.skip /\ v.more = u.more /\ v.failed = u.failed
         /\ v.dirty = u.dirty \union {r} /\ (v.batch = {} <=> u.batch = {})
         /\ \A d \in v.batch : \E e \in u.batch :
              d.id = e.id /\ (~d.fresh => ~e.fresh \/ e.id \in items)
         /\ \A e \in u.batch : \E d \in v.batch : d.id = e.id
<1>1. u.dirty \subseteq Resource /\ u.batch \subseteq Entry
  BY PassFields
<1> PICK dirty \in SUBSET Resource : dirty = u.dirty \union {r}
  BY <1>1
<1>2. ASSUME NEW e \in Entry
      PROVE  /\ Aged(e, items) \in Entry /\ Aged(e, items).id = e.id
             /\ ~Aged(e, items).fresh => ~e.fresh \/ e.id \in items
  <2> PICK f \in BOOLEAN : f = (e.fresh /\ e.id \notin items)
    OBVIOUS
  <2>1. Aged(e, items) = [e EXCEPT !.fresh = f]
    BY DEF Aged
  <2>2. Aged(e, items) \in Entry /\ Aged(e, items).id = e.id /\ Aged(e, items).fresh = f
    BY <2>1 DEF Entry
  <2> QED BY <2>2
<1>b. PICK batch \in SUBSET Entry : batch = {Aged(e, items) : e \in u.batch}
  BY <1>1, <1>2
<1>3. v = [u EXCEPT !.dirty = dirty, !.batch = batch]
  BY <1>b DEF Shaken
<1>4. v \in Pass
  BY <1>3 DEF Pass
<1>5. /\ v.pc = u.pc /\ v.full = u.full /\ v.config = u.config
      /\ v.prev = u.prev /\ v.todo = u.todo /\ v.inbox = u.inbox /\ v.mark = u.mark
      /\ v.skip = u.skip /\ v.more = u.more /\ v.failed = u.failed
      /\ v.dirty = dirty /\ v.batch = batch
  BY <1>3 DEF Pass
<1>6. batch = {} <=> u.batch = {}
  BY <1>b
<1>7. \A d \in batch : \E e \in u.batch :
        d.id = e.id /\ (~d.fresh => ~e.fresh \/ e.id \in items)
  BY <1>1, <1>2, <1>b
<1>8. \A e \in u.batch : \E d \in batch : d.id = e.id
  BY <1>1, <1>2, <1>b
<1> QED BY <1>4, <1>5, <1>6, <1>7, <1>8

\* A change under a running pass u, in the world it makes.
LEMMA ShakenOK ==
  ASSUME IInv, NEW p \in Process, Running(p), NEW u \in Pass, u = run[p],
         NEW items \in SUBSET Item, NEW r \in Resource, Touched(items, r),
         NEW now \in {Now, Now + 1} \intersect Time,
         updated' = [i \in Item |-> IF i \in items THEN now ELSE updated[i]],
         raced' = raced \union {r}, UNCHANGED <<settings, behind, always, crossed>>,
         NEW v, v = Shaken(u, items, r), NEW st, st = stale \union items
  PROVE  PassOK(v, st)'
<1>1. /\ connector' = connector /\ mode' = mode /\ behind' = behind /\ always' = always
      /\ crossed' = crossed
  BY DEF settings
<1>2. /\ updated \in [Item -> Time] /\ stale \subseteq Item
      /\ \A x \in Time : x \in Nat
  BY IssueCursorsAssumption DEF IInv, TypeOK, Time
<1>3. /\ updated' \in [Item -> Time] /\ Now <= now /\ 0 < now
      /\ \A i \in items : updated'[i] = now
      /\ \A i \in Item : i \notin items => updated'[i] = updated[i]
      /\ \A i \in Item : updated[i] <= updated'[i]
  BY <1>2, Later
<1>4. /\ v \in Pass /\ v.pc = u.pc /\ v.full = u.full /\ v.config = u.config
      /\ v.prev = u.prev /\ v.todo = u.todo /\ v.inbox = u.inbox /\ v.mark = u.mark
      /\ v.skip = u.skip /\ v.more = u.more /\ v.failed = u.failed
      /\ v.dirty = u.dirty \union {r} /\ (v.batch = {} <=> u.batch = {})
      /\ \A d \in v.batch : \E e \in u.batch :
           d.id = e.id /\ (~d.fresh => ~e.fresh \/ e.id \in items)
      /\ \A e \in u.batch : \E d \in v.batch : d.id = e.id
  BY ShakenTyped
<1>5. /\ Past(u) /\ ShapeOK(u) /\ BatchOK(u) /\ CoversOK(u, stale) /\ ProgressOK(u, stale)
      /\ InboxOK(u, stale)
  BY PassTyped DEF PassOK
<1>6. \A i \in items : Home(i) = r /\ IssueItself(i) \in items
  BY DEF Touched
<1>7. Current(v) = Current(u) /\ \A s : Floor(v, s) = Floor(u, s)
  BY <1>4 DEF Current, Floor
<1>8. \A s : Floor(v, s)' = Floor(v, s)
  BY <1>1 DEF Floor, AxisOf
<1>9. ShapeOK(v)'
  BY <1>4, <1>5 DEF ShapeOK
<1>10. BatchOK(v)'
  <2> SUFFICES ASSUME NEW d \in v.batch
               PROVE  /\ updated'[d.id] > 0 /\ ResOf[d.id] = Current(v)
                      /\ ~d.fresh => Current(v) \in raced' \intersect v.dirty
    BY DEF BatchOK
  <2> PICK e \in u.batch : d.id = e.id /\ (~d.fresh => ~e.fresh \/ e.id \in items)
    BY <1>4
  <2> PICK i \in Issue : i = e.id
    BY PassFields DEF Entry
  <2>1. /\ updated[i] > 0 /\ ResOf[i] = Current(u)
        /\ ~e.fresh => Current(u) \in raced \intersect u.dirty
    BY <1>5 DEF BatchOK
  <2>2. i \in Item /\ Home(i) = ResOf[i]
    BY IdSets DEF Home
  <2>3. updated[i] \in Nat /\ updated'[i] \in Nat /\ updated[i] <= updated'[i]
    BY <1>2, <1>3, <2>2
  <2>4. updated'[i] > 0
    BY <2>1, <2>3
  <2>5. i \in items => Current(u) = r
    BY <1>6, <2>1, <2>2
  <2>6. ~d.fresh => Current(u) \in raced' \intersect v.dirty
    BY <1>4, <2>1, <2>5
  <2> QED BY <1>7, <2>1, <2>4, <2>6
<1>11. ASSUME NEW s \in Resource, s # r, NEW f
       PROVE  /\ Listed(s, f)' = Listed(s, f)
              /\ \A j \in Listed(s, f) : Rank(j, Listed(s, f))' = Rank(j, Listed(s, f))
              /\ \A j \in Listed(s, f) : j \in Issue /\ j \notin items /\ Home(j) = s
  <2>1. \A j \in Issue : ResOf[j] = s => j \in Item /\ j \notin items /\ Home(j) = s
    BY <1>6, <1>11, IdSets DEF Home
  <2>2. \A j \in Issue : ResOf[j] = s => updated'[j] = updated[j]
    BY <1>3, <2>1
  <2>3. Listed(s, f)' = Listed(s, f)
    BY <2>2 DEF Listed, There
  <2> PICK L : L = Listed(s, f)
    OBVIOUS
  <2>4. \A j \in L : j \in Issue /\ ResOf[j] = s
    BY DEF Listed, There
  <2>5. \A i, j \in L : Before(i, j)' <=> Before(i, j)
    BY <2>2, <2>4 DEF Before
  <2>6. ASSUME NEW j \in L
        PROVE  Rank(j, L)' = Rank(j, L)
    <3>1. {k \in L : Before(k, j)'} = {k \in L : Before(k, j)}
      BY <2>5
    <3> QED BY <3>1 DEF Rank
  <2> QED BY <2>1, <2>3, <2>4, <2>6
<1>12. CoversOK(v, st)'
  <2> SUFFICES ASSUME NEW s \in Resource,
                      (s \notin raced' \union behind) \/ (v.full /\ s \notin v.dirty),
                      NEW i \in st \ Thread, Home(i) = s
               PROVE  IssueItself(i) \in Listed(s, Floor(v, s))'
    BY <1>1, <1>8 DEF CoversOK
  <2>1. s # r
    BY <1>4
  <2>2. i \in stale
    BY <1>6, <2>1
  <2>3. IssueItself(i) \in Listed(s, Floor(u, s))
    BY <1>4, <1>5, <2>2 DEF CoversOK
  <2> PICK f : f = Floor(v, s)
    OBVIOUS
  <2>4. Listed(s, f)' = Listed(s, f)
    BY <1>11, <2>1
  <2> QED BY <1>7, <1>8, <2>3, <2>4
<1>13. ProgressOK(v, st)'
  <2> SUFFICES ASSUME NEW s \in v.config \ v.failed, s \notin raced' \/ s \notin v.dirty,
                      NEW f, f = Floor(v, s), NEW j \in Listed(s, f)'
               PROVE  /\ s \notin v.todo => Caught(j, st)
                      /\ s \in v.todo /\ s = Current(v) =>
                           \/ Caught(j, st)
                           \/ \E d \in v.batch : d.id = j
                           \/ Rank(j, Listed(s, f))' >= v.skip /\ (v.more \/ v.batch = {})
    BY <1>8 DEF ProgressOK, Recorded, Steady, Caught
  <2>1. s # r /\ s \in Resource /\ Steady(u, s) /\ s \in u.config \ u.failed
    BY <1>4, PassFields DEF Steady
  <2>2. /\ j \in Listed(s, Floor(u, s)) /\ j \in Issue /\ j \notin items /\ Home(j) = s
        /\ Rank(j, Listed(s, f))' = Rank(j, Listed(s, Floor(u, s)))
    BY <1>7, <1>11, <2>1
  <2>3. Recorded(u, stale, s, j)
    BY <1>5, <2>1, <2>2 DEF ProgressOK
  <2>4. Caught(j, stale) => Caught(j, st)
    <3>1. \A c \in Comment : IssueOf[c] = j => c \notin items
      BY <1>6, <2>1, <2>2, IdSets DEF Home
    <3> QED BY <2>2, <3>1 DEF Caught
  <2> QED BY <1>4, <1>7, <2>2, <2>3, <2>4 DEF Recorded
<1>14. InboxOK(v, st)'
  <2> SUFFICES ASSUME ~crossed, NEW n \in st \intersect Thread,
                      mode = "all" \/ ResOf[n] \in always \intersect u.config,
                      NEW f, f = u.prev.inbox, NEW L2, L2 = ListedThreads(f)'
               PROVE  /\ updated'[n] >= f
                      /\ \/ updated'[n] >= u.inbox
                         \/ u.pc = "inbox" /\ RankDesc(n, L2)' >= u.skip
    BY <1>1, <1>4 DEF InboxOK
  <2>1. /\ n \in Item /\ n \in Nat /\ f \in Nat /\ u.inbox \in Nat /\ u.skip \in Nat
        /\ updated[n] \in Nat /\ updated'[n] \in Nat /\ Now \in Nat /\ now \in Nat
    BY <1>2, <1>3, PassFields, IdSets, NowLast
  <2>2. f <= Now /\ u.inbox <= Now
    BY <1>5 DEF Past
  <2>3. CASE n \in items
    BY <1>3, <2>1, <2>2, <2>3
  <2>4. CASE n \notin items
    <3>1. n \in stale /\ updated'[n] = updated[n]
      BY <1>3, <2>1, <2>4
    <3> PICK L : L = ListedThreads(f)
      OBVIOUS
    <3>2. updated[n] >= f /\ (updated[n] >= u.inbox \/ (u.pc = "inbox" /\ RankDesc(n, L) >= u.skip))
      BY <1>5, <3>1 DEF InboxOK
    <3>3. /\ RankDesc(n, L) \in Nat /\ RankDesc(n, L2)' \in Nat
          /\ RankDesc(n, L2)' >= RankDesc(n, L)
      <4> DEFINE A == {k \in L : Before(n, k)}
                 B == {k \in L2 : Before(n, k)'}
      <4>1. \A k \in L : k \in L2
        <5> SUFFICES ASSUME NEW k \in L PROVE k \in L2
          OBVIOUS
        <5>1. k \in Thread /\ k \in Item /\ updated[k] > 0 /\ updated[k] >= f
          BY IdSets DEF ListedThreads, There
        <5>2. updated[k] \in Nat /\ updated'[k] \in Nat /\ updated[k] <= updated'[k]
          BY <1>2, <1>3, <5>1
        <5>3. updated'[k] > 0 /\ updated'[k] >= f
          BY <2>1, <5>1, <5>2
        <5> QED BY <5>1, <5>3 DEF ListedThreads, There
      <4>2. \A k \in L : Before(n, k) => Before(n, k)'
        <5> SUFFICES ASSUME NEW k \in L, Before(n, k) PROVE Before(n, k)'
          OBVIOUS
        <5>1. k \in Thread /\ k \in Item /\ k \in Nat
          BY IdSets DEF ListedThreads, There
        <5>2. updated[k] \in Nat /\ updated'[k] \in Nat /\ updated[k] <= updated'[k]
          BY <1>2, <1>3, <5>1
        <5> QED BY <2>1, <3>1, <5>1, <5>2 DEF Before
      <4>3. A \subseteq B
        BY <4>1, <4>2
      <4>4. L2 \subseteq Thread /\ IsFiniteSet(B)
        <5>1. L2 \subseteq Thread
          BY DEF ListedThreads, There
        <5>2. B \subseteq Thread
          BY <5>1
        <5> HIDE DEF B
        <5> QED BY <5>1, <5>2, FS_Subset, IssueCursorsAssumption
      <4>5. Cardinality(A) <= Cardinality(B) /\ Cardinality(A) \in Nat /\ Cardinality(B) \in Nat
        <5> HIDE DEF A, B
        <5> QED BY <4>3, <4>4, FS_Subset, FS_CardinalityType
      <4>6. RankDesc(n, L) = Cardinality(A) /\ RankDesc(n, L2)' = Cardinality(B)
        BY DEF RankDesc
      <4> HIDE DEF A, B
      <4> QED BY <4>5, <4>6
    <3> QED BY <2>1, <3>1, <3>2, <3>3
  <2> QED BY <2>3, <2>4
<1> QED BY <1>9, <1>10, <1>12, <1>13, <1>14 DEF PassOK

LEMMA ChangeOK ==
  ASSUME IInv, NEW items \in SUBSET Item, NEW r \in Resource, Touched(items, r), Change(items, r)
  PROVE  IInv'
<1>1. /\ UNCHANGED <<settings, behind, always, crossed>> /\ connector' = connector
      /\ mode' = mode /\ config' = config /\ cursor' = cursor /\ behind' = behind
      /\ always' = always /\ crossed' = crossed /\ ops' = ops
      /\ stale' = stale \union items
  BY DEF Change, settings
<1>2. /\ updated \in [Item -> Time] /\ stale \subseteq Item /\ run \in [Process -> Pass]
      /\ \A x \in Time : x \in Nat
  BY IssueCursorsAssumption DEF IInv, TypeOK, Time
<1>e. edits' \in 0 .. MaxEdits
  <2>1. edits < MaxEdits /\ edits' = edits + 1 /\ edits \in 0 .. MaxEdits
    BY DEF Change, IInv, TypeOK
  <2> QED BY <2>1, IssueCursorsAssumption
<1>n. PICK now \in {Now, Now + 1} \intersect Time :
        updated' = [i \in Item |-> IF i \in items THEN now ELSE updated[i]]
  BY DEF Change
<1>3. /\ updated' \in [Item -> Time] /\ Now' \in Time /\ Now <= Now' /\ Now <= now /\ 0 < now
      /\ \A i \in items : updated'[i] = now
      /\ \A i \in Item : i \notin items => updated'[i] = updated[i]
      /\ \A i \in Item : updated[i] <= updated'[i]
  BY <1>2, <1>n, Later
<1>4. Now \in Nat /\ Now' \in Nat /\ now \in Nat
  BY <1>2, <1>3, NowLast
<1>5. /\ run' \in [Process -> Pass]
      /\ \A q \in Process : run'[q] = IF Running(q) THEN Shaken(run[q], items, r) ELSE run[q]
  <2>1. run' = [q \in Process |-> IF Running(q) THEN Shaken(run[q], items, r) ELSE run[q]]
    BY DEF Change, Shaken, Aged
  <2>2. \A q \in Process : Shaken(run[q], items, r) \in Pass
    BY <1>2, ShakenTyped
  <2> QED BY <1>2, <2>1, <2>2
<1>6. raced' = IF \E q \in Process : Running(q) THEN raced \union {r} ELSE raced
  BY DEF Change
<1>7. \A i \in items : /\ Home(i) = r /\ IssueItself(i) \in items
                       /\ i \in Comment => connector = "jira"
  BY DEF Touched
<1>8. ASSUME NEW q \in Process
      PROVE  /\ run'[q].pc = run[q].pc
             /\ run'[q].pc = "list" <=> run'[q].todo # {}
             /\ run'[q].batch # {} => run'[q].pc = "list"
             /\ run[q].dirty = Resource => run'[q].dirty = Resource
             /\ Past(run[q])' /\ (Running(q)' => PassOK(run[q], stale)')
  <2> PICK u \in Pass : u = run[q]
    BY <1>2
  <2> PICK w \in Pass : w = run'[q]
    BY <1>5
  <2>1. Past(u) /\ (u.pc = "list" <=> u.todo # {}) /\ (u.batch # {} => u.pc = "list")
    BY PassTyped
  <2>2. /\ u.inbox \in Nat /\ u.prev.inbox \in Nat /\ \A a \in Axis : u.prev.issues[a] \in Nat
        /\ \A s \in Resource : u.mark[s] \in Nat
    BY <1>2, PassFields
  <2>3. Past(u)'
    BY <1>3, <1>4, <2>1, <2>2 DEF Past
  <2>4. CASE Running(q)
    <3>1. w = Shaken(u, items, r)
      BY <1>5, <2>4
    <3>2. /\ w.pc = u.pc /\ w.prev = u.prev /\ w.todo = u.todo /\ w.inbox = u.inbox
          /\ w.mark = u.mark /\ w.dirty = u.dirty \union {r} /\ (w.batch = {} <=> u.batch = {})
      BY <3>1, ShakenTyped
    <3>3. Past(w)'
      BY <2>3, <3>2 DEF Past
    <3>4. raced' = raced \union {r}
      BY <1>6, <2>4
    <3> PICK st : st = stale \union items
      OBVIOUS
    <3>5. PassOK(w, st)'
      BY <1>1, <1>n, <2>4, <3>1, <3>4, ShakenOK
    <3> QED BY <1>1, <2>1, <3>2, <3>3, <3>5
  <2>5. CASE ~Running(q)
    <3>1. w = u
      BY <1>5, <2>5
    <3> QED BY <2>1, <2>3, <2>5, <3>1 DEF Running
  <2> QED BY <2>4, <2>5
<1>9. TypeOK'
  <2>1. raced' \subseteq Resource /\ stale' \subseteq Item
    BY <1>1, <1>2, <1>6 DEF IInv, TypeOK
  <2> QED BY <1>1, <1>3, <1>5, <1>8, <1>e, <2>1 DEF IInv, TypeOK
<1>10. config' # {}
  BY <1>1 DEF IInv
<1>11. \A i \in Item : updated[i] > 0 => updated'[i] > 0
  BY <1>2, <1>3
<1>12. Exists'
  <2>1. \A i \in stale' : updated'[i] > 0
    BY <1>1, <1>2, <1>3, <1>11 DEF IInv, World, Exists
  <2>2. ASSUME NEW c \in Comment, updated'[c] > 0
        PROVE  updated'[IssueOf[c]] > 0 /\ connector = "jira"
    <3> PICK i \in Item : i = IssueOf[c] /\ i = IssueItself(c) /\ c \in Item
      BY IdSets
    <3>1. CASE c \in items
      BY <1>3, <1>7, <3>1
    <3>2. CASE c \notin items
      <4>1. updated[i] > 0 /\ connector = "jira"
        BY <1>3, <2>2, <3>2 DEF IInv, World, Exists
      <4> QED BY <1>11, <4>1
    <3> QED BY <3>1, <3>2
  <2> QED BY <1>1, <2>1, <2>2 DEF Exists
<1>13. /\ cursor.inbox \in Nat /\ \A a \in Axis : cursor.issues[a] \in Nat
       /\ cursor.inbox <= Now /\ \A a \in Axis : cursor.issues[a] <= Now
  BY <1>2 DEF IInv, World, CursorPast, TypeOK, Floors
<1>14. CursorPast'
  BY <1>1, <1>3, <1>4, <1>13 DEF CursorPast
<1>15. NothingSkipped'
  <2> SUFFICES ASSUME NEW i \in (stale \union items) \ Thread, Home(i) \notin raced' \union behind
               PROVE  IssueItself(i) \in Listed(Home(i), cursor.issues[AxisOf(Home(i))])'
    BY <1>1 DEF NothingSkipped, WillBeListed, AxisOf, Home
  <2> PICK j \in Issue : j = IssueItself(i) /\ Home(i) = ResOf[j] /\ j \in Item
    BY <1>2, IdSets DEF Home
  <2> PICK f \in Nat : f = cursor.issues[AxisOf(Home(i))] /\ f <= Now
    <3>1. AxisOf(Home(i)) \in Axis
      BY IdSets DEF AxisOf, Axis
    <3> QED BY <1>13, <3>1
  <2>1. updated[j] \in Nat /\ updated'[j] \in Nat /\ updated[j] <= updated'[j]
    BY <1>2, <1>3
  <2>2. updated'[j] >= f /\ updated'[j] > 0
    <3>1. CASE j \in items
      BY <1>3, <1>4, <3>1
    <3>2. CASE j \notin items
      <4>1. i \in stale \ Thread /\ Home(i) \notin raced \union behind
        BY <1>6, <1>7, <3>2
      <4>2. j \in Listed(Home(i), f)
        BY <4>1 DEF IInv, World, NothingSkipped, WillBeListed, Home
      <4>3. updated[j] >= f /\ updated[j] > 0
        BY <4>2 DEF Listed, There
      <4> QED BY <2>1, <4>3
    <3> QED BY <3>1, <3>2
  <2>3. j \in Listed(Home(i), f)'
    BY <2>2 DEF Listed, There
  <2>4. f = cursor'.issues[AxisOf(Home(i))']
    BY <1>1 DEF AxisOf, Home
  <2> QED BY <1>1, <2>3, <2>4 DEF AxisOf
<1>16. NotificationsKept'
  <2> SUFFICES ASSUME NEW n \in (stale \union items) \intersect Thread, ~crossed,
                      mode = "all" \/ ResOf[n] \in always
               PROVE  n \in ListedThreads(cursor.inbox)'
    BY <1>1 DEF NotificationsKept
  <2> PICK f \in Nat : f = cursor.inbox /\ f <= Now
    BY <1>13
  <2>1. n \in Item /\ updated[n] \in Nat /\ updated'[n] \in Nat /\ updated[n] <= updated'[n]
    BY <1>2, <1>3, IdSets
  <2>2. updated'[n] >= f /\ updated'[n] > 0
    <3>1. CASE n \in items
      BY <1>3, <1>4, <3>1
    <3>2. CASE n \notin items
      <4>1. updated[n] >= f /\ updated[n] > 0
        BY <3>2 DEF IInv, World, NotificationsKept, ListedThreads, There
      <4> QED BY <2>1, <4>1
    <3> QED BY <3>1, <3>2
  <2>3. n \in ListedThreads(f)'
    BY <2>2 DEF ListedThreads, There
  <2> QED BY <1>1, <2>3
<1>17. Apart'
  BY <1>1, <1>8 DEF IInv, Apart, Running
<1> QED BY <1>8, <1>9, <1>10, <1>12, <1>14, <1>15, <1>16, <1>17 DEF IInv, World

LEMMA EditsOK ==
  ASSUME IInv, \/ \E i \in Issue : EditIssue(i)
               \/ \E c \in Comment : EditComment(c)
               \/ \E n \in Thread : EditThread(n)
  PROVE  IInv'
<1>1. ASSUME NEW i \in Issue, EditIssue(i)
      PROVE  IInv'
  <2>1. Touched({i}, ResOf[i]) /\ {i} \in SUBSET Item /\ ResOf[i] \in Resource
    BY IdSets DEF Touched, Home
  <2>2. Change({i}, ResOf[i])
    BY <1>1 DEF EditIssue
  <2> QED BY <2>1, <2>2, ChangeOK
<1>2. ASSUME NEW c \in Comment, EditComment(c)
      PROVE  IInv'
  <2> PICK i \in Issue : i = IssueOf[c]
    BY IdSets
  <2>1. connector = "jira" /\ Change({c, i}, ResOf[i])
    BY <1>2 DEF EditComment
  <2>2. Touched({c, i}, ResOf[i]) /\ {c, i} \in SUBSET Item /\ ResOf[i] \in Resource
    BY <2>1, IdSets DEF Touched, Home
  <2> QED BY <2>1, <2>2, ChangeOK
<1>3. ASSUME NEW n \in Thread, EditThread(n)
      PROVE  IInv'
  <2>1. IssueItself(n) = n
    BY IdSets DEF IssueItself
  <2>2. Touched({n}, ResOf[n]) /\ {n} \in SUBSET Item /\ ResOf[n] \in Resource
    BY <2>1, IdSets DEF Touched, Home
  <2>3. Change({n}, ResOf[n])
    BY <1>3 DEF EditThread
  <2> QED BY <2>2, <2>3, ChangeOK
<1> QED BY <1>1, <1>2, <1>3
-----------------------------------------------------------------------------
(***************************************************************************)
(* The theorems.                                                           *)
(***************************************************************************)

LEMMA Initially == Init => IInv
<1> SUFFICES ASSUME Init
             PROVE  IInv
  OBVIOUS
<1>1. /\ connector \in {"github", "jira"} /\ mode \in {"off", "repos", "all"}
      /\ config \in (SUBSET Resource) \ {{}} /\ cursor = NoFloor
      /\ run = [p \in Process |-> Idle] /\ raced = {} /\ behind = {} /\ always = Resource
      /\ crossed = FALSE /\ edits = 0 /\ ops = 0
      /\ updated = [i \in Item |-> IF connector = "github" /\ i \in Comment THEN 0 ELSE Start[i]]
      /\ stale = {i \in Item : updated[i] > 0}
  BY DEF Init
<1>2. /\ updated \in [Item -> Time] /\ \A x \in Time : x \in Nat
      /\ \A i \in Item : updated[i] \in Nat
  <2>1. \A i \in Item : Start[i] \in Time
    BY IssueCursorsAssumption DEF Item, Time
  <2>2. 0 \in Time /\ \A x \in Time : x \in Nat
    BY IssueCursorsAssumption DEF Time
  <2> QED BY <1>1, <2>1, <2>2
<1>3. /\ Idle \in Pass /\ Idle.pc = "idle" /\ Idle.todo = {} /\ Idle.batch = {}
      /\ NoFloor \in Floors /\ NoFloor.inbox = 0 /\ \A a \in Axis : NoFloor.issues[a] = 0
  BY IdleFields
<1>4. /\ run \in [Process -> Pass] /\ \A p \in Process : run[p] = Idle
  BY <1>1, <1>3
<1>5. TypeOK
  <2>1. edits \in 0 .. MaxEdits /\ ops \in 0 .. MaxOps
    BY <1>1, IssueCursorsAssumption
  <2> QED BY <1>1, <1>2, <1>3, <1>4, <2>1 DEF TypeOK
<1>6. Exists
  <2>1. ASSUME NEW c \in Comment, updated[c] > 0
        PROVE  updated[IssueOf[c]] > 0 /\ connector = "jira"
    <3>1. c \in Item /\ IssueOf[c] \in Item /\ IssueOf[c] \notin Comment
      BY IdSets
    <3>2. connector # "github"
      BY <1>1, <2>1, <3>1
    <3>3. updated[c] = Start[c] /\ updated[IssueOf[c]] = Start[IssueOf[c]]
      BY <1>1, <3>1, <3>2
    <3> QED BY <1>1, <2>1, <3>2, <3>3, IssueCursorsAssumption
  <2> QED BY <1>1, <2>1 DEF Exists
<1>7. CursorPast
  <2>1. Now \in Nat
    BY <1>2, NowLast
  <2> QED BY <1>1, <1>3, <2>1 DEF CursorPast
<1>8. NothingSkipped
  <2> SUFFICES ASSUME NEW i \in stale \ Thread
               PROVE  WillBeListed(i)
    BY DEF NothingSkipped
  <2> PICK j \in Issue : j = IssueItself(i) /\ j \in Item /\ ResOf[j] \in Resource
    BY <1>1, IdSets
  <2>1. updated[j] > 0 /\ updated[j] >= 0
    <3>1. updated[j] > 0
      BY <1>1, <1>6, IdSets DEF Exists
    <3> QED BY <1>2, <3>1
  <2>2. cursor.issues[AxisOf(ResOf[j])] = 0
    BY <1>1, <1>3 DEF AxisOf, Axis
  <2> QED BY <2>1, <2>2 DEF WillBeListed, Listed, There
<1>9. NotificationsKept
  <2>1. \A n \in stale \intersect Thread : updated[n] > 0 /\ updated[n] >= 0
    BY <1>1, <1>2
  <2> QED BY <1>1, <1>3, <2>1 DEF NotificationsKept, ListedThreads, There
<1>10. Apart /\ \A p \in Process : ~Running(p)
  BY <1>3, <1>4 DEF Apart, Running
<1>11. \A p \in Process : Past(run[p])
  <2>1. \A r \in Resource : Idle.mark[r] = 0
    BY IdleFields
  <2>2. Idle.inbox = 0 /\ Idle.prev.inbox = 0 /\ \A a \in Axis : Idle.prev.issues[a] = 0
    BY IdleFields
  <2>3. Now \in Nat
    BY <1>2, NowLast
  <2> QED BY <1>4, <2>1, <2>2, <2>3 DEF Past
<1>12. config # {}
  BY <1>1
<1> QED BY <1>5, <1>6, <1>7, <1>8, <1>9, <1>10, <1>11, <1>12 DEF IInv, World

LEMMA Steps == IInv /\ [Next]_vars => IInv'
<1> SUFFICES ASSUME IInv, [Next]_vars
             PROVE  IInv'
  OBVIOUS
<1>1. CASE UNCHANGED vars
  <2>1. UNCHANGED <<Rest, stale, run, edits>> /\ config' = config /\ ops' = ops
    BY <1>1 DEF vars, Rest, settings, history
  <2>2. config' \in (SUBSET Resource) \ {{}} /\ ops' \in 0 .. MaxOps
    BY <2>1 DEF IInv, TypeOK
  <2> QED BY <2>1, <2>2, Unmoved
<1>2. CASE \/ \E i \in Issue : EditIssue(i)
           \/ \E c \in Comment : EditComment(c)
           \/ \E n \in Thread : EditThread(n)
  BY <1>2, EditsOK
<1>3. ASSUME NEW p \in Process, NEW full \in BOOLEAN, Begin(p, full)
      PROVE  IInv'
  BY <1>3, BeginOK
<1>4. ASSUME NEW p \in Process, PassStep(p)
      PROVE  IInv'
  <2>1. CASE ListPage(p)
    BY <2>1, ListPageOK
  <2>2. ASSUME NEW e \in run[p].batch, RecordIssue(p, e)
        PROVE  IInv'
    BY <2>2, RecordIssueOK
  <2>3. CASE ResourceFails(p)
    BY <2>3, ResourceFailsOK
  <2>4. CASE InboxPage(p)
    BY <2>4, InboxPageOK
  <2>5. CASE InboxFails(p)
    BY <2>5, InboxFailsOK
  <2>6. CASE Finish(p)
    BY <2>6, FinishOK
  <2> QED BY <1>4, <2>1, <2>2, <2>3, <2>4, <2>5, <2>6 DEF PassStep
<1>5. ASSUME NEW p \in Process, Die(p)
      PROVE  IInv'
  BY <1>5, DieOK
<1>6. ASSUME NEW C \in (SUBSET Resource) \ {{}}, Reconfigure(C)
      PROVE  IInv'
  BY <1>6, ReconfigureOK
<1> QED BY <1>1, <1>2, <1>3, <1>4, <1>5, <1>6 DEF Next

\* What a pass has listed is recorded or still before it, the floors it has read reach
\* down to all that the store does not have, and passes that overlap rely on neither.
THEOREM Invariant == Spec => []IInv
<1>1. Init => IInv
  BY Initially
<1>2. IInv /\ [Next]_vars => IInv'
  BY Steps
<1> QED BY <1>1, <1>2, PTL DEF Spec

\* The state keeps its types, for any repositories, pages and processes.
THEOREM TypeCorrect == Spec => []TypeOK
<1>1. IInv => TypeOK
  BY DEF IInv
<1> QED BY <1>1, Invariant, PTL

\* Whatever failed, crashed, overlapped or left the configuration, the next pass that
\* reaches a resource lists what the store does not have of it (github.ts:228-236,
\* jira.ts:328-335), for any number of repositories, issues, comments and processes and
\* any page size.
THEOREM IssuesCorrect == Spec => []NothingSkipped
<1>1. IInv => NothingSkipped
  BY DEF IInv, World
<1> QED BY <1>1, Invariant, PTL

\* No notification is skipped as long as passes do not overlap and its repository is
\* allowed all the time, though threads change while their list is being paged through.
THEOREM NotificationsCorrect == Spec => []NotificationsKept
<1>1. IInv => NotificationsKept
  BY DEF IInv, World
<1> QED BY <1>1, Invariant, PTL
=============================================================================
